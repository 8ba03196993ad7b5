------------------------------- MODULE Monitor -------------------------------
(***************************************************************************)
(* The frames a channel has sent on the bus, shown to the PC: the device   *)
(* keeps them in a FIFO, send_data_tid_thread moves them to the channel's  *)
(* ring g_poll_buf_set, axican_data_process_thread_1 takes them in batches *)
(* and uploads each with the type that the channel's data mode calls for.  *)
(* The threads of all channels share the global can_data_type; composed    *)
(* with the configuration, which changes the data modes meanwhile.         *)
(***************************************************************************)
EXTENDS ChannelConfig

CONSTANTS
  RingSize,    \* capacity of a channel's ring
  BatchSize,   \* DEQUEUE_BATCH_SIZE
  MaxFrames    \* bound: frames a channel sends, per channel

ASSUME MonitorAssumption ==
  /\ RingSize \in Nat \ {0}
  /\ BatchSize \in Nat \ {0}
  /\ MaxFrames \in [Channels -> Nat]

VARIABLES
  fifo,      \* external: the frames in the device's FIFO, numbered as they were sent
  toRead,    \* frame_count - i of axican_read_data_t
  ring,      \* g_poll_buf_set
  upPc,      \* where axican_data_process_thread_1 is
  batch,     \* its dequeue_batch
  dataType,  \* can_data_type
  \* History:
  produced,  \* frames sent on the bus
  wanted,    \* the type the thread has chosen for its batch, or NoType
  shown      \* the last frame uploaded for a channel

monVars == <<fifo, toRead, ring, upPc, batch, dataType, produced, wanted, shown>>
allVars == <<cfgVars, monVars>>

NoType == 0

MonInit ==
  /\ CfgInit
  /\ fifo = [ch \in Channels |-> <<>>]
  /\ toRead = [ch \in Channels |-> 0]
  /\ ring = [ch \in Channels |-> <<>>]
  /\ upPc = [ch \in Channels |-> "fetch"]
  /\ batch = [ch \in Channels |-> <<>>]
  /\ dataType = NoType
  /\ produced = [ch \in Channels |-> 0]
  /\ wanted = [ch \in Channels |-> NoType]
  /\ shown = [ch \in Channels |-> [frame |-> 0, type |-> NoType, wanted |-> NoType]]

-----------------------------------------------------------------------------
(* The device and send_data_tid_thread.                                    *)

DeviceSends(ch) ==
  /\ produced[ch] < MaxFrames[ch]
  /\ produced' = [produced EXCEPT ![ch] = @ + 1]
  /\ fifo' = [fifo EXCEPT ![ch] = Append(@, produced[ch] + 1)]
  /\ UNCHANGED <<cfgVars, toRead, ring, upPc, batch, dataType, wanted, shown>>

\* axican_poll2 and axican_get_frame_count
CountFrames(ch) ==
  /\ toRead[ch] = 0 /\ fifo[ch] # <<>>
  /\ toRead' = [toRead EXCEPT ![ch] = Len(fifo[ch])]
  /\ UNCHANGED <<cfgVars, fifo, ring, upPc, batch, dataType, produced, wanted, shown>>

\* One round of axican_read_data_t: a full ring drops the frame, a failed read ends the loop.
ReadFrame(ch, ok) ==
  /\ toRead[ch] > 0
  /\ \/ /\ ok
        /\ fifo' = [fifo EXCEPT ![ch] = Tail(@)]
        /\ ring' = [ring EXCEPT ![ch] = IF Len(@) < RingSize THEN Append(@, Head(fifo[ch]))
                                                              ELSE @]
        /\ toRead' = [toRead EXCEPT ![ch] = @ - 1]
     \/ /\ ~ok
        /\ toRead' = [toRead EXCEPT ![ch] = 0]
        /\ UNCHANGED <<fifo, ring>>
  /\ UNCHANGED <<cfgVars, upPc, batch, dataType, produced, wanted, shown>>

-----------------------------------------------------------------------------
(* axican_data_process_thread_1                                            *)

\* Fault: the frames of a batch stay in the ring until they are uploaded.
FetchWithoutRemoval(ch) ==
  LET n == IF Len(ring[ch]) < BatchSize THEN Len(ring[ch]) ELSE BatchSize IN
  /\ upPc[ch] = "fetch"
  /\ batch' = [batch EXCEPT ![ch] = SubSeq(ring[ch], 1, n)]
  /\ upPc' = [upPc EXCEPT ![ch] = "tag"]
  /\ UNCHANGED <<cfgVars, fifo, toRead, ring, dataType, produced, wanted, shown>>

\* The length is read once; frames put into the ring during the copies stay for the next batch.
Fetch(ch) ==
  LET n == IF Len(ring[ch]) < BatchSize THEN Len(ring[ch]) ELSE BatchSize IN
  /\ upPc[ch] = "fetch"
  /\ batch' = [batch EXCEPT ![ch] = SubSeq(ring[ch], 1, n)]
  /\ ring' = [ring EXCEPT ![ch] = SubSeq(@, n + 1, Len(@))]
  /\ upPc' = [upPc EXCEPT ![ch] = "tag"]
  /\ UNCHANGED <<cfgVars, fifo, toRead, dataType, produced, wanted, shown>>

\* The types of the upload packets: 0x82, 0x80, or whatever can_data_type was
TypeFor(canType) ==
  CASE canType = ALONG_MODE  -> 130
    [] canType = NORMAL_MODE -> 128
    [] OTHER                 -> NoType

SetType(ch) ==
  LET t == TypeFor(conf[ch].canType) IN
  /\ upPc[ch] = "tag"
  /\ dataType' = IF t = NoType THEN dataType ELSE t
  /\ wanted' = [wanted EXCEPT ![ch] = IF batch[ch] = <<>> THEN NoType ELSE t]
  /\ upPc' = [upPc EXCEPT ![ch] = IF batch[ch] = <<>> THEN "fetch" ELSE "send"]
  /\ UNCHANGED <<cfgVars, fifo, toRead, ring, batch, produced, shown>>

\* send_can_transmit_response: without a client of port 9010, or when the send fails, the
\* frame is gone.
UploadFrame(ch, sent) ==
  /\ upPc[ch] = "send"
  /\ Upload(sent)
  /\ shown' = IF up /\ sent
              THEN [shown EXCEPT ![ch] =
                      [frame |-> Head(batch[ch]), type |-> dataType, wanted |-> wanted[ch]]]
              ELSE shown
  /\ batch' = [batch EXCEPT ![ch] = Tail(@)]
  /\ upPc' = [upPc EXCEPT ![ch] = IF Len(batch[ch]) = 1 THEN "fetch" ELSE "send"]
  /\ wanted' = [wanted EXCEPT ![ch] = IF Len(batch[ch]) = 1 THEN NoType ELSE @]
  /\ UNCHANGED <<conf, device, handlerVars, cfgGhosts, fifo, toRead, ring, dataType,
                 produced>>

Reporter(ch) ==
  \/ Fetch(ch)
  \/ SetType(ch)
  \/ \E sent \in BOOLEAN : UploadFrame(ch, sent)

MonNext ==
  \/ CfgNext /\ UNCHANGED monVars
  \/ \E ch \in Channels : DeviceSends(ch)
  \/ \E ch \in Channels : CountFrames(ch)
  \/ \E ch \in Channels, ok \in BOOLEAN : ReadFrame(ch, ok)
  \/ \E ch \in Channels : Reporter(ch)

MonSpec == MonInit /\ [][MonNext]_allVars

-----------------------------------------------------------------------------
(* What the monitor promises.                                              *)

Increasing(s) == \A i \in 1 .. Len(s) - 1 : s[i] < s[i + 1]

\* The PC sees the frames of a channel in the order they were sent and none twice, whatever
\* a full ring, a failed read, a failed send or a new client of port 9010 takes out
\* (axican_read_data_t, axican_data_process_thread_1).
MonitorInOrder ==
  \A ch \in Channels :
    Increasing(<<shown[ch].frame>> \o batch[ch] \o ring[ch] \o fifo[ch])

\* A frame is uploaded with the type of its own channel's data mode: 0x82 in ALONG_MODE,
\* 0x80 in NORMAL_MODE, as the comments of axican_data_process_thread_1 say.
TypeIsOwn ==
  \A ch \in Channels :
    shown[ch].wanted # NoType => shown[ch].type = shown[ch].wanted
=============================================================================

---------------------------- MODULE SimResponder ----------------------------
(***************************************************************************)
(* The device simulator of one CAN channel, along_data_tid_thread.  The PC *)
(* downloads a table of commands and answers; the thread loads it once,    *)
(* when the channel is configured for simulation; from then on it takes    *)
(* the frames received on the bus, recognises the first frame of a command *)
(* in its table, collects the frames that follow and answers on the bus.   *)
(* In normal mode axican_data_process_thread takes frames from the same    *)
(* ring and uploads them.  The module extends RingBuffer by the threads    *)
(* around the ring: the receive thread puts, both others get, in the steps *)
(* of ringbuffer_put and ringbuffer_get and without a lock.                *)
(***************************************************************************)
EXTENDS RingBuffer

CONSTANTS
  Keys,        \* what a frame is recognised by: identifier and first data word
  Lengths,     \* rcv_len of table entries, in frames of 8 bytes
  MinEntries,  \* 7: the table is loaded when the PC has sent that many entries
  MaxEntries,  \* 32: the table, and the ring it comes through
  MaxWait,     \* MAX_WAIT_FRAMES
  BatchSize,   \* DEQUEUE_BATCH_SIZE
  MaxFrames,   \* bound: frames received on the bus
  MaxMet       \* bound: gets begun since two of them met

Simulator == "simulator"  \* along_data_tid_thread
Reporter == "reporter"    \* axican_data_process_thread

Entry == [key : Keys, len : Lengths]
Frame == [id : Nat, key : Keys]

\* The ring holds frames, numbered as they came from the bus; a slot never written holds
\* a frame of zeros.
ASSUME SimAssumption ==
  /\ Lengths \subseteq Nat
  /\ MinEntries \in Nat \ {0} /\ MaxEntries \in Nat /\ MinEntries <= MaxEntries
  /\ MaxWait \in Nat \ {0, 1}
  /\ BatchSize \in Nat \ {0}
  /\ MaxFrames \in Nat /\ MaxMet \in Nat
  /\ Values = [id : 1 .. MaxFrames, key : Keys]
  /\ NoValue \in [id : {0}, key : Keys]
  /\ Consumers = {Simulator, Reporter}

VARIABLES
  mode,      \* can_configs[ch].can_type
  opened,    \* can_configs[ch].state = CAN_STATE_OPENED
  reading,   \* axican_data_recv_thread saw the channel open
  simRing,   \* g_simulator_buf_set.channels[ch]
  received,  \* frames received on the bus, numbered from 1
  \* The local variables of the two threads that get:
  want,      \* frames left to get for the batch
  batch,     \* dequeue_batch, without the frames already dealt with
  \* The simulator's own:
  table,     \* buffer_frames: empty until it is loaded
  cached,    \* wait_cmd_frames: not empty when is_waiting
  target,    \* target_wait_frames
  matched,   \* matched_sim_frame: an index of table, 0 for NULL
  \* History:
  answer,    \* the last answer: its entry, and the first frame of the command
  shown,     \* the frames each thread has uploaded
  skipped,   \* a frame was taken from the ring and never looked at
  met        \* gets begun since one began while the other thread was in the middle of one

channelVars == <<mode, opened, reading, simRing, received>>
waitVars == <<cached, target, matched>>
historyVars == <<answer, shown, skipped, met>>
threadVars == <<want, batch, table, waitVars, historyVars>>
simVars == <<vars, channelVars, threadVars>>

Smaller(a, b) == IF a < b THEN a ELSE b

NoAnswer == [entry |-> 0, key |-> 0]

SimInit ==
  /\ Init
  /\ mode = "init" /\ opened = FALSE /\ reading = FALSE
  /\ simRing = <<>>
  /\ received = 0
  /\ want = [t \in Consumers |-> 0]
  /\ batch = [t \in Consumers |-> <<>>]
  /\ table = <<>>
  /\ cached = <<>> /\ target = 0 /\ matched = 0
  /\ answer = NoAnswer
  /\ shown = [t \in Consumers |-> {}]
  /\ skipped = FALSE /\ met = 0

-----------------------------------------------------------------------------
(* Configuration, download and the receive thread.                         *)

\* handle_can_config sets can_type, handle_can_start_stop the state.
ChangeMode(m) ==
  /\ mode # m /\ mode' = m
  /\ UNCHANGED <<vars, opened, reading, simRing, received, threadVars>>

StartStop ==
  /\ opened' = ~opened
  /\ UNCHANGED <<vars, mode, reading, simRing, received, threadVars>>

\* Fault: an entry is put in a full ring.
EnqueueAnyway(e) ==
  /\ Len(simRing) <= MaxEntries
  /\ simRing' = Append(simRing, e)

\* An entry that finds the ring full is refused.
EnqueueEntry(e) ==
  /\ Len(simRing) < MaxEntries
  /\ simRing' = Append(simRing, e)

\* A simulator entry arrives on port 9012.  Once the table is loaded nobody takes
\* entries any more, so those that come later are left out.
DownloadEntry(e) ==
  /\ table = <<>>
  /\ EnqueueEntry(e)
  /\ UNCHANGED <<vars, mode, opened, reading, received, threadVars>>

\* axican_data_recv_thread looks at the state once per read of the device.
ReadDevice ==
  /\ putter = "idle" /\ received < MaxFrames
  /\ reading # opened
  /\ reading' = opened
  /\ UNCHANGED <<vars, mode, opened, simRing, received, threadVars>>

\* axican_read_data: a frame that finds the ring full is lost.
ReceiveFrame(k) ==
  /\ reading /\ putter = "idle"
  /\ received < MaxFrames
  /\ received' = received + 1
  /\ \/ PutCheck([id |-> received + 1, key |-> k])
     \/ Unused = 0 /\ UNCHANGED vars
  /\ UNCHANGED <<mode, opened, reading, simRing, threadVars>>

StoreFrame ==
  /\ PutCopy \/ PutPublish
  /\ UNCHANGED <<channelVars, threadVars>>

-----------------------------------------------------------------------------
(* Loading the table and reading a batch.                                  *)

Preload ==
  /\ table = <<>>
  /\ mode = "along" /\ Len(simRing) >= MinEntries
  /\ table' = simRing
  /\ simRing' = <<>>
  /\ UNCHANGED <<vars, mode, opened, reading, received, want, batch, waitVars, historyVars>>

\* The length of the ring is read once for a batch.
BeginBatch(t) ==
  /\ want[t] = 0 /\ batch[t] = <<>> /\ Used >= 1
  /\ want' = [want EXCEPT ![t] = Smaller(Used, BatchSize)]
  /\ UNCHANGED <<vars, channelVars, batch, table, waitVars, historyVars>>

\* The simulator never looks at the mode again.  It keeps the length in an int, so that
\* counters which have overtaken each other give a negative one and an empty batch.
SimulatorBatch ==
  /\ table # <<>>
  /\ Used < Modulus \div 2
  /\ BeginBatch(Simulator)

\* axican_data_process_thread looks at mode and state once for a batch.
ReporterBatch ==
  /\ mode = "normal" /\ opened
  /\ BeginBatch(Reporter)

\* ringbuffer_32ch_get, called by t: the check, the copy, the advance of out.
BeginGet(t) ==
  /\ want[t] > 0
  /\ GetCheck(t)
  /\ met' = IF met > 0 \/ (\E d \in Consumers \ {t} : getter[d] # "idle") THEN met + 1 ELSE 0
  /\ met' <= MaxMet
  /\ UNCHANGED <<channelVars, want, batch, table, waitVars, answer, shown, skipped>>

CopyFrame(t) ==
  /\ GetCopy(t)
  /\ UNCHANGED <<channelVars, threadVars>>

TakeFrame(t) ==
  /\ GetAdvance(t)
  /\ batch' = [batch EXCEPT ![t] = Append(@, buf[t])]
  /\ want' = [want EXCEPT ![t] = @ - 1]
  /\ UNCHANGED <<channelVars, table, waitVars, historyVars>>

\* A get that finds the ring empty, because the other thread was faster, ends the batch.
EndBatch(t) ==
  /\ want[t] > 0 /\ getter[t] = "idle" /\ Used = 0
  /\ want' = [want EXCEPT ![t] = 0]
  /\ UNCHANGED <<vars, channelVars, batch, table, waitVars, historyVars>>

\* The batch of t is read and has frames left.
HasBatch(t) == want[t] = 0 /\ batch[t] # <<>>

Ids(frames) == {frames[i].id : i \in 1 .. Len(frames)}

\* send_can_transmit_response or handle_normal_mode for each of the frames: whether a
\* client is there and the send succeeds is the business of the socket.
Upload(t, frames) == shown' = [shown EXCEPT ![t] = @ \cup Ids(frames)]

ReportFrame ==
  /\ HasBatch(Reporter)
  /\ Upload(Reporter, <<Head(batch[Reporter])>>)
  /\ batch' = [batch EXCEPT ![Reporter] = Tail(@)]
  /\ UNCHANGED <<vars, channelVars, want, table, waitVars, answer, skipped, met>>

-----------------------------------------------------------------------------
(* One round of the simulator's loop over its batch.                       *)

Current == Head(batch[Simulator])

\* After a frame of its own the loop goes on with the rest of the batch.
NextOfBatch ==
  /\ batch' = [batch EXCEPT ![Simulator] = Tail(@)]
  /\ UNCHANGED skipped

\* break: the loop is left and the rest of the batch with it.
LeaveBatch ==
  /\ batch' = [batch EXCEPT ![Simulator] = <<>>]
  /\ skipped' = (skipped \/ Tail(batch[Simulator]) # <<>>)

Matches(k) == {j \in 1 .. Len(table) : table[j].key = k}
FirstMatch(k) ==
  IF Matches(k) = {} THEN 0 ELSE CHOOSE j \in Matches(k) : \A l \in Matches(k) : j <= l

\* determine_response_frames
ResponseFrames(j) == table[j].len - 1

Waiting == cached # <<>>

\* process_and_send_response: a frame that cannot be written is reported and the next
\* is tried.
Respond(j, frames) == answer' = [entry |-> j, key |-> frames[1].key]

Unmatched ==
  /\ HasBatch(Simulator) /\ ~Waiting
  /\ FirstMatch(Current.key) = 0
  /\ NextOfBatch
  /\ target' = 0 /\ matched' = 0
  /\ UNCHANGED <<vars, channelVars, table, want, cached, answer, shown, met>>

RespondAtOnce ==
  LET j == FirstMatch(Current.key) IN
  /\ HasBatch(Simulator) /\ ~Waiting
  /\ j # 0 /\ ResponseFrames(j) = 0
  /\ Upload(Simulator, <<Current>>)
  /\ Respond(j, <<Current>>)
  /\ NextOfBatch
  /\ target' = 0 /\ matched' = j
  /\ UNCHANGED <<vars, channelVars, table, want, cached, met>>

\* Fault: the number of frames to wait for is not bounded.
AnyWait(n) == n > 0

CanWait(n) == n > 0 /\ n <= MaxWait

\* Fault: the matched entry is not remembered.
WaitUnmatched ==
  LET j == FirstMatch(Current.key) IN
  /\ HasBatch(Simulator) /\ ~Waiting
  /\ j # 0 /\ CanWait(ResponseFrames(j))
  /\ cached' = <<Current>>
  /\ target' = ResponseFrames(j)
  /\ NextOfBatch
  /\ UNCHANGED <<vars, channelVars, table, want, matched, answer, shown, met>>

StartWaiting ==
  LET j == FirstMatch(Current.key) IN
  /\ HasBatch(Simulator) /\ ~Waiting
  /\ j # 0 /\ CanWait(ResponseFrames(j))
  /\ cached' = <<Current>>
  /\ target' = ResponseFrames(j)
  /\ matched' = j
  /\ NextOfBatch
  /\ UNCHANGED <<vars, channelVars, table, want, answer, shown, met>>

IllegalLength ==
  LET j == FirstMatch(Current.key) IN
  /\ HasBatch(Simulator) /\ ~Waiting
  /\ j # 0 /\ ResponseFrames(j) # 0 /\ ~CanWait(ResponseFrames(j))
  /\ target' = ResponseFrames(j) /\ matched' = j
  /\ NextOfBatch
  /\ UNCHANGED <<vars, channelVars, table, want, cached, answer, shown, met>>

CacheFrame ==
  /\ HasBatch(Simulator) /\ Waiting
  /\ Len(cached) + 1 < target
  /\ cached' = Append(cached, Current)
  /\ LeaveBatch
  /\ UNCHANGED <<vars, channelVars, table, want, target, matched, answer, shown, met>>

\* Fault: the frames of the last command stay cached.
RespondAndKeep ==
  /\ HasBatch(Simulator) /\ Waiting
  /\ Len(cached) + 1 >= target
  /\ Respond(matched, Append(cached, Current))
  /\ Upload(Simulator, Append(cached, Current))
  /\ cached' = Append(cached, Current)
  /\ target' = 0 /\ matched' = 0
  /\ LeaveBatch
  /\ UNCHANGED <<vars, channelVars, table, want, met>>

RespondToGroup ==
  /\ HasBatch(Simulator) /\ Waiting
  /\ Len(cached) + 1 >= target
  /\ Respond(matched, Append(cached, Current))
  /\ Upload(Simulator, Append(cached, Current))
  /\ cached' = <<>>
  /\ target' = 0 /\ matched' = 0
  /\ LeaveBatch
  /\ UNCHANGED <<vars, channelVars, table, want, met>>

Get(t) == BeginGet(t) \/ CopyFrame(t) \/ TakeFrame(t) \/ EndBatch(t)

Responder ==
  \/ Unmatched \/ RespondAtOnce \/ StartWaiting \/ IllegalLength
  \/ CacheFrame \/ RespondToGroup

SimNext ==
  \/ \E m \in {"normal", "along"} : ChangeMode(m)
  \/ StartStop
  \/ \E e \in Entry : DownloadEntry(e)
  \/ ReadDevice
  \/ \E k \in Keys : ReceiveFrame(k)
  \/ StoreFrame
  \/ Preload
  \/ SimulatorBatch
  \/ ReporterBatch
  \/ \E t \in Consumers : Get(t)
  \/ ReportFrame
  \/ Responder

SimSpec == SimInit /\ [][SimNext]_simVars

-----------------------------------------------------------------------------

SimTypeOK ==
  /\ TypeOK
  /\ mode \in {"init", "normal", "along"} /\ opened \in BOOLEAN /\ reading \in BOOLEAN
  /\ simRing \in Seq(Entry) /\ Len(simRing) <= MaxEntries
  /\ received \in 0 .. MaxFrames
  /\ want \in [Consumers -> 0 .. BatchSize]
  /\ batch \in [Consumers -> Seq(Frame)]
  /\ table \in Seq(Entry)
  /\ cached \in Seq(Frame)
  /\ target \in Int /\ matched \in 0 .. Len(table)
  /\ answer \in [entry : 1 .. Len(table), key : Keys] \cup {NoAnswer}
  /\ shown \in [Consumers -> SUBSET Nat]
  /\ skipped \in BOOLEAN /\ met \in 0 .. MaxMet

\* The frames that wait fit wait_cmd_frames and the frames read fit each thread's
\* dequeue_batch, although the lengths come from the PC and the level of the ring is
\* read before the other thread takes from it (along_data_tid_thread,
\* axican_data_process_thread).
WaitInBounds ==
  /\ Len(cached) <= MaxWait
  /\ Waiting => Len(cached) < MaxWait
  /\ \A t \in Consumers : Len(batch[t]) + want[t] <= BatchSize

\* Every answer is that of the first entry which the first frame of the command matched,
\* although the entry is found batches before it is used and other commands may have
\* come between (matched_sim_frame).
AnswerMatches ==
  answer # NoAnswer => answer.entry # 0 /\ answer.entry = FirstMatch(answer.key)

\* What a thread has taken from the ring and not uploaded or passed over, and what it has
\* uploaded besides.
Hands(t) == IF t = Simulator THEN cached \o batch[t] ELSE batch[t]
Had(t) == shown[t] \cup Ids(Hands(t))

\* Two threads that take turns share the frames: as long as no get of one has met a get of
\* the other, each uploads its frames in the order of the bus, what it holds and what is
\* in the ring is younger than what it has uploaded, and no frame goes to both, whatever
\* the batches and the waiting command of one and the batches of the other interleave
\* with (along_data_tid_thread, axican_data_process_thread).  Nothing orders the frames of
\* one thread against those of the other, and nothing is said once two gets have met.
UploadInOrder ==
  met = 0 =>
    /\ \A t \in Consumers :
         LET pending == Hands(t) \o Stored IN
         /\ \A n \in shown[t], i \in 1 .. Len(pending) : n < pending[i].id
         /\ \A i, j \in 1 .. Len(pending) : i < j => pending[i].id < pending[j].id
    /\ Had(Simulator) \cap Had(Reporter) = {}

\* "等待状态下，无需进入匹配逻辑，直接处理下一个帧" (along_data_tid_thread): a frame that is
\* cached is followed by the next frame of the batch.  It is not: the loop is left by
\* break, and the rest of the batch is overwritten unread.
NextFrameIsProcessed == ~skipped
=============================================================================

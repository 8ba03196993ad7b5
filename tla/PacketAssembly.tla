--------------------------- MODULE PacketAssembly ---------------------------
(***************************************************************************)
(* The normal transmit path of one CAN channel: the PC sends messages of   *)
(* one or more frames, the download handler puts them in the channel's     *)
(* ring, axican_data_send_thread takes them out one at a time, collects    *)
(* the frames of a message in packet_buffers[ch] and writes them to the    *)
(* device when the message is complete.  Frames carry their number and the *)
(* message's frame count, and nothing that tells one message from another. *)
(*                                                                         *)
(* The thread works on a frame with packet_mutex held and on state of its  *)
(* own channel, so one round of its loop is one action.  What the ring     *)
(* promises is BoundedFifo's: frames come out once each and in order.      *)
(***************************************************************************)
EXTENDS Integers, Sequences

CONSTANTS
  Capacity,     \* of the channel's ring
  MaxPackets,   \* DEQUEUE_BATCH_SIZE_1
  Modulus,      \* packets_no and packets_sum are cut from 16 bits to 8: 2^8
  Timeout,      \* PACKET_TIMEOUT, in whole seconds of time(NULL)
  Totals,       \* the frame counts of the messages the PC sends
  MaxMessages,  \* bound: messages
  MaxTime       \* bound: seconds

ASSUME AssemblyAssumption ==
  /\ Capacity \in Nat \ {0}
  /\ MaxPackets \in Nat \ {0}
  /\ Modulus \in Nat /\ Modulus > MaxPackets
  /\ Timeout \in Nat
  /\ Totals \subseteq Nat \ {0}
  /\ MaxMessages \in Nat
  /\ MaxTime \in Nat

VARIABLES
  ring,      \* g_data_buf_set.channels[ch]
  pkt,       \* packet_buffers[ch]
  opened,    \* can_configs[ch].state = CAN_STATE_OPENED
  now,       \* time(NULL)
  msg,       \* the message the PC is sending: its number, size and next frame
  sent,      \* the frames the last round wrote to the device
  \* History:
  lost,      \* a frame found the ring full
  refused,   \* a first frame was refused for its frame count
  bursts     \* how often the frames of a message have been written

vars == <<ring, pkt, opened, now, msg, sent, lost, refused, bursts>>

Messages == 1 .. MaxMessages
Frame == [msg : Nat, no : Nat, sum : Nat]
\* A stored frame, and when it was stored (history)
Stored == [frame : Frame, at : Nat]

\* memset(pkt_buf, 0, sizeof(PacketBuffer))
EmptyBuffer == [active |-> FALSE, total |-> 0, received |-> 0, last |-> 0, frames |-> <<>>]

Init ==
  /\ ring = <<>>
  /\ pkt = EmptyBuffer
  /\ opened = FALSE
  /\ now = 0
  /\ msg = [id |-> 0, sum |-> 0, next |-> 0]
  /\ sent = <<>>
  /\ lost = FALSE
  /\ refused = FALSE
  /\ bursts = [m \in Messages |-> 0]

-----------------------------------------------------------------------------
(* The PC and the download handler.                                        *)

\* The PC starts a message, whether or not it has finished the last.
StartMessage(n) ==
  /\ msg.id < MaxMessages
  /\ msg' = [id |-> msg.id + 1, sum |-> n, next |-> 0]
  /\ UNCHANGED <<ring, pkt, opened, now, sent, lost, refused, bursts>>

\* Fault: a full ring is written all the same.
SendFrameAnyway ==
  /\ msg.next < msg.sum
  /\ msg' = [msg EXCEPT !.next = @ + 1]
  /\ ring' = Append(ring, [msg |-> msg.id, no |-> msg.next, sum |-> msg.sum])
  /\ UNCHANGED <<pkt, opened, now, sent, lost, refused, bursts>>

\* enqueue_normal_can_payload: a full ring refuses the frame, and the PC is not told which.
SendFrame ==
  /\ msg.next < msg.sum
  /\ msg' = [msg EXCEPT !.next = @ + 1]
  /\ \/ /\ Len(ring) < Capacity
        /\ ring' = Append(ring, [msg |-> msg.id, no |-> msg.next, sum |-> msg.sum])
        /\ UNCHANGED lost
     \/ /\ Len(ring) = Capacity
        /\ lost' = TRUE
        /\ UNCHANGED ring
  /\ UNCHANGED <<pkt, opened, now, sent, refused, bursts>>

-----------------------------------------------------------------------------
(* axican_data_send_thread: one action per way through a round of its loop.*)

Sequence == Head(ring).no % Modulus
TotalPackets == Head(ring).sum % Modulus

\* Fault: a group that waits too long is not given up.
NeverExpired == pkt

\* The buffer after the timeout check
Unexpired == IF pkt.active /\ now - pkt.last > Timeout THEN EmptyBuffer ELSE pkt

Write(frames) ==
  /\ sent' = frames
  /\ bursts' = [m \in Messages |->
       bursts[m] + (IF Len(frames) > 0 /\ frames[1].frame.msg = m THEN 1 ELSE 0)]

\* Fault: the frame is read and stays in the ring (ringbuffer_out_peek).
PeekFrame ==
  /\ opened /\ ring # <<>>
  /\ UNCHANGED <<ring, opened, now, msg, lost>>

\* The channel is open and its ring is not empty.  A frame's sync word and channel were
\* checked before it was put there.
TakeFrame ==
  /\ opened /\ ring # <<>>
  /\ ring' = Tail(ring)
  /\ UNCHANGED <<opened, now, msg, lost>>

SendSingle ==
  /\ TakeFrame
  /\ TotalPackets = 1
  /\ Write(<<[frame |-> Head(ring), at |-> now]>>)
  /\ UNCHANGED <<pkt, refused>>

\* Fault: a first frame is taken whatever its frame count.
AnyTotal == TRUE

ValidTotal == TotalPackets \in 1 .. MaxPackets

\* The buffer once a first frame has opened its group
Opened ==
  IF Sequence = 0
  THEN [EmptyBuffer EXCEPT !.active = TRUE, !.total = TotalPackets]
  ELSE Unexpired

\* The checks of a frame of a longer message, in their order: Refuse, then OutOfPlace,
\* then Gap; what passes them all Fits.
Refuse == Sequence = 0 /\ ~ValidTotal
OutOfPlace == ~Opened.active \/ Sequence >= Opened.total
Gap == Sequence # Opened.received

Discard ==
  /\ TakeFrame
  /\ TotalPackets # 1
  /\ Write(<<>>)
  /\ refused' = (refused \/ Refuse)
  /\ \/ Refuse /\ pkt' = Unexpired
     \/ ~Refuse /\ OutOfPlace /\ pkt' = Opened
     \/ ~Refuse /\ ~OutOfPlace /\ Gap /\ pkt' = EmptyBuffer

\* Fault: a frame that came too early or twice is stored all the same.
FitsAnyway == ~Refuse /\ ~OutOfPlace

Fits == ~Refuse /\ ~OutOfPlace /\ ~Gap

WithFrame ==
  [Opened EXCEPT !.frames = Append(@, [frame |-> Head(ring), at |-> now]),
                 !.received = @ + 1,
                 !.last = now]

StoreFrame ==
  /\ TakeFrame
  /\ TotalPackets # 1
  /\ Fits
  /\ WithFrame.received < WithFrame.total
  /\ pkt' = WithFrame
  /\ Write(<<>>)
  /\ UNCHANGED refused

\* Fault: the group is taken for complete one frame early.
CompleteEarly ==
  /\ TakeFrame
  /\ TotalPackets # 1
  /\ Fits
  /\ WithFrame.received + 1 >= WithFrame.total
  /\ pkt' = EmptyBuffer
  /\ Write(WithFrame.frames)
  /\ UNCHANGED refused

\* send_single_frame for every frame of the group; one that fails is reported and the
\* next is tried
CompleteGroup ==
  /\ TakeFrame
  /\ TotalPackets # 1
  /\ Fits
  /\ WithFrame.received = WithFrame.total
  /\ pkt' = EmptyBuffer
  /\ Write(WithFrame.frames)
  /\ UNCHANGED refused

-----------------------------------------------------------------------------

\* handle_can_start_stop
StartStop ==
  /\ opened' = ~opened
  /\ UNCHANGED <<ring, pkt, now, msg, sent, lost, refused, bursts>>

Tick ==
  /\ now < MaxTime
  /\ now' = now + 1
  /\ UNCHANGED <<ring, pkt, opened, msg, sent, lost, refused, bursts>>

Next ==
  \/ \E n \in Totals : StartMessage(n)
  \/ SendFrame
  \/ SendSingle
  \/ Discard
  \/ StoreFrame
  \/ CompleteGroup
  \/ StartStop
  \/ Tick

Spec == Init /\ [][Next]_vars

-----------------------------------------------------------------------------

TypeOK ==
  /\ ring \in Seq(Frame) /\ Len(ring) <= Capacity
  /\ pkt \in [active : BOOLEAN, total : Nat, received : Nat, last : Nat, frames : Seq(Stored)]
  /\ opened \in BOOLEAN
  /\ now \in Nat
  /\ msg \in [id : Nat, sum : Nat, next : Nat]
  /\ sent \in Seq(Stored)
  /\ lost \in BOOLEAN
  /\ refused \in BOOLEAN
  /\ bursts \in [Messages -> Nat]

\* The group being collected stays inside frames[DEQUEUE_BATCH_SIZE_1], holds exactly the
\* frames counted, in place, and never sits complete and unsent, whatever 16-bit numbers
\* the frames carry (the stores at the end of the loop of axican_data_send_thread).
BufferInBounds ==
  /\ pkt.active => pkt.received < pkt.total /\ pkt.total <= MaxPackets
  /\ ~pkt.active => pkt = EmptyBuffer
  /\ pkt.received = Len(pkt.frames)
  /\ \A i \in 1 .. Len(pkt.frames) : pkt.frames[i].frame.no % Modulus = i - 1

\* What is written is always a full run of frames, numbered from 0 to the count of the
\* first, even after losses ("不连续则丢弃，连续则发送", the comment on PacketBuffer).
FullRuns ==
  Len(sent) > 0 /\ sent[1].frame.sum % Modulus # 1 =>
    /\ Len(sent) = sent[1].frame.sum % Modulus
    /\ \A i \in 1 .. Len(sent) : sent[i].frame.no % Modulus = i - 1

OneMessage ==
  Len(sent) > 0 /\ sent[1].frame.sum < Modulus =>
    /\ Len(sent) = sent[1].frame.sum
    /\ \A i \in 1 .. Len(sent) : sent[i].frame.msg = sent[1].frame.msg

\* As long as no frame has been lost or refused, what is written is the whole of one
\* message, although nothing in a frame names its message: the first frame of the next
\* message starts over.  (Messages of Modulus frames and more are outside the protocol.)
WholeMessages == ~lost /\ ~refused => OneMessage

\* "用于分包校验是否连续，如果不连续则丢弃，连续则发送" (the comment on PacketBuffer): as long
\* as no frame is lost, frames that do not follow each other are not sent together.  It
\* does not hold: a first frame that is refused for its count leaves the group before it
\* active, and the second frame of the refused message carries that group on.
OnlyContinuousSent == ~lost => OneMessage

\* No frame is joined to one that was stored more than the timeout before it.
NoStaleJoin ==
  \A i \in 1 .. Len(sent) - 1 : sent[i + 1].at - sent[i].at <= Timeout

\* No message is written twice.
WrittenOnce ==
  \A m \in Messages :
    Len(sent) > 0 /\ sent[1].frame.msg = m /\ sent[1].frame.sum < Modulus => bursts[m] <= 1
=============================================================================

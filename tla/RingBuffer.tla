----------------------------- MODULE RingBuffer -----------------------------
(***************************************************************************)
(* One channel of ringbuffer_channels.c: a ring of Capacity elements with  *)
(* free-running 32-bit counters, filled by one thread and emptied by       *)
(* others without a lock.  A put or a get is a check, a copy and a counter *)
(* update, and the steps of the two sides interleave.                      *)
(***************************************************************************)
EXTENDS Integers, Sequences

CONSTANTS
  Capacity,   \* mask + 1
  Modulus,    \* the counters are taken modulo 2^32
  Values,
  NoValue,    \* what a slot holds before it is first written
  Consumers   \* the threads that call ringbuffer_get

ASSUME RingAssumption ==
  /\ Capacity \in Nat \ {0}
  /\ Modulus \in Nat
  /\ Modulus > Capacity
  /\ Modulus % Capacity = 0
  /\ NoValue \notin Values

VARIABLES
  slots,      \* rb->data
  in,         \* rb->in
  out,        \* rb->out
  putter,     \* where the producer is in ringbuffer_put
  item,       \* the element being put
  getter,     \* where each consumer is in ringbuffer_get
  buf,        \* the buffer each consumer copies the element to
  delivered   \* history: the element the last completed get returned

vars == <<slots, in, out, putter, item, getter, buf, delivered>>
putVars == <<putter, item>>
getVars == <<getter, buf>>

Slot(x) == x % Capacity

\* Fault: the counters wrap at another value than the slots do.
UsedNoWrap == in - out

\* rb->in - rb->out, in 32-bit arithmetic
Used == IF in >= out THEN in - out ELSE in - out + Modulus

\* Fault: off by one in the space check.
UnusedOffByOne == (Capacity - Used) + 1

\* ringbuffer_unused, in 32-bit arithmetic
Unused == IF Used <= Capacity THEN Capacity - Used ELSE (Capacity - Used) + Modulus

\* Fault: the counter goes on past its width.
IncrementNoWrap(x) == x + 1

Increment(x) == IF x = Modulus - 1 THEN 0 ELSE x + 1

Init ==
  /\ slots = [i \in 0 .. Capacity - 1 |-> NoValue]
  /\ in = 0
  /\ out = 0
  /\ putter = "idle"
  /\ item = NoValue
  /\ getter = [c \in Consumers |-> "idle"]
  /\ buf = [c \in Consumers |-> NoValue]
  /\ delivered = NoValue

-----------------------------------------------------------------------------
(* ringbuffer_put: a full ring refuses the element and nothing changes.    *)

PutCheck(v) ==
  /\ putter = "idle"
  /\ Unused >= 1
  /\ putter' = "copy"
  /\ item' = v
  /\ UNCHANGED <<slots, in, out, getVars, delivered>>

\* Fault: in is advanced before the element is in place.
PublishBeforeCopy ==
  /\ putter = "copy"
  /\ in' = Increment(in)
  /\ putter' = "idle"
  /\ item' = NoValue
  /\ UNCHANGED <<slots, out, getVars, delivered>>

\* ringbuffer_copy_in; the barrier at its end keeps the copy before the update of in
PutCopy ==
  /\ putter = "copy"
  /\ slots' = [slots EXCEPT ![Slot(in)] = item]
  /\ putter' = "publish"
  /\ UNCHANGED <<in, out, item, getVars, delivered>>

PutPublish ==
  /\ putter = "publish"
  /\ in' = Increment(in)
  /\ putter' = "idle"
  /\ item' = NoValue
  /\ UNCHANGED <<slots, out, getVars, delivered>>

-----------------------------------------------------------------------------
(* ringbuffer_get: an empty ring returns 0 and nothing changes.            *)

GetCheck(c) ==
  /\ getter[c] = "idle"
  /\ Used >= 1
  /\ getter' = [getter EXCEPT ![c] = "copy"]
  /\ UNCHANGED <<slots, in, out, putVars, buf, delivered>>

\* ringbuffer_copy_out; the barrier at its end keeps the copy before the update of out
GetCopy(c) ==
  /\ getter[c] = "copy"
  /\ buf' = [buf EXCEPT ![c] = slots[Slot(out)]]
  /\ getter' = [getter EXCEPT ![c] = "advance"]
  /\ UNCHANGED <<slots, in, out, putVars, delivered>>

GetAdvance(c) ==
  /\ getter[c] = "advance"
  /\ out' = Increment(out)
  /\ delivered' = buf[c]
  /\ buf' = [buf EXCEPT ![c] = NoValue]
  /\ getter' = [getter EXCEPT ![c] = "idle"]
  /\ UNCHANGED <<slots, in, putVars>>

-----------------------------------------------------------------------------

\* ringbuffer_reset: its only caller holds bcast_state_mutex, as does every put and get on
\* the rings that it resets, so none is in progress.
Reset ==
  /\ putter = "idle"
  /\ \A c \in Consumers : getter[c] = "idle"
  /\ in' = 0
  /\ out' = 0
  /\ UNCHANGED <<slots, putVars, getVars, delivered>>

Producer ==
  \/ \E v \in Values : PutCheck(v)
  \/ PutCopy
  \/ PutPublish

Consumer(c) ==
  \/ GetCheck(c)
  \/ GetCopy(c)
  \/ GetAdvance(c)

Next ==
  \/ Producer
  \/ \E c \in Consumers : Consumer(c)
  \/ Reset

Spec == Init /\ [][Next]_vars

-----------------------------------------------------------------------------

TypeOK ==
  /\ slots \in [0 .. Capacity - 1 -> Values \cup {NoValue}]
  /\ in \in 0 .. Modulus - 1
  /\ out \in 0 .. Modulus - 1
  /\ putter \in {"idle", "copy", "publish"}
  /\ item \in Values \cup {NoValue}
  /\ getter \in [Consumers -> {"idle", "copy", "advance"}]
  /\ buf \in [Consumers -> Values \cup {NoValue}]
  /\ delivered \in Values \cup {NoValue}

\* The counters never drift apart by more than the ring holds, across the wrap of either
\* (ringbuffer_unused, ringbuffer_len).
CountersAgree == Used \in 0 .. Capacity

\* The producer never writes the slot that a consumer is reading, although neither takes
\* a lock (ringbuffer_copy_in against ringbuffer_copy_out).
NoSlotRace ==
  \A c \in Consumers :
    putter = "copy" /\ getter[c] = "copy" => Slot(in) # Slot(out)

\* The ring implements a bounded queue: an element is stored when in moves past it and
\* delivered when out does.
Stored == [i \in 1 .. Used |-> slots[Slot(out + i - 1)]]

Fifo == INSTANCE BoundedFifo WITH q <- Stored

\* Elements come out once each, in order and whole (ringbuffer_put, ringbuffer_get).
ImplementsFifo == Fifo!Spec
=============================================================================

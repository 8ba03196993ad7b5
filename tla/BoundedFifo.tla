----------------------------- MODULE BoundedFifo -----------------------------
(* What a ring buffer promises its producer and its consumer: a queue of at   *)
(* most Capacity elements, delivered once each and in order.                  *)
EXTENDS Integers, Sequences

CONSTANTS Capacity, Values, NoValue

VARIABLES
  q,         \* the elements stored
  delivered  \* the element the last get returned

vars == <<q, delivered>>

Init == q = <<>> /\ delivered = NoValue

Put(v) ==
  /\ Len(q) < Capacity
  /\ q' = Append(q, v)
  /\ UNCHANGED delivered

Get ==
  /\ q # <<>>
  /\ delivered' = Head(q)
  /\ q' = Tail(q)

Clear ==
  /\ q' = <<>>
  /\ UNCHANGED delivered

Next == (\E v \in Values : Put(v)) \/ Get \/ Clear

Spec == Init /\ [][Next]_vars
=============================================================================

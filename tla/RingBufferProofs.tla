-------------------------- MODULE RingBufferProofs --------------------------
(***************************************************************************)
(* The ring buffer implements a bounded queue, for every capacity, every   *)
(* width of the counters that the capacity divides, and every interleaving *)
(* of the producer and one consumer.                                       *)
(***************************************************************************)
EXTENDS RingBuffer, TLAPS

\* One thread takes elements out of a ring at a time.  With two the counters drift apart:
\* that is what the run with two consumers shows.
OneConsumer == \A c, d \in Consumers : c = d

\* No two gets are in progress at once: always so with one consumer, and with several as
\* long as they take turns.
Alone == \A c, d \in Consumers : getter[c] # "idle" /\ getter[d] # "idle" => c = d

\* A single consumer is alone.
LEMMA OneIsAlone == OneConsumer => Alone
BY DEF OneConsumer, Alone

\* Between its check and its update a put keeps its free slot and a get its element.
PutInv ==
  /\ putter # "idle" => Used < Capacity /\ item \in Values
  /\ putter = "publish" => slots[Slot(in)] = item

GetInv ==
  \A c \in Consumers :
    /\ getter[c] # "idle" => Used >= 1
    /\ getter[c] = "advance" => buf[c] = slots[Slot(out)]

IInv == TypeOK /\ CountersAgree /\ PutInv /\ GetInv

-----------------------------------------------------------------------------
(* Where the counters point.                                               *)

\* Division with remainder.
LEMMA Division ==
  ASSUME NEW d \in Nat \ {0}, NEW x \in Nat
  PROVE  /\ x % d \in 0 .. d - 1
         /\ \E q \in Nat : x = d * q + (x % d)
<1>1. x % d \in 0 .. d - 1 /\ x \div d \in Nat /\ x = d * (x \div d) + (x % d)
  OBVIOUS
<1>. QED
  BY <1>1

\* A remainder is known by its range.
LEMMA RemainderUnique ==
  ASSUME NEW d \in Nat \ {0}, NEW x \in Nat, NEW q \in Nat, NEW r \in 0 .. d - 1, x = d * q + r
  PROVE  x % d = r
<1>1. PICK p \in Nat : x = d * p + (x % d)
  BY Division
<1>2. x % d \in 0 .. d - 1
  BY Division
<1>3. PICK s \in 0 .. d - 1 : s = x % d
  BY <1>2
<1>4. d * p + s = d * q + r
  BY <1>1, <1>3
<1>5. s = r
  BY <1>4
<1>. QED
  BY <1>3, <1>5

\* A counter points into the ring.
LEMMA SlotType ==
  ASSUME NEW x \in Nat
  PROVE  Slot(x) \in 0 .. Capacity - 1
BY Division, RingAssumption DEF Slot

\* Counters less than Capacity apart point to different slots.
LEMMA SlotsDiffer ==
  ASSUME NEW x \in Nat, NEW y \in Nat, x < y, y - x < Capacity
  PROVE  Slot(x) # Slot(y)
<1>1. SUFFICES ASSUME Slot(x) = Slot(y) PROVE FALSE
  OBVIOUS
<1>2. Capacity \in Nat \ {0}
  BY RingAssumption
<1>3. PICK r \in 0 .. Capacity - 1 : r = x % Capacity /\ r = y % Capacity
  BY <1>1, <1>2, Division DEF Slot
<1>4. PICK p \in Nat : x = Capacity * p + r
  BY <1>2, <1>3, Division
<1>5. PICK q \in Nat : y = Capacity * q + r
  BY <1>2, <1>3, Division
<1>6. 0 < Capacity * (q - p) /\ Capacity * (q - p) < Capacity
  BY <1>2, <1>4, <1>5
<1>7. q - p >= 1
  BY <1>2, <1>6
<1>. QED
  BY <1>2, <1>6, <1>7

\* The wrap of a counter does not move its slot.
LEMMA SlotWrap ==
  ASSUME NEW x \in Nat
  PROVE  Slot(x + Modulus) = Slot(x)
<1>1. Capacity \in Nat \ {0} /\ Modulus \in Nat /\ Modulus % Capacity = 0
  BY RingAssumption
<1>2. PICK p \in Nat : Modulus = Capacity * p + (Modulus % Capacity)
  BY <1>1, Division
<1>3. PICK r \in 0 .. Capacity - 1 : r = x % Capacity
  BY <1>1, Division
<1>4. PICK q \in Nat : x = Capacity * q + r
  BY <1>1, <1>3, Division
<1>5. PICK k \in Nat : k = p + q
  OBVIOUS
<1>6. PICK y \in Nat : y = x + Modulus
  BY <1>1
<1>7. y = Capacity * k + r
  <2>1. Modulus = Capacity * p
    BY <1>1, <1>2
  <2>. QED
    BY <1>1, <2>1, <1>4, <1>5, <1>6
<1>8. y % Capacity = r
  BY <1>1, <1>7, RemainderUnique
<1>. QED
  BY <1>3, <1>6, <1>8 DEF Slot

\* The producer's slot is Used past the consumer's, whichever counter has wrapped.
LEMMA InSlot ==
  ASSUME TypeOK
  PROVE  Used \in Int /\ Slot(in) = Slot(out + Used)
<1>1. in \in Nat /\ out \in Nat /\ Modulus \in Nat
  BY RingAssumption DEF TypeOK
<1>2. CASE in >= out
  BY <1>1, <1>2 DEF Used
<1>3. CASE ~(in >= out)
  <2>1. Used = in - out + Modulus
    BY <1>3 DEF Used
  <2>2. out + Used = in + Modulus /\ Used \in Int
    BY <1>1, <2>1
  <2>. QED
    BY <1>1, <2>2, SlotWrap
<1>. QED
  BY <1>2, <1>3

\* A step of out moves its slot by one, and the slots that follow keep their distance.
LEMMA IncrementSlot ==
  ASSUME NEW x \in 0 .. Modulus - 1, NEW i \in Nat
  PROVE  Slot(Increment(x) + i) = Slot(x + 1 + i)
<1>1. Modulus \in Nat /\ x \in Nat
  BY RingAssumption
<1>2. CASE x = Modulus - 1
  <2>1. Increment(x) + i = i /\ x + 1 + i = i + Modulus
    BY <1>1, <1>2 DEF Increment
  <2>. QED
    BY <2>1, SlotWrap
<1>3. CASE x # Modulus - 1
  BY <1>1, <1>3 DEF Increment
<1>. QED
  BY <1>2, <1>3

\* A put in progress writes a slot that holds no stored element.
LEMMA FreeSlot ==
  ASSUME TypeOK, CountersAgree, Used < Capacity, NEW i \in 1 .. Used
  PROVE  Slot(out + i - 1) # Slot(in)
<1>1. out \in Nat /\ Capacity \in Nat
  BY RingAssumption DEF TypeOK
<1>2. Used \in Nat /\ Slot(in) = Slot(out + Used)
  BY InSlot, <1>1 DEF CountersAgree
<1> DEFINE x == out + i - 1
           y == out + Used
<1>3. x \in Nat /\ y \in Nat /\ x < y /\ y - x < Capacity
  BY <1>1, <1>2
<1> HIDE DEF x, y
<1>4. Slot(x) # Slot(y)
  BY <1>3, SlotsDiffer
<1>. QED
  BY <1>2, <1>4 DEF x, y

-----------------------------------------------------------------------------
(* The types, for any number of consumers.                                 *)

\* The counters are natural numbers of their width.
LEMMA CounterTypes ==
  ASSUME TypeOK
  PROVE  /\ in \in Nat /\ out \in Nat /\ Modulus \in Nat \ {0}
         /\ Increment(in) \in 0 .. Modulus - 1
         /\ Increment(out) \in 0 .. Modulus - 1
BY RingAssumption DEF TypeOK, Increment

\* Every step of the producer, of a consumer and of the reset keeps the types.
LEMMA StepTypeOK == TypeOK /\ [Next]_vars => TypeOK'
<1> SUFFICES ASSUME TypeOK, [Next]_vars PROVE TypeOK'
  OBVIOUS
<1>0. /\ Slot(in) \in 0 .. Capacity - 1
      /\ Slot(out) \in 0 .. Capacity - 1
      /\ 0 \in 0 .. Modulus - 1
      /\ Increment(in) \in 0 .. Modulus - 1
      /\ Increment(out) \in 0 .. Modulus - 1
  BY CounterTypes, SlotType
<1> USE DEF TypeOK
<1>1. CASE Producer
  BY <1>0, <1>1 DEF Producer, PutCheck, PutCopy, PutPublish, getVars
<1>2. ASSUME NEW c \in Consumers, Consumer(c) PROVE TypeOK'
  BY <1>0, <1>2 DEF Consumer, GetCheck, GetCopy, GetAdvance, putVars
<1>3. CASE Reset
  BY <1>0, <1>3 DEF Reset, putVars, getVars
<1>4. CASE UNCHANGED vars
  BY <1>4 DEF vars
<1>. QED
  BY <1>1, <1>2, <1>3, <1>4 DEF Next

\* The ring starts well typed.
LEMMA InitTypeOK == Init => TypeOK
BY RingAssumption DEF Init, TypeOK

\* The counters keep their 32 bits, the slots and the buffers hold elements or nothing
\* (ringbuffer_put, ringbuffer_get, ringbuffer_reset), for any number of consumers.
THEOREM RingTypes == Spec => []TypeOK
BY InitTypeOK, StepTypeOK, PTL DEF Spec

-----------------------------------------------------------------------------
(* One consumer.                                                           *)

\* The level after a put, after a get and after a reset.
LEMMA UsedSteps ==
  ASSUME TypeOK, CountersAgree
  PROVE  /\ in' = Increment(in) /\ out' = out /\ Used < Capacity => Used' = Used + 1
         /\ in' = in /\ out' = Increment(out) /\ Used >= 1 => Used' = Used - 1
         /\ in' = in /\ out' = out => Used' = Used
         /\ in' = 0 /\ out' = 0 => Used' = 0
<1>1. /\ in \in 0 .. Modulus - 1 /\ out \in 0 .. Modulus - 1
      /\ Modulus \in Nat /\ Capacity \in Nat /\ Modulus > Capacity
      /\ Used \in 0 .. Capacity
  BY RingAssumption DEF TypeOK, CountersAgree
<1>. QED
  BY <1>1 DEF Used, Increment

\* Every step from a state with one get at most keeps it and the put in progress apart.
LEMMA StepIInv ==
  ASSUME Alone, IInv, [Next]_vars
  PROVE  IInv'
<1>0. /\ TypeOK /\ TypeOK' /\ CountersAgree
      /\ Used \in Nat /\ Capacity \in Nat /\ Used <= Capacity
  BY StepTypeOK, RingAssumption DEF IInv, CountersAgree
<1>1. ASSUME NEW v \in Values, PutCheck(v) PROVE IInv'
  <2>1. Used' = Used /\ Used < Capacity
    BY <1>0, <1>1, UsedSteps DEF PutCheck, Unused
  <2>. QED
    BY <1>0, <1>1, <2>1 DEF IInv, PutCheck, CountersAgree, PutInv, GetInv, getVars
<1>2. CASE PutCopy
  <2>1. Used' = Used /\ Used < Capacity /\ UNCHANGED <<in, out, item, getter, buf>>
    BY <1>0, <1>2, UsedSteps DEF PutCopy, IInv, PutInv, getVars
  <2>2. /\ slots' = [slots EXCEPT ![Slot(in)] = item]
        /\ slots \in [0 .. Capacity - 1 -> Values \cup {NoValue}]
        /\ Slot(in) \in 0 .. Capacity - 1 /\ Slot(out) \in 0 .. Capacity - 1
    BY <1>0, <1>2, CounterTypes, SlotType DEF PutCopy, TypeOK
  <2>3. PutInv'
    <3>1. item \in Values /\ putter' = "publish"
      BY <1>2 DEF PutCopy, IInv, PutInv
    <3>2. Slot(in)' = Slot(in)
      BY <2>1 DEF Slot
    <3>3. slots'[Slot(in)] = item
      BY <2>2
    <3>. QED
      BY <2>1, <3>1, <3>2, <3>3 DEF PutInv
  <2>4. ASSUME NEW c \in Consumers, getter[c] = "advance"
        PROVE  slots'[Slot(out)] = slots[Slot(out)]
    <3>1. Used >= 1
      BY <2>4 DEF IInv, GetInv
    <3>2. Slot(out + 1 - 1) # Slot(in)
      BY <1>0, <2>1, <3>1, FreeSlot
    <3>3. out + 1 - 1 = out
      BY <1>0, CounterTypes
    <3>. QED
      BY <2>2, <3>2, <3>3
  <2>5. GetInv'
    <3>1. Slot(out)' = Slot(out)
      BY <2>1 DEF Slot
    <3>. QED
      BY <2>1, <2>4, <3>1 DEF IInv, GetInv
  <2>. QED
    BY <1>0, <2>1, <2>3, <2>5 DEF IInv, CountersAgree
<1>3. CASE PutPublish
  <2>1. Used' = Used + 1 /\ Used < Capacity
    BY <1>0, <1>3, UsedSteps DEF PutPublish, IInv, PutInv
  <2>2. /\ putter' = "idle" /\ UNCHANGED <<slots, out, getter, buf>>
        /\ Slot(out)' = Slot(out)
    BY <1>3 DEF PutPublish, getVars, Slot
  <2>3. PutInv' /\ GetInv'
    BY <1>0, <2>1, <2>2 DEF IInv, PutInv, GetInv
  <2>. QED
    BY <1>0, <2>1, <2>3 DEF IInv, CountersAgree
<1>4. ASSUME NEW c \in Consumers, GetCheck(c) PROVE IInv'
  <2>1. Used' = Used /\ Used >= 1
    BY <1>0, <1>4, UsedSteps DEF GetCheck
  <2>2. UNCHANGED <<slots, putter, item, buf>> /\ Slot(in)' = Slot(in) /\ Slot(out)' = Slot(out)
    BY <1>4 DEF GetCheck, putVars, Slot
  <2>3. PutInv'
    BY <2>1, <2>2 DEF IInv, PutInv
  <2>4. \A d \in Consumers : getter'[d] = IF d = c THEN "copy" ELSE getter[d]
    BY <1>0, <1>4 DEF GetCheck, TypeOK
  <2>5. GetInv'
    BY <2>1, <2>2, <2>4 DEF IInv, GetInv
  <2>. QED
    BY <1>0, <2>1, <2>3, <2>5 DEF IInv, CountersAgree
<1>5. ASSUME NEW c \in Consumers, GetCopy(c) PROVE IInv'
  <2>1. Used' = Used /\ Used >= 1
    BY <1>0, <1>5, UsedSteps DEF GetCopy, IInv, GetInv
  <2>2. UNCHANGED <<slots, putter, item>> /\ Slot(in)' = Slot(in) /\ Slot(out)' = Slot(out)
    BY <1>5 DEF GetCopy, putVars, Slot
  <2>3. PutInv'
    BY <2>1, <2>2 DEF IInv, PutInv
  <2>4. \A d \in Consumers : /\ getter'[d] = IF d = c THEN "advance" ELSE getter[d]
                             /\ buf'[d] = IF d = c THEN slots[Slot(out)] ELSE buf[d]
    BY <1>0, <1>5 DEF GetCopy, TypeOK
  <2>5. GetInv'
    BY <2>1, <2>2, <2>4 DEF IInv, GetInv
  <2>. QED
    BY <1>0, <2>1, <2>3, <2>5 DEF IInv, CountersAgree
<1>6. ASSUME NEW c \in Consumers, GetAdvance(c) PROVE IInv'
  <2>1. Used' = Used - 1 /\ Used >= 1
    BY <1>0, <1>6, UsedSteps DEF GetAdvance, IInv, GetInv
  <2>2. UNCHANGED <<slots, putter, item>> /\ Slot(in)' = Slot(in)
    BY <1>6 DEF GetAdvance, putVars, Slot
  <2>3. PutInv'
    BY <1>0, <2>1, <2>2 DEF IInv, PutInv
  <2>4. \A d \in Consumers : getter'[d] = "idle"
    <3>1. \A d \in Consumers : d # c => getter[d] = "idle"
      BY <1>6 DEF GetAdvance, Alone
    <3>. QED
      BY <1>0, <1>6, <3>1 DEF GetAdvance, TypeOK
  <2>5. GetInv'
    BY <2>4 DEF GetInv
  <2>. QED
    BY <1>0, <2>1, <2>3, <2>5 DEF IInv, CountersAgree
<1>7. CASE Reset
  <2>1. Used' = 0
    BY <1>0, <1>7, UsedSteps DEF Reset
  <2>. QED
    BY <1>0, <1>7, <2>1 DEF IInv, Reset, CountersAgree, PutInv, GetInv, putVars, getVars
<1>8. CASE UNCHANGED vars
  <2>1. Used' = Used /\ Slot(in)' = Slot(in) /\ Slot(out)' = Slot(out)
    BY <1>8 DEF vars, Used, Slot
  <2>. QED
    BY <1>0, <1>8, <2>1 DEF vars, IInv, CountersAgree, PutInv, GetInv
<1>. QED
  BY <1>1, <1>2, <1>3, <1>4, <1>5, <1>6, <1>7, <1>8 DEF Next, Producer, Consumer

\* An empty ring satisfies the invariant.
LEMMA InitIInv == Init => IInv
<1>1. Init => Used = 0
  BY RingAssumption DEF Init, Used
<1>. QED
  BY <1>1, InitTypeOK, RingAssumption DEF Init, IInv, CountersAgree, PutInv, GetInv

\* The level of the ring stays between 0 and its capacity, across the wrap of either
\* counter, with one consumer (ringbuffer_unused, ringbuffer_len).
THEOREM RingCounters ==
  ASSUME OneConsumer
  PROVE  Spec => []CountersAgree
<1>1. IInv /\ [Next]_vars => IInv'
  BY OneIsAlone, StepIInv
<1>2. IInv => CountersAgree
  BY DEF IInv
<1>. QED
  BY <1>1, <1>2, InitIInv, PTL DEF Spec

\* The invariant keeps the copy in and the copy out on different slots.
LEMMA SlotsApart == IInv => NoSlotRace
<1> SUFFICES ASSUME IInv, NEW c \in Consumers, putter = "copy", getter[c] = "copy"
             PROVE  Slot(in) # Slot(out)
  BY DEF NoSlotRace
<1>1. TypeOK /\ CountersAgree /\ Used < Capacity /\ Used >= 1 /\ Used \in Int
  BY InSlot DEF IInv, PutInv, GetInv
<1>2. Slot(out + 1 - 1) # Slot(in)
  BY <1>1, FreeSlot
<1>3. out + 1 - 1 = out
  BY <1>1, CounterTypes
<1>. QED
  BY <1>2, <1>3

\* The producer never writes the slot that the consumer is reading, although neither
\* takes a lock (ringbuffer_copy_in, ringbuffer_copy_out).
THEOREM RingNoRace ==
  ASSUME OneConsumer
  PROVE  Spec => []NoSlotRace
<1>1. IInv /\ [Next]_vars => IInv'
  BY OneIsAlone, StepIInv
<1>. QED
  BY <1>1, InitIInv, SlotsApart, PTL DEF Spec

-----------------------------------------------------------------------------
(* The refinement: in moves past an element when it is stored, out when it *)
(* is delivered.                                                           *)

\* What the ring stores, from the oldest element on.
LEMMA StoredSeq ==
  ASSUME IInv
  PROVE  /\ Stored \in Seq(Values \cup {NoValue})
         /\ Len(Stored) = Used
         /\ Used \in Nat
         /\ \A i \in 1 .. Used : Stored[i] = slots[Slot(out + i - 1)]
<1>1. TypeOK /\ Used \in Nat /\ out \in Nat
  BY CounterTypes, RingAssumption DEF IInv, CountersAgree
<1>2. \A i \in 1 .. Used : Slot(out + i - 1) \in 0 .. Capacity - 1
  <2>1. \A i \in 1 .. Used : out + i - 1 \in Nat
    BY <1>1
  <2>. QED
    BY <2>1, SlotType
<1>3. \A i \in 1 .. Used : slots[Slot(out + i - 1)] \in Values \cup {NoValue}
  BY <1>1, <1>2 DEF TypeOK
<1>. QED
  BY <1>1, <1>3 DEF Stored

\* The stored elements are as many as the counters say.
StoredOK == Stored \in Seq(Values \cup {NoValue}) /\ Len(Stored) = Used

\* The invariant gives as many stored elements as the counters say.
LEMMA StoredType == IInv => StoredOK
BY StoredSeq DEF StoredOK

\* Sequences of one length with the same elements are one sequence.
LEMMA SameSeq ==
  ASSUME NEW S, NEW s \in Seq(S), NEW t \in Seq(S), Len(s) = Len(t),
         \A i \in 1 .. Len(s) : s[i] = t[i]
  PROVE  s = t
OBVIOUS

\* What a step does to the stored elements, when they keep their slots.
LEMMA StoredSame ==
  ASSUME IInv, IInv', Used' = Used, out' = out,
         \A i \in 1 .. Used : slots'[Slot(out + i - 1)] = slots[Slot(out + i - 1)]
  PROVE  Stored' = Stored
<1>1. Stored = [i \in 1 .. Used |-> slots[Slot(out + i - 1)]]
  BY DEF Stored
<1>2. Stored' = [i \in 1 .. Used |-> slots'[Slot(out + i - 1)]]
  BY DEF Stored, Slot
<1>. QED
  BY <1>1, <1>2

\* What each step does to the stored elements.
LEMMA StoredSteps ==
  ASSUME Alone, IInv, [Next]_vars
  PROVE  /\ UNCHANGED <<slots, in, out>> \/ PutCopy => Stored' = Stored
         /\ PutPublish => /\ item \in Values /\ Len(Stored) < Capacity
                          /\ Stored' = Append(Stored, item)
         /\ \A c \in Consumers : GetAdvance(c) => /\ Stored # <<>> /\ buf[c] = Head(Stored)
                                                 /\ Stored' = Tail(Stored)
         /\ Reset => Stored' = <<>>
<1>0. /\ IInv' /\ TypeOK /\ CountersAgree
      /\ Used \in Nat /\ Capacity \in Nat /\ Used <= Capacity
      /\ out \in Nat /\ out \in 0 .. Modulus - 1
  BY StepIInv, CounterTypes, RingAssumption DEF IInv, CountersAgree, TypeOK
<1>00. Stored' \in Seq(Values \cup {NoValue}) /\ Len(Stored') = Used'
  <2>1. StoredOK'
    BY <1>0, StoredType, PTL
  <2>. QED
    BY <2>1 DEF StoredOK
<1>1. ASSUME UNCHANGED <<slots, in, out>> PROVE Stored' = Stored
  <2>1. Used' = Used
    BY <1>1 DEF Used
  <2>. QED
    BY <1>0, <1>1, <2>1, StoredSame
<1>2. ASSUME PutCopy PROVE Stored' = Stored
  <2>1. Used' = Used /\ Used < Capacity /\ out' = out
    BY <1>0, <1>2, UsedSteps DEF PutCopy, IInv, PutInv
  <2>2. /\ slots' = [slots EXCEPT ![Slot(in)] = item]
        /\ slots \in [0 .. Capacity - 1 -> Values \cup {NoValue}]
    BY <1>0, <1>2 DEF PutCopy, TypeOK
  <2>3. ASSUME NEW i \in 1 .. Used
        PROVE  slots'[Slot(out + i - 1)] = slots[Slot(out + i - 1)]
    <3>1. Slot(out + i - 1) # Slot(in)
      BY <1>0, <2>1, FreeSlot
    <3>2. PICK x \in Nat : x = out + i - 1
      BY <1>0
    <3>3. Slot(x) \in 0 .. Capacity - 1
      BY SlotType
    <3>. QED
      BY <2>2, <3>1, <3>2, <3>3
  <2>. QED
    BY <1>0, <2>1, <2>3, StoredSame
<1>3. ASSUME PutPublish
      PROVE  item \in Values /\ Len(Stored) < Capacity /\ Stored' = Append(Stored, item)
  <2>1. /\ Used' = Used + 1 /\ Used < Capacity
        /\ item \in Values /\ slots[Slot(in)] = item
        /\ UNCHANGED <<slots, out>>
    BY <1>0, <1>3, UsedSteps DEF PutPublish, IInv, PutInv
  <2>2. Slot(in) = Slot(out + Used)
    BY <1>0, InSlot
  <2>3. /\ Stored' \in Seq(Values \cup {NoValue})
        /\ Len(Stored') = Used + 1
        /\ \A i \in 1 .. Used + 1 : Stored'[i] = slots[Slot(out + i - 1)]
    <3>1. \A i \in 1 .. Used' : Stored'[i] = slots'[Slot(out' + i - 1)]
      BY DEF Stored, Slot
    <3>. QED
      BY <1>0, <1>00, <2>1, <3>1
  <2>4. /\ Append(Stored, item) \in Seq(Values \cup {NoValue})
        /\ Len(Append(Stored, item)) = Used + 1
        /\ Append(Stored, item)[Used + 1] = item
        /\ \A i \in 1 .. Used : Append(Stored, item)[i] = Stored[i]
    BY <1>0, <2>1, StoredSeq
  <2>5. Stored'[Used + 1] = item
    <3>1. Stored'[Used + 1] = slots[Slot(out + (Used + 1) - 1)]
      BY <1>0, <2>3
    <3>2. out + (Used + 1) - 1 = out + Used
      BY <1>0
    <3>. QED
      BY <2>1, <2>2, <3>1, <3>2
  <2>6. \A i \in 1 .. Used + 1 : Stored'[i] = Append(Stored, item)[i]
    <3>1. \A i \in 1 .. Used + 1 : i \in 1 .. Used \/ i = Used + 1
      BY <1>0
    <3>2. \A i \in 1 .. Used : Stored'[i] = Stored[i]
      BY <1>0, <2>3, StoredSeq
    <3>. QED
      BY <2>4, <2>5, <3>1, <3>2
  <2>7. Stored' = Append(Stored, item)
    BY <2>3, <2>4, <2>6, SameSeq
  <2>8. Len(Stored) < Capacity
    BY <1>0, <2>1, StoredSeq
  <2>. QED
    BY <2>1, <2>7, <2>8
<1>4. ASSUME NEW c \in Consumers, GetAdvance(c)
      PROVE  Stored # <<>> /\ buf[c] = Head(Stored) /\ Stored' = Tail(Stored)
  <2>1. /\ Used' = Used - 1 /\ Used >= 1
        /\ out' = Increment(out) /\ slots' = slots
        /\ buf[c] = slots[Slot(out)]
    BY <1>0, <1>4, UsedSteps DEF GetAdvance, IInv, GetInv
  <2>2. /\ Stored \in Seq(Values \cup {NoValue}) /\ Len(Stored) = Used
        /\ \A i \in 1 .. Used : Stored[i] = slots[Slot(out + i - 1)]
    BY <1>0, StoredSeq
  <2>3. Stored # <<>> /\ buf[c] = Head(Stored)
    <3>1. Stored[1] = slots[Slot(out + 1 - 1)] /\ out + 1 - 1 = out
      BY <1>0, <2>1, <2>2
    <3>. QED
      BY <2>1, <2>2, <3>1
  <2>4. /\ Stored' \in Seq(Values \cup {NoValue})
        /\ Len(Stored') = Used - 1
        /\ \A i \in 1 .. Used - 1 : Stored'[i] = slots[Slot(out + i)]
    <3>1. \A i \in 1 .. Used' : Stored'[i] = slots'[Slot(out' + i - 1)]
      BY DEF Stored, Slot
    <3>2. ASSUME NEW i \in 1 .. Used - 1 PROVE Slot(out' + i - 1) = Slot(out + i)
      <4>1. PICK k \in Nat : k = i - 1
        BY <1>0
      <4>2. Slot(Increment(out) + k) = Slot(out + 1 + k)
        BY <1>0, IncrementSlot
      <4>3. out + 1 + k = out + i /\ Increment(out) + k = Increment(out) + i - 1
        BY <1>0, <4>1, CounterTypes
      <4>. QED
        BY <2>1, <4>2, <4>3
    <3>. QED
      BY <1>0, <1>00, <2>1, <3>1, <3>2
  <2>5. /\ Tail(Stored) \in Seq(Values \cup {NoValue})
        /\ Len(Tail(Stored)) = Used - 1
        /\ \A i \in 1 .. Used - 1 : Tail(Stored)[i] = Stored[i + 1]
    BY <1>0, <2>1, <2>2
  <2>6. ASSUME NEW i \in 1 .. Used - 1 PROVE Stored'[i] = Tail(Stored)[i]
    <3>1. Stored[i + 1] = slots[Slot(out + (i + 1) - 1)]
      BY <1>0, <2>2
    <3>2. out + (i + 1) - 1 = out + i
      BY <1>0
    <3>. QED
      BY <2>4, <2>5, <3>1, <3>2
  <2>7. Stored' = Tail(Stored)
    BY <2>4, <2>5, <2>6, SameSeq
  <2>. QED
    BY <2>3, <2>7
<1>5. ASSUME Reset PROVE Stored' = <<>>
  <2>1. Used' = 0
    BY <1>0, <1>5, UsedSteps DEF Reset
  <2>2. Stored' \in Seq(Values \cup {NoValue}) /\ Len(Stored') = 0
    BY <1>00, <2>1
  <2>. QED
    BY <2>2
<1>. QED
  BY <1>1, <1>2, <1>3, <1>4, <1>5

\* Every step of the ring is a step of the bounded queue, or changes nothing of it.
LEMMA StepFifo ==
  ASSUME Alone, IInv, [Next]_vars
  PROVE  [Fifo!Next]_Fifo!vars
<1>1. CASE UNCHANGED <<slots, in, out, delivered>>
  BY <1>1, StoredSteps DEF Fifo!vars
<1>2. CASE PutCopy
  BY <1>2, StoredSteps DEF Fifo!vars, PutCopy
<1>3. CASE PutPublish
  BY <1>3, StoredSteps DEF Fifo!Next, Fifo!Put, PutPublish
<1>4. ASSUME NEW c \in Consumers, GetAdvance(c) PROVE Fifo!Next
  BY <1>4, StoredSteps DEF Fifo!Next, Fifo!Get, GetAdvance
<1>5. CASE Reset
  BY <1>5, StoredSteps DEF Fifo!Next, Fifo!Clear, Reset
<1>6. \/ UNCHANGED <<slots, in, out, delivered>>
      \/ PutCopy \/ PutPublish \/ Reset
      \/ \E c \in Consumers : GetAdvance(c)
  BY DEF Next, Producer, Consumer, PutCheck, GetCheck, GetCopy, vars
<1>. QED
  BY <1>1, <1>2, <1>3, <1>4, <1>5, <1>6

\* With one consumer the ring is a bounded queue: an element comes out once, in the order
\* of the puts, and whole, whatever the steps of a put and of a get interleave with, and
\* a full ring overwrites nothing (ringbuffer_put, ringbuffer_get, ringbuffer_reset).
THEOREM RingImplementsFifo ==
  ASSUME OneConsumer
  PROVE  Spec => ImplementsFifo
<1>1. Init => Fifo!Init
  <2>1. SUFFICES ASSUME Init PROVE Stored = <<>> /\ delivered = NoValue
    BY DEF Fifo!Init
  <2>2. Used = 0 /\ IInv
    BY <2>1, InitIInv, RingAssumption DEF Init, Used
  <2>3. Stored \in Seq(Values \cup {NoValue}) /\ Len(Stored) = 0
    BY <2>2, StoredSeq
  <2>. QED
    BY <2>1, <2>3 DEF Init
<1>2. IInv /\ [Next]_vars => IInv'
  BY OneIsAlone, StepIInv
<1>3. IInv /\ [Next]_vars => [Fifo!Next]_Fifo!vars
  BY OneIsAlone, StepFifo
<1>. QED
  BY <1>1, <1>2, <1>3, InitIInv, PTL DEF Spec, ImplementsFifo, Fifo!Spec

=============================================================================

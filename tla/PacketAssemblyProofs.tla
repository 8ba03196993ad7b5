------------------------ MODULE PacketAssemblyProofs ------------------------
(***************************************************************************)
(* The normal transmit path, proved for every capacity of the ring, every  *)
(* limit on a group, every timeout and every set of frame counts.          *)
(***************************************************************************)
EXTENDS PacketAssembly, TLAPS

Buffer == [active : BOOLEAN, total : Nat, received : Nat, last : Nat, frames : Seq(Stored)]

\* A group: what BufferInBounds says of it, and where its frame count came from.
GroupOK(p) ==
  /\ p.active => p.received < p.total /\ p.total <= MaxPackets
  /\ ~p.active => p = EmptyBuffer
  /\ p.received = Len(p.frames)
  /\ \A i \in 1 .. Len(p.frames) : p.frames[i].frame.no % Modulus = i - 1
  /\ Len(p.frames) > 0 => p.total = p.frames[1].frame.sum % Modulus /\ p.total # 1

\* Each frame was stored within the timeout of the one before it.
TimesOK(p) ==
  /\ \A i \in 1 .. Len(p.frames) - 1 : p.frames[i + 1].at - p.frames[i].at <= Timeout
  /\ Len(p.frames) > 0 => p.last = p.frames[Len(p.frames)].at

GroupInv == TypeOK /\ GroupOK(pkt) /\ TimesOK(pkt)

-----------------------------------------------------------------------------
(* The buffer through one round of the thread.                             *)

\* The 8-bit number and count of a frame; a number below Modulus is its own.
LEMMA Remainder ==
  ASSUME NEW x \in Nat
  PROVE  /\ x % Modulus \in 0 .. Modulus - 1
         /\ x < Modulus => x % Modulus = x
<1>1. Modulus \in Nat \ {0}
  BY AssemblyAssumption
<1>2. x % Modulus \in 0 .. Modulus - 1
  BY <1>1
<1>3. ASSUME x < Modulus PROVE x % Modulus = x
  <2>1. x \div Modulus \in Nat /\ x = Modulus * (x \div Modulus) + (x % Modulus)
    BY <1>1
  <2>2. PICK q \in Nat : q = x \div Modulus
    BY <2>1
  <2>3. PICK r \in 0 .. Modulus - 1 : r = x % Modulus
    BY <1>2
  <2>4. x = Modulus * q + r
    BY <2>1, <2>2, <2>3
  <2>5. q = 0
    BY <1>1, <1>3, <2>4
  <2>. QED
    BY <1>1, <2>3, <2>4, <2>5
<1>. QED
  BY <1>2, <1>3

\* An empty group has its type and all that is asked of a group.
LEMMA EmptyBufferOK == EmptyBuffer \in Buffer /\ GroupOK(EmptyBuffer) /\ TimesOK(EmptyBuffer)
BY DEF EmptyBuffer, Buffer, GroupOK, TimesOK

\* The frame at the head of the ring.
LEMMA HeadType ==
  ASSUME TypeOK, ring # <<>>
  PROVE  /\ Head(ring) = ring[1] /\ Head(ring) \in Frame
         /\ Sequence \in 0 .. Modulus - 1
         /\ TotalPackets \in 0 .. Modulus - 1
         /\ [frame |-> Head(ring), at |-> now] \in Stored
<1>1. Head(ring) = ring[1] /\ Head(ring) \in Frame
  BY DEF TypeOK
<1>2. Head(ring).no \in Nat /\ Head(ring).sum \in Nat
  BY <1>1 DEF Frame
<1>3. now \in Nat
  BY DEF TypeOK
<1>. QED
  BY <1>1, <1>2, <1>3, Remainder DEF Sequence, TotalPackets, Stored

\* The timeout check leaves the group as it is, still in time, or empty.
LEMMA UnexpiredOK ==
  ASSUME GroupInv
  PROVE  /\ Unexpired \in Buffer /\ GroupOK(Unexpired) /\ TimesOK(Unexpired)
         /\ Unexpired.active => now - Unexpired.last <= Timeout
         /\ Unexpired = pkt \/ Unexpired = EmptyBuffer
<1>1. pkt \in Buffer /\ now \in Nat /\ Timeout \in Nat
  BY AssemblyAssumption DEF GroupInv, TypeOK, Buffer
<1>2. CASE pkt.active /\ now - pkt.last > Timeout
  <2>1. Unexpired = EmptyBuffer
    BY <1>2 DEF Unexpired
  <2>2. ~EmptyBuffer.active
    BY DEF EmptyBuffer
  <2>. QED
    BY <2>1, <2>2, EmptyBufferOK
<1>3. CASE ~(pkt.active /\ now - pkt.last > Timeout)
  <2>1. Unexpired = pkt
    BY <1>3 DEF Unexpired
  <2>2. pkt.last \in Nat
    BY <1>1 DEF Buffer
  <2>. QED
    BY <1>1, <1>3, <2>1, <2>2 DEF GroupInv
<1>. QED
  BY <1>2, <1>3

\* A first frame opens an empty group for its count; any other meets the group as the
\* timeout check left it.
LEMMA OpenedOK ==
  ASSUME GroupInv, ring # <<>>, TotalPackets # 1, ~Refuse
  PROVE  /\ Opened \in Buffer /\ GroupOK(Opened) /\ TimesOK(Opened)
         /\ Sequence = 0 => /\ Opened.active /\ Opened.received = 0 /\ Opened.frames = <<>>
                            /\ Opened.total = TotalPackets
         /\ Sequence # 0 => /\ Opened = Unexpired
                            /\ Opened.active => now - Opened.last <= Timeout
<1>1. CASE Sequence = 0
  <2>1. TotalPackets \in 1 .. MaxPackets /\ MaxPackets \in Nat
    BY <1>1, AssemblyAssumption DEF Refuse, ValidTotal
  <2>2. Opened = [active |-> TRUE, total |-> TotalPackets, received |-> 0, last |-> 0,
                  frames |-> <<>>]
    BY <1>1 DEF Opened, EmptyBuffer
  <2>3. TotalPackets \in Nat
    BY <2>1
  <2>4. Opened \in Buffer
    BY <2>2, <2>3 DEF Buffer
  <2>5. GroupOK(Opened) /\ TimesOK(Opened)
    BY <2>1, <2>2 DEF GroupOK, TimesOK
  <2>. QED
    BY <1>1, <2>2, <2>4, <2>5
<1>2. CASE Sequence # 0
  <2>1. Opened = Unexpired
    BY <1>2 DEF Opened
  <2>. QED
    BY <1>2, <2>1, UnexpiredOK
<1>. QED
  BY <1>1, <1>2

\* A frame that fits goes to the place of its number, in time.
LEMMA WithFrameOK ==
  ASSUME GroupInv, ring # <<>>, TotalPackets # 1, Fits
  PROVE  /\ WithFrame \in Buffer
         /\ WithFrame.active
         /\ WithFrame.frames = Append(Opened.frames, [frame |-> Head(ring), at |-> now])
         /\ WithFrame.total = Opened.total
         /\ WithFrame.received = Len(WithFrame.frames)
         /\ WithFrame.received \in 1 .. WithFrame.total
         /\ WithFrame.total <= MaxPackets
         /\ \A i \in 1 .. Len(WithFrame.frames) : WithFrame.frames[i].frame.no % Modulus = i - 1
         /\ WithFrame.total = WithFrame.frames[1].frame.sum % Modulus
         /\ WithFrame.total # 1
         /\ TimesOK(WithFrame)
<1> DEFINE x == [frame |-> Head(ring), at |-> now]
<1>1. /\ Opened \in Buffer /\ GroupOK(Opened) /\ TimesOK(Opened)
      /\ Opened.active /\ Sequence < Opened.total /\ Sequence = Opened.received
  <2>1. ~Refuse /\ ~OutOfPlace /\ ~Gap
    BY DEF Fits
  <2>2. Opened \in Buffer /\ GroupOK(Opened) /\ TimesOK(Opened)
    BY <2>1, OpenedOK
  <2>3. Opened.total \in Nat /\ Sequence \in Nat
    <3>1. TypeOK
      BY DEF GroupInv
    <3>. QED
      BY <2>2, <3>1, HeadType, AssemblyAssumption DEF Buffer
  <2>. QED
    BY <2>1, <2>2, <2>3 DEF OutOfPlace, Gap
<1>2. /\ x \in Stored /\ x.frame = Head(ring) /\ x.at = now /\ now \in Nat
      /\ x.frame.no % Modulus = Sequence /\ x.frame.sum % Modulus = TotalPackets
  BY HeadType DEF GroupInv, Sequence, TotalPackets, TypeOK
<1>3. /\ WithFrame.active = Opened.active
      /\ WithFrame.total = Opened.total
      /\ WithFrame.received = Opened.received + 1
      /\ WithFrame.last = now
      /\ WithFrame.frames = Append(Opened.frames, x)
  BY <1>1 DEF WithFrame, Buffer
<1>4. /\ Opened.active \in BOOLEAN /\ Opened.total \in Nat /\ Opened.received \in Nat
      /\ Opened.frames \in Seq(Stored) /\ Opened.last \in Nat
  BY <1>1 DEF Buffer
<1> DEFINE s == Opened.frames
           n == Opened.received
           t == Append(s, x)
<1>5. /\ t \in Seq(Stored) /\ Len(t) = n + 1 /\ Len(s) = n /\ n \in Nat
      /\ \A i \in 1 .. n : t[i] = s[i]
      /\ t[n + 1] = x
  BY <1>1, <1>2, <1>4 DEF GroupOK
<1>6. /\ WithFrame.frames = t /\ WithFrame.received = n + 1 /\ WithFrame.total = Opened.total
      /\ WithFrame.active /\ WithFrame.last = now
  BY <1>1, <1>3
<1>7. WithFrame \in Buffer
  <2>1. n + 1 \in Nat /\ now \in Nat /\ t \in Seq(Stored)
    BY <1>2, <1>5
  <2>2. \A r, l \in Nat, f \in Seq(Stored) :
          [Opened EXCEPT !.frames = f, !.received = r, !.last = l] \in Buffer
    BY <1>1 DEF Buffer
  <2>3. WithFrame = [Opened EXCEPT !.frames = t, !.received = n + 1, !.last = now]
    BY DEF WithFrame
  <2> HIDE DEF t, n
  <2>. QED
    BY <2>1, <2>2, <2>3
<1> HIDE DEF x, s, n, t
<1>8. n + 1 \in 1 .. Opened.total /\ Opened.total <= MaxPackets
  BY <1>1, <1>4, <1>5 DEF n, GroupOK
<1>9. \A i \in 1 .. n + 1 : t[i].frame.no % Modulus = i - 1
  <2>1. \A i \in 1 .. n : s[i].frame.no % Modulus = i - 1
    BY <1>1, <1>5 DEF GroupOK, s
  <2>2. t[n + 1].frame.no % Modulus = (n + 1) - 1
    BY <1>1, <1>2, <1>5 DEF n
  <2>3. \A i \in 1 .. n + 1 : i \in 1 .. n \/ i = n + 1
    BY <1>5
  <2>. QED
    BY <1>5, <2>1, <2>2, <2>3
<1>10. Opened.total = t[1].frame.sum % Modulus /\ Opened.total # 1
  <2>1. CASE n = 0
    <3>1. Sequence = 0
      BY <1>1, <2>1 DEF n
    <3>2. Opened.total = TotalPackets
      BY <3>1, OpenedOK DEF Fits
    <3>3. t[1] = x
      BY <1>5, <2>1
    <3>. QED
      BY <1>2, <3>2, <3>3
  <2>2. CASE n # 0
    <3>1. Len(s) > 0 /\ t[1] = s[1]
      BY <1>5, <2>2
    <3>. QED
      BY <1>1, <3>1 DEF GroupOK, s
  <2>. QED
    BY <2>1, <2>2
<1>11. \A i \in 1 .. n : t[i + 1].at - t[i].at <= Timeout
  <2>1. \A i \in 1 .. n - 1 : s[i + 1].at - s[i].at <= Timeout
    BY <1>1, <1>5 DEF TimesOK, s
  <2>2. CASE n = 0
    BY <2>2
  <2>3. CASE n # 0
    <3>1. Sequence # 0
      BY <1>1, <2>3 DEF n
    <3>2. now - Opened.last <= Timeout
      BY <1>1, <3>1, OpenedOK DEF Fits
    <3>3. Opened.last = s[n].at
      BY <1>1, <1>5, <2>3 DEF TimesOK, s
    <3>4. t[n + 1].at - t[n].at <= Timeout
      BY <1>2, <1>5, <2>3, <3>2, <3>3
    <3>5. \A i \in 1 .. n : i = n \/ (i \in 1 .. n - 1 /\ i + 1 \in 1 .. n)
      BY <1>5
    <3>. QED
      BY <1>5, <2>1, <3>4, <3>5
  <2>. QED
    BY <2>2, <2>3
<1>12. TimesOK(WithFrame)
  BY <1>2, <1>5, <1>6, <1>11 DEF TimesOK
<1>. QED
  BY <1>5, <1>6, <1>7, <1>8, <1>9, <1>10, <1>12 DEF s, t, x

-----------------------------------------------------------------------------
(* The buffer through every step.                                          *)

\* What taking a frame out leaves in the ring.
LEMMA TakeFrameOK ==
  ASSUME TypeOK, TakeFrame
  PROVE  /\ ring # <<>> /\ ring \in Seq(Frame) /\ Len(ring) \in Nat \ {0}
         /\ ring' \in Seq(Frame) /\ Len(ring') = Len(ring) - 1 /\ Len(ring') <= Capacity
         /\ \A i \in 1 .. Len(ring') : ring'[i] = ring[i + 1]
         /\ Head(ring) = ring[1]
         /\ UNCHANGED <<opened, now, msg, lost>>
<1>1. /\ ring \in Seq(Frame) /\ ring # <<>> /\ ring' = Tail(ring) /\ Len(ring) <= Capacity
      /\ Capacity \in Nat /\ UNCHANGED <<opened, now, msg, lost>>
  BY AssemblyAssumption DEF TypeOK, TakeFrame
<1>. QED
  BY <1>1

\* A write of frames, or of none, keeps the history well typed.
LEMMA WriteOK ==
  ASSUME TypeOK, NEW frames \in Seq(Stored), Write(frames)
  PROVE  sent' = frames /\ bursts' \in [Messages -> Nat]
<1>1. bursts \in [Messages -> Nat]
  BY DEF TypeOK
<1>2. \A m \in Messages :
        bursts[m] + (IF Len(frames) > 0 /\ frames[1].frame.msg = m THEN 1 ELSE 0) \in Nat
  BY <1>1
<1>. QED
  BY <1>2 DEF Write

\* A frame that the PC sends goes to the end of the ring, or is lost.
LEMMA SendFrameOK ==
  ASSUME TypeOK, SendFrame
  PROVE  /\ msg.next < msg.sum /\ msg' \in [id : Nat, sum : Nat, next : Nat]
         /\ msg'.id = msg.id /\ msg'.sum = msg.sum /\ msg'.next = msg.next + 1
         /\ ring' \in Seq(Frame) /\ Len(ring') <= Capacity /\ lost' \in BOOLEAN
         /\ \/ /\ ring' = ring /\ lost' = TRUE
            \/ /\ lost' = lost /\ Len(ring') = Len(ring) + 1
               /\ \A i \in 1 .. Len(ring) : ring'[i] = ring[i]
               /\ ring'[Len(ring) + 1] = [msg |-> msg.id, no |-> msg.next, sum |-> msg.sum]
         /\ UNCHANGED <<pkt, opened, now, sent, refused, bursts>>
<1>1. /\ msg \in [id : Nat, sum : Nat, next : Nat] /\ ring \in Seq(Frame)
      /\ Len(ring) <= Capacity /\ Capacity \in Nat /\ lost \in BOOLEAN
  BY AssemblyAssumption DEF TypeOK
<1>2. /\ msg.next < msg.sum /\ msg' \in [id : Nat, sum : Nat, next : Nat]
      /\ msg'.id = msg.id /\ msg'.sum = msg.sum /\ msg'.next = msg.next + 1
      /\ UNCHANGED <<pkt, opened, now, sent, refused, bursts>>
  BY <1>1 DEF SendFrame
<1> DEFINE f == [msg |-> msg.id, no |-> msg.next, sum |-> msg.sum]
<1>3. f \in Frame
  BY <1>1 DEF Frame
<1>4. CASE Len(ring) < Capacity /\ ring' = Append(ring, f) /\ UNCHANGED lost
  <2> HIDE DEF f
  <2>1. /\ ring' \in Seq(Frame) /\ Len(ring') = Len(ring) + 1 /\ Len(ring') <= Capacity
        /\ \A i \in 1 .. Len(ring) : ring'[i] = ring[i]
        /\ ring'[Len(ring) + 1] = f
    BY <1>1, <1>3, <1>4
  <2>. QED
    BY <1>1, <1>2, <1>4, <2>1 DEF f
<1>5. CASE Len(ring) = Capacity /\ lost' = TRUE /\ UNCHANGED ring
  BY <1>1, <1>2, <1>5
<1>. QED
  BY <1>4, <1>5 DEF SendFrame

\* One frame written on its own.
LEMMA SendSingleOK ==
  ASSUME GroupInv, SendSingle
  PROVE  GroupInv' /\ FullRuns' /\ NoStaleJoin'
<1>1. TypeOK /\ GroupOK(pkt) /\ TimesOK(pkt) /\ pkt' = pkt /\ refused' = refused
  BY DEF GroupInv, SendSingle
<1>2. ring' \in Seq(Frame) /\ Len(ring') <= Capacity /\ ring # <<>> /\ UNCHANGED <<opened, now, msg, lost>>
  BY <1>1, TakeFrameOK DEF SendSingle
<1> DEFINE x == [frame |-> Head(ring), at |-> now]
<1>3. x \in Stored /\ x.frame.sum % Modulus = 1
  BY <1>1, <1>2, HeadType DEF SendSingle, TotalPackets
<1> HIDE DEF x
<1>4. <<x>> \in Seq(Stored) /\ Len(<<x>>) = 1 /\ <<x>>[1] = x
  BY <1>3
<1>5. sent' = <<x>> /\ bursts' \in [Messages -> Nat]
  BY <1>1, <1>4, WriteOK DEF SendSingle, x
<1>6. GroupInv'
  BY <1>1, <1>2, <1>4, <1>5 DEF GroupInv, TypeOK, GroupOK, TimesOK
<1>. QED
  BY <1>3, <1>4, <1>5, <1>6 DEF FullRuns, NoStaleJoin

\* A frame that is thrown away, with the group kept, opened or given up.
LEMMA DiscardOK ==
  ASSUME GroupInv, Discard
  PROVE  GroupInv' /\ FullRuns' /\ NoStaleJoin'
<1>1. TypeOK /\ refused \in BOOLEAN
  BY DEF GroupInv, TypeOK
<1>2. ring' \in Seq(Frame) /\ Len(ring') <= Capacity /\ ring # <<>> /\ UNCHANGED <<opened, now, msg, lost>>
  BY <1>1, TakeFrameOK DEF Discard
<1>3. <<>> \in Seq(Stored) /\ Len(<<>>) = 0
  OBVIOUS
<1>4. sent' = <<>> /\ bursts' \in [Messages -> Nat]
  BY <1>1, <1>3, WriteOK DEF Discard
<1>5. refused' \in BOOLEAN
  BY DEF Discard
<1>6. pkt' \in Buffer /\ GroupOK(pkt') /\ TimesOK(pkt')
  BY <1>2, UnexpiredOK, OpenedOK, EmptyBufferOK DEF Discard
<1>7. GroupInv'
  <2>1. TypeOK'
    BY <1>1, <1>2, <1>3, <1>4, <1>5, <1>6 DEF TypeOK, Buffer
  <2>. QED
    BY <2>1, <1>6 DEF GroupInv, GroupOK, TimesOK
<1>. QED
  BY <1>3, <1>4, <1>7 DEF FullRuns, NoStaleJoin

\* A frame that joins its group.
LEMMA StoreFrameOK ==
  ASSUME GroupInv, StoreFrame
  PROVE  GroupInv' /\ FullRuns' /\ NoStaleJoin'
<1>1. TypeOK
  BY DEF GroupInv
<1>2. ring' \in Seq(Frame) /\ Len(ring') <= Capacity /\ ring # <<>> /\ UNCHANGED <<opened, now, msg, lost>>
  BY <1>1, TakeFrameOK DEF StoreFrame
<1>3. <<>> \in Seq(Stored) /\ Len(<<>>) = 0
  OBVIOUS
<1>4. sent' = <<>> /\ bursts' \in [Messages -> Nat] /\ refused' = refused
  BY <1>1, <1>3, WriteOK DEF StoreFrame
<1>5. pkt' = WithFrame /\ WithFrame.received < WithFrame.total
  BY DEF StoreFrame
<1>6. pkt' \in Buffer /\ GroupOK(pkt') /\ TimesOK(pkt')
  BY <1>2, <1>5, WithFrameOK DEF StoreFrame, GroupOK
<1>7. GroupInv'
  <2>1. TypeOK'
    BY <1>1, <1>2, <1>3, <1>4, <1>6 DEF TypeOK, Buffer
  <2>. QED
    BY <2>1, <1>6 DEF GroupInv, GroupOK, TimesOK
<1>. QED
  BY <1>3, <1>4, <1>7 DEF FullRuns, NoStaleJoin

\* The last frame of a group, and the group written.
LEMMA CompleteGroupOK ==
  ASSUME GroupInv, CompleteGroup
  PROVE  GroupInv' /\ FullRuns' /\ NoStaleJoin'
<1>1. TypeOK
  BY DEF GroupInv
<1>2. ring' \in Seq(Frame) /\ Len(ring') <= Capacity /\ ring # <<>> /\ UNCHANGED <<opened, now, msg, lost>>
  BY <1>1, TakeFrameOK DEF CompleteGroup
<1>3. /\ WithFrame \in Buffer
      /\ WithFrame.received = WithFrame.total
      /\ WithFrame.received = Len(WithFrame.frames)
      /\ \A i \in 1 .. Len(WithFrame.frames) : WithFrame.frames[i].frame.no % Modulus = i - 1
      /\ WithFrame.total = WithFrame.frames[1].frame.sum % Modulus
      /\ TimesOK(WithFrame)
  BY <1>2, WithFrameOK DEF CompleteGroup
<1>4. WithFrame.frames \in Seq(Stored)
  BY <1>3 DEF Buffer
<1>5. sent' = WithFrame.frames /\ bursts' \in [Messages -> Nat]
  BY <1>1, <1>4, WriteOK DEF CompleteGroup
<1>6. pkt' = EmptyBuffer /\ refused' = refused
  BY DEF CompleteGroup
<1>7. GroupInv'
  <2>1. TypeOK'
    BY <1>1, <1>2, <1>4, <1>5, <1>6, EmptyBufferOK DEF TypeOK, Buffer
  <2>. QED
    BY <2>1, <1>6, EmptyBufferOK DEF GroupInv, GroupOK, TimesOK
<1>8. FullRuns'
  BY <1>3, <1>5 DEF FullRuns
<1>9. NoStaleJoin'
  BY <1>3, <1>5 DEF NoStaleJoin, TimesOK
<1>. QED
  BY <1>7, <1>8, <1>9

\* Every step keeps the buffer in bounds and in time, and what is written a full run.
LEMMA StepGroup ==
  ASSUME GroupInv, FullRuns, NoStaleJoin, [Next]_vars
  PROVE  GroupInv' /\ FullRuns' /\ NoStaleJoin'
<1>0. TypeOK /\ pkt \in Buffer
  BY DEF GroupInv, TypeOK, Buffer
<1>1. ASSUME NEW n \in Totals, StartMessage(n) PROVE GroupInv' /\ FullRuns' /\ NoStaleJoin'
  <2>1. /\ msg' \in [id : Nat, sum : Nat, next : Nat]
        /\ UNCHANGED <<ring, pkt, opened, now, sent, lost, refused, bursts>>
    BY <1>0, <1>1, AssemblyAssumption DEF StartMessage, TypeOK
  <2>. QED
    BY <2>1 DEF GroupInv, TypeOK, GroupOK, TimesOK, FullRuns, NoStaleJoin
<1>2. CASE SendFrame
  BY <1>0, <1>2, SendFrameOK DEF GroupInv, TypeOK, GroupOK, TimesOK, FullRuns, NoStaleJoin
<1>3. CASE StartStop
  BY <1>3 DEF StartStop, GroupInv, TypeOK, GroupOK, TimesOK, FullRuns, NoStaleJoin
<1>4. CASE Tick
  BY <1>4 DEF Tick, GroupInv, TypeOK, GroupOK, TimesOK, FullRuns, NoStaleJoin
<1>5. CASE UNCHANGED vars
  BY <1>5 DEF vars, GroupInv, TypeOK, GroupOK, TimesOK, FullRuns, NoStaleJoin
<1>. QED
  BY <1>1, <1>2, <1>3, <1>4, <1>5, SendSingleOK, DiscardOK, StoreFrameOK, CompleteGroupOK
  DEF Next

\* Nothing is collected or written at the start.
LEMMA InitGroup == Init => GroupInv /\ FullRuns /\ NoStaleJoin
<1> SUFFICES ASSUME Init PROVE GroupInv /\ FullRuns /\ NoStaleJoin
  OBVIOUS
<1>1. pkt = EmptyBuffer /\ sent = <<>>
  BY DEF Init
<1>2. TypeOK
  <2>1. ring \in Seq(Frame) /\ Len(ring) <= Capacity /\ sent \in Seq(Stored)
    BY AssemblyAssumption DEF Init
  <2>2. pkt \in Buffer
    BY <1>1, EmptyBufferOK
  <2>3. msg \in [id : Nat, sum : Nat, next : Nat] /\ now \in Nat /\ bursts \in [Messages -> Nat]
    BY DEF Init
  <2>4. opened \in BOOLEAN /\ lost \in BOOLEAN /\ refused \in BOOLEAN
    BY DEF Init
  <2>. QED
    BY <2>1, <2>2, <2>3, <2>4 DEF TypeOK, Buffer
<1>. QED
  BY <1>1, <1>2, EmptyBufferOK DEF GroupInv, FullRuns, NoStaleJoin

\* The ring, the buffer and the history stay well typed, and the ring within its capacity
\* (enqueue_normal_can_payload, axican_data_send_thread).
THEOREM PacketTypes == Spec => []TypeOK
<1>1. GroupInv /\ FullRuns /\ NoStaleJoin /\ [Next]_vars => (GroupInv /\ FullRuns /\ NoStaleJoin)'
  BY StepGroup
<1>2. GroupInv => TypeOK
  BY DEF GroupInv
<1>. QED
  BY <1>1, <1>2, InitGroup, PTL DEF Spec

\* Whatever 16-bit numbers the frames carry, the stores of axican_data_send_thread stay
\* inside frames[DEQUEUE_BATCH_SIZE_1], in place and counted.
THEOREM PacketBounds == Spec => []BufferInBounds
<1>1. GroupInv /\ FullRuns /\ NoStaleJoin /\ [Next]_vars => (GroupInv /\ FullRuns /\ NoStaleJoin)'
  BY StepGroup
<1>2. GroupInv => BufferInBounds
  BY DEF GroupInv, GroupOK, BufferInBounds
<1>. QED
  BY <1>1, <1>2, InitGroup, PTL DEF Spec

\* What is written is a full run of frames, from 0 to the count of the first, also after
\* losses, refusals and timeouts (axican_data_send_thread).
THEOREM PacketFullRuns == Spec => []FullRuns
<1>1. GroupInv /\ FullRuns /\ NoStaleJoin /\ [Next]_vars => (GroupInv /\ FullRuns /\ NoStaleJoin)'
  BY StepGroup
<1>. QED
  BY <1>1, InitGroup, PTL DEF Spec

\* No frame is joined to one stored more than PACKET_TIMEOUT before it.
THEOREM PacketNoStaleJoin == Spec => []NoStaleJoin
<1>1. GroupInv /\ FullRuns /\ NoStaleJoin /\ [Next]_vars => (GroupInv /\ FullRuns /\ NoStaleJoin)'
  BY StepGroup
<1>. QED
  BY <1>1, InitGroup, PTL DEF Spec

-----------------------------------------------------------------------------
(* The frames of a message stay together while none is lost or refused.    *)

\* The frame the PC sends next, and the frame the thread takes next.
NextFrame == [msg |-> msg.id, no |-> msg.next, sum |-> msg.sum]
FirstWaiting == IF ring = <<>> THEN NextFrame ELSE ring[1]

\* g is the frame after f of one message; g comes after f in the stream of frames.
Continues(f, g) == g.msg = f.msg /\ g.sum = f.sum /\ g.no = f.no + 1
Follows(f, g) == g.no = 0 \/ Continues(f, g)

FramesInv ==
  /\ msg.id <= MaxMessages /\ (msg.sum > 0 => msg.id > 0)
  /\ \A i \in 1 .. Len(ring) : ring[i].no < ring[i].sum /\ ring[i].msg \in Messages

ChainInv ==
  ~lost =>
    /\ \A i \in 1 .. Len(ring) - 1 : Follows(ring[i], ring[i + 1])
    /\ Len(ring) > 0 => Follows(ring[Len(ring)], NextFrame)

\* The frames s, from the first frame of a message on
SameRun(s) ==
  \A i \in 1 .. Len(s) :
    s[i].frame.msg = s[1].frame.msg /\ s[i].frame.sum = s[1].frame.sum /\ s[i].frame.no = i - 1

\* The group is a run of one message, and the frame w that comes next carries it on,
\* starts another message, or is a message of its own that passes the group by.
RunOK(s, w) ==
  Len(s) > 0 /\ s[1].frame.sum < Modulus =>
    /\ SameRun(s)
    /\ Continues(s[Len(s)].frame, w) \/ w.no = 0 \/ w.sum % Modulus = 1

RunInv == ~lost /\ ~refused => RunOK(pkt.frames, FirstWaiting)

WholeInv == GroupInv /\ FramesInv /\ ChainInv /\ RunInv

\* The frame sent next is a frame.
LEMMA NextFrameType == TypeOK => NextFrame \in Frame
BY DEF TypeOK, NextFrame, Frame

\* Taking a frame brings the one that follows it to the front.
LEMMA ChainTake ==
  ASSUME TypeOK, FramesInv, ChainInv, TakeFrame
  PROVE  /\ FramesInv' /\ ChainInv'
         /\ FirstWaiting = Head(ring)
         /\ ~lost => Follows(Head(ring), FirstWaiting')
         /\ Head(ring).no < Head(ring).sum /\ Head(ring).msg \in Messages
         /\ FirstWaiting' \in Frame
<1>1. /\ ring # <<>> /\ ring \in Seq(Frame) /\ Len(ring) \in Nat \ {0}
      /\ ring' \in Seq(Frame) /\ Len(ring') = Len(ring) - 1
      /\ \A i \in 1 .. Len(ring') : ring'[i] = ring[i + 1]
      /\ Head(ring) = ring[1]
      /\ msg' = msg /\ lost' = lost
  BY TakeFrameOK
<1>2. NextFrame' = NextFrame /\ NextFrame \in Frame
  BY <1>1, NextFrameType DEF NextFrame
<1>3. FramesInv'
  <2>1. \A i \in 1 .. Len(ring') : i + 1 \in 1 .. Len(ring)
    BY <1>1
  <2>. QED
    BY <1>1, <2>1 DEF FramesInv
<1>4. FirstWaiting = Head(ring)
  BY <1>1 DEF FirstWaiting
<1>5. CASE Len(ring) = 1
  <2>1. ring' = <<>> /\ Len(ring') = 0
    BY <1>1, <1>5
  <2>2. FirstWaiting' = NextFrame
    BY <1>2, <2>1 DEF FirstWaiting
  <2>3. ~lost => Follows(Head(ring), NextFrame)
    BY <1>1, <1>5 DEF ChainInv
  <2>4. ChainInv'
    BY <2>1 DEF ChainInv
  <2>. QED
    BY <1>1, <1>2, <1>3, <1>4, <2>2, <2>3, <2>4 DEF FramesInv
<1>6. CASE Len(ring) # 1
  <2>1. ring' # <<>> /\ ring'[1] = ring[2] /\ Len(ring') > 0 /\ ring[2] \in Frame
    BY <1>1, <1>6
  <2>2. FirstWaiting' = ring[2]
    BY <2>1 DEF FirstWaiting
  <2>3. ~lost => Follows(ring[1], ring[1 + 1])
    BY <1>1, <1>6 DEF ChainInv
  <2>4. ASSUME ~lost' PROVE ChainInv'
    <3>1. ~lost
      BY <1>1, <2>4
    <3>2. \A i \in 1 .. Len(ring') - 1 : Follows(ring'[i], ring'[i + 1])
      <4>1. SUFFICES ASSUME NEW i \in 1 .. Len(ring') - 1 PROVE Follows(ring'[i], ring'[i + 1])
        OBVIOUS
      <4>2. PICK j \in 1 .. Len(ring) - 1 : j = i + 1
        BY <1>1
      <4>3. ring'[i] = ring[j] /\ ring'[i + 1] = ring[j + 1]
        BY <1>1, <4>2
      <4>4. Follows(ring[j], ring[j + 1])
        BY <3>1 DEF ChainInv
      <4>. QED
        BY <4>3, <4>4
    <3>3. Follows(ring'[Len(ring')], NextFrame)
      <4>1. ring'[Len(ring')] = ring[Len(ring)]
        BY <1>1, <2>1
      <4>. QED
        BY <1>1, <3>1, <4>1 DEF ChainInv
    <3>. QED
      BY <1>2, <3>2, <3>3 DEF ChainInv
  <2>5. ChainInv'
    BY <2>4 DEF ChainInv
  <2>. QED
    BY <1>1, <1>3, <1>4, <2>1, <2>2, <2>3, <2>5 DEF FramesInv
<1>. QED
  BY <1>5, <1>6

\* A frame that is sent continues the one before it, and stays what is taken next when
\* nothing waits.
LEMMA ChainSend ==
  ASSUME TypeOK, FramesInv, ChainInv, SendFrame
  PROVE  /\ FramesInv' /\ ChainInv'
         /\ ~lost' => ~lost /\ FirstWaiting' = FirstWaiting
<1>1. /\ msg.next < msg.sum /\ msg \in [id : Nat, sum : Nat, next : Nat]
      /\ msg'.id = msg.id /\ msg'.sum = msg.sum /\ msg'.next = msg.next + 1
      /\ ring \in Seq(Frame) /\ Len(ring) \in Nat
      /\ ring' \in Seq(Frame)
  <2>1. msg \in [id : Nat, sum : Nat, next : Nat] /\ ring \in Seq(Frame)
    BY DEF TypeOK
  <2>. QED
    BY <2>1, SendFrameOK
<1>2. /\ NextFrame \in Frame
      /\ NextFrame.msg = msg.id /\ NextFrame.no = msg.next /\ NextFrame.sum = msg.sum
      /\ NextFrame'.msg = msg.id /\ NextFrame'.no = msg.next + 1 /\ NextFrame'.sum = msg.sum
  BY <1>1, NextFrameType DEF NextFrame
<1>3. CASE ring' = ring /\ lost' = TRUE
  BY <1>1, <1>3 DEF FramesInv, ChainInv
<1>4. CASE /\ lost' = lost /\ Len(ring') = Len(ring) + 1
           /\ \A i \in 1 .. Len(ring) : ring'[i] = ring[i]
           /\ ring'[Len(ring) + 1] = NextFrame
  <2>1. NextFrame.no < NextFrame.sum /\ NextFrame.msg \in Messages
    BY <1>1, <1>2, AssemblyAssumption DEF FramesInv, Messages
  <2>2. \A i \in 1 .. Len(ring') : i \in 1 .. Len(ring) \/ i = Len(ring) + 1
    BY <1>1, <1>4
  <2>3. FramesInv'
    BY <1>1, <1>4, <2>1, <2>2 DEF FramesInv
  <2>4. Continues(NextFrame, NextFrame')
    BY <1>2 DEF Continues
  <2>5. ASSUME ~lost' PROVE ChainInv' /\ FirstWaiting' = FirstWaiting
    <3>1. ~lost
      BY <1>4, <2>5
    <3>2. ASSUME NEW i \in 1 .. Len(ring') - 1 PROVE Follows(ring'[i], ring'[i + 1])
      <4>1. CASE i = Len(ring)
        <5>1. ring'[i] = ring[Len(ring)] /\ ring'[i + 1] = NextFrame /\ Len(ring) > 0
          BY <1>1, <1>4, <4>1
        <5>. QED
          BY <3>1, <5>1 DEF ChainInv
      <4>2. CASE i # Len(ring)
        <5>1. i \in 1 .. Len(ring) - 1 /\ ring'[i] = ring[i] /\ ring'[i + 1] = ring[i + 1]
          BY <1>1, <1>4, <4>2
        <5>. QED
          BY <3>1, <5>1 DEF ChainInv
      <4>. QED
        BY <4>1, <4>2
    <3>3. Follows(ring'[Len(ring')], NextFrame')
      BY <1>4, <2>4 DEF Follows
    <3>4. ChainInv'
      BY <3>2, <3>3 DEF ChainInv
    <3>5. FirstWaiting' = FirstWaiting
      <4>1. ring' # <<>>
        BY <1>1, <1>4
      <4>2. CASE ring = <<>>
        <5>1. ring'[1] = NextFrame
          BY <1>4, <4>2
        <5>. QED
          BY <4>1, <4>2, <5>1 DEF FirstWaiting
      <4>3. CASE ring # <<>>
        <5>1. ring'[1] = ring[1]
          BY <1>1, <1>4, <4>3
        <5>. QED
          BY <4>1, <4>3, <5>1 DEF FirstWaiting
      <4>. QED
        BY <4>2, <4>3
    <3>. QED
      BY <3>4, <3>5
  <2>6. ChainInv'
    BY <2>5 DEF ChainInv
  <2>. QED
    BY <1>4, <2>3, <2>5, <2>6
<1>. QED
  BY <1>3, <1>4, SendFrameOK DEF NextFrame

\* A new message leaves what waits, and its own first frame starts a message.
LEMMA ChainStart ==
  ASSUME TypeOK, FramesInv, ChainInv, NEW n \in Totals, StartMessage(n)
  PROVE  /\ FramesInv' /\ ChainInv'
         /\ FirstWaiting' = FirstWaiting \/ FirstWaiting'.no = 0
<1>1. /\ msg \in [id : Nat, sum : Nat, next : Nat] /\ msg.id < MaxMessages
      /\ msg'.id = msg.id + 1 /\ msg'.sum = n /\ msg'.next = 0
      /\ ring' = ring /\ lost' = lost /\ MaxMessages \in Nat
  BY AssemblyAssumption DEF TypeOK, StartMessage
<1>2. NextFrame'.no = 0
  BY <1>1 DEF NextFrame
<1>3. FramesInv'
  BY <1>1 DEF FramesInv
<1>4. ChainInv'
  BY <1>1, <1>2 DEF ChainInv, Follows
<1>. QED
  BY <1>1, <1>2, <1>3, <1>4 DEF FirstWaiting

\* A frame that meets its group carries it on, when none was lost or refused.
LEMMA HeadContinues ==
  ASSUME WholeInv, TakeFrame, ~lost, ~refused, TotalPackets # 1, Sequence # 0,
         Len(Unexpired.frames) > 0, Unexpired.frames[1].frame.sum < Modulus
  PROVE  /\ Unexpired = pkt /\ SameRun(Unexpired.frames)
         /\ Continues(Unexpired.frames[Len(Unexpired.frames)].frame, Head(ring))
         /\ Head(ring).no = Len(Unexpired.frames)
<1>1. TypeOK /\ GroupInv /\ FramesInv /\ ChainInv
  BY DEF WholeInv, GroupInv
<1>2. Unexpired = pkt
  BY <1>1, UnexpiredOK DEF EmptyBuffer
<1>3. FirstWaiting = Head(ring) /\ RunOK(pkt.frames, Head(ring))
  BY <1>1, ChainTake DEF WholeInv, RunInv
<1>4. Head(ring).no # 0
  <2>1. 0 < Modulus
    BY AssemblyAssumption
  <2>2. 0 % Modulus = 0
    BY <2>1, Remainder
  <2>3. Head(ring).no = 0 => Sequence = 0
    BY <2>2 DEF Sequence
  <2>. QED
    BY <2>3
<1>5. Head(ring).sum % Modulus # 1
  BY DEF TotalPackets
<1>6. SameRun(pkt.frames) /\ Continues(pkt.frames[Len(pkt.frames)].frame, Head(ring))
  BY <1>2, <1>3, <1>4, <1>5 DEF RunOK
<1>7. Len(pkt.frames) \in Nat
  BY <1>1 DEF TypeOK
<1>8. pkt.frames[Len(pkt.frames)].frame.no = Len(pkt.frames) - 1
  BY <1>2, <1>6, <1>7 DEF SameRun
<1>. QED
  BY <1>2, <1>6, <1>7, <1>8 DEF Continues

\* The frame that joins the group makes it a longer run of its message.
LEMMA WithFrameRun ==
  ASSUME WholeInv, TakeFrame, ~lost, ~refused, TotalPackets # 1, Fits,
         WithFrame.frames[1].frame.sum < Modulus
  PROVE  /\ SameRun(WithFrame.frames)
         /\ WithFrame.frames[Len(WithFrame.frames)].frame = Head(ring)
         /\ WithFrame.total = WithFrame.frames[1].frame.sum
<1> DEFINE s == Opened.frames
           x == [frame |-> Head(ring), at |-> now]
           t == WithFrame.frames
           n == Len(s)
<1>1. TypeOK /\ GroupInv /\ FramesInv /\ ChainInv /\ ring # <<>>
  BY TakeFrameOK DEF WholeInv, GroupInv
<1>2. /\ t = Append(s, x)
      /\ WithFrame.total = t[1].frame.sum % Modulus
      /\ WithFrame \in Buffer
  BY <1>1, WithFrameOK
<1>3. Opened \in Buffer /\ ~Refuse
  BY <1>1, OpenedOK DEF Fits
<1>4. s \in Seq(Stored) /\ x \in Stored /\ x.frame = Head(ring) /\ Head(ring) \in Frame
  BY <1>1, <1>3, HeadType DEF Buffer
<1>5. /\ n \in Nat /\ Len(t) = n + 1 /\ t[n + 1] = x /\ t \in Seq(Stored)
      /\ \A i \in 1 .. n : t[i] = s[i]
  BY <1>2, <1>4
<1>6. Head(ring).no \in Nat /\ Head(ring).no < Head(ring).sum /\ Head(ring).sum \in Nat
  BY <1>1, <1>4, ChainTake DEF Frame
<1>7. t[1].frame.sum \in Nat
  <2>1. t[1] \in Stored
    BY <1>5
  <2> HIDE DEF t
  <2>2. t[1].frame \in Frame
    BY <2>1 DEF Stored
  <2>. QED
    BY <2>2 DEF Frame
<1> HIDE DEF s, x, t, n
<1>8. CASE n = 0
  <2>1. t[1].frame = Head(ring)
    BY <1>4, <1>5, <1>8
  <2>2. Sequence = 0
    BY <1>3, <1>8, OpenedOK, <1>1, HeadType DEF Fits, Gap, GroupOK, n, s
  <2>3. Head(ring).no < Modulus
    BY <1>6, <2>1, AssemblyAssumption DEF t
  <2>4. Head(ring).no = 0
    BY <1>6, <2>2, <2>3, Remainder DEF Sequence
  <2>5. SameRun(t)
    BY <1>5, <1>8, <2>1, <2>4 DEF SameRun
  <2>. QED
    BY <1>2, <1>5, <1>7, <1>8, <2>1, <2>5, Remainder DEF t
<1>9. CASE n # 0
  <2>1. Sequence # 0
    BY <1>1, <1>3, <1>9, OpenedOK DEF n, s
  <2>2. Opened = Unexpired
    BY <2>1 DEF Opened
  <2>3. t[1] = s[1] /\ Len(s) > 0
    BY <1>5, <1>9 DEF n
  <2>4. SameRun(s) /\ Continues(s[n].frame, Head(ring)) /\ Head(ring).no = n
    BY <2>1, <2>2, <2>3, HeadContinues DEF s, n, t
  <2>5. s[n].frame.msg = s[1].frame.msg /\ s[n].frame.sum = s[1].frame.sum
    BY <1>5, <1>9, <2>4 DEF SameRun, n
  <2>6. /\ t[n + 1].frame.msg = t[1].frame.msg /\ t[n + 1].frame.sum = t[1].frame.sum
        /\ t[n + 1].frame.no = (n + 1) - 1
    BY <1>4, <1>5, <2>3, <2>4, <2>5 DEF Continues
  <2>7. \A i \in 1 .. n + 1 : i \in 1 .. n \/ i = n + 1
    BY <1>5
  <2>8. \A i \in 1 .. n : /\ t[i].frame.msg = t[1].frame.msg /\ t[i].frame.sum = t[1].frame.sum
                          /\ t[i].frame.no = i - 1
    BY <1>5, <2>3, <2>4 DEF SameRun, n
  <2>9. SameRun(t)
    BY <1>5, <2>6, <2>7, <2>8 DEF SameRun
  <2>. QED
    BY <1>2, <1>4, <1>5, <1>7, <2>9, Remainder DEF t
<1>. QED
  BY <1>5, <1>8, <1>9

\* Taking a frame keeps the group the run of one message, and what is written is the
\* whole of one.
LEMMA StepRound ==
  ASSUME WholeInv, SendSingle \/ Discard \/ StoreFrame \/ CompleteGroup
  PROVE  RunInv' /\ WholeMessages'
<1>1. TypeOK /\ GroupInv /\ FramesInv /\ ChainInv /\ TakeFrame
  BY DEF WholeInv, GroupInv, SendSingle, Discard, StoreFrame, CompleteGroup
<1>2. SUFFICES ASSUME ~lost', ~refused'
               PROVE  RunOK(pkt'.frames, FirstWaiting') /\ OneMessage'
  BY DEF RunInv, WholeMessages
<1>3. /\ ring # <<>> /\ Head(ring) \in Frame /\ ~lost
      /\ Follows(Head(ring), FirstWaiting') /\ FirstWaiting' \in Frame
      /\ FirstWaiting = Head(ring)
  BY <1>1, <1>2, TakeFrameOK, HeadType, ChainTake
<1>4. ~refused
  BY <1>2 DEF SendSingle, Discard, StoreFrame, CompleteGroup
<1>5. RunOK(pkt.frames, Head(ring))
  BY <1>3, <1>4 DEF WholeInv, RunInv
<1>6. RunOK(EmptyBuffer.frames, FirstWaiting')
  BY DEF RunOK, EmptyBuffer
<1>7. CASE SendSingle
  <2>1. pkt' = pkt /\ Head(ring).sum % Modulus = 1
    BY <1>7 DEF SendSingle, TotalPackets
  <2>2. FirstWaiting'.no = 0 \/ FirstWaiting'.sum % Modulus = 1
    BY <1>3, <2>1 DEF Follows, Continues
  <2>3. RunOK(pkt'.frames, FirstWaiting')
    BY <1>5, <2>1, <2>2 DEF RunOK
  <2>4. PICK x \in Stored : sent' = <<x>> /\ x.frame = Head(ring)
    BY <1>1, <1>3, <1>7, HeadType DEF SendSingle, Write
  <2>5. Head(ring).sum < Modulus => Head(ring).sum = 1
    BY <1>3, <2>1, Remainder DEF Frame
  <2>6. OneMessage'
    BY <2>4, <2>5 DEF OneMessage
  <2>. QED
    BY <2>3, <2>6
<1>8. CASE Discard
  <2>1. sent' = <<>> /\ TotalPackets # 1 /\ ~Refuse
    BY <1>2, <1>8 DEF Discard, Write
  <2>2. OneMessage'
    BY <2>1 DEF OneMessage
  <2>3. CASE OutOfPlace /\ pkt' = Opened
    <3>1. /\ Opened \in Buffer /\ GroupOK(Opened)
          /\ Sequence = 0 => Opened.active /\ Opened.received = 0
      BY <1>1, <1>3, <2>1, OpenedOK
    <3>2. Opened.total \in Nat /\ Opened.received \in Nat /\ Opened.frames \in Seq(Stored)
      BY <3>1 DEF Buffer
    <3>3. Sequence # 0
      BY <2>3, <3>1, <3>2 DEF OutOfPlace, GroupOK
    <3>4. Opened = Unexpired
      BY <3>3 DEF Opened
    <3>5. ASSUME Len(Opened.frames) > 0, Opened.frames[1].frame.sum < Modulus PROVE FALSE
      <4>1. Head(ring).no = Len(Opened.frames)
        BY <1>1, <1>3, <1>4, <2>1, <3>3, <3>4, <3>5, HeadContinues
      <4>2. Opened.active
        BY <3>1, <3>5 DEF GroupOK, EmptyBuffer
      <4>3. Head(ring).no < Opened.total /\ Opened.total <= MaxPackets /\ Head(ring).no \in Nat
        BY <3>1, <3>2, <4>1, <4>2 DEF GroupOK
      <4>4. Sequence = Head(ring).no
        <5>1. Head(ring).no < Modulus
          BY <3>2, <4>3, AssemblyAssumption
        <5>. QED
          BY <4>3, <5>1, Remainder DEF Sequence
      <4>. QED
        BY <2>3, <3>2, <4>2, <4>3, <4>4 DEF OutOfPlace
    <3>. QED
      BY <2>2, <2>3, <3>5 DEF RunOK
  <2>. QED
    BY <1>6, <1>8, <2>1, <2>2, <2>3 DEF Discard
<1>9. CASE StoreFrame \/ CompleteGroup
  <2>1. TotalPackets # 1 /\ Fits
    BY <1>9 DEF StoreFrame, CompleteGroup
  <2>2. /\ WithFrame \in Buffer /\ WithFrame.received = Len(WithFrame.frames)
        /\ WithFrame.received \in 1 .. WithFrame.total
    BY <1>1, <1>3, <2>1, WithFrameOK
  <2>3. WithFrame.frames[1].frame.sum < Modulus =>
          /\ SameRun(WithFrame.frames)
          /\ WithFrame.frames[Len(WithFrame.frames)].frame = Head(ring)
          /\ WithFrame.total = WithFrame.frames[1].frame.sum
    BY <1>1, <1>3, <1>4, <2>1, WithFrameRun
  <2>4. CASE StoreFrame
    <3>1. pkt' = WithFrame /\ sent' = <<>>
      BY <2>4 DEF StoreFrame, Write
    <3>2. RunOK(WithFrame.frames, FirstWaiting')
      BY <1>3, <2>3 DEF RunOK, Follows
    <3>. QED
      BY <3>1, <3>2 DEF OneMessage
  <2>5. CASE CompleteGroup
    <3>1. /\ pkt' = EmptyBuffer /\ sent' = WithFrame.frames
          /\ WithFrame.received = WithFrame.total
      BY <2>5 DEF CompleteGroup, Write
    <3>2. OneMessage'
      BY <2>2, <2>3, <3>1 DEF OneMessage, SameRun
    <3>. QED
      BY <1>6, <3>1, <3>2
  <2>. QED
    BY <1>9, <2>4, <2>5
<1>. QED
  BY <1>7, <1>8, <1>9

\* Every step keeps the frames of a message together.
LEMMA StepWhole ==
  ASSUME WholeInv, FullRuns, NoStaleJoin, WholeMessages, [Next]_vars
  PROVE  WholeInv' /\ WholeMessages'
<1>0. TypeOK /\ GroupInv /\ FramesInv /\ ChainInv /\ RunInv
  BY DEF WholeInv, GroupInv
<1>00. GroupInv'
  BY <1>0, StepGroup
<1>1. ASSUME NEW n \in Totals, StartMessage(n) PROVE WholeInv' /\ WholeMessages'
  <2>1. /\ FramesInv' /\ ChainInv'
        /\ FirstWaiting' = FirstWaiting \/ FirstWaiting'.no = 0
    BY <1>0, <1>1, ChainStart
  <2>2. UNCHANGED <<pkt, sent, lost, refused>>
    BY <1>1 DEF StartMessage
  <2>3. RunInv' /\ WholeMessages'
    BY <1>0, <2>1, <2>2 DEF RunInv, RunOK, WholeMessages, OneMessage
  <2>. QED
    BY <1>00, <2>1, <2>3 DEF WholeInv
<1>2. CASE SendFrame
  <2>1. /\ FramesInv' /\ ChainInv'
        /\ ~lost' => ~lost /\ FirstWaiting' = FirstWaiting
    BY <1>0, <1>2, ChainSend
  <2>2. UNCHANGED <<pkt, sent, refused>>
    BY <1>2 DEF SendFrame
  <2>3. RunInv' /\ WholeMessages'
    BY <1>0, <2>1, <2>2 DEF RunInv, RunOK, WholeMessages, OneMessage
  <2>. QED
    BY <1>00, <2>1, <2>3 DEF WholeInv
<1>3. CASE SendSingle \/ Discard \/ StoreFrame \/ CompleteGroup
  <2>1. TakeFrame
    BY <1>3 DEF SendSingle, Discard, StoreFrame, CompleteGroup
  <2>2. FramesInv' /\ ChainInv'
    BY <1>0, <2>1, ChainTake
  <2>. QED
    BY <1>00, <1>3, <2>2, StepRound DEF WholeInv
<1>4. CASE UNCHANGED <<ring, pkt, msg, sent, lost, refused>>
  <2>1. FramesInv' /\ ChainInv'
    BY <1>0, <1>4 DEF FramesInv, ChainInv, NextFrame
  <2>2. RunInv' /\ WholeMessages'
    BY <1>0, <1>4 DEF RunInv, RunOK, FirstWaiting, NextFrame, WholeMessages, OneMessage
  <2>. QED
    BY <1>00, <2>1, <2>2 DEF WholeInv
<1>. QED
  BY <1>1, <1>2, <1>3, <1>4 DEF Next, StartStop, Tick, vars

\* As long as no frame has been lost or refused, what is written is the whole of one
\* message (axican_data_send_thread, enqueue_normal_can_payload).
THEOREM PacketWholeMessages == Spec => []WholeMessages
<1> DEFINE Inv == WholeInv /\ FullRuns /\ NoStaleJoin /\ WholeMessages
<1>1. Init => Inv
  BY InitGroup, AssemblyAssumption
  DEF Init, WholeInv, FramesInv, ChainInv, RunInv, RunOK, EmptyBuffer, WholeMessages, OneMessage
<1>2. Inv /\ [Next]_vars => Inv'
  BY StepWhole, StepGroup DEF WholeInv
<1>. QED
  BY <1>1, <1>2, PTL DEF Spec

-----------------------------------------------------------------------------
(* A message is written once: its first frame passes once from the PC to   *)
(* the ring, to the group, to the device.                                  *)

\* f was sent before g.
Before(f, g) == f.msg < g.msg \/ (f.msg = g.msg /\ f.sum = g.sum /\ f.no < g.no)

RingOrder ==
  /\ \A i, j \in 1 .. Len(ring) : i < j => Before(ring[i], ring[j])
  /\ \A i \in 1 .. Len(ring) : Before(ring[i], NextFrame)

\* f has left the ring: it was sent before all that waits.
Ahead(f) ==
  /\ f.msg \in Messages /\ f.no < f.sum
  /\ \A i \in 1 .. Len(ring) : Before(f, ring[i])
  /\ Before(f, NextFrame)

OrderInv == RingOrder /\ (Len(pkt.frames) > 0 => Ahead(pkt.frames[1].frame))

\* A first frame that still waits belongs to a message that was not written.
Fresh(f) == f.msg \in Messages /\ f.no = 0 /\ f.sum < Modulus => bursts[f.msg] = 0

FreshInv ==
  /\ \A m \in Messages : m > msg.id => bursts[m] = 0
  /\ \A i \in 1 .. Len(ring) : Fresh(ring[i])
  /\ Fresh(NextFrame)
  /\ Len(pkt.frames) > 0 => Fresh(pkt.frames[1].frame)

OnceInv == GroupInv /\ FramesInv /\ ChainInv /\ OrderInv /\ FreshInv

\* Before is transitive.
LEMMA BeforeTransitive ==
  ASSUME NEW f \in Frame, NEW g \in Frame, NEW h \in Frame, Before(f, g), Before(g, h)
  PROVE  Before(f, h)
BY DEF Before, Frame

\* The first frame of a group is a frame.
LEMMA FirstType == TypeOK /\ Len(pkt.frames) > 0 => pkt.frames[1].frame \in Frame
<1> SUFFICES ASSUME TypeOK, Len(pkt.frames) > 0 PROVE pkt.frames[1].frame \in Frame
  OBVIOUS
<1>1. pkt.frames \in Seq(Stored)
  BY DEF TypeOK
<1>2. pkt.frames[1] \in Stored
  BY <1>1
<1>. QED
  BY <1>2 DEF Stored

\* The frame that leaves the ring, and those that left it earlier, are ahead of the rest.
LEMMA OrderTake ==
  ASSUME TypeOK, FramesInv, ChainInv, RingOrder, TakeFrame
  PROVE  /\ RingOrder'
         /\ \A f \in Frame : f = Head(ring) \/ Ahead(f) => Ahead(f)'
<1>1. /\ ring # <<>> /\ ring \in Seq(Frame) /\ Len(ring) \in Nat \ {0}
      /\ ring' \in Seq(Frame) /\ Len(ring') = Len(ring) - 1
      /\ \A i \in 1 .. Len(ring') : ring'[i] = ring[i + 1]
      /\ Head(ring) = ring[1] /\ msg' = msg
  BY TakeFrameOK
<1>2. NextFrame' = NextFrame
  BY <1>1 DEF NextFrame
<1>3. \A i \in 1 .. Len(ring') : i + 1 \in 1 .. Len(ring) /\ 1 < i + 1
  BY <1>1
<1>4. RingOrder'
  <2>1. ASSUME NEW i \in 1 .. Len(ring'), NEW j \in 1 .. Len(ring'), i < j
        PROVE  Before(ring'[i], ring'[j])
    <3>1. i + 1 < j + 1
      BY <2>1
    <3>2. Before(ring[i + 1], ring[j + 1])
      BY <1>3, <3>1 DEF RingOrder
    <3>. QED
      BY <1>1, <3>2
  <2>2. \A i \in 1 .. Len(ring') : Before(ring'[i], NextFrame)
    BY <1>1, <1>3 DEF RingOrder
  <2>. QED
    BY <1>2, <2>1, <2>2 DEF RingOrder
<1>5. ASSUME NEW f \in Frame, f = Head(ring) \/ Ahead(f) PROVE Ahead(f)'
  <2>1. f.msg \in Messages /\ f.no < f.sum
    BY <1>5, ChainTake DEF Ahead
  <2>2. ASSUME NEW i \in 1 .. Len(ring') PROVE Before(f, ring'[i])
    BY <1>1, <1>3, <1>5 DEF RingOrder, Ahead
  <2>3. Before(f, NextFrame)
    BY <1>1, <1>5 DEF RingOrder, Ahead
  <2>. QED
    BY <1>2, <2>1, <2>2, <2>3 DEF Ahead
<1>. QED
  BY <1>4, <1>5

\* A frame that is sent comes after all that was sent.
LEMMA OrderSend ==
  ASSUME TypeOK, FramesInv, OrderInv, SendFrame
  PROVE  /\ OrderInv'
         /\ \A i \in 1 .. Len(ring') : ring'[i] = NextFrame \/ \E j \in 1 .. Len(ring) : ring'[i] = ring[j]
         /\ NextFrame'.no # 0
<1>1. /\ msg \in [id : Nat, sum : Nat, next : Nat] /\ ring \in Seq(Frame)
      /\ NextFrame \in Frame /\ Len(ring) \in Nat
  BY NextFrameType DEF TypeOK
<1>2. /\ msg' \in [id : Nat, sum : Nat, next : Nat]
      /\ msg'.id = msg.id /\ msg'.sum = msg.sum /\ msg'.next = msg.next + 1
      /\ ring' \in Seq(Frame) /\ pkt' = pkt
      /\ \/ ring' = ring
         \/ /\ Len(ring') = Len(ring) + 1
            /\ \A i \in 1 .. Len(ring) : ring'[i] = ring[i]
            /\ ring'[Len(ring) + 1] = NextFrame
  BY SendFrameOK DEF NextFrame
<1>3. NextFrame' \in Frame /\ Before(NextFrame, NextFrame') /\ NextFrame'.no # 0
  BY <1>1, <1>2 DEF NextFrame, Before, Frame
<1>4. \A f \in Frame : Before(f, NextFrame) => Before(f, NextFrame')
  BY <1>1, <1>3, BeforeTransitive
<1>5. \A i \in 1 .. Len(ring) : ring[i] \in Frame
  BY <1>1
<1>6. \A i \in 1 .. Len(ring') :
        \/ i \in 1 .. Len(ring) /\ ring'[i] = ring[i]
        \/ ring'[i] = NextFrame /\ i = Len(ring) + 1
  BY <1>1, <1>2
<1>7. RingOrder'
  <2>1. ASSUME NEW i \in 1 .. Len(ring'), NEW j \in 1 .. Len(ring'), i < j
        PROVE  Before(ring'[i], ring'[j])
    <3>1. i \in 1 .. Len(ring) /\ ring'[i] = ring[i]
      BY <1>1, <1>2, <1>6, <2>1
    <3>. QED
      BY <1>6, <2>1, <3>1 DEF OrderInv, RingOrder
  <2>2. \A i \in 1 .. Len(ring') : Before(ring'[i], NextFrame')
    BY <1>3, <1>4, <1>5, <1>6 DEF OrderInv, RingOrder
  <2>. QED
    BY <2>1, <2>2 DEF RingOrder
<1>8. ASSUME NEW f \in Frame, Ahead(f) PROVE Ahead(f)'
  <2>1. \A i \in 1 .. Len(ring') : Before(f, ring'[i])
    BY <1>6, <1>8 DEF Ahead
  <2>. QED
    BY <1>4, <1>8, <2>1 DEF Ahead
<1>9. Len(pkt.frames) > 0 => pkt.frames[1].frame \in Frame
  BY FirstType
<1>10. OrderInv'
  <2>1. Len(pkt'.frames) > 0 => Ahead(pkt.frames[1].frame)
    BY <1>2 DEF OrderInv
  <2>2. ASSUME Len(pkt.frames) > 0 PROVE Ahead(pkt.frames[1].frame)'
    <3>1. PICK f \in Frame : f = pkt.frames[1].frame
      BY <1>9, <2>2
    <3>2. Ahead(f)'
      BY <1>2, <1>8, <2>1, <2>2, <3>1
    <3>. QED
      BY <1>2, <3>1, <3>2 DEF Ahead
  <2>. QED
    BY <1>2, <1>7, <2>2 DEF OrderInv
<1>. QED
  BY <1>3, <1>6, <1>10

\* What a round leaves first in the group, and what it writes, was first in the ring or
\* in the group before.
LEMMA RoundFirst ==
  ASSUME GroupInv, SendSingle \/ Discard \/ StoreFrame \/ CompleteGroup
  PROVE  /\ Len(pkt'.frames) > 0 =>
              \/ pkt'.frames[1].frame = Head(ring)
              \/ Len(pkt.frames) > 0 /\ pkt'.frames[1] = pkt.frames[1]
         /\ sent' \in Seq(Stored)
         /\ Len(sent') > 0 =>
              \/ sent'[1].frame = Head(ring)
              \/ Len(pkt.frames) > 0 /\ sent'[1] = pkt.frames[1]
         /\ Len(sent') > 0 =>
              \/ pkt' = EmptyBuffer /\ sent'[1].frame.no % Modulus = 0
              \/ /\ pkt' = pkt /\ sent'[1].frame = Head(ring)
                 /\ Head(ring).sum % Modulus = 1
         /\ \A m \in Messages : bursts'[m] =
              bursts[m] + (IF Len(sent') > 0 /\ sent'[1].frame.msg = m THEN 1 ELSE 0)
<1>1. TypeOK /\ TakeFrame
  BY DEF GroupInv, SendSingle, Discard, StoreFrame, CompleteGroup
<1>2. ring # <<>> /\ [frame |-> Head(ring), at |-> now] \in Stored
  BY <1>1, HeadType, TakeFrameOK
<1>3. \A m \in Messages : bursts'[m] =
              bursts[m] + (IF Len(sent') > 0 /\ sent'[1].frame.msg = m THEN 1 ELSE 0)
  BY DEF SendSingle, Discard, StoreFrame, CompleteGroup, Write
<1>4. Unexpired = pkt \/ Len(Unexpired.frames) = 0
  BY UnexpiredOK DEF EmptyBuffer
<1>5. TotalPackets # 1 /\ ~Refuse => Opened = pkt \/ Len(Opened.frames) = 0
  BY <1>2, <1>4, OpenedOK
<1>6. ASSUME TotalPackets # 1, Fits
      PROVE  /\ \/ WithFrame.frames[1].frame = Head(ring)
                \/ Len(pkt.frames) > 0 /\ WithFrame.frames[1] = pkt.frames[1]
             /\ WithFrame.frames \in Seq(Stored)
             /\ WithFrame.frames[1].frame.no % Modulus = 0
  <2>1. /\ WithFrame \in Buffer
        /\ WithFrame.frames = Append(Opened.frames, [frame |-> Head(ring), at |-> now])
        /\ \A i \in 1 .. Len(WithFrame.frames) : WithFrame.frames[i].frame.no % Modulus = i - 1
    BY <1>2, <1>6, WithFrameOK
  <2>2. Opened \in Buffer /\ ~Refuse
    BY <1>2, <1>6, OpenedOK DEF Fits
  <2>3. Opened.frames \in Seq(Stored) /\ WithFrame.frames \in Seq(Stored)
    BY <2>1, <2>2 DEF Buffer
  <2>4. Len(WithFrame.frames) = Len(Opened.frames) + 1 /\ Len(Opened.frames) \in Nat
    BY <1>2, <2>1, <2>3
  <2>5. WithFrame.frames[1].frame.no % Modulus = 1 - 1
    BY <2>1, <2>4
  <2>6. CASE Len(Opened.frames) = 0
    <3>1. WithFrame.frames[1] = [frame |-> Head(ring), at |-> now]
      BY <1>2, <2>1, <2>3, <2>6
    <3>. QED
      BY <2>3, <2>5, <3>1
  <2>7. CASE Len(Opened.frames) # 0
    <3>1. WithFrame.frames[1] = Opened.frames[1] /\ Opened = pkt
      BY <1>2, <1>5, <1>6, <2>1, <2>2, <2>3, <2>4, <2>7
    <3>. QED
      BY <2>3, <2>4, <2>5, <2>7, <3>1
  <2>. QED
    BY <2>6, <2>7
<1>7. CASE SendSingle
  <2>1. /\ pkt' = pkt /\ sent' = <<[frame |-> Head(ring), at |-> now]>>
        /\ Head(ring).sum % Modulus = 1
    BY <1>7 DEF SendSingle, Write, TotalPackets
  <2>. QED
    BY <1>2, <1>3, <2>1
<1>8. CASE Discard
  <2>1. sent' = <<>> /\ sent' \in Seq(Stored) /\ Len(sent') = 0
    BY <1>8 DEF Discard, Write
  <2>2. pkt' = pkt \/ Len(pkt'.frames) = 0
    BY <1>4, <1>5, <1>8 DEF Discard, EmptyBuffer
  <2>. QED
    BY <1>3, <2>1, <2>2
<1>9. CASE StoreFrame
  <2>1. sent' = <<>> /\ sent' \in Seq(Stored) /\ Len(sent') = 0 /\ pkt' = WithFrame
    BY <1>9 DEF StoreFrame, Write
  <2>. QED
    BY <1>3, <1>6, <1>9, <2>1 DEF StoreFrame
<1>10. CASE CompleteGroup
  <2>1. sent' = WithFrame.frames /\ pkt' = EmptyBuffer /\ Len(pkt'.frames) = 0
    BY <1>10 DEF CompleteGroup, Write, EmptyBuffer
  <2>. QED
    BY <1>3, <1>6, <1>10, <2>1 DEF CompleteGroup
<1>. QED
  BY <1>7, <1>8, <1>9, <1>10

\* A round writes a message only while its first frame was still on its way.
LEMMA OnceRound ==
  ASSUME OnceInv, SendSingle \/ Discard \/ StoreFrame \/ CompleteGroup
  PROVE  OrderInv' /\ FreshInv' /\ WrittenOnce'
<1>1. /\ GroupInv /\ TypeOK /\ FramesInv /\ ChainInv /\ OrderInv /\ RingOrder /\ FreshInv
      /\ TakeFrame
  BY DEF OnceInv, GroupInv, OrderInv, SendSingle, Discard, StoreFrame, CompleteGroup
<1>2. /\ ring # <<>> /\ ring \in Seq(Frame) /\ Len(ring) \in Nat \ {0}
      /\ ring' \in Seq(Frame) /\ Len(ring') = Len(ring) - 1
      /\ \A i \in 1 .. Len(ring') : ring'[i] = ring[i + 1]
      /\ Head(ring) = ring[1] /\ msg' = msg
  BY <1>1, TakeFrameOK
<1>3. /\ Head(ring) \in Frame /\ NextFrame' = NextFrame /\ NextFrame \in Frame
      /\ Head(ring).no < Head(ring).sum /\ Head(ring).msg \in Messages
  BY <1>1, <1>2, HeadType, NextFrameType, ChainTake DEF NextFrame
<1>4. RingOrder' /\ \A f \in Frame : f = Head(ring) \/ Ahead(f) => Ahead(f)'
  BY <1>1, OrderTake
\* The frames on their way that have left the ring
<1>5. \A f \in Frame : f = Head(ring) \/ (Len(pkt.frames) > 0 /\ f = pkt.frames[1].frame)
        => Ahead(f)' /\ Fresh(f)
  <2>1. Fresh(Head(ring))
    BY <1>1, <1>2 DEF FreshInv
  <2>2. Len(pkt.frames) > 0 => Ahead(pkt.frames[1].frame) /\ Fresh(pkt.frames[1].frame)
    BY <1>1 DEF OrderInv, FreshInv
  <2>. QED
    BY <1>4, <2>1, <2>2
<1>6. Len(pkt'.frames) > 0 =>
        /\ pkt'.frames[1].frame \in Frame
        /\ \/ pkt'.frames[1].frame = Head(ring)
           \/ Len(pkt.frames) > 0 /\ pkt'.frames[1].frame = pkt.frames[1].frame
  BY <1>1, <1>3, RoundFirst, FirstType
<1>7. OrderInv'
  <2>1. ASSUME Len(pkt'.frames) > 0 PROVE Ahead(pkt.frames[1].frame)'
    <3>1. PICK f \in Frame : f = pkt'.frames[1].frame /\ Ahead(f)'
      BY <1>5, <1>6, <2>1
    <3>. QED
      BY <3>1 DEF Ahead
  <2>. QED
    BY <1>4, <2>1 DEF OrderInv
<1>8. \A m \in Messages : m \in Nat /\ bursts[m] \in Nat
  BY <1>1, AssemblyAssumption DEF TypeOK, Messages
<1>9. \A f \in Frame : f.msg \in Nat /\ f.no \in Nat /\ f.sum \in Nat
  BY DEF Frame
<1>10. CASE Len(sent') > 0
  <2>1. PICK g \in Frame :
          /\ g = sent'[1].frame
          /\ g = Head(ring) \/ (Len(pkt.frames) > 0 /\ g = pkt.frames[1].frame)
    BY <1>1, <1>3, <1>10, RoundFirst, FirstType
  <2>2. Ahead(g)' /\ Fresh(g)
    BY <1>5, <2>1
  <2>3. /\ \/ pkt' = EmptyBuffer /\ g.no % Modulus = 0
           \/ pkt' = pkt /\ g = Head(ring) /\ g.sum % Modulus = 1
        /\ \A m \in Messages : bursts'[m] = bursts[m] + (IF g.msg = m THEN 1 ELSE 0)
    BY <1>1, <1>10, <2>1, RoundFirst
  <2>4. g.msg \in Messages /\ g.no < g.sum /\ Before(g, NextFrame)
    BY <1>3, <2>2 DEF Ahead
  <2>5. \A i \in 1 .. Len(ring') : Before(g, ring'[i])
    BY <2>2 DEF Ahead
  \* What was sent after g is no first frame of g's message.
  <2>6. ASSUME NEW f \in Frame, Fresh(f), Before(g, f) PROVE Fresh(f)'
    BY <1>8, <1>9, <2>3, <2>6 DEF Fresh, Before
  <2>7. \A i \in 1 .. Len(ring') : Fresh(ring[i])'
    <3>1. ASSUME NEW i \in 1 .. Len(ring') PROVE Fresh(ring[i])'
      <4>1. PICK f \in Frame : f = ring'[i] /\ f = ring[i + 1] /\ i + 1 \in 1 .. Len(ring)
        BY <1>2
      <4>2. Fresh(f)'
        BY <1>1, <2>5, <2>6, <4>1 DEF FreshInv
      <4>. QED
        BY <4>1, <4>2 DEF Fresh
    <3>. QED
      BY <3>1
  <2>8. Fresh(NextFrame)'
    <3>1. PICK f \in Frame : f = NextFrame
      BY <1>3
    <3>2. Fresh(f)'
      BY <1>1, <2>4, <2>6, <3>1 DEF FreshInv
    <3>. QED
      BY <1>3, <3>1, <3>2 DEF Fresh
  <2>9. ASSUME NEW m \in Messages, m > msg.id PROVE bursts'[m] = 0
    <3>1. g.msg <= msg.id
      BY <1>1, <2>4 DEF Before, NextFrame, Frame, TypeOK
    <3>2. g.msg # m /\ bursts[m] = 0
      BY <1>1, <1>8, <1>9, <2>9, <3>1 DEF FreshInv, TypeOK
    <3>. QED
      BY <2>3, <3>2
  <2>10. ASSUME Len(pkt'.frames) > 0 PROVE Fresh(pkt.frames[1].frame)'
    <3>1. pkt' = pkt /\ g = Head(ring) /\ g.sum % Modulus = 1
      BY <2>3, <2>10 DEF EmptyBuffer
    <3>2. PICK f \in Frame : f = pkt.frames[1].frame /\ Fresh(f) /\ Ahead(f)
      BY <1>1, <2>10, <3>1, FirstType DEF FreshInv, OrderInv
    <3>3. Before(f, g)
      BY <1>2, <3>1, <3>2 DEF Ahead
    <3>4. g.sum < Modulus => g.sum = 1
      BY <1>9, <3>1, Remainder
    <3>5. Fresh(f)'
      BY <1>8, <1>9, <2>3, <2>4, <3>2, <3>3, <3>4 DEF Fresh, Before
    <3>. QED
      BY <3>1, <3>2, <3>5 DEF Fresh
  <2>11. FreshInv'
    BY <1>2, <2>7, <2>8, <2>9, <2>10 DEF FreshInv
  <2>12. ASSUME g.sum < Modulus PROVE bursts[g.msg] = 0
    <3>1. g.no < Modulus /\ g.no \in Nat /\ g.sum \in Nat
      BY <1>9, <2>4, <2>12, AssemblyAssumption
    <3>2. g.no = 0
      BY <2>3, <2>4, <2>12, <3>1, Remainder
    <3>. QED
      BY <2>2, <2>4, <2>12, <3>2 DEF Fresh
  <2>13. WrittenOnce'
    BY <1>8, <2>1, <2>3, <2>12 DEF WrittenOnce
  <2>. QED
    BY <1>7, <2>11, <2>13
<1>11. CASE ~(Len(sent') > 0)
  <2>1. \A m \in Messages : bursts'[m] = bursts[m]
    BY <1>1, <1>8, <1>11, RoundFirst
  <2>2. \A i \in 1 .. Len(ring') : Fresh(ring[i])'
    BY <1>1, <1>2, <2>1 DEF FreshInv, Fresh
  <2>3. Fresh(NextFrame)'
    BY <1>1, <1>3, <2>1 DEF FreshInv, Fresh
  <2>4. ASSUME Len(pkt'.frames) > 0 PROVE Fresh(pkt.frames[1].frame)'
    BY <1>5, <1>6, <2>1, <2>4 DEF Fresh
  <2>5. FreshInv'
    BY <1>1, <1>2, <2>1, <2>2, <2>3, <2>4 DEF FreshInv
  <2>. QED
    BY <1>7, <1>11, <2>5 DEF WrittenOnce
<1>. QED
  BY <1>10, <1>11

\* Every step keeps the first frame of a message in one place.
LEMMA StepOnce ==
  ASSUME OnceInv, FullRuns, NoStaleJoin, WrittenOnce, [Next]_vars
  PROVE  OnceInv' /\ WrittenOnce'
<1>0. TypeOK /\ GroupInv /\ FramesInv /\ ChainInv /\ OrderInv /\ FreshInv
  BY DEF OnceInv, GroupInv
<1>00. GroupInv'
  BY <1>0, StepGroup
<1>1. ASSUME NEW n \in Totals, StartMessage(n) PROVE OnceInv' /\ WrittenOnce'
  <2>1. FramesInv' /\ ChainInv'
    BY <1>0, <1>1, ChainStart
  <2>2. /\ UNCHANGED <<ring, pkt, sent, bursts>>
        /\ msg \in [id : Nat, sum : Nat, next : Nat] /\ msg.id < MaxMessages
        /\ msg'.id = msg.id + 1 /\ msg'.sum = n /\ msg'.next = 0 /\ MaxMessages \in Nat
    BY <1>0, <1>1, AssemblyAssumption DEF StartMessage, TypeOK
  <2>3. \A f \in Frame : Before(f, NextFrame) => Before(f, NextFrame')
    BY <2>2 DEF Before, NextFrame, Frame
  <2>4. \A i \in 1 .. Len(ring) : ring[i] \in Frame
    BY <1>0 DEF TypeOK
  <2>5. RingOrder'
    BY <1>0, <2>2, <2>3, <2>4 DEF OrderInv, RingOrder
  <2>6. Len(pkt.frames) > 0 => Ahead(pkt.frames[1].frame)'
    BY <1>0, <2>2, <2>3, FirstType DEF OrderInv, Ahead
  <2>7. OrderInv'
    BY <2>2, <2>5, <2>6 DEF OrderInv
  <2>8. Fresh(NextFrame)'
    BY <1>0, <2>2 DEF FreshInv, Fresh, NextFrame, Messages
  <2>9. FreshInv'
    <3>1. \A m \in Messages : m > msg'.id => m > msg.id
      BY <2>2 DEF Messages
    <3>. QED
      BY <1>0, <2>2, <2>8, <3>1 DEF FreshInv, Fresh
  <2>. QED
    BY <1>00, <2>1, <2>2, <2>7, <2>9 DEF OnceInv, WrittenOnce
<1>2. CASE SendFrame
  <2>1. FramesInv' /\ ChainInv'
    BY <1>0, <1>2, ChainSend
  <2>2. /\ OrderInv'
        /\ \A i \in 1 .. Len(ring') : ring'[i] = NextFrame \/ \E j \in 1 .. Len(ring) : ring'[i] = ring[j]
        /\ NextFrame'.no # 0
    BY <1>0, <1>2, OrderSend
  <2>3. UNCHANGED <<pkt, sent, bursts>> /\ msg'.id = msg.id
    BY <1>0, <1>2, SendFrameOK
  <2>4. FreshInv'
    BY <1>0, <2>2, <2>3 DEF FreshInv, Fresh
  <2>. QED
    BY <1>00, <2>1, <2>2, <2>3, <2>4 DEF OnceInv, WrittenOnce
<1>3. CASE SendSingle \/ Discard \/ StoreFrame \/ CompleteGroup
  <2>1. TakeFrame
    BY <1>3 DEF SendSingle, Discard, StoreFrame, CompleteGroup
  <2>2. FramesInv' /\ ChainInv'
    BY <1>0, <2>1, ChainTake
  <2>. QED
    BY <1>00, <1>3, <2>2, OnceRound DEF OnceInv
<1>4. CASE UNCHANGED <<ring, pkt, msg, sent, lost, bursts>>
  <2>1. FramesInv' /\ ChainInv'
    BY <1>0, <1>4 DEF FramesInv, ChainInv, NextFrame
  <2>2. OrderInv' /\ FreshInv' /\ WrittenOnce'
    BY <1>0, <1>4 DEF OrderInv, RingOrder, Ahead, FreshInv, Fresh, NextFrame, WrittenOnce
  <2>. QED
    BY <1>00, <2>1, <2>2 DEF OnceInv
<1>. QED
  BY <1>1, <1>2, <1>3, <1>4 DEF Next, StartStop, Tick, vars

\* No message that the protocol allows is written to the device twice, whatever is lost,
\* refused, cut short or given up (axican_data_send_thread).
THEOREM PacketWrittenOnce == Spec => []WrittenOnce
<1> DEFINE Inv == OnceInv /\ FullRuns /\ NoStaleJoin /\ WrittenOnce
<1>1. Init => Inv
  <2> SUFFICES ASSUME Init PROVE Inv
    OBVIOUS
  <2>1. /\ ring = <<>> /\ pkt.frames = <<>> /\ sent = <<>> /\ msg.id = 0 /\ msg.sum = 0
        /\ \A m \in Messages : bursts[m] = 0
    BY DEF Init, EmptyBuffer
  <2>2. GroupInv /\ FullRuns /\ NoStaleJoin
    BY InitGroup
  <2>3. FramesInv /\ ChainInv
    BY <2>1, AssemblyAssumption DEF FramesInv, ChainInv
  <2>4. OrderInv /\ FreshInv /\ WrittenOnce
    BY <2>1 DEF OrderInv, RingOrder, FreshInv, Fresh, NextFrame, WrittenOnce
  <2>. QED
    BY <2>2, <2>3, <2>4 DEF OnceInv
<1>2. Inv /\ [Next]_vars => Inv'
  BY StepOnce, StepGroup DEF OnceInv
<1>. QED
  BY <1>1, <1>2, PTL DEF Spec

=============================================================================

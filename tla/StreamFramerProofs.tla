------------------------- MODULE StreamFramerProofs -------------------------
(***************************************************************************)
(* Cutting the stream into packets, proved for every stream, every size of *)
(* header and buffer, and every way TCP may cut the stream.                *)
(***************************************************************************)
EXTENDS StreamFramer, WellFoundedInduction, TLAPS

\* The bytes in the buffer have arrived, and a stream position has a header that is Bad or
\* announces a length.
FramerInv == TypeOK /\ RoomToReceive

\* The constants and the state as numbers.
LEMMA Numbers ==
  ASSUME FramerInv
  PROVE  /\ HeaderSize \in Nat /\ HeaderSize >= 1 /\ Capacity \in Nat /\ Capacity >= HeaderSize
         /\ StreamSize \in Nat /\ arrived \in Nat /\ base \in Nat /\ base >= 1
         /\ Used \in Int /\ arrived <= StreamSize
         /\ \A p \in Positions : stream[p] \in Int /\ (stream[p] # Bad => stream[p] \in Nat)
<1>1. \A p \in Positions : stream[p] \in Lengths \cup {Bad}
  BY DEF FramerInv, TypeOK
<1>2. \A p \in Positions : stream[p] \in Int /\ (stream[p] # Bad => stream[p] \in Nat)
  <2>1. \A x \in Lengths \cup {Bad} : x \in Int /\ (x # Bad => x \in Nat)
    BY FramerAssumption DEF Bad
  <2>. QED
    BY <1>1, <2>1
<1>3. arrived \in 0 .. StreamSize /\ base \in 1 .. StreamSize + 1
  BY DEF FramerInv, TypeOK
<1>. QED
  BY <1>2, <1>3, FramerAssumption DEF Used

\* With a header's bytes in the buffer its first position is one of the stream.
LEMMA HeaderPosition ==
  ASSUME FramerInv, Used >= HeaderSize
  PROVE  base \in Positions
BY Numbers DEF Used, Positions

\* Every step keeps the types, and recv has room whenever the handler calls it.
LEMMA StepFramer == FramerInv /\ [Next]_vars => FramerInv'
<1> SUFFICES ASSUME FramerInv, [Next]_vars PROVE FramerInv'
  OBVIOUS
<1>1. /\ HeaderSize \in Nat /\ HeaderSize >= 1 /\ Capacity \in Nat /\ Capacity >= HeaderSize
      /\ StreamSize \in Nat /\ arrived \in Nat /\ base \in Nat /\ base >= 1
      /\ Used \in Int /\ arrived <= StreamSize
  BY Numbers
<1>2. TypeOK /\ Used \in 0 .. Capacity /\ (state = "recv" => Used < Capacity)
  BY DEF FramerInv, RoomToReceive
<1>3. ASSUME NEW n \in 1 .. Capacity, Receive(n) PROVE FramerInv'
  <2>1. Used' = Used + n
    BY <1>1, <1>3 DEF Receive, Used
  <2>. QED
    BY <1>1, <1>2, <1>3, <2>1 DEF Receive, FramerInv, TypeOK, RoomToReceive
<1>4. CASE NeedMore
  <2>1. Used' = Used
    BY <1>4 DEF NeedMore, Used
  <2>2. Used < Capacity
    <3>1. CASE Used < HeaderSize
      BY <1>1, <3>1
    <3>2. CASE Used >= HeaderSize /\ Credible /\ PacketSize > Used
      <4>1. stream[base] \in Int
        BY <3>2, HeaderPosition, Numbers
      <4>. QED
        BY <1>1, <3>2, <4>1 DEF Credible, PacketSize
    <3>. QED
      BY <1>4, <3>1, <3>2 DEF NeedMore
  <2>. QED
    BY <1>2, <1>4, <2>1, <2>2 DEF NeedMore, FramerInv, TypeOK, RoomToReceive
<1>5. CASE Resynchronise
  <2>1. Used' = Used - 1 /\ Used >= 1
    BY <1>1, <1>5 DEF Resynchronise, Used
  <2>2. base' \in 1 .. StreamSize + 1
    BY <1>1, <1>5, <2>1 DEF Resynchronise, Used
  <2>. QED
    BY <1>1, <1>2, <1>5, <2>1, <2>2 DEF Resynchronise, FramerInv, TypeOK, RoomToReceive
<1>6. CASE Deliver
  <2>1. base \in Positions /\ PacketSize \in Nat /\ PacketSize <= Used /\ PacketSize >= 1
    <3>1. base \in Positions
      BY <1>6, HeaderPosition DEF Deliver
    <3>2. stream[base] \in Nat
      BY <1>6, <3>1, Numbers DEF Deliver, Credible
    <3>. QED
      BY <1>1, <1>6, <3>1, <3>2 DEF Deliver, PacketSize
  <2>2. Used' = Used - PacketSize
    BY <1>1, <1>6, <2>1 DEF Deliver, Used
  <2>3. base' \in 1 .. StreamSize + 1
    BY <1>1, <1>6, <2>1 DEF Deliver, Used
  <2>. QED
    BY <1>1, <1>2, <1>6, <2>1, <2>2, <2>3 DEF Deliver, FramerInv, TypeOK, RoomToReceive
<1>7. CASE UNCHANGED vars
  BY <1>2, <1>7 DEF vars, FramerInv, TypeOK, RoomToReceive, Used
<1>. QED
  BY <1>3, <1>4, <1>5, <1>6, <1>7 DEF Next, Parse

\* The buffer starts empty.
LEMMA InitFramer == Init => FramerInv
BY FramerAssumption DEF Init, FramerInv, TypeOK, RoomToReceive, Used

\* The positions stay inside the stream, and only positions of the stream are handed over
\* as packets (parse_request_packet, process_download_data_batch).
THEOREM FramerTypes == Spec => []TypeOK
<1>1. FramerInv => TypeOK
  BY DEF FramerInv
<1>. QED
  BY <1>1, InitFramer, StepFramer, PTL DEF Spec

\* recv is never asked for zero bytes: a buffer that holds no complete packet has room
\* (the handlers of ports 9009 and 9012).
THEOREM FramerRoom == Spec => []RoomToReceive
<1>1. FramerInv => RoomToReceive
  BY DEF FramerInv
<1>. QED
  BY <1>1, InitFramer, StepFramer, PTL DEF Spec

-----------------------------------------------------------------------------
(* PacketsFrom is what its equation says: the equation has a solution,     *)
(* built from the end of the stream towards its start.                     *)

\* The right-hand side of the equation.
Body(f, p) ==
  LET len == stream[p] IN
  IF p + HeaderSize - 1 > StreamSize THEN {}
  ELSE IF len = Bad \/ len > Capacity - HeaderSize THEN f[p + 1]
  ELSE IF p + HeaderSize + len - 1 > StreamSize THEN {}
  ELSE {p} \cup f[p + HeaderSize + len]

\* f solves the equation at the last n positions.
SolvedAtEnd(f, n) ==
  \A p \in 1 .. StreamSize + 1 : p > StreamSize + 1 - n => f[p] = Body(f, p)

\* A non-empty set of numbers has a least one.
LEMMA LeastNat ==
  ASSUME NEW S \in SUBSET Nat, S # {}
  PROVE  \E s \in S : \A t \in S : s <= t
<1> DEFINE Less == {ss \in Nat \X Nat : ss[1] < ss[2]}
<1>1. IsWellFoundedOn(Less, Nat)
  <2>1. OpToRel(<, Nat) = Less
    BY Zenon DEF OpToRel
  <2>. QED
    BY <2>1, NatLessThanWellFounded, Zenon
<1>2. \E s \in S : \A t \in S : ~(<<t, s>> \in Less)
  <2> HIDE DEF Less
  <2>. QED
    BY <1>1, WFMin, Zenon
<1>3. PICK s \in S : \A t \in S : ~(<<t, s>> \in Less)
  BY <1>2
<1>4. ASSUME NEW t \in S, t < s PROVE FALSE
  <2>1. <<t, s>> \in Nat \X Nat /\ <<t, s>>[1] = t /\ <<t, s>>[2] = s
    OBVIOUS
  <2>2. <<t, s>> \in Less
    BY <1>4, <2>1, Zenon
  <2>. QED
    BY <1>3, <2>2, Zenon
<1>. QED
  BY <1>4

\* The right-hand side at p looks only at later positions of the stream.
LEMMA BodyLooksAhead ==
  ASSUME FramerInv, NEW p \in 1 .. StreamSize + 1, NEW f, NEW g,
         \A q \in 1 .. StreamSize + 1 : q > p => f[q] = g[q]
  PROVE  Body(f, p) = Body(g, p)
<1>1. HeaderSize \in Nat /\ HeaderSize >= 1 /\ StreamSize \in Nat /\ p \in Nat
  BY Numbers
<1>2. CASE p + HeaderSize - 1 > StreamSize
  BY <1>2 DEF Body
<1>3. CASE ~(p + HeaderSize - 1 > StreamSize)
  <2>1. p \in Positions /\ p + 1 \in 1 .. StreamSize + 1 /\ p + 1 > p
    BY <1>1, <1>3 DEF Positions
  <2>2. f[p + 1] = g[p + 1]
    BY <2>1
  <2>3. ASSUME stream[p] # Bad, ~(p + HeaderSize + stream[p] - 1 > StreamSize)
        PROVE  f[p + HeaderSize + stream[p]] = g[p + HeaderSize + stream[p]]
    <3>1. PICK l \in Nat : l = stream[p]
      BY <2>1, <2>3, Numbers
    <3>2. p + HeaderSize + l \in 1 .. StreamSize + 1 /\ p + HeaderSize + l > p
      BY <1>1, <2>3, <3>1
    <3>. QED
      BY <3>1, <3>2
  <2>. QED
    BY <1>3, <2>2, <2>3 DEF Body
<1>. QED
  BY <1>2, <1>3

\* The equation has a solution.
LEMMA SolutionExists ==
  ASSUME FramerInv
  PROVE  \E f : f = [p \in 1 .. StreamSize + 1 |-> Body(f, p)]
<1> DEFINE D == 1 .. StreamSize + 1
           Unsolved == {n \in 0 .. StreamSize + 1 :
                          ~ \E f : f = [p \in D |-> f[p]] /\ SolvedAtEnd(f, n)}
<1>1. StreamSize \in Nat
  BY FramerAssumption
<1>2. Unsolved = {}
  <2>1. SUFFICES ASSUME Unsolved # {} PROVE FALSE
    OBVIOUS
  <2>2. PICK n \in Unsolved : \A t \in Unsolved : n <= t
    <3>1. Unsolved \in SUBSET Nat
      BY <1>1
    <3> HIDE DEF Unsolved
    <3>. QED
      BY <2>1, <3>1, LeastNat
  <2>3. n \in 0 .. StreamSize + 1 /\ ~ \E f : f = [p \in D |-> f[p]] /\ SolvedAtEnd(f, n)
    BY <2>2
  <2>4. n # 0
    <3>1. \E f : f = [p \in D |-> f[p]]
      <4>1. [q \in D |-> {}] = [p \in D |-> [q \in D |-> {}][p]]
        OBVIOUS
      <4>. QED
        BY <4>1
    <3>2. \A f : SolvedAtEnd(f, 0)
      BY <1>1 DEF SolvedAtEnd
    <3>. QED
      BY <2>3, <3>1, <3>2
  <2>5. n - 1 \in 0 .. StreamSize + 1 /\ n - 1 \notin Unsolved
    BY <1>1, <2>2, <2>3, <2>4
  <2>6. PICK g : g = [p \in D |-> g[p]] /\ SolvedAtEnd(g, n - 1)
    BY <2>5
  <2> DEFINE r == StreamSize + 1 - (n - 1)
             h == [p \in D |-> IF p = r THEN Body(g, r) ELSE g[p]]
  <2>7. r \in D
    BY <1>1, <2>3, <2>4
  <2>8. h = [p \in D |-> h[p]]
    OBVIOUS
  <2>9. ASSUME NEW p \in D, p > StreamSize + 1 - n PROVE h[p] = Body(h, p)
    <3>1. \A q \in D : q > p => h[q] = g[q]
      BY <1>1, <2>3, <2>9
    <3>2. Body(h, p) = Body(g, p)
      <4> HIDE DEF h
      <4>. QED
        BY <3>1, BodyLooksAhead
    <3>3. CASE p = r
      BY <2>7, <3>2, <3>3
    <3>4. CASE p # r
      <4>1. p > StreamSize + 1 - (n - 1)
        BY <1>1, <2>3, <2>9, <3>4
      <4>2. g[p] = Body(g, p)
        BY <2>6, <4>1 DEF SolvedAtEnd
      <4>. QED
        BY <3>2, <3>4, <4>2
    <3>. QED
      BY <3>3, <3>4
  <2>10. SolvedAtEnd(h, n)
    <3> HIDE DEF h
    <3>. QED
      BY <2>9 DEF SolvedAtEnd
  <2>. QED
    BY <2>3, <2>8, <2>10
<1>3. PICK f : f = [p \in D |-> f[p]] /\ SolvedAtEnd(f, StreamSize + 1)
  <2>1. StreamSize + 1 \in 0 .. StreamSize + 1
    BY <1>1
  <2>. QED
    BY <1>2, <2>1
<1>4. \A p \in D : f[p] = Body(f, p)
  BY <1>1, <1>3 DEF SolvedAtEnd
<1>5. f = [p \in D |-> Body(f, p)]
  BY <1>3, <1>4
<1>. QED
  BY <1>5

\* PacketsFrom solves its equation.
LEMMA PacketsFromDef ==
  ASSUME FramerInv, NEW p \in 1 .. StreamSize + 1
  PROVE  PacketsFrom[p] = Body(PacketsFrom, p)
<1>1. PacketsFrom = CHOOSE f : f = [q \in 1 .. StreamSize + 1 |-> Body(f, q)]
  BY DEF PacketsFrom, Body
<1>2. PacketsFrom = [q \in 1 .. StreamSize + 1 |-> Body(PacketsFrom, q)]
  BY <1>1, SolutionExists
<1>. QED
  BY <1>2

-----------------------------------------------------------------------------
(* The packets handed over are those of the stream.                        *)

\* Every step hands over the packet that the stream has next, or none.
LEMMA StepSplit ==
  ASSUME FramerInv, SplitIndependent, [Next]_vars
  PROVE  SplitIndependent'
<1>1. /\ HeaderSize \in Nat /\ HeaderSize >= 1 /\ Capacity \in Nat
      /\ StreamSize \in Nat /\ arrived \in Nat /\ base \in Nat /\ base >= 1
      /\ arrived <= StreamSize /\ base \in 1 .. StreamSize + 1
      /\ delivered \in SUBSET Nat
  BY Numbers DEF FramerInv, TypeOK, Positions
<1>2. PacketsFrom' = PacketsFrom
  <2>1. stream' = stream
    BY DEF Next, Parse, Receive, NeedMore, Resynchronise, Deliver, vars
  <2>. QED
    BY <2>1, Zenon DEF PacketsFrom
<1>3. /\ delivered \cup PacketsFrom[base] = PacketsFrom[1]
      /\ \A p \in delivered : p < base
  BY DEF SplitIndependent
<1>4. PacketsFrom[base] = Body(PacketsFrom, base)
  BY <1>1, PacketsFromDef
<1>5. CASE UNCHANGED <<base, delivered>>
  BY <1>2, <1>3, <1>5 DEF SplitIndependent
<1>6. CASE Resynchronise
  <2>1. base \in Positions /\ Used >= HeaderSize /\ ~Credible
    BY <1>6, HeaderPosition DEF Resynchronise
  <2>2. stream[base] \in Int /\ ~(base + HeaderSize - 1 > StreamSize)
    BY <1>1, <2>1, Numbers DEF Used
  <2>3. PacketsFrom[base] = PacketsFrom[base + 1]
    BY <1>1, <1>4, <2>1, <2>2 DEF Body, Credible
  <2>4. base' = base + 1 /\ delivered' = delivered
    BY <1>6 DEF Resynchronise
  <2>. QED
    BY <1>1, <1>2, <1>3, <2>3, <2>4 DEF SplitIndependent
<1>7. CASE Deliver
  <2>1. base \in Positions /\ Used >= HeaderSize /\ Credible /\ PacketSize <= Used
    BY <1>7, HeaderPosition DEF Deliver
  <2>2. PICK l \in Nat : l = stream[base]
    BY <2>1, Numbers DEF Credible
  <2>3. /\ ~(base + HeaderSize - 1 > StreamSize)
        /\ ~(base + HeaderSize + l - 1 > StreamSize)
        /\ ~(l = Bad \/ l > Capacity - HeaderSize)
    BY <1>1, <2>1, <2>2 DEF Used, PacketSize, Credible, Bad
  <2>4. PacketsFrom[base] = {base} \cup PacketsFrom[base + HeaderSize + l]
    BY <1>4, <2>2, <2>3 DEF Body
  <2>5. base' = base + HeaderSize + l /\ delivered' = delivered \cup {base}
    BY <1>1, <1>7, <2>2 DEF Deliver, PacketSize
  <2>6. delivered' \cup PacketsFrom[base'] = PacketsFrom[1]
    BY <1>3, <2>4, <2>5
  <2>7. \A p \in delivered' : p < base'
    BY <1>1, <1>3, <2>5
  <2>. QED
    BY <1>2, <2>6, <2>7 DEF SplitIndependent
<1>. QED
  BY <1>5, <1>6, <1>7 DEF Next, Parse, Receive, NeedMore, vars

\* However TCP cuts the stream, the packets handed over and those still to come are the
\* packets of the whole stream, each once (parse_request_packet,
\* process_download_data_batch).
THEOREM FramerSplitIndependent == Spec => []SplitIndependent
<1>1. Init => SplitIndependent
  BY DEF Init, SplitIndependent
<1>2. FramerInv /\ SplitIndependent /\ [Next]_vars => SplitIndependent'
  BY StepSplit
<1>. QED
  BY <1>1, <1>2, InitFramer, StepFramer, PTL DEF Spec
=============================================================================

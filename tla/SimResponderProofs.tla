------------------------- MODULE SimResponderProofs -------------------------
(***************************************************************************)
(* The device simulator and the reporting thread on one ring, proved for   *)
(* every table of commands, every limit on a batch, on the frames that     *)
(* wait and on the ring, and every traffic.                                *)
(***************************************************************************)
EXTENDS SimResponder, RingBufferProofs, SequenceTheorems, WellFoundedInduction

\* What a thread holds: before the table is loaded the simulator has nothing, a get is for
\* a batch, and a batch has its limit.
ThreadInv ==
  /\ table = <<>> => /\ answer = NoAnswer /\ matched = 0 /\ cached = <<>>
                     /\ batch[Simulator] = <<>> /\ want[Simulator] = 0
  /\ \A t \in Consumers : /\ getter[t] # "idle" => want[t] > 0
                          /\ Len(batch[t]) + want[t] <= BatchSize

\* A command that waits for its frames keeps the entry its first frame matched.
WaitInv ==
  Waiting => /\ matched # 0 /\ matched = FirstMatch(cached[1].key)
             /\ target \in 1 .. MaxWait /\ Len(cached) < MaxWait

SimInv == SimTypeOK /\ ThreadInv /\ WaitInv /\ AnswerMatches

-----------------------------------------------------------------------------
(* Searching the table.                                                    *)

\* A non-empty set of numbers has a least one.
LEMMA LeastNat ==
  ASSUME NEW S \in SUBSET Nat, S # {}
  PROVE  \E s \in S : \A t \in S : s <= t
<1> DEFINE Less == {ss \in Nat \X Nat : ss[1] < ss[2]}
<1>1. IsWellFoundedOn(Less, Nat)
  <2>1. OpToRel(<, Nat) = Less
    BY Zenon DEF OpToRel
  <2>. QED
    BY <2>1, NatLessThanWellFounded, Zenon
<1>2. \E s \in S : \A t \in S : ~(<<t, s>> \in Less)
  <2> HIDE DEF Less
  <2>. QED
    BY <1>1, WFMin, Zenon
<1>3. PICK s \in S : \A t \in S : ~(<<t, s>> \in Less)
  BY <1>2
<1>4. ASSUME NEW t \in S, t < s PROVE FALSE
  <2>1. <<t, s>> \in Nat \X Nat /\ <<t, s>>[1] = t /\ <<t, s>>[2] = s
    OBVIOUS
  <2>2. <<t, s>> \in Less
    BY <1>4, <2>1, Zenon
  <2>. QED
    BY <1>3, <2>2, Zenon
<1>. QED
  BY <1>4

\* The search finds an entry of the table, or none.
LEMMA FirstMatchType ==
  ASSUME SimTypeOK, NEW k
  PROVE  FirstMatch(k) \in 0 .. Len(table)
<1>1. Len(table) \in Nat
  BY DEF SimTypeOK
<1>2. CASE Matches(k) = {}
  BY <1>1, <1>2 DEF FirstMatch
<1>3. CASE Matches(k) # {}
  <2>1. Matches(k) \in SUBSET Nat /\ Matches(k) \subseteq 1 .. Len(table)
    BY <1>1 DEF Matches
  <2>2. \E j \in Matches(k) : \A l \in Matches(k) : j <= l
    BY <1>3, <2>1, LeastNat
  <2>3. FirstMatch(k) = CHOOSE j \in Matches(k) : \A l \in Matches(k) : j <= l
    BY <1>3 DEF FirstMatch
  <2>4. FirstMatch(k) \in Matches(k)
    BY <2>2, <2>3
  <2>. QED
    BY <1>1, <2>1, <2>4
<1>. QED
  BY <1>2, <1>3

\* The frames that an entry of the table waits for.
LEMMA ResponseFramesType ==
  ASSUME SimTypeOK, NEW j \in 1 .. Len(table)
  PROVE  ResponseFrames(j) \in Int
<1>1. table[j] \in Entry
  BY DEF SimTypeOK
<1>2. table[j].len \in Nat
  BY <1>1, SimAssumption DEF Entry
<1>. QED
  BY <1>2 DEF ResponseFrames

\* The search finds the same while the table does not change.
LEMMA FirstMatchStable ==
  ASSUME table' = table, NEW k
  PROVE  FirstMatch(k)' = FirstMatch(k)
<1>1. Matches(k)' = Matches(k)
  BY DEF Matches
<1>. QED
  BY <1>1 DEF FirstMatch

-----------------------------------------------------------------------------
(* The batch.                                                              *)

\* The front of a sequence of frames, and the rest.
LEMMA FrontAndRest ==
  ASSUME NEW s \in Seq(Frame), s # <<>>
  PROVE  /\ Len(s) \in Nat \ {0}
         /\ Head(s) = s[1] /\ Head(s) \in Frame
         /\ Tail(s) \in Seq(Frame) /\ Len(Tail(s)) = Len(s) - 1
         /\ \A i \in 1 .. Len(Tail(s)) : Tail(s)[i] = s[i + 1]
OBVIOUS

-----------------------------------------------------------------------------
(* The ring and its threads.                                               *)

\* There are two threads that get.
LEMMA Threads ==
  /\ Consumers = {Simulator, Reporter} /\ Simulator # Reporter
  /\ Simulator \in Consumers /\ Reporter \in Consumers
BY SimAssumption DEF Simulator, Reporter

\* What the ring holds are frames.
LEMMA ElementsAreFrames == Values \cup {NoValue} \subseteq Frame
BY SimAssumption DEF Frame

\* A frame from the bus is an element of the ring.
LEMMA NewFrame ==
  ASSUME NEW k \in Keys, NEW n \in 0 .. MaxFrames, n < MaxFrames
  PROVE  [id |-> n + 1, key |-> k] \in Values
BY SimAssumption

\* Every step of the system is a step of the ring, or leaves the ring alone; the ring is
\* never reset.
LEMMA RingStep ==
  ASSUME SimTypeOK, [SimNext]_simVars
  PROVE  /\ [Next]_vars
         /\ \/ UNCHANGED vars
            \/ \E k \in Keys : ReceiveFrame(k)
            \/ StoreFrame
            \/ \E t \in Consumers : BeginGet(t) \/ CopyFrame(t) \/ TakeFrame(t)
<1>1. ASSUME NEW k \in Keys, ReceiveFrame(k) PROVE [Next]_vars
  <2>1. received \in 0 .. MaxFrames /\ received < MaxFrames
    BY <1>1 DEF SimTypeOK, ReceiveFrame
  <2>2. PICK f \in Values : f = [id |-> received + 1, key |-> k]
    BY <2>1, NewFrame
  <2>3. PutCheck(f) \/ UNCHANGED vars
    BY <1>1, <2>2 DEF ReceiveFrame
  <2>. QED
    BY <2>3 DEF Next, Producer
<1>2. CASE StoreFrame
  BY <1>2 DEF StoreFrame, Next, Producer
<1>3. ASSUME NEW t \in Consumers, BeginGet(t) \/ CopyFrame(t) \/ TakeFrame(t) PROVE Next
  <2>1. Consumer(t)
    BY <1>3 DEF BeginGet, CopyFrame, TakeFrame, Consumer
  <2>. QED
    BY <2>1 DEF Next
<1>4. ASSUME NEW t \in Consumers, EndBatch(t) PROVE UNCHANGED vars
  BY <1>4 DEF EndBatch
<1>5. ASSUME \/ \E m \in {"normal", "along"} : ChangeMode(m)
             \/ StartStop
             \/ \E e \in Entry : DownloadEntry(e)
             \/ ReadDevice \/ Preload \/ SimulatorBatch \/ ReporterBatch \/ ReportFrame
      PROVE  UNCHANGED vars
  BY <1>5 DEF ChangeMode, StartStop, DownloadEntry, ReadDevice, Preload, SimulatorBatch,
              ReporterBatch, BeginBatch, ReportFrame
<1>6. ASSUME Responder PROVE UNCHANGED vars
  BY <1>6 DEF Responder, Unmatched, RespondAtOnce, StartWaiting, IllegalLength, CacheFrame,
              RespondToGroup
<1>7. ASSUME UNCHANGED simVars PROVE UNCHANGED vars
  BY <1>7 DEF simVars
<1>8. \/ UNCHANGED vars
      \/ \E k \in Keys : ReceiveFrame(k)
      \/ StoreFrame
      \/ \E t \in Consumers : BeginGet(t) \/ CopyFrame(t) \/ TakeFrame(t)
  BY <1>4, <1>5, <1>6, <1>7 DEF SimNext, Get
<1>. QED
  BY <1>1, <1>2, <1>3, <1>8

\* The frame that a get returns is a frame.
LEMMA BufferType ==
  ASSUME SimTypeOK, NEW t \in Consumers
  PROVE  buf[t] \in Frame
<1>1. buf[t] \in Values \cup {NoValue}
  BY DEF SimTypeOK, TypeOK
<1>. QED
  BY <1>1, ElementsAreFrames

\* Configuration, download and the receive thread keep the invariant.
LEMMA EnvironmentStep ==
  ASSUME SimInv, [SimNext]_simVars,
         \/ \E m \in {"normal", "along"} : ChangeMode(m)
         \/ StartStop
         \/ \E e \in Entry : DownloadEntry(e)
         \/ ReadDevice
         \/ \E k \in Keys : ReceiveFrame(k)
         \/ StoreFrame
  PROVE  SimInv'
<1>1. SimTypeOK /\ ThreadInv /\ WaitInv /\ AnswerMatches
  BY DEF SimInv
<1>2. UNCHANGED <<want, batch, table, cached, target, matched, answer, shown, skipped, met>>
  BY DEF ChangeMode, StartStop, DownloadEntry, ReadDevice, ReceiveFrame, StoreFrame,
         threadVars, waitVars, historyVars
<1>3. \A k : FirstMatch(k)' = FirstMatch(k)
  BY <1>2, FirstMatchStable
<1>4. getter' = getter
  BY DEF ChangeMode, StartStop, DownloadEntry, ReadDevice, ReceiveFrame, StoreFrame,
         PutCheck, PutCopy, PutPublish, getVars, vars
<1>5. ThreadInv' /\ WaitInv' /\ AnswerMatches'
  BY <1>1, <1>2, <1>3, <1>4 DEF ThreadInv, WaitInv, AnswerMatches, Waiting
<1>6. TypeOK'
  <2>1. TypeOK
    BY <1>1 DEF SimTypeOK
  <2>. QED
    BY <1>1, <2>1, RingStep, StepTypeOK
<1>7. /\ simRing \in Seq(Entry) /\ Len(simRing) <= MaxEntries
      /\ received \in 0 .. MaxFrames
      /\ mode \in {"init", "normal", "along"} /\ opened \in BOOLEAN /\ reading \in BOOLEAN
      /\ MaxEntries \in Nat /\ MaxFrames \in Nat
  BY <1>1, SimAssumption DEF SimTypeOK
<1>8. /\ simRing' \in Seq(Entry) /\ Len(simRing') <= MaxEntries
      /\ received' \in 0 .. MaxFrames
      /\ mode' \in {"init", "normal", "along"}
  <2>1. CASE \/ \E m \in {"normal", "along"} : ChangeMode(m)
             \/ StartStop \/ ReadDevice
    <3>1. UNCHANGED <<simRing, received>>
      BY <2>1 DEF ChangeMode, StartStop, ReadDevice
    <3>2. mode' \in {"init", "normal", "along"}
      BY <1>7, <2>1 DEF ChangeMode, StartStop, ReadDevice
    <3>. QED
      BY <1>7, <3>1, <3>2
  <2>2. CASE \E k \in Keys : ReceiveFrame(k)
    <3>1. UNCHANGED <<mode, simRing>> /\ received' = received + 1 /\ received < MaxFrames
      BY <2>2 DEF ReceiveFrame
    <3>. QED
      BY <1>7, <3>1
  <2>3. CASE StoreFrame
    <3>1. UNCHANGED <<mode, simRing, received>>
      BY <2>3 DEF StoreFrame, channelVars
    <3>. QED
      BY <1>7, <3>1
  <2>4. ASSUME NEW e \in Entry, DownloadEntry(e)
        PROVE  /\ simRing' \in Seq(Entry) /\ Len(simRing') <= MaxEntries
               /\ UNCHANGED <<mode, received>>
    <3>1. simRing' = Append(simRing, e) /\ Len(simRing) < MaxEntries
      BY <2>4 DEF DownloadEntry, EnqueueEntry
    <3>2. UNCHANGED <<mode, received>>
      BY <2>4 DEF DownloadEntry
    <3>. QED
      BY <1>7, <3>1, <3>2
  <2>5. CASE \E e \in Entry : DownloadEntry(e)
    BY <1>7, <2>4, <2>5
  <2>. QED
    BY <2>1, <2>2, <2>3, <2>5
<1>9. opened' \in BOOLEAN /\ reading' \in BOOLEAN
  BY <1>7 DEF ChangeMode, StartStop, DownloadEntry, ReadDevice, ReceiveFrame, StoreFrame, channelVars
<1>10. SimTypeOK'
  BY <1>1, <1>2, <1>6, <1>8, <1>9 DEF SimTypeOK
<1>. QED
  BY <1>5, <1>10 DEF SimInv

\* A step that leaves the table and the waiting command alone: what is left to show of it.
LEMMA HandsStep ==
  ASSUME SimInv, [SimNext]_simVars,
         UNCHANGED <<channelVars, table, waitVars, answer, skipped>>,
         want' \in [Consumers -> 0 .. BatchSize],
         batch' \in [Consumers -> Seq(Frame)],
         shown' \in [Consumers -> SUBSET Nat],
         met' \in 0 .. MaxMet,
         table = <<>> => batch'[Simulator] = <<>> /\ want'[Simulator] = 0,
         \A t \in Consumers : /\ getter'[t] # "idle" => want'[t] > 0
                              /\ Len(batch'[t]) + want'[t] <= BatchSize
  PROVE  SimInv'
<1>1. SimTypeOK /\ ThreadInv /\ WaitInv /\ AnswerMatches
  BY DEF SimInv
<1>2. UNCHANGED <<mode, opened, reading, simRing, received, table, cached, target, matched,
                  answer, skipped>>
  BY DEF channelVars, waitVars
<1>3. \A k : FirstMatch(k)' = FirstMatch(k)
  BY <1>2, FirstMatchStable
<1>4. TypeOK'
  <2>1. TypeOK
    BY <1>1 DEF SimTypeOK
  <2>. QED
    BY <1>1, <2>1, RingStep, StepTypeOK
<1>5. SimTypeOK'
  BY <1>1, <1>2, <1>4 DEF SimTypeOK
<1>6. ThreadInv'
  BY <1>1, <1>2 DEF ThreadInv
<1>7. WaitInv' /\ AnswerMatches'
  BY <1>1, <1>2, <1>3 DEF WaitInv, Waiting, AnswerMatches
<1>. QED
  BY <1>5, <1>6, <1>7 DEF SimInv

\* The table is loaded before anything is matched.
LEMMA PreloadStep ==
  ASSUME SimInv, [SimNext]_simVars, Preload
  PROVE  SimInv'
<1>1. SimTypeOK /\ ThreadInv /\ WaitInv /\ AnswerMatches
  BY DEF SimInv
<1>2. /\ answer = NoAnswer /\ matched = 0 /\ cached = <<>>
      /\ Len(simRing) >= MinEntries /\ table' = simRing /\ simRing' = <<>>
      /\ UNCHANGED <<mode, opened, reading, received, want, batch, cached, target, matched,
                     answer, shown, skipped, met>>
  BY <1>1 DEF Preload, ThreadInv, waitVars, historyVars
<1>3. UNCHANGED getter
  BY DEF Preload, vars
<1>4. /\ simRing' \in Seq(Entry) /\ Len(simRing') <= MaxEntries
      /\ table' \in Seq(Entry) /\ table' # <<>> /\ matched' \in 0 .. Len(table')
  BY <1>1, <1>2, SimAssumption DEF SimTypeOK
<1>5. TypeOK'
  <2>1. TypeOK
    BY <1>1 DEF SimTypeOK
  <2>. QED
    BY <1>1, <2>1, RingStep, StepTypeOK
<1>6. SimTypeOK'
  BY <1>1, <1>2, <1>4, <1>5 DEF SimTypeOK
<1>7. ThreadInv'
  BY <1>1, <1>2, <1>3, <1>4 DEF ThreadInv
<1>8. WaitInv' /\ AnswerMatches'
  BY <1>1, <1>2 DEF WaitInv, Waiting, AnswerMatches
<1>. QED
  BY <1>6, <1>7, <1>8 DEF SimInv

\* A thread reads the length of the ring and asks for no more than a batch holds.
LEMMA BatchStep ==
  ASSUME SimInv, [SimNext]_simVars, NEW t \in Consumers, BeginBatch(t),
         t = Simulator => table # <<>>
  PROVE  SimInv'
<1>1. SimTypeOK /\ ThreadInv
  BY DEF SimInv
<1>2. /\ want \in [Consumers -> 0 .. BatchSize] /\ batch \in [Consumers -> Seq(Frame)]
      /\ BatchSize \in Nat /\ met \in 0 .. MaxMet /\ shown \in [Consumers -> SUBSET Nat]
  BY <1>1, SimAssumption DEF SimTypeOK
<1>3. /\ want[t] = 0 /\ batch[t] = <<>> /\ Used >= 1
      /\ want' = [want EXCEPT ![t] = Smaller(Used, BatchSize)]
      /\ UNCHANGED <<channelVars, batch, table, waitVars, answer, shown, skipped, met, getter>>
  BY DEF BeginBatch, vars, historyVars
<1>4. Used \in Nat
  <2>1. in \in 0 .. Modulus - 1 /\ out \in 0 .. Modulus - 1 /\ Modulus \in Nat
    BY <1>1, RingAssumption DEF SimTypeOK, TypeOK
  <2>. QED
    BY <2>1 DEF Used
<1>5. PICK w \in 0 .. BatchSize : w = Smaller(Used, BatchSize)
  BY <1>2, <1>4 DEF Smaller
<1>6. want' = [want EXCEPT ![t] = w]
  BY <1>3, <1>5
<1>7. want' \in [Consumers -> 0 .. BatchSize] /\ want'[t] = w
  BY <1>2, <1>6
<1>8. \A d \in Consumers : d # t => want'[d] = want[d]
  BY <1>2, <1>6
<1>9. getter[t] = "idle"
  <2>1. getter[t] # "idle" => want[t] > 0
    BY <1>1 DEF ThreadInv
  <2>. QED
    BY <1>3, <2>1
<1>10. ASSUME NEW d \in Consumers
       PROVE  /\ getter'[d] # "idle" => want'[d] > 0
              /\ Len(batch'[d]) + want'[d] <= BatchSize
  <2>1. CASE d = t
    <3>1. Len(batch'[d]) = 0 /\ want'[d] = w
      BY <1>3, <1>7, <2>1
    <3>2. 0 + w <= BatchSize
      BY <1>2
    <3>. QED
      BY <1>3, <1>9, <2>1, <3>1, <3>2
  <2>2. CASE d # t
    BY <1>1, <1>3, <1>8, <2>2 DEF ThreadInv
  <2>. QED
    BY <2>1, <2>2
<1>11. table = <<>> => batch'[Simulator] = <<>> /\ want'[Simulator] = 0
  BY <1>1, <1>3, <1>8, Threads DEF ThreadInv
<1>. QED
  BY <1>2, <1>3, <1>7, <1>10, <1>11, HandsStep

\* A get in its steps: the frame goes to the batch of the thread that called it, and the
\* batch grows by no more than was asked for.
LEMMA GetStep ==
  ASSUME SimInv, [SimNext]_simVars, NEW t \in Consumers, Get(t)
  PROVE  SimInv'
<1>1. SimTypeOK /\ ThreadInv
  BY DEF SimInv
<1>2. /\ want \in [Consumers -> 0 .. BatchSize] /\ batch \in [Consumers -> Seq(Frame)]
      /\ BatchSize \in Nat /\ met \in 0 .. MaxMet /\ shown \in [Consumers -> SUBSET Nat]
      /\ getter \in [Consumers -> {"idle", "copy", "advance"}]
      /\ MaxMet \in Nat
  BY <1>1, SimAssumption DEF SimTypeOK, TypeOK
<1>3. \A d \in Consumers : /\ getter[d] # "idle" => want[d] > 0
                           /\ Len(batch[d]) + want[d] <= BatchSize
  BY <1>1 DEF ThreadInv
<1>4. table = <<>> => batch[Simulator] = <<>> /\ want[Simulator] = 0
  BY <1>1 DEF ThreadInv
<1>5. CASE BeginGet(t)
  <2>1. /\ want[t] > 0 /\ getter' = [getter EXCEPT ![t] = "copy"]
        /\ met' <= MaxMet /\ met' \in {0, met + 1}
        /\ UNCHANGED <<channelVars, want, batch, table, waitVars, answer, shown, skipped>>
    BY <1>5 DEF BeginGet, GetCheck
  <2>2. met' \in 0 .. MaxMet
    BY <1>2, <2>1
  <2>3. \A d \in Consumers : getter'[d] # "idle" => want'[d] > 0
    BY <1>2, <1>3, <2>1
  <2>. QED
    BY <1>2, <1>3, <1>4, <2>1, <2>2, <2>3, HandsStep
<1>6. CASE CopyFrame(t)
  <2>1. /\ getter[t] = "copy" /\ getter' = [getter EXCEPT ![t] = "advance"]
        /\ UNCHANGED <<channelVars, want, batch, table, waitVars, answer, shown, skipped, met>>
    BY <1>6 DEF CopyFrame, GetCopy, threadVars, historyVars
  <2>2. \A d \in Consumers : getter'[d] # "idle" => want'[d] > 0
    BY <1>2, <1>3, <2>1
  <2>. QED
    BY <1>2, <1>3, <1>4, <2>1, <2>2, HandsStep
<1>7. CASE TakeFrame(t)
  <2>1. /\ getter[t] = "advance" /\ getter' = [getter EXCEPT ![t] = "idle"]
        /\ batch' = [batch EXCEPT ![t] = Append(batch[t], buf[t])]
        /\ want' = [want EXCEPT ![t] = want[t] - 1]
        /\ UNCHANGED <<channelVars, table, waitVars, answer, shown, skipped, met>>
    BY <1>7 DEF TakeFrame, GetAdvance, historyVars
  <2>2. buf[t] \in Frame
    BY <1>1, BufferType
  <2>3. want[t] > 0 /\ want[t] - 1 \in 0 .. BatchSize
    BY <1>2, <1>3, <2>1
  <2>4. /\ Append(batch[t], buf[t]) \in Seq(Frame)
        /\ Len(Append(batch[t], buf[t])) = Len(batch[t]) + 1 /\ Len(batch[t]) \in Nat
    BY <1>2, <2>2
  <2>5. want' \in [Consumers -> 0 .. BatchSize] /\ batch' \in [Consumers -> Seq(Frame)]
    BY <1>2, <2>1, <2>3, <2>4
  <2>6. ASSUME NEW d \in Consumers
        PROVE  /\ getter'[d] # "idle" => want'[d] > 0
               /\ Len(batch'[d]) + want'[d] <= BatchSize
    <3>1. CASE d = t
      <4>1. /\ getter'[d] = "idle" /\ want'[d] = want[t] - 1
            /\ batch'[d] = Append(batch[t], buf[t])
        BY <1>2, <2>1, <3>1
      <4>2. (Len(batch[t]) + 1) + (want[t] - 1) <= BatchSize
        BY <1>2, <1>3, <2>4
      <4>. QED
        BY <2>4, <4>1, <4>2
    <3>2. CASE d # t
      <4>1. getter'[d] = getter[d] /\ want'[d] = want[d] /\ batch'[d] = batch[d]
        BY <1>2, <2>1, <3>2
      <4>. QED
        BY <1>3, <4>1
    <3>. QED
      BY <3>1, <3>2
  <2>7. table = <<>> => batch'[Simulator] = <<>> /\ want'[Simulator] = 0
    <3>1. table = <<>> => t # Simulator
      BY <1>4, <2>3
    <3>2. t # Simulator => batch'[Simulator] = batch[Simulator] /\ want'[Simulator] = want[Simulator]
      BY <1>2, <2>1, Threads
    <3>. QED
      BY <1>4, <3>1, <3>2
  <2>. QED
    BY <1>2, <2>1, <2>5, <2>6, <2>7, HandsStep
<1>8. CASE EndBatch(t)
  <2>1. /\ getter[t] = "idle" /\ want' = [want EXCEPT ![t] = 0]
        /\ UNCHANGED <<channelVars, batch, table, waitVars, answer, shown, skipped, met, getter>>
    BY <1>8 DEF EndBatch, vars, historyVars
  <2>2. want' \in [Consumers -> 0 .. BatchSize]
    BY <1>2, <2>1
  <2>3. \A d \in Consumers : want'[d] = IF d = t THEN 0 ELSE want[d]
    BY <1>2, <2>1
  <2>4. \A d \in Consumers : Len(batch[d]) \in Nat /\ want[d] \in Nat
    BY <1>2
  <2>5. ASSUME NEW d \in Consumers
        PROVE  /\ getter'[d] # "idle" => want'[d] > 0
               /\ Len(batch'[d]) + want'[d] <= BatchSize
    BY <1>2, <1>3, <2>1, <2>3, <2>4
  <2>6. table = <<>> => batch'[Simulator] = <<>> /\ want'[Simulator] = 0
    BY <1>4, <2>1, <2>3, Threads
  <2>. QED
    BY <1>2, <2>1, <2>2, <2>5, <2>6, HandsStep
<1>. QED
  BY <1>5, <1>6, <1>7, <1>8 DEF Get

\* Numbers of frames are numbers.
LEMMA IdsType ==
  ASSUME NEW s \in Seq(Frame)
  PROVE  Ids(s) \in SUBSET Nat
<1>1. \A i \in 1 .. Len(s) : s[i] \in Frame
  OBVIOUS
<1>2. \A i \in 1 .. Len(s) : s[i].id \in Nat
  BY <1>1 DEF Frame
<1>. QED
  BY <1>2 DEF Ids

\* The reporting thread uploads the front of its batch.
LEMMA ReportStep ==
  ASSUME SimInv, [SimNext]_simVars, ReportFrame
  PROVE  SimInv'
<1>1. SimTypeOK /\ ThreadInv
  BY DEF SimInv
<1>2. /\ want \in [Consumers -> 0 .. BatchSize] /\ batch \in [Consumers -> Seq(Frame)]
      /\ BatchSize \in Nat /\ met \in 0 .. MaxMet /\ shown \in [Consumers -> SUBSET Nat]
  BY <1>1, SimAssumption DEF SimTypeOK
<1>3. /\ batch[Reporter] # <<>>
      /\ shown' = [shown EXCEPT ![Reporter] =
                     shown[Reporter] \cup Ids(<<Head(batch[Reporter])>>)]
      /\ batch' = [batch EXCEPT ![Reporter] = Tail(batch[Reporter])]
      /\ UNCHANGED <<channelVars, want, table, waitVars, answer, skipped, met, getter>>
  BY DEF ReportFrame, HasBatch, Upload, vars
<1>4. /\ Head(batch[Reporter]) \in Frame /\ Tail(batch[Reporter]) \in Seq(Frame)
      /\ Len(Tail(batch[Reporter])) = Len(batch[Reporter]) - 1
      /\ Len(batch[Reporter]) \in Nat
  BY <1>2, <1>3, FrontAndRest, Threads
<1>5. Ids(<<Head(batch[Reporter])>>) \in SUBSET Nat
  <2>1. <<Head(batch[Reporter])>> \in Seq(Frame)
    BY <1>4
  <2>. QED
    BY <2>1, IdsType
<1>6. shown' \in [Consumers -> SUBSET Nat] /\ batch' \in [Consumers -> Seq(Frame)]
  <2>1. batch' \in [Consumers -> Seq(Frame)]
    BY <1>2, <1>3, <1>4, Threads
  <2>2. PICK w \in SUBSET Nat : w = shown[Reporter] \cup Ids(<<Head(batch[Reporter])>>)
    BY <1>2, <1>5, Threads
  <2>3. shown' = [shown EXCEPT ![Reporter] = w]
    BY <1>3, <2>2
  <2>4. shown' \in [Consumers -> SUBSET Nat]
    BY <1>2, <2>3, Threads
  <2>. QED
    BY <2>1, <2>4
<1>7. \A d \in Consumers : batch'[d] = IF d = Reporter THEN Tail(batch[Reporter]) ELSE batch[d]
  BY <1>2, <1>3
<1>8. ASSUME NEW d \in Consumers
      PROVE  /\ getter'[d] # "idle" => want'[d] > 0
             /\ Len(batch'[d]) + want'[d] <= BatchSize
  <2>1. /\ getter[d] # "idle" => want[d] > 0
        /\ Len(batch[d]) + want[d] <= BatchSize
        /\ want[d] \in Nat
    BY <1>1, <1>2 DEF ThreadInv
  <2>. QED
    BY <1>2, <1>3, <1>4, <1>7, <2>1
<1>9. table = <<>> => batch'[Simulator] = <<>> /\ want'[Simulator] = 0
  BY <1>1, <1>3, <1>7, Threads DEF ThreadInv
<1>. QED
  BY <1>2, <1>3, <1>6, <1>8, <1>9, HandsStep

\* A round takes the front of the batch, and keeps the rest or drops it.
LEMMA BatchRound ==
  ASSUME SimTypeOK, ThreadInv, HasBatch(Simulator), NextOfBatch \/ LeaveBatch
  PROVE  /\ want[Simulator] = 0 /\ table # <<>>
         /\ Current \in Frame /\ Current.key \in Keys /\ Current.id \in Nat
         /\ batch' \in [Consumers -> Seq(Frame)]
         /\ Len(batch'[Simulator]) <= Len(batch[Simulator])
         /\ \A t \in Consumers : t # Simulator => batch'[t] = batch[t]
         /\ skipped' \in BOOLEAN
<1>1. /\ batch \in [Consumers -> Seq(Frame)] /\ skipped \in BOOLEAN
      /\ batch[Simulator] \in Seq(Frame) /\ batch[Simulator] # <<>> /\ want[Simulator] = 0
  BY Threads DEF SimTypeOK, HasBatch
<1>2. /\ Head(batch[Simulator]) \in Frame /\ Tail(batch[Simulator]) \in Seq(Frame)
      /\ Len(Tail(batch[Simulator])) = Len(batch[Simulator]) - 1
      /\ Len(batch[Simulator]) \in Nat
  BY <1>1, FrontAndRest
<1>3. PICK b \in Seq(Frame) : /\ batch' = [batch EXCEPT ![Simulator] = b]
                              /\ Len(b) <= Len(batch[Simulator])
  <2>1. CASE NextOfBatch
    <3>1. batch' = [batch EXCEPT ![Simulator] = Tail(batch[Simulator])]
      BY <2>1 DEF NextOfBatch
    <3>2. Len(Tail(batch[Simulator])) <= Len(batch[Simulator])
      BY <1>2
    <3>. QED
      BY <1>2, <3>1, <3>2, Zenon
  <2>2. CASE LeaveBatch
    <3>1. batch' = [batch EXCEPT ![Simulator] = <<>>]
      BY <2>2 DEF LeaveBatch
    <3>2. <<>> \in Seq(Frame) /\ Len(<<>>) <= Len(batch[Simulator])
      BY <1>2
    <3>. QED
      BY <3>1, <3>2
  <2>. QED
    BY <2>1, <2>2
<1>4. /\ batch' \in [Consumers -> Seq(Frame)] /\ batch'[Simulator] = b
      /\ \A t \in Consumers : t # Simulator => batch'[t] = batch[t]
  BY <1>1, <1>3, Threads
<1>5. Current \in Frame /\ Current.key \in Keys /\ Current.id \in Nat
  BY <1>2 DEF Current, Frame
<1>6. table # <<>>
  BY <1>1 DEF ThreadInv
<1>7. skipped' \in BOOLEAN
  BY <1>1, Zenon DEF NextOfBatch, LeaveBatch
<1>. QED
  BY <1>1, <1>3, <1>4, <1>5, <1>6, <1>7

\* A round of the loop over the batch.
LEMMA MatchStep ==
  ASSUME SimInv, [SimNext]_simVars, Responder
  PROVE  SimInv'
<1>1. SimTypeOK /\ ThreadInv /\ WaitInv /\ AnswerMatches
  BY DEF SimInv
<1>2. HasBatch(Simulator) /\ (NextOfBatch \/ LeaveBatch)
  BY DEF Responder, Unmatched, RespondAtOnce, StartWaiting, IllegalLength, CacheFrame,
         RespondToGroup
<1>3. UNCHANGED <<mode, opened, reading, simRing, received, table, want, met, getter>>
  BY DEF Responder, Unmatched, RespondAtOnce, StartWaiting, IllegalLength, CacheFrame,
         RespondToGroup, vars, channelVars
<1>4. /\ want[Simulator] = 0 /\ table # <<>>
      /\ Current \in Frame /\ Current.key \in Keys /\ Current.id \in Nat
      /\ batch' \in [Consumers -> Seq(Frame)]
      /\ Len(batch'[Simulator]) <= Len(batch[Simulator])
      /\ \A t \in Consumers : t # Simulator => batch'[t] = batch[t]
      /\ skipped' \in BOOLEAN
  BY <1>1, <1>2, BatchRound
<1>5. \A k : FirstMatch(k)' = FirstMatch(k)
  BY <1>3, FirstMatchStable
<1>6. ThreadInv'
  <2>1. ASSUME NEW t \in Consumers
        PROVE  /\ getter[t] # "idle" => want[t] > 0
               /\ Len(batch'[t]) + want[t] <= BatchSize
    <3>1. /\ getter[t] # "idle" => want[t] > 0
          /\ Len(batch[t]) + want[t] <= BatchSize
      BY <1>1 DEF ThreadInv
    <3>2. /\ Len(batch[t]) \in Nat /\ Len(batch'[t]) \in Nat /\ want[t] \in Nat
          /\ BatchSize \in Nat /\ Len(batch'[t]) <= Len(batch[t])
      BY <1>1, <1>4, SimAssumption DEF SimTypeOK
    <3>. QED
      BY <3>1, <3>2
  <2>. QED
    BY <1>3, <1>4, <2>1 DEF ThreadInv
<1>7. /\ cached \in Seq(Frame) /\ Len(cached) \in Nat /\ matched \in 0 .. Len(table)
      /\ target \in Int /\ Len(table) \in Nat /\ shown \in [Consumers -> SUBSET Nat]
      /\ answer \in [entry : 1 .. Len(table), key : Keys] \cup {NoAnswer}
      /\ MaxWait \in Nat /\ MaxWait > 1
  BY <1>1, SimAssumption DEF SimTypeOK
<1> DEFINE j == FirstMatch(Current.key)
<1>8. j \in 0 .. Len(table)
  BY <1>1, FirstMatchType
<1>9. j # 0 => ResponseFrames(j) \in Int
  BY <1>1, <1>7, <1>8, ResponseFramesType
<1>10. TypeOK'
  <2>1. TypeOK
    BY <1>1 DEF SimTypeOK
  <2>. QED
    BY <1>1, <2>1, RingStep, StepTypeOK
<1>11. ASSUME NEW s \in Seq(Frame), Upload(Simulator, s) PROVE shown' \in [Consumers -> SUBSET Nat]
  <2>1. PICK w \in SUBSET Nat : w = shown[Simulator] \cup Ids(s)
    BY <1>7, IdsType, Threads
  <2>2. shown' = [shown EXCEPT ![Simulator] = w]
    BY <1>11, <2>1 DEF Upload
  <2>. QED
    BY <1>7, <2>2, Threads
\* What is left to show of each round
<1>12. SUFFICES /\ cached' \in Seq(Frame) /\ target' \in Int /\ matched' \in 0 .. Len(table)
                /\ answer' \in [entry : 1 .. Len(table), key : Keys] \cup {NoAnswer}
                /\ shown' \in [Consumers -> SUBSET Nat]
                /\ WaitInv' /\ AnswerMatches'
  BY <1>1, <1>3, <1>4, <1>6, <1>10 DEF SimInv, SimTypeOK
<1> HIDE DEF j
<1>13. CASE Unmatched
  <2>1. /\ cached' = cached /\ cached = <<>> /\ target' = 0 /\ matched' = 0 /\ answer' = answer
        /\ shown' = shown
    BY <1>13 DEF Unmatched, Waiting
  <2>. QED
    BY <1>1, <1>5, <1>7, <2>1 DEF WaitInv, Waiting, AnswerMatches
<1>14. CASE RespondAtOnce
  <2>1. /\ cached' = cached /\ cached = <<>> /\ target' = 0 /\ matched' = j /\ j # 0
        /\ answer' = [entry |-> j, key |-> <<Current>>[1].key]
        /\ Upload(Simulator, <<Current>>)
    BY <1>14 DEF RespondAtOnce, Waiting, Respond, j
  <2>2. answer' = [entry |-> j, key |-> Current.key]
    BY <2>1
  <2>3. answer'.entry = FirstMatch(answer'.key) /\ answer'.entry # 0
    BY <2>1, <2>2 DEF j
  <2>4. answer' \in [entry : 1 .. Len(table), key : Keys]
    BY <1>4, <1>7, <1>8, <2>1, <2>2
  <2>5. AnswerMatches'
    BY <1>5, <2>3 DEF AnswerMatches
  <2>6. shown' \in [Consumers -> SUBSET Nat]
    <3>1. <<Current>> \in Seq(Frame)
      BY <1>4
    <3>. QED
      BY <1>11, <2>1, <3>1
  <2>. QED
    BY <1>4, <1>7, <1>8, <2>1, <2>2, <2>4, <2>5, <2>6 DEF WaitInv, Waiting
<1>15. CASE StartWaiting
  <2>1. /\ cached' = <<Current>> /\ target' = ResponseFrames(j) /\ matched' = j /\ j # 0
        /\ CanWait(ResponseFrames(j)) /\ answer' = answer /\ shown' = shown
    BY <1>15 DEF StartWaiting, j
  <2>2. cached' \in Seq(Frame) /\ Len(cached') = 1 /\ cached'[1] = Current
    BY <1>4, <2>1
  <2>3. target' \in 1 .. MaxWait
    BY <1>7, <1>9, <2>1 DEF CanWait
  <2>4. WaitInv'
    BY <1>5, <1>7, <2>1, <2>2, <2>3 DEF WaitInv, j
  <2>5. AnswerMatches'
    BY <1>1, <1>5, <2>1 DEF AnswerMatches
  <2>. QED
    BY <1>7, <1>8, <2>1, <2>2, <2>3, <2>4, <2>5
<1>16. CASE IllegalLength
  <2>1. /\ cached' = cached /\ cached = <<>> /\ target' = ResponseFrames(j) /\ matched' = j
        /\ j # 0 /\ answer' = answer /\ shown' = shown
    BY <1>16 DEF IllegalLength, Waiting, j
  <2>. QED
    BY <1>1, <1>5, <1>7, <1>8, <1>9, <2>1 DEF WaitInv, Waiting, AnswerMatches
<1>17. CASE CacheFrame
  <2>1. /\ Waiting /\ Len(cached) + 1 < target /\ cached' = Append(cached, Current)
        /\ target' = target /\ matched' = matched /\ answer' = answer /\ shown' = shown
    BY <1>17 DEF CacheFrame
  <2>2. cached # <<>> /\ Len(cached) > 0
    BY <1>7, <2>1 DEF Waiting
  <2>3. cached' \in Seq(Frame) /\ Len(cached') = Len(cached) + 1 /\ cached'[1] = cached[1]
    BY <1>4, <1>7, <2>1, <2>2
  <2>4. matched # 0 /\ matched = FirstMatch(cached[1].key) /\ target \in 1 .. MaxWait
    BY <1>1, <2>1 DEF WaitInv
  <2>5. WaitInv'
    BY <1>5, <1>7, <2>1, <2>3, <2>4 DEF WaitInv
  <2>. QED
    BY <1>1, <1>5, <1>7, <2>1, <2>3, <2>5 DEF AnswerMatches
<1>18. CASE RespondToGroup
  <2>1. /\ Waiting /\ cached' = <<>> /\ target' = 0 /\ matched' = 0
        /\ answer' = [entry |-> matched, key |-> Append(cached, Current)[1].key]
        /\ Upload(Simulator, Append(cached, Current))
    BY <1>18 DEF RespondToGroup, Respond
  <2>2. cached # <<>> /\ Len(cached) > 0
    BY <1>7, <2>1 DEF Waiting
  <2>3. /\ Append(cached, Current)[1] = cached[1] /\ cached[1] \in Frame
        /\ Append(cached, Current) \in Seq(Frame)
    BY <1>4, <1>7, <2>2
  <2>4. cached[1].key \in Keys
    BY <2>3 DEF Frame
  <2>5. matched # 0 /\ matched = FirstMatch(cached[1].key)
    BY <1>1, <2>1 DEF WaitInv
  <2>6. answer' = [entry |-> matched, key |-> cached[1].key]
    BY <2>1, <2>3
  <2>7. answer'.entry # 0 /\ answer'.entry = FirstMatch(answer'.key)
    BY <2>5, <2>6
  <2>8. answer' \in [entry : 1 .. Len(table), key : Keys]
    BY <1>7, <2>4, <2>5, <2>6
  <2>9. AnswerMatches' /\ WaitInv'
    BY <1>5, <2>1, <2>7 DEF AnswerMatches, WaitInv, Waiting
  <2>10. cached' \in Seq(Frame) /\ target' \in Int /\ matched' \in 0 .. Len(table)
    BY <1>7, <2>1
  <2>11. shown' \in [Consumers -> SUBSET Nat]
    BY <1>11, <2>1, <2>3
  <2>. QED
    BY <2>8, <2>9, <2>10, <2>11
<1>. QED
  BY <1>13, <1>14, <1>15, <1>16, <1>17, <1>18 DEF Responder

\* Every step keeps the invariant.
LEMMA StepSimInv == SimInv /\ [SimNext]_simVars => SimInv'
<1> SUFFICES ASSUME SimInv, [SimNext]_simVars PROVE SimInv'
  OBVIOUS
<1>1. CASE UNCHANGED simVars
  <2>1. UNCHANGED <<channelVars, want, batch, table, waitVars, answer, shown, skipped, met, getter>>
    BY <1>1 DEF simVars, vars, threadVars, historyVars
  <2>2. SimTypeOK /\ ThreadInv
    BY DEF SimInv
  <2>3. /\ want' \in [Consumers -> 0 .. BatchSize]
        /\ batch' \in [Consumers -> Seq(Frame)]
        /\ shown' \in [Consumers -> SUBSET Nat]
        /\ met' \in 0 .. MaxMet
    BY <2>1, <2>2 DEF SimTypeOK
  <2>4. /\ table = <<>> => batch'[Simulator] = <<>> /\ want'[Simulator] = 0
        /\ \A t \in Consumers : /\ getter'[t] # "idle" => want'[t] > 0
                                /\ Len(batch'[t]) + want'[t] <= BatchSize
    BY <2>1, <2>2 DEF ThreadInv
  <2>. QED
    BY <2>1, <2>3, <2>4, HandsStep
<1>2. CASE SimulatorBatch \/ ReporterBatch
  <2>1. CASE SimulatorBatch
    BY <2>1, BatchStep, Threads DEF SimulatorBatch
  <2>2. CASE ReporterBatch
    BY <2>2, BatchStep, Threads DEF ReporterBatch
  <2>. QED
    BY <1>2, <2>1, <2>2
<1>3. CASE SimNext
  BY <1>2, <1>3, EnvironmentStep, PreloadStep, GetStep, ReportStep, MatchStep DEF SimNext
<1>. QED
  BY <1>1, <1>3

\* The threads start with an empty table and nothing in their hands.
LEMMA InitSimInv == SimInit => SimInv
<1> SUFFICES ASSUME SimInit PROVE SimInv
  OBVIOUS
<1>1. opened = FALSE /\ reading = FALSE /\ skipped = FALSE
  BY DEF SimInit
<1>2. opened \in BOOLEAN /\ reading \in BOOLEAN /\ skipped \in BOOLEAN
  BY <1>1
<1>3. TypeOK
  BY InitTypeOK DEF SimInit
<1>4. /\ want \in [Consumers -> 0 .. BatchSize] /\ batch \in [Consumers -> Seq(Frame)]
      /\ shown \in [Consumers -> SUBSET Nat]
      /\ \A t \in Consumers : want[t] = 0 /\ batch[t] = <<>> /\ getter[t] = "idle"
  BY SimAssumption DEF SimInit, Init
<1>5. SimTypeOK
  BY <1>2, <1>3, <1>4, SimAssumption DEF SimInit, SimTypeOK
<1>6. ThreadInv
  BY <1>4, Threads, SimAssumption DEF SimInit, ThreadInv
<1>. QED
  BY <1>5, <1>6 DEF SimInit, SimInv, WaitInv, Waiting, AnswerMatches

\* The threads' variables stay well typed, whatever two gets in progress at once do to the
\* counters: matched_sim_frame is NULL or an entry of the table, every answer is an
\* entry's, and what a get returns is a frame (along_data_tid_thread).
THEOREM SimTypes == SimSpec => []SimTypeOK
<1>1. SimInv => SimTypeOK
  BY DEF SimInv
<1>. QED
  BY <1>1, InitSimInv, StepSimInv, PTL DEF SimSpec

\* wait_cmd_frames and the dequeue_batch of either thread are never written past their
\* end, whatever lengths the PC has put in the table and however the threads' gets
\* overlap (along_data_tid_thread, axican_data_process_thread).
THEOREM SimWaitInBounds == SimSpec => []WaitInBounds
<1>1. SimInv => WaitInBounds
  <2> SUFFICES ASSUME SimInv PROVE WaitInBounds
    OBVIOUS
  <2>1. Len(cached) \in Nat /\ MaxWait \in Nat /\ (cached = <<>> => Len(cached) = 0)
    BY SimAssumption DEF SimInv, SimTypeOK
  <2>. QED
    BY <2>1 DEF SimInv, WaitInBounds, WaitInv, ThreadInv, Waiting
<1>. QED
  BY <1>1, InitSimInv, StepSimInv, PTL DEF SimSpec

\* Every answer is that of the first entry that the first frame of its command matched,
\* however long the rest of the command took (matched_sim_frame).
THEOREM SimAnswerMatches == SimSpec => []AnswerMatches
<1>1. SimInv => AnswerMatches
  BY DEF SimInv
<1>. QED
  BY <1>1, InitSimInv, StepSimInv, PTL DEF SimSpec

-----------------------------------------------------------------------------
(* The order of the frames, from the bus to the threads that upload them.  *)

\* Sequences of frames in the order of the bus; all of s before all of t; all of s after
\* what was uploaded, and arrived.
Rising(s) == \A i, j \in 1 .. Len(s) : i < j => s[i].id < s[j].id
Older(s, t) == \A i \in 1 .. Len(s), j \in 1 .. Len(t) : s[i].id < t[j].id
Younger(up, f) == \A n \in up : n < f.id
Within(s, up, high) == \A i \in 1 .. Len(s) : Younger(up, s[i]) /\ s[i].id <= high

\* What waits is older than the batch, the batch older than the ring, and all of it
\* younger than what was uploaded.
Ordered(c, b, r, up, high) ==
  /\ Rising(c) /\ Rising(b) /\ Rising(r)
  /\ Older(c, b) /\ Older(c, r) /\ Older(b, r)
  /\ Within(c, up, high) /\ Within(b, up, high) /\ Within(r, up, high)
  /\ \A n \in up : n <= high

\* The frames of one thread: uploaded, waiting and in its batch.
Own(c, b, up) == up \cup Ids(c) \cup Ids(b)

\* The simulator with c waiting, b in its batch and up uploaded, and the reporting thread
\* with d in its batch and vp uploaded, share the ring r.
Shared(c, b, up, d, vp, r, high) ==
  /\ Ordered(c, b, r, up, high)
  /\ Ordered(<<>>, d, r, vp, high)
  /\ Own(c, b, up) \cap Own(<<>>, d, vp) = {}

\* The frames that are in the ring or were; a frame being put is not.
Arrived == IF putter = "idle" THEN received ELSE received - 1

OrderInv ==
  /\ Shared(cached, batch[Simulator], shown[Simulator], batch[Reporter], shown[Reporter],
            Stored, Arrived)
  /\ putter # "idle" => received >= 1 /\ item.id = received

\* As long as no two gets have met, the ring is a queue and its frames are in order.
MetInv == met = 0 => Alone /\ IInv /\ OrderInv

\* Frames have numbers.
LEMMA FrameIds ==
  ASSUME NEW s \in Seq(Frame)
  PROVE  Len(s) \in Nat /\ \A i \in 1 .. Len(s) : s[i] \in Frame /\ s[i].id \in Nat
<1>1. Len(s) \in Nat /\ \A i \in 1 .. Len(s) : s[i] \in Frame
  OBVIOUS
<1>. QED
  BY <1>1 DEF Frame

\* What is left of a sequence keeps its order.
LEMMA RestInOrder ==
  ASSUME NEW s \in Seq(Frame), s # <<>>
  PROVE  /\ Rising(s) => Rising(Tail(s))
         /\ \A t : (Older(s, t) => Older(Tail(s), t)) /\ (Older(t, s) => Older(t, Tail(s)))
         /\ \A u, h : Within(s, u, h) => Within(Tail(s), u, h)
         /\ Rising(s) => \A j \in 1 .. Len(Tail(s)) : Head(s).id < Tail(s)[j].id
<1>1. /\ Len(s) \in Nat \ {0} /\ Head(s) = s[1] /\ Len(Tail(s)) = Len(s) - 1
      /\ \A i \in 1 .. Len(Tail(s)) : Tail(s)[i] = s[i + 1]
  BY FrontAndRest
<1>2. \A i \in 1 .. Len(Tail(s)) : i + 1 \in 1 .. Len(s) /\ 1 < i + 1
  BY <1>1
<1>3. ASSUME Rising(s) PROVE Rising(Tail(s))
  <2>1. SUFFICES ASSUME NEW i \in 1 .. Len(Tail(s)), NEW j \in 1 .. Len(Tail(s)), i < j
                 PROVE  Tail(s)[i].id < Tail(s)[j].id
    BY DEF Rising
  <2>2. i + 1 < j + 1
    BY <1>1, <2>1
  <2>3. s[i + 1].id < s[j + 1].id
    BY <1>2, <1>3, <2>2 DEF Rising
  <2>. QED
    BY <1>1, <2>3
<1>4. ASSUME NEW t PROVE (Older(s, t) => Older(Tail(s), t)) /\ (Older(t, s) => Older(t, Tail(s)))
  BY <1>1, <1>2 DEF Older
<1>5. ASSUME NEW u, NEW h, Within(s, u, h) PROVE Within(Tail(s), u, h)
  BY <1>1, <1>2, <1>5 DEF Within
<1>6. ASSUME Rising(s), NEW j \in 1 .. Len(Tail(s)) PROVE Head(s).id < Tail(s)[j].id
  BY <1>1, <1>2, <1>6 DEF Rising
<1>. QED
  BY <1>3, <1>4, <1>5, <1>6

\* A sequence with a younger frame at its end keeps its order.
LEMMA AppendInOrder ==
  ASSUME NEW s \in Seq(Frame), NEW f \in Frame
  PROVE  /\ Rising(s) /\ (\A i \in 1 .. Len(s) : s[i].id < f.id) => Rising(Append(s, f))
         /\ \A t : /\ Older(s, t) /\ (\A j \in 1 .. Len(t) : f.id < t[j].id)
                      => Older(Append(s, f), t)
                   /\ Older(t, s) /\ (\A j \in 1 .. Len(t) : t[j].id < f.id)
                      => Older(t, Append(s, f))
         /\ \A u, h : Within(s, u, h) /\ Younger(u, f) /\ f.id <= h => Within(Append(s, f), u, h)
<1>1. /\ Len(s) \in Nat /\ Len(Append(s, f)) = Len(s) + 1
      /\ \A i \in 1 .. Len(s) : Append(s, f)[i] = s[i]
      /\ Append(s, f)[Len(s) + 1] = f
  OBVIOUS
<1>2. \A i \in 1 .. Len(Append(s, f)) :
        \/ i \in 1 .. Len(s) /\ Append(s, f)[i] = s[i]
        \/ i = Len(s) + 1 /\ Append(s, f)[i] = f
  BY <1>1
<1>3. ASSUME Rising(s), \A i \in 1 .. Len(s) : s[i].id < f.id PROVE Rising(Append(s, f))
  <2>1. SUFFICES ASSUME NEW i \in 1 .. Len(Append(s, f)), NEW j \in 1 .. Len(Append(s, f)), i < j
                 PROVE  Append(s, f)[i].id < Append(s, f)[j].id
    BY DEF Rising
  <2>2. i \in 1 .. Len(s) /\ Append(s, f)[i] = s[i]
    BY <1>1, <2>1
  <2>. QED
    BY <1>2, <1>3, <2>1, <2>2 DEF Rising
<1>4. ASSUME NEW t
      PROVE  /\ Older(s, t) /\ (\A j \in 1 .. Len(t) : f.id < t[j].id) => Older(Append(s, f), t)
             /\ Older(t, s) /\ (\A j \in 1 .. Len(t) : t[j].id < f.id) => Older(t, Append(s, f))
  BY <1>2 DEF Older
<1>5. ASSUME NEW u, NEW h, Within(s, u, h), Younger(u, f), f.id <= h PROVE Within(Append(s, f), u, h)
  BY <1>2, <1>5 DEF Within
<1>. QED
  BY <1>3, <1>4, <1>5

\* Nothing is out of order in an empty sequence.
LEMMA ShortInOrder ==
  /\ Rising(<<>>)
  /\ \A t : Older(<<>>, t) /\ Older(t, <<>>)
  /\ \A u, h : Within(<<>>, u, h)
BY DEF Rising, Older, Within

\* A frame taken from the front of s is older than what follows s.
LEMMA FrontIsOldest ==
  ASSUME NEW s \in Seq(Frame), s # <<>>, NEW u, NEW h, Within(s, u, h)
  PROVE  /\ Younger(u, Head(s)) /\ Head(s).id <= h
         /\ \A t : Older(s, t) => \A j \in 1 .. Len(t) : Head(s).id < t[j].id
         /\ \A t : Older(t, s) => \A j \in 1 .. Len(t) : t[j].id < Head(s).id
<1>1. 1 \in 1 .. Len(s) /\ Head(s) = s[1]
  BY FrontAndRest
<1>. QED
  BY <1>1 DEF Within, Older

\* The numbers in what the operations make of a sequence.
LEMMA IdsOf ==
  /\ Ids(<<>>) = {}
  /\ \A f \in Frame : Ids(<<f>>) = {f.id}
  /\ \A s \in Seq(Frame), f \in Frame : Ids(Append(s, f)) = Ids(s) \cup {f.id}
  /\ \A s \in Seq(Frame) : s # <<>> => Ids(Tail(s)) \subseteq Ids(s) /\ Head(s).id \in Ids(s)
  /\ \A s, t \in Seq(Frame) : Ids(s \o t) = Ids(s) \cup Ids(t)
<1>1. Ids(<<>>) = {}
  BY DEF Ids
<1>2. ASSUME NEW f \in Frame PROVE Ids(<<f>>) = {f.id}
  <2>1. Len(<<f>>) = 1 /\ <<f>>[1] = f
    OBVIOUS
  <2>2. 1 .. 1 = {1}
    OBVIOUS
  <2>. QED
    BY <2>1, <2>2 DEF Ids
<1>3. ASSUME NEW s \in Seq(Frame), NEW f \in Frame PROVE Ids(Append(s, f)) = Ids(s) \cup {f.id}
  <2>1. /\ Len(s) \in Nat /\ Len(Append(s, f)) = Len(s) + 1
        /\ \A i \in 1 .. Len(s) : Append(s, f)[i] = s[i] /\ i \in 1 .. Len(s) + 1
        /\ Append(s, f)[Len(s) + 1] = f /\ Len(s) + 1 \in 1 .. Len(s) + 1
        /\ \A i \in 1 .. Len(s) + 1 : i \in 1 .. Len(s) \/ i = Len(s) + 1
    OBVIOUS
  <2>2. ASSUME NEW n \in Ids(Append(s, f)) PROVE n \in Ids(s) \cup {f.id}
    BY <2>1, <2>2 DEF Ids
  <2>3. ASSUME NEW n \in Ids(s) \cup {f.id} PROVE n \in Ids(Append(s, f))
    BY <2>1, <2>3 DEF Ids
  <2>. QED
    BY <2>2, <2>3
<1>4. ASSUME NEW s \in Seq(Frame), s # <<>>
      PROVE  Ids(Tail(s)) \subseteq Ids(s) /\ Head(s).id \in Ids(s)
  <2>1. /\ Len(s) \in Nat \ {0} /\ Head(s) = s[1] /\ Len(Tail(s)) = Len(s) - 1
        /\ \A i \in 1 .. Len(Tail(s)) : Tail(s)[i] = s[i + 1]
    BY <1>4, FrontAndRest
  <2>2. 1 \in 1 .. Len(s) /\ \A i \in 1 .. Len(Tail(s)) : i + 1 \in 1 .. Len(s)
    BY <2>1
  <2>. QED
    BY <2>1, <2>2 DEF Ids
<1>5. ASSUME NEW s \in Seq(Frame), NEW t \in Seq(Frame) PROVE Ids(s \o t) = Ids(s) \cup Ids(t)
  <2>1. /\ Len(s \o t) = Len(s) + Len(t)
        /\ Len(s) \in Nat /\ Len(t) \in Nat
        /\ \A i \in 1 .. Len(s) + Len(t) :
             (s \o t)[i] = IF i <= Len(s) THEN s[i] ELSE t[i - Len(s)]
    BY ConcatProperties
  <2>2. \A i \in 1 .. Len(s \o t) :
          \/ i \in 1 .. Len(s) /\ (s \o t)[i] = s[i]
          \/ i - Len(s) \in 1 .. Len(t) /\ (s \o t)[i] = t[i - Len(s)]
    BY <2>1
  <2>3. \A i \in 1 .. Len(s) : i \in 1 .. Len(s \o t) /\ (s \o t)[i] = s[i]
    BY <2>1
  <2>4. ASSUME NEW i \in 1 .. Len(t)
        PROVE  Len(s) + i \in 1 .. Len(s \o t) /\ (s \o t)[Len(s) + i] = t[i]
    <3>1. /\ Len(s) + i \in 1 .. Len(s) + Len(t) /\ ~(Len(s) + i <= Len(s))
          /\ (Len(s) + i) - Len(s) = i
      BY <2>1
    <3>. QED
      BY <2>1, <3>1
  <2>5. ASSUME NEW n \in Ids(s \o t) PROVE n \in Ids(s) \cup Ids(t)
    BY <2>2, <2>5 DEF Ids
  <2>6. ASSUME NEW n \in Ids(s) \cup Ids(t) PROVE n \in Ids(s \o t)
    BY <2>3, <2>4, <2>6 DEF Ids
  <2>. QED
    BY <2>5, <2>6
<1>. QED
  BY <1>1, <1>2, <1>3, <1>4, <1>5

\* A frame comes to the ring from the bus: it is younger than all before it.
LEMMA OrderedReceive ==
  ASSUME NEW c \in Seq(Frame), NEW b \in Seq(Frame), NEW r \in Seq(Frame),
         NEW u \in SUBSET Nat, NEW h \in Nat, NEW f \in Frame, f.id = h + 1,
         Ordered(c, b, r, u, h)
  PROVE  Ordered(c, b, r, u, h + 1) /\ Ordered(c, b, Append(r, f), u, h + 1)
<1>1. /\ Rising(c) /\ Rising(b) /\ Rising(r)
      /\ Older(c, b) /\ Older(c, r) /\ Older(b, r)
      /\ Within(c, u, h) /\ Within(b, u, h) /\ Within(r, u, h)
      /\ \A n \in u : n <= h
  BY DEF Ordered
<1>2. ASSUME NEW s \in Seq(Frame), Within(s, u, h)
      PROVE  Within(s, u, h + 1) /\ \A i \in 1 .. Len(s) : s[i].id < f.id
  <2>1. ASSUME NEW i \in 1 .. Len(s)
        PROVE  Younger(u, s[i]) /\ s[i].id <= h + 1 /\ s[i].id < f.id
    <3>1. s[i].id \in Nat /\ Younger(u, s[i]) /\ s[i].id <= h
      BY <1>2, FrameIds DEF Within
    <3>. QED
      BY <3>1
  <2>. QED
    BY <2>1 DEF Within
<1>3. Younger(u, f) /\ f.id <= h + 1 /\ \A n \in u : n <= h + 1
  BY <1>1 DEF Younger
<1>4. Within(c, u, h + 1) /\ Within(b, u, h + 1) /\ Within(r, u, h + 1)
  BY <1>1, <1>2
<1>5. /\ Rising(Append(r, f))
      /\ Older(c, Append(r, f)) /\ Older(b, Append(r, f))
      /\ Within(Append(r, f), u, h + 1)
  <2>1. Rising(Append(r, f))
    BY <1>1, <1>2, AppendInOrder
  <2>2. Older(c, Append(r, f)) /\ Older(b, Append(r, f))
    BY <1>1, <1>2, AppendInOrder
  <2>3. Within(Append(r, f), u, h + 1)
    BY <1>3, <1>4, AppendInOrder
  <2>. QED
    BY <2>1, <2>2, <2>3
<1>. QED
  BY <1>1, <1>3, <1>4, <1>5 DEF Ordered

\* The front of the ring goes to the other thread, or to the batch.
LEMMA OrderedTake ==
  ASSUME NEW c \in Seq(Frame), NEW b \in Seq(Frame), NEW r \in Seq(Frame), r # <<>>,
         NEW u, NEW h, Ordered(c, b, r, u, h)
  PROVE  Ordered(c, b, Tail(r), u, h) /\ Ordered(c, Append(b, Head(r)), Tail(r), u, h)
<1>1. /\ Rising(c) /\ Rising(b) /\ Rising(r)
      /\ Older(c, b) /\ Older(c, r) /\ Older(b, r)
      /\ Within(c, u, h) /\ Within(b, u, h) /\ Within(r, u, h)
      /\ \A n \in u : n <= h
  BY DEF Ordered
<1>2. /\ Rising(Tail(r)) /\ Older(c, Tail(r)) /\ Older(b, Tail(r)) /\ Within(Tail(r), u, h)
      /\ \A j \in 1 .. Len(Tail(r)) : Head(r).id < Tail(r)[j].id
  BY <1>1, RestInOrder
<1>3. /\ Younger(u, Head(r)) /\ Head(r).id <= h
      /\ \A i \in 1 .. Len(c) : c[i].id < Head(r).id
      /\ \A i \in 1 .. Len(b) : b[i].id < Head(r).id
  BY <1>1, FrontIsOldest
<1>4. PICK f \in Frame : f = Head(r)
  BY FrontAndRest
<1>5. Rising(Append(b, f)) /\ Older(c, Append(b, f)) /\ Within(Append(b, f), u, h)
  <2>1. Rising(Append(b, f))
    BY <1>1, <1>3, <1>4, AppendInOrder
  <2>2. Older(c, Append(b, f))
    BY <1>1, <1>3, <1>4, AppendInOrder
  <2>3. Within(Append(b, f), u, h)
    BY <1>1, <1>3, <1>4, AppendInOrder
  <2>. QED
    BY <2>1, <2>2, <2>3
<1>6. Older(Append(b, f), Tail(r))
  BY <1>2, <1>4, AppendInOrder
<1>. QED
  BY <1>1, <1>2, <1>4, <1>5, <1>6 DEF Ordered

\* The rest of the batch, or none of it, after a frame that was passed over, cached or
\* uploaded, alone or with those that waited for it.
LEMMA OrderedRound ==
  ASSUME NEW c \in Seq(Frame), NEW b \in Seq(Frame), NEW r \in Seq(Frame), b # <<>>,
         NEW u \in SUBSET Nat, NEW h \in Nat, Ordered(c, b, r, u, h)
  PROVE  /\ Ordered(c, Tail(b), r, u, h)
         /\ Ordered(Append(c, Head(b)), <<>>, r, u, h)
         /\ Ordered(<<>>, Tail(b), r, u \cup Ids(<<Head(b)>>), h)
         /\ Ordered(<<>>, <<>>, r, u \cup Ids(Append(c, Head(b))), h)
         /\ Ordered(<<Head(b)>>, Tail(b), r, u, h)
<1>1. /\ Rising(c) /\ Rising(b) /\ Rising(r)
      /\ Older(c, b) /\ Older(c, r) /\ Older(b, r)
      /\ Within(c, u, h) /\ Within(b, u, h) /\ Within(r, u, h)
      /\ \A n \in u : n <= h
  BY DEF Ordered
<1>2. /\ Rising(Tail(b)) /\ Older(c, Tail(b)) /\ Older(Tail(b), r) /\ Within(Tail(b), u, h)
      /\ \A j \in 1 .. Len(Tail(b)) : Head(b).id < Tail(b)[j].id
  BY <1>1, RestInOrder
<1>3. /\ Younger(u, Head(b)) /\ Head(b).id <= h
      /\ \A i \in 1 .. Len(c) : c[i].id < Head(b).id
      /\ \A i \in 1 .. Len(r) : Head(b).id < r[i].id
  BY <1>1, FrontIsOldest
<1>4. PICK f \in Frame : f = Head(b)
  BY FrontAndRest
<1>5. Rising(Append(c, f)) /\ Older(Append(c, f), r) /\ Within(Append(c, f), u, h)
  <2>1. Rising(Append(c, f))
    BY <1>1, <1>3, <1>4, AppendInOrder
  <2>2. Older(Append(c, f), r)
    BY <1>1, <1>3, <1>4, AppendInOrder
  <2>3. Within(Append(c, f), u, h)
    BY <1>1, <1>3, <1>4, AppendInOrder
  <2>. QED
    BY <2>1, <2>2, <2>3
<1>6. Rising(<<f>>) /\ Older(<<f>>, Tail(b)) /\ Older(<<f>>, r) /\ Within(<<f>>, u, h)
  <2>1. Len(<<f>>) = 1 /\ <<f>>[1] = f
    OBVIOUS
  <2>2. \A i \in 1 .. Len(<<f>>) : i = 1 /\ <<f>>[i] = f
    BY <2>1
  <2>3. Rising(<<f>>)
    BY <2>2 DEF Rising
  <2>4. Older(<<f>>, Tail(b)) /\ Older(<<f>>, r)
    BY <1>2, <1>3, <1>4, <2>2 DEF Older
  <2>5. Within(<<f>>, u, h)
    BY <1>3, <1>4, <2>2 DEF Within
  <2>. QED
    BY <2>3, <2>4, <2>5
\* What is uploaded from s, which is older than t
<1>7. ASSUME NEW s \in Seq(Frame), NEW t, Older(s, t), Within(t, u, h), Within(s, u, h)
      PROVE  Within(t, u \cup Ids(s), h) /\ \A n \in u \cup Ids(s) : n <= h
  <2>1. \A n \in Ids(s) : \E i \in 1 .. Len(s) : n = s[i].id
    BY DEF Ids
  <2>2. ASSUME NEW j \in 1 .. Len(t) PROVE Younger(u \cup Ids(s), t[j]) /\ t[j].id <= h
    BY <1>7, <2>1 DEF Older, Within, Younger
  <2>3. \A n \in u \cup Ids(s) : n <= h
    BY <1>1, <1>7, <2>1 DEF Within
  <2>. QED
    BY <2>2, <2>3 DEF Within
<1>8. Ordered(c, Tail(b), r, u, h)
  BY <1>1, <1>2 DEF Ordered
<1>9. Ordered(Append(c, f), <<>>, r, u, h)
  BY <1>1, <1>5, ShortInOrder DEF Ordered
<1>10. Ordered(<<>>, Tail(b), r, u \cup Ids(<<f>>), h)
  <2>0. <<f>> \in Seq(Frame)
    OBVIOUS
  <2>1. PICK s \in Seq(Frame) : s = <<f>>
    BY <2>0
  <2>2. /\ Within(Tail(b), u \cup Ids(s), h) /\ Within(r, u \cup Ids(s), h)
        /\ \A n \in u \cup Ids(s) : n <= h
    BY <1>1, <1>2, <1>6, <1>7, <2>1
  <2>. QED
    BY <1>1, <1>2, <2>1, <2>2, ShortInOrder DEF Ordered
<1>11. Ordered(<<>>, <<>>, r, u \cup Ids(Append(c, f)), h)
  <2>0. Append(c, f) \in Seq(Frame)
    OBVIOUS
  <2>1. PICK s \in Seq(Frame) : s = Append(c, f)
    BY <2>0
  <2>2. Within(r, u \cup Ids(s), h) /\ \A n \in u \cup Ids(s) : n <= h
    BY <1>1, <1>5, <1>7, <2>1
  <2>. QED
    BY <1>1, <2>1, <2>2, ShortInOrder DEF Ordered
<1>12. Ordered(<<f>>, Tail(b), r, u, h)
  BY <1>1, <1>2, <1>6 DEF Ordered
<1>. QED
  BY <1>4, <1>8, <1>9, <1>10, <1>11, <1>12

\* A frame comes to the ring that two threads share.
LEMMA SharedReceive ==
  ASSUME NEW c \in Seq(Frame), NEW b \in Seq(Frame), NEW u \in SUBSET Nat,
         NEW d \in Seq(Frame), NEW v \in SUBSET Nat,
         NEW r \in Seq(Frame), NEW h \in Nat, NEW f \in Frame, f.id = h + 1,
         Shared(c, b, u, d, v, r, h)
  PROVE  Shared(c, b, u, d, v, r, h + 1) /\ Shared(c, b, u, d, v, Append(r, f), h + 1)
<1>1. /\ Ordered(c, b, r, u, h) /\ Ordered(<<>>, d, r, v, h)
      /\ Own(c, b, u) \cap Own(<<>>, d, v) = {}
  BY DEF Shared
<1>2. Ordered(c, b, r, u, h + 1) /\ Ordered(c, b, Append(r, f), u, h + 1)
  BY <1>1, OrderedReceive
<1>3. Ordered(<<>>, d, r, v, h + 1) /\ Ordered(<<>>, d, Append(r, f), v, h + 1)
  <2>1. <<>> \in Seq(Frame)
    OBVIOUS
  <2>. QED
    BY <1>1, <2>1, OrderedReceive
<1>. QED
  BY <1>1, <1>2, <1>3 DEF Shared

\* The front of the ring is nobody's yet.
LEMMA FrontIsNew ==
  ASSUME NEW c \in Seq(Frame), NEW b \in Seq(Frame), NEW r \in Seq(Frame), r # <<>>,
         NEW u \in SUBSET Nat, NEW h, Ordered(c, b, r, u, h)
  PROVE  Head(r).id \notin Own(c, b, u)
<1>1. Older(c, r) /\ Older(b, r) /\ Within(r, u, h)
  BY DEF Ordered
<1>2. /\ Younger(u, Head(r))
      /\ \A i \in 1 .. Len(c) : c[i].id < Head(r).id
      /\ \A i \in 1 .. Len(b) : b[i].id < Head(r).id
  BY <1>1, FrontIsOldest
<1>3. Head(r).id \in Nat
  <2>1. Head(r) \in Frame
    BY FrontAndRest
  <2>. QED
    BY <2>1 DEF Frame
<1>4. \A n \in u : n # Head(r).id
  BY <1>2, <1>3 DEF Younger
<1>5. \A i \in 1 .. Len(c) : c[i].id # Head(r).id
  BY <1>2, <1>3, FrameIds
<1>6. \A i \in 1 .. Len(b) : b[i].id # Head(r).id
  BY <1>2, <1>3, FrameIds
<1>. QED
  BY <1>4, <1>5, <1>6 DEF Own, Ids

\* One of two threads takes the front of the ring.
LEMMA SharedTake ==
  ASSUME NEW c \in Seq(Frame), NEW b \in Seq(Frame), NEW u \in SUBSET Nat,
         NEW d \in Seq(Frame), NEW v \in SUBSET Nat,
         NEW r \in Seq(Frame), NEW h \in Nat, r # <<>>,
         Shared(c, b, u, d, v, r, h)
  PROVE  /\ Shared(c, Append(b, Head(r)), u, d, v, Tail(r), h)
         /\ Shared(c, b, u, Append(d, Head(r)), v, Tail(r), h)
<1>1. /\ Ordered(c, b, r, u, h) /\ Ordered(<<>>, d, r, v, h)
      /\ Own(c, b, u) \cap Own(<<>>, d, v) = {}
  BY DEF Shared
<1>2. Ordered(c, b, Tail(r), u, h) /\ Ordered(c, Append(b, Head(r)), Tail(r), u, h)
  BY <1>1, OrderedTake
<1>3. <<>> \in Seq(Frame)
  OBVIOUS
<1>4. Ordered(<<>>, d, Tail(r), v, h) /\ Ordered(<<>>, Append(d, Head(r)), Tail(r), v, h)
  BY <1>1, <1>3, OrderedTake
<1>5. Head(r).id \notin Own(c, b, u) /\ Head(r).id \notin Own(<<>>, d, v)
  BY <1>1, <1>3, FrontIsNew
<1>6. /\ Ids(Append(b, Head(r))) = Ids(b) \cup {Head(r).id}
      /\ Ids(Append(d, Head(r))) = Ids(d) \cup {Head(r).id}
  BY FrontAndRest, IdsOf
<1>7. /\ Own(c, Append(b, Head(r)), u) = Own(c, b, u) \cup {Head(r).id}
      /\ Own(<<>>, Append(d, Head(r)), v) = Own(<<>>, d, v) \cup {Head(r).id}
  BY <1>6 DEF Own
<1>8. /\ Own(c, Append(b, Head(r)), u) \cap Own(<<>>, d, v) = {}
      /\ Own(c, b, u) \cap Own(<<>>, Append(d, Head(r)), v) = {}
  BY <1>1, <1>5, <1>7
<1>. QED
  BY <1>2, <1>4, <1>8 DEF Shared

\* A round of the simulator, and a frame of the reporting thread.
LEMMA SharedRound ==
  ASSUME NEW c \in Seq(Frame), NEW b \in Seq(Frame), NEW u \in SUBSET Nat,
         NEW d \in Seq(Frame), NEW v \in SUBSET Nat,
         NEW r \in Seq(Frame), NEW h \in Nat,
         Shared(c, b, u, d, v, r, h)
  PROVE  /\ b # <<>> => /\ Shared(c, Tail(b), u, d, v, r, h)
                        /\ Shared(Append(c, Head(b)), <<>>, u, d, v, r, h)
                        /\ Shared(<<>>, Tail(b), u \cup Ids(<<Head(b)>>), d, v, r, h)
                        /\ Shared(<<>>, <<>>, u \cup Ids(Append(c, Head(b))), d, v, r, h)
                        /\ Shared(<<Head(b)>>, Tail(b), u, d, v, r, h)
         /\ d # <<>> => Shared(c, b, u, Tail(d), v \cup Ids(<<Head(d)>>), r, h)
<1>1. /\ Ordered(c, b, r, u, h) /\ Ordered(<<>>, d, r, v, h)
      /\ Own(c, b, u) \cap Own(<<>>, d, v) = {}
  BY DEF Shared
<1>2. ASSUME b # <<>>
      PROVE  /\ Shared(c, Tail(b), u, d, v, r, h)
             /\ Shared(Append(c, Head(b)), <<>>, u, d, v, r, h)
             /\ Shared(<<>>, Tail(b), u \cup Ids(<<Head(b)>>), d, v, r, h)
             /\ Shared(<<>>, <<>>, u \cup Ids(Append(c, Head(b))), d, v, r, h)
             /\ Shared(<<Head(b)>>, Tail(b), u, d, v, r, h)
  <2>1. PICK f \in Frame : f = Head(b)
    BY <1>2, FrontAndRest
  <2>2. /\ Ids(Append(c, f)) = Ids(c) \cup {f.id} /\ Ids(<<f>>) = {f.id} /\ Ids(<<>>) = {}
        /\ Ids(Tail(b)) \subseteq Ids(b) /\ f.id \in Ids(b)
    BY <1>2, <2>1, IdsOf
  <2>3. /\ Own(c, Tail(b), u) \subseteq Own(c, b, u)
        /\ Own(Append(c, f), <<>>, u) \subseteq Own(c, b, u)
        /\ Own(<<>>, Tail(b), u \cup Ids(<<f>>)) \subseteq Own(c, b, u)
        /\ Own(<<>>, <<>>, u \cup Ids(Append(c, f))) \subseteq Own(c, b, u)
        /\ Own(<<f>>, Tail(b), u) \subseteq Own(c, b, u)
    BY <2>2 DEF Own
  <2>4. /\ Ordered(c, Tail(b), r, u, h)
        /\ Ordered(Append(c, f), <<>>, r, u, h)
        /\ Ordered(<<>>, Tail(b), r, u \cup Ids(<<f>>), h)
        /\ Ordered(<<>>, <<>>, r, u \cup Ids(Append(c, f)), h)
        /\ Ordered(<<f>>, Tail(b), r, u, h)
    BY <1>1, <1>2, <2>1, OrderedRound
  <2>5. ASSUME NEW x, x \subseteq Own(c, b, u) PROVE x \cap Own(<<>>, d, v) = {}
    BY <1>1, <2>5
  <2>. QED
    BY <1>1, <2>1, <2>3, <2>4, <2>5 DEF Shared
<1>3. ASSUME d # <<>>
      PROVE  Shared(c, b, u, Tail(d), v \cup Ids(<<Head(d)>>), r, h)
  <2>1. PICK f \in Frame : f = Head(d)
    BY <1>3, FrontAndRest
  <2>2. /\ Ids(<<f>>) = {f.id} /\ Ids(<<>>) = {}
        /\ Ids(Tail(d)) \subseteq Ids(d) /\ f.id \in Ids(d)
    BY <1>3, <2>1, IdsOf
  <2>3. Own(<<>>, Tail(d), v \cup Ids(<<f>>)) \subseteq Own(<<>>, d, v)
    BY <2>2 DEF Own
  <2>4. <<>> \in Seq(Frame)
    OBVIOUS
  <2>5. Ordered(<<>>, Tail(d), r, v \cup Ids(<<f>>), h)
    BY <1>1, <1>3, <2>1, <2>4, OrderedRound
  <2>6. Own(c, b, u) \cap Own(<<>>, Tail(d), v \cup Ids(<<f>>)) = {}
    BY <1>1, <2>3
  <2>. QED
    BY <1>1, <2>1, <2>5, <2>6 DEF Shared
<1>. QED
  BY <1>2, <1>3

\* No step makes good what two gets have done once they met; a get that begins and meets
\* no other is alone.
LEMMA StepAlone ==
  ASSUME SimInv, MetInv, [SimNext]_simVars, met' = 0
  PROVE  met = 0 /\ Alone /\ IInv /\ OrderInv /\ Alone' /\ IInv'
<1>1. SimTypeOK /\ met \in Nat /\ getter \in [Consumers -> {"idle", "copy", "advance"}]
  <2>1. SimTypeOK
    BY DEF SimInv
  <2>2. met \in 0 .. MaxMet /\ MaxMet \in Nat
    BY <2>1, SimAssumption DEF SimTypeOK
  <2>3. getter \in [Consumers -> {"idle", "copy", "advance"}]
    BY <2>1 DEF SimTypeOK, TypeOK
  <2>. QED
    BY <2>1, <2>2, <2>3
<1>2. ASSUME NEW t \in Consumers, BeginGet(t)
      PROVE  met = 0 /\ (Alone => Alone')
  <2>1. met' = IF met > 0 \/ (\E d \in Consumers \ {t} : getter[d] # "idle") THEN met + 1 ELSE 0
    BY <1>2 DEF BeginGet
  <2>2. met = 0 /\ \A d \in Consumers \ {t} : getter[d] = "idle"
    BY <1>1, <2>1
  <2>3. getter' = [getter EXCEPT ![t] = "copy"]
    BY <1>2 DEF BeginGet, GetCheck
  <2>4. \A d \in Consumers \ {t} : getter'[d] = "idle"
    BY <1>1, <2>2, <2>3
  <2>. QED
    BY <2>2, <2>4 DEF Alone
<1>3. ASSUME NEW t \in Consumers, CopyFrame(t) \/ TakeFrame(t)
      PROVE  met = 0 /\ (Alone => Alone')
  <2>1. met' = met
    BY <1>3 DEF CopyFrame, TakeFrame, threadVars, historyVars
  <2>2. /\ getter[t] # "idle"
        /\ getter' = [getter EXCEPT ![t] = "advance"] \/ getter' = [getter EXCEPT ![t] = "idle"]
    BY <1>3 DEF CopyFrame, TakeFrame, GetCopy, GetAdvance
  <2>3. \A d \in Consumers : d # t => getter'[d] = getter[d]
    BY <1>1, <2>2
  <2>. QED
    BY <2>1, <2>2, <2>3 DEF Alone
<1>4. ASSUME \/ UNCHANGED simVars
             \/ \E m \in {"normal", "along"} : ChangeMode(m)
             \/ StartStop
             \/ \E e \in Entry : DownloadEntry(e)
             \/ ReadDevice
             \/ \E k \in Keys : ReceiveFrame(k)
             \/ StoreFrame \/ Preload \/ SimulatorBatch \/ ReporterBatch
             \/ \E t \in Consumers : EndBatch(t)
             \/ ReportFrame
      PROVE  met' = met /\ getter' = getter
  BY <1>4 DEF simVars, ChangeMode, StartStop, DownloadEntry, ReadDevice, ReceiveFrame, StoreFrame,
              Preload, SimulatorBatch, ReporterBatch, BeginBatch, EndBatch, ReportFrame,
              PutCheck, PutCopy, PutPublish, vars, getVars, threadVars, historyVars
<1>5. ASSUME Responder PROVE met' = met /\ getter' = getter
  BY <1>5 DEF Responder, Unmatched, RespondAtOnce, StartWaiting, IllegalLength, CacheFrame,
              RespondToGroup, vars
<1>6. getter' = getter => (Alone => Alone')
  BY DEF Alone
<1>7. met = 0 /\ (Alone => Alone')
  BY <1>2, <1>3, <1>4, <1>5, <1>6 DEF SimNext, Get
<1>8. Alone /\ IInv /\ OrderInv
  BY <1>7 DEF MetInv
<1>9. IInv'
  BY <1>1, <1>8, RingStep, StepIInv
<1>. QED
  BY <1>7, <1>8, <1>9

\* Every step keeps the frames in order.
LEMMA StepOrder ==
  ASSUME SimInv, MetInv, [SimNext]_simVars
  PROVE  MetInv'
<1> SUFFICES ASSUME met' = 0 PROVE Alone' /\ IInv' /\ OrderInv'
  BY DEF MetInv
<1>0. met = 0 /\ Alone /\ IInv /\ OrderInv /\ Alone' /\ IInv'
  BY StepAlone
<1>1. /\ cached \in Seq(Frame) /\ batch \in [Consumers -> Seq(Frame)]
      /\ batch[Simulator] \in Seq(Frame) /\ batch[Reporter] \in Seq(Frame)
      /\ shown \in [Consumers -> SUBSET Nat]
      /\ shown[Simulator] \in SUBSET Nat /\ shown[Reporter] \in SUBSET Nat
      /\ received \in Nat /\ SimTypeOK
  BY Threads DEF SimInv, SimTypeOK
<1>2. Stored \in Seq(Frame)
  BY <1>0, StoredSeq, ElementsAreFrames
<1>3. Arrived \in Nat
  BY <1>0, <1>1 DEF OrderInv, Arrived
<1>4. Shared(cached, batch[Simulator], shown[Simulator], batch[Reporter], shown[Reporter],
             Stored, Arrived)
  BY <1>0 DEF OrderInv
<1>5. putter # "idle" => received >= 1 /\ item.id = received
  BY <1>0 DEF OrderInv
<1>6. [Next]_vars
  BY <1>1, RingStep
<1>7. /\ UNCHANGED <<slots, in, out>> \/ PutCopy => Stored' = Stored
      /\ PutPublish => item \in Values /\ Stored' = Append(Stored, item)
      /\ \A t \in Consumers : GetAdvance(t) => /\ Stored # <<>> /\ buf[t] = Head(Stored)
                                              /\ Stored' = Tail(Stored)
  BY <1>0, <1>6, StoredSteps
<1> SUFFICES /\ Shared(cached', batch'[Simulator], shown'[Simulator], batch'[Reporter],
                       shown'[Reporter], Stored', Arrived')
             /\ putter' # "idle" => received' >= 1 /\ item'.id = received'
  BY <1>0 DEF OrderInv, Shared, Ordered, Rising, Older, Within, Younger, Own, Ids
<1> DEFINE Goal == /\ Shared(cached', batch'[Simulator], shown'[Simulator], batch'[Reporter],
                             shown'[Reporter], Stored', Arrived')
                   /\ putter' # "idle" => received' >= 1 /\ item'.id = received'
<1>8. ASSUME UNCHANGED vars, received' = received
      PROVE  /\ Stored' = Stored /\ Arrived' = Arrived
             /\ putter' # "idle" => received' >= 1 /\ item'.id = received'
  BY <1>5, <1>7, <1>8 DEF vars, Arrived
\* The receive thread
<1>9. ASSUME NEW k \in Keys, ReceiveFrame(k) PROVE Goal
  <2>1. /\ putter = "idle" /\ received' = received + 1 /\ received < MaxFrames
        /\ UNCHANGED <<cached, batch, shown>>
    BY <1>9 DEF ReceiveFrame, threadVars, waitVars, historyVars
  <2>2. Arrived = received
    BY <2>1 DEF Arrived
  <2>3. [id |-> received + 1, key |-> k] \in Frame
    BY <1>1 DEF Frame
  <2>4. PICK f \in Frame : f = [id |-> received + 1, key |-> k]
    BY <2>3
  <2>5. f.id = received + 1
    BY <2>4
  <2>6. Stored' = Stored
    BY <1>7, <1>9 DEF ReceiveFrame, PutCheck, vars
  <2>7. CASE PutCheck(f)
    <3>1. putter' = "copy" /\ item' = f
      BY <2>7 DEF PutCheck
    <3>2. Arrived' = Arrived
      BY <1>1, <2>1, <2>2, <3>1 DEF Arrived
    <3>. QED
      BY <1>1, <1>4, <2>1, <2>5, <2>6, <3>1, <3>2
  <2>8. CASE UNCHANGED vars
    <3>1. putter' = "idle"
      BY <2>1, <2>8 DEF vars
    <3>2. Arrived' = Arrived + 1
      BY <2>1, <2>2, <3>1 DEF Arrived
    <3>3. Shared(cached, batch[Simulator], shown[Simulator], batch[Reporter], shown[Reporter],
                 Stored, Arrived + 1)
      BY <1>1, <1>2, <1>3, <1>4, <2>2, <2>5, SharedReceive
    <3>. QED
      BY <2>1, <2>6, <3>1, <3>2, <3>3
  <2>. QED
    BY <1>9, <2>4, <2>7, <2>8 DEF ReceiveFrame
<1>10. ASSUME StoreFrame PROVE Goal
  <2>1. UNCHANGED <<cached, batch, shown, received>>
    BY <1>10 DEF StoreFrame, threadVars, waitVars, historyVars, channelVars
  <2>2. CASE PutCopy
    <3>1. putter = "copy" /\ putter' = "publish" /\ item' = item /\ Stored' = Stored
      BY <1>7, <2>2 DEF PutCopy
    <3>2. Arrived' = Arrived
      BY <2>1, <3>1 DEF Arrived
    <3>. QED
      BY <1>4, <1>5, <2>1, <3>1, <3>2
  <2>3. CASE PutPublish
    <3>1. /\ putter = "publish" /\ putter' = "idle" /\ item \in Values
          /\ Stored' = Append(Stored, item)
      BY <1>7, <2>3 DEF PutPublish
    <3>2. item \in Frame
      BY <3>1, ElementsAreFrames
    <3>3. Arrived = received - 1 /\ Arrived' = received /\ item.id = received
      BY <1>5, <2>1, <3>1 DEF Arrived
    <3>4. item.id = Arrived + 1 /\ Arrived' = Arrived + 1
      BY <1>1, <3>3
    <3>5. Shared(cached, batch[Simulator], shown[Simulator], batch[Reporter], shown[Reporter],
                 Append(Stored, item), Arrived + 1)
      BY <1>1, <1>2, <1>3, <1>4, <3>2, <3>4, SharedReceive
    <3>. QED
      BY <2>1, <3>1, <3>4, <3>5
  <2>. QED
    BY <1>10, <2>2, <2>3 DEF StoreFrame
\* The gets
<1>11. ASSUME NEW t \in Consumers, BeginGet(t) \/ CopyFrame(t) PROVE Goal
  <2>1. UNCHANGED <<cached, batch, shown, received>>
    BY <1>11 DEF BeginGet, CopyFrame, threadVars, waitVars, historyVars, channelVars
  <2>2. UNCHANGED <<slots, in, out, putter, item>>
    BY <1>11 DEF BeginGet, CopyFrame, GetCheck, GetCopy, putVars
  <2>3. Arrived' = Arrived /\ Stored' = Stored
    BY <1>7, <2>1, <2>2 DEF Arrived
  <2>. QED
    BY <1>4, <1>5, <2>1, <2>2, <2>3
<1>12. ASSUME NEW t \in Consumers, TakeFrame(t) PROVE Goal
  <2>1. /\ batch' = [batch EXCEPT ![t] = Append(batch[t], buf[t])]
        /\ UNCHANGED <<cached, shown, received, putter, item>>
        /\ GetAdvance(t)
    BY <1>12 DEF TakeFrame, GetAdvance, waitVars, historyVars, channelVars, putVars
  <2>2. Stored # <<>> /\ buf[t] = Head(Stored) /\ Stored' = Tail(Stored)
    BY <1>7, <2>1
  <2>3. Arrived' = Arrived
    BY <2>1 DEF Arrived
  <2>4. /\ Shared(cached, Append(batch[Simulator], Head(Stored)), shown[Simulator],
                  batch[Reporter], shown[Reporter], Tail(Stored), Arrived)
        /\ Shared(cached, batch[Simulator], shown[Simulator],
                  Append(batch[Reporter], Head(Stored)), shown[Reporter], Tail(Stored), Arrived)
    BY <1>1, <1>2, <1>3, <1>4, <2>2, SharedTake
  <2>5. CASE t = Simulator
    <3>1. /\ batch'[Simulator] = Append(batch[Simulator], Head(Stored))
          /\ batch'[Reporter] = batch[Reporter]
      BY <1>1, <2>1, <2>2, <2>5, Threads
    <3>. QED
      BY <1>5, <2>1, <2>2, <2>3, <2>4, <3>1
  <2>6. CASE t = Reporter
    <3>1. /\ batch'[Reporter] = Append(batch[Reporter], Head(Stored))
          /\ batch'[Simulator] = batch[Simulator]
      BY <1>1, <2>1, <2>2, <2>6, Threads
    <3>. QED
      BY <1>5, <2>1, <2>2, <2>3, <2>4, <3>1
  <2>. QED
    BY <2>5, <2>6, Threads
\* The uploads
<1>13. ASSUME ReportFrame PROVE Goal
  <2>1. /\ batch[Reporter] # <<>>
        /\ shown' = [shown EXCEPT ![Reporter] =
                       shown[Reporter] \cup Ids(<<Head(batch[Reporter])>>)]
        /\ batch' = [batch EXCEPT ![Reporter] = Tail(batch[Reporter])]
        /\ UNCHANGED vars /\ UNCHANGED <<received, cached>>
    BY <1>13 DEF ReportFrame, HasBatch, Upload, channelVars, waitVars
  <2>2. /\ batch'[Reporter] = Tail(batch[Reporter]) /\ batch'[Simulator] = batch[Simulator]
        /\ shown'[Reporter] = shown[Reporter] \cup Ids(<<Head(batch[Reporter])>>)
        /\ shown'[Simulator] = shown[Simulator]
    BY <1>1, <2>1, Threads
  <2>3. Shared(cached, batch[Simulator], shown[Simulator], Tail(batch[Reporter]),
               shown[Reporter] \cup Ids(<<Head(batch[Reporter])>>), Stored, Arrived)
    BY <1>1, <1>2, <1>3, <1>4, <2>1, SharedRound
  <2>. QED
    BY <1>8, <2>1, <2>2, <2>3
<1>14. ASSUME Responder PROVE Goal
  <2>1. batch[Simulator] # <<>> /\ UNCHANGED vars /\ received' = received
    BY <1>14 DEF Responder, HasBatch, Unmatched, RespondAtOnce, StartWaiting, IllegalLength,
                 CacheFrame, RespondToGroup, channelVars
  <2>2. /\ Shared(cached, Tail(batch[Simulator]), shown[Simulator],
                  batch[Reporter], shown[Reporter], Stored, Arrived)
        /\ Shared(Append(cached, Current), <<>>, shown[Simulator],
                  batch[Reporter], shown[Reporter], Stored, Arrived)
        /\ Shared(<<>>, Tail(batch[Simulator]), shown[Simulator] \cup Ids(<<Current>>),
                  batch[Reporter], shown[Reporter], Stored, Arrived)
        /\ Shared(<<>>, <<>>, shown[Simulator] \cup Ids(Append(cached, Current)),
                  batch[Reporter], shown[Reporter], Stored, Arrived)
        /\ Shared(<<Current>>, Tail(batch[Simulator]), shown[Simulator],
                  batch[Reporter], shown[Reporter], Stored, Arrived)
    BY <1>1, <1>2, <1>3, <1>4, <2>1, SharedRound DEF Current
  <2>3. NextOfBatch => /\ batch'[Simulator] = Tail(batch[Simulator])
                       /\ batch'[Reporter] = batch[Reporter]
    BY <1>1, Threads DEF NextOfBatch
  <2>4. LeaveBatch => batch'[Simulator] = <<>> /\ batch'[Reporter] = batch[Reporter]
    BY <1>1, Threads DEF LeaveBatch
  <2>5. ASSUME NEW s, Upload(Simulator, s)
        PROVE  /\ shown'[Simulator] = shown[Simulator] \cup Ids(s)
               /\ shown'[Reporter] = shown[Reporter]
    BY <1>1, <2>5, Threads DEF Upload
  <2>6. CASE Unmatched \/ IllegalLength
    <3>1. NextOfBatch /\ UNCHANGED <<cached, shown>>
      BY <2>6 DEF Unmatched, IllegalLength
    <3>. QED
      BY <1>8, <2>1, <2>2, <2>3, <3>1
  <2>7. CASE RespondAtOnce
    <3>1. NextOfBatch /\ cached' = <<>> /\ Upload(Simulator, <<Current>>)
      BY <2>7 DEF RespondAtOnce, Waiting
    <3>. QED
      BY <1>8, <2>1, <2>2, <2>3, <2>5, <3>1
  <2>8. CASE StartWaiting
    <3>1. NextOfBatch /\ cached' = <<Current>> /\ shown' = shown
      BY <2>8 DEF StartWaiting
    <3>. QED
      BY <1>8, <2>1, <2>2, <2>3, <3>1
  <2>9. CASE CacheFrame
    <3>1. LeaveBatch /\ cached' = Append(cached, Current) /\ shown' = shown
      BY <2>9 DEF CacheFrame
    <3>. QED
      BY <1>8, <2>1, <2>2, <2>4, <3>1
  <2>10. CASE RespondToGroup
    <3>1. LeaveBatch /\ cached' = <<>> /\ Upload(Simulator, Append(cached, Current))
      BY <2>10 DEF RespondToGroup
    <3>. QED
      BY <1>8, <2>1, <2>2, <2>4, <2>5, <3>1
  <2>. QED
    BY <1>14, <2>6, <2>7, <2>8, <2>9, <2>10 DEF Responder
<1>15. ASSUME \/ UNCHANGED simVars
              \/ \E m \in {"normal", "along"} : ChangeMode(m)
              \/ StartStop
              \/ \E e \in Entry : DownloadEntry(e)
              \/ ReadDevice \/ Preload \/ SimulatorBatch \/ ReporterBatch
              \/ \E t \in Consumers : EndBatch(t)
       PROVE  Goal
  <2>1. UNCHANGED vars /\ UNCHANGED <<cached, batch, shown, received>>
    BY <1>15 DEF simVars, ChangeMode, StartStop, DownloadEntry, ReadDevice, Preload, SimulatorBatch,
                 ReporterBatch, BeginBatch, EndBatch, channelVars, threadVars, waitVars, historyVars
  <2>. QED
    BY <1>4, <1>8, <2>1
<1>. QED
  BY <1>9, <1>10, <1>11, <1>12, <1>13, <1>14, <1>15 DEF SimNext, Get

\* Pieces that are in order one by one and one after the other are in order together.
LEMMA JoinInOrder ==
  ASSUME NEW s \in Seq(Frame), NEW t \in Seq(Frame)
  PROVE  /\ s \o t \in Seq(Frame)
         /\ Rising(s) /\ Rising(t) /\ Older(s, t) => Rising(s \o t)
         /\ \A w : Older(s, w) /\ Older(t, w) => Older(s \o t, w)
         /\ \A u, h : Within(s, u, h) /\ Within(t, u, h) => Within(s \o t, u, h)
<1>1. /\ s \o t \in Seq(Frame) /\ Len(s \o t) = Len(s) + Len(t)
      /\ Len(s) \in Nat /\ Len(t) \in Nat
      /\ \A i \in 1 .. Len(s) + Len(t) :
           (s \o t)[i] = IF i <= Len(s) THEN s[i] ELSE t[i - Len(s)]
  BY ConcatProperties
<1>2. \A i \in 1 .. Len(s \o t) :
        \/ i \in 1 .. Len(s) /\ (s \o t)[i] = s[i]
        \/ ~(i <= Len(s)) /\ i - Len(s) \in 1 .. Len(t) /\ (s \o t)[i] = t[i - Len(s)]
  BY <1>1
<1>3. ASSUME Rising(s), Rising(t), Older(s, t) PROVE Rising(s \o t)
  <2>1. SUFFICES ASSUME NEW i \in 1 .. Len(s \o t), NEW j \in 1 .. Len(s \o t), i < j
                 PROVE  (s \o t)[i].id < (s \o t)[j].id
    BY DEF Rising
  <2>2. CASE j \in 1 .. Len(s)
    <3>1. i \in 1 .. Len(s) /\ (s \o t)[i] = s[i] /\ (s \o t)[j] = s[j]
      BY <1>1, <2>1, <2>2
    <3>. QED
      BY <1>3, <2>1, <2>2, <3>1 DEF Rising
  <2>3. CASE i \in 1 .. Len(s) /\ ~(j <= Len(s))
    <3>1. (s \o t)[i] = s[i] /\ j - Len(s) \in 1 .. Len(t) /\ (s \o t)[j] = t[j - Len(s)]
      BY <1>1, <2>1, <2>3
    <3>. QED
      BY <1>3, <2>3, <3>1 DEF Older
  <2>4. CASE ~(i <= Len(s)) /\ ~(j <= Len(s))
    <3>1. /\ i - Len(s) \in 1 .. Len(t) /\ (s \o t)[i] = t[i - Len(s)]
          /\ j - Len(s) \in 1 .. Len(t) /\ (s \o t)[j] = t[j - Len(s)]
          /\ i - Len(s) < j - Len(s)
      BY <1>1, <2>1, <2>4
    <3>. QED
      BY <1>3, <3>1 DEF Rising
  <2>. QED
    BY <1>1, <2>1, <2>2, <2>3, <2>4
<1>4. ASSUME NEW w, Older(s, w), Older(t, w) PROVE Older(s \o t, w)
  BY <1>2, <1>4 DEF Older
<1>5. ASSUME NEW u, NEW h, Within(s, u, h), Within(t, u, h) PROVE Within(s \o t, u, h)
  BY <1>2, <1>5 DEF Within
<1>. QED
  BY <1>1, <1>3, <1>4, <1>5

\* The invariant gives the property.
LEMMA PiecesInOrder ==
  ASSUME SimInv, MetInv
  PROVE  UploadInOrder
<1> SUFFICES ASSUME met = 0
             PROVE  /\ \A t \in Consumers :
                         LET pending == Hands(t) \o Stored IN
                         /\ \A n \in shown[t], i \in 1 .. Len(pending) : n < pending[i].id
                         /\ \A i, j \in 1 .. Len(pending) : i < j => pending[i].id < pending[j].id
                    /\ Had(Simulator) \cap Had(Reporter) = {}
  BY DEF UploadInOrder
<1>1. IInv /\ OrderInv
  BY DEF MetInv
<1>2. /\ cached \in Seq(Frame)
      /\ batch[Simulator] \in Seq(Frame) /\ batch[Reporter] \in Seq(Frame)
  BY Threads DEF SimInv, SimTypeOK
<1>3. Stored \in Seq(Frame)
  BY <1>1, StoredSeq, ElementsAreFrames
<1>4. /\ Ordered(cached, batch[Simulator], Stored, shown[Simulator], Arrived)
      /\ Ordered(<<>>, batch[Reporter], Stored, shown[Reporter], Arrived)
      /\ Own(cached, batch[Simulator], shown[Simulator])
           \cap Own(<<>>, batch[Reporter], shown[Reporter]) = {}
  BY <1>1 DEF OrderInv, Shared
<1>5. PICK held \in Seq(Frame) : held = cached \o batch[Simulator]
  BY <1>2, JoinInOrder
<1>6. /\ Rising(held) /\ Older(held, Stored) /\ Within(held, shown[Simulator], Arrived)
      /\ Ids(held) = Ids(cached) \cup Ids(batch[Simulator])
  <2>1. Rising(held)
    BY <1>2, <1>4, <1>5, JoinInOrder DEF Ordered
  <2>2. Older(held, Stored) /\ Within(held, shown[Simulator], Arrived)
    BY <1>2, <1>4, <1>5, JoinInOrder DEF Ordered
  <2>3. Ids(held) = Ids(cached) \cup Ids(batch[Simulator])
    BY <1>2, <1>5, IdsOf
  <2>. QED
    BY <2>1, <2>2, <2>3
<1>7. ASSUME NEW s \in Seq(Frame), NEW u, Rising(s), Older(s, Stored), Within(s, u, Arrived),
             Rising(Stored), Within(Stored, u, Arrived)
      PROVE  /\ \A n \in u, i \in 1 .. Len(s \o Stored) : n < (s \o Stored)[i].id
             /\ \A i, j \in 1 .. Len(s \o Stored) : i < j => (s \o Stored)[i].id < (s \o Stored)[j].id
  <2>1. Rising(s \o Stored) /\ Within(s \o Stored, u, Arrived)
    BY <1>3, <1>7, JoinInOrder
  <2>. QED
    BY <2>1 DEF Rising, Within, Younger
<1>8. Hands(Simulator) = held /\ Hands(Reporter) = batch[Reporter]
  BY <1>5, Threads DEF Hands
<1>9. ASSUME NEW t \in Consumers
      PROVE  /\ \A n \in shown[t], i \in 1 .. Len(Hands(t) \o Stored) : n < (Hands(t) \o Stored)[i].id
             /\ \A i, j \in 1 .. Len(Hands(t) \o Stored) :
                  i < j => (Hands(t) \o Stored)[i].id < (Hands(t) \o Stored)[j].id
  <2>1. /\ Rising(Stored)
        /\ Within(Stored, shown[Simulator], Arrived) /\ Within(Stored, shown[Reporter], Arrived)
        /\ Rising(batch[Reporter]) /\ Older(batch[Reporter], Stored)
        /\ Within(batch[Reporter], shown[Reporter], Arrived)
    BY <1>4 DEF Ordered
  <2>2. CASE t = Simulator
    BY <1>6, <1>7, <1>8, <2>1, <2>2
  <2>3. CASE t = Reporter
    BY <1>2, <1>7, <1>8, <2>1, <2>3
  <2>. QED
    BY <2>2, <2>3, Threads
<1>10. Had(Simulator) \cap Had(Reporter) = {}
  <2>1. /\ Had(Simulator) = Own(cached, batch[Simulator], shown[Simulator])
        /\ Had(Reporter) = Own(<<>>, batch[Reporter], shown[Reporter])
    BY <1>6, <1>8, IdsOf DEF Had, Own
  <2>. QED
    BY <1>4, <2>1
<1>. QED
  BY <1>9, <1>10

\* As long as the gets of the two threads take turns, each uploads its frames in the order
\* they had on the bus, whatever it passes over, and no frame goes to both
\* (along_data_tid_thread, axican_data_process_thread).  Once two gets have met nothing is
\* left of it: the invariant, and the property, end there.
THEOREM SimUploadInOrder == SimSpec => []UploadInOrder
<1>1. SimInit => MetInv
  <2> SUFFICES ASSUME SimInit PROVE Alone /\ IInv /\ OrderInv
    BY DEF MetInv
  <2>1. Init
    BY DEF SimInit
  <2>2. \A t \in Consumers : getter[t] = "idle"
    BY <2>1 DEF Init
  <2>3. Alone /\ IInv
    BY <2>1, <2>2, InitIInv DEF Alone
  <2>4. Stored = <<>>
    <3>1. Used = 0
      BY <2>1 DEF Init, Used
    <3>2. Stored \in Seq(Values \cup {NoValue}) /\ Len(Stored) = 0
      BY <2>3, <3>1, StoredSeq
    <3>. QED
      BY <3>2
  <2>5. /\ cached = <<>> /\ batch[Simulator] = <<>> /\ batch[Reporter] = <<>>
        /\ shown[Simulator] = {} /\ shown[Reporter] = {}
    BY Threads DEF SimInit
  <2>6. putter = "idle"
    BY <2>1 DEF Init
  <2>7. Ordered(<<>>, <<>>, <<>>, {}, Arrived)
    BY ShortInOrder DEF Ordered
  <2>8. Own(<<>>, <<>>, {}) \cap Own(<<>>, <<>>, {}) = {}
    BY IdsOf DEF Own
  <2>. QED
    BY <2>3, <2>4, <2>5, <2>6, <2>7, <2>8 DEF OrderInv, Shared
<1>2. SimInv /\ MetInv => UploadInOrder
  BY PiecesInOrder
<1>3. SimInv /\ MetInv /\ [SimNext]_simVars => MetInv'
  BY StepOrder
<1>. QED
  BY <1>1, <1>2, <1>3, InitSimInv, StepSimInv, PTL DEF SimSpec
=============================================================================

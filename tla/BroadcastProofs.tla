--------------------------- MODULE BroadcastProofs ---------------------------
(***************************************************************************)
(* The wake and reset protocol of Broadcast and its schedule, proved for   *)
(* every number of channels, queue depth, window and set of configuration  *)
(* requests; then the pulse source and the scheduler together, which       *)
(* implement the scheduler, and whose driver neither makes up a pulse nor  *)
(* lets its thread sleep through one (PpsDriver).                          *)
(***************************************************************************)
EXTENDS PpsDriver, WellFoundedInduction, TLAPS

\* The gate and the clock: the gate is open only until Window after the last pulse.
GateInv ==
  /\ lastPulse <= now
  /\ gateOpen => lastPulse # NoPulse /\ gateUntil = lastPulse + Window

\* Every wake and every group that waits belongs to the current configuration: this is
\* what the reset establishes, and what makes a claim match.
CurrentInv ==
  /\ \A ch \in Channels : \A i \in 1 .. Len(wakes[ch]) : wakes[ch][i] = epoch
  /\ \A ch \in Channels : \A i \in 1 .. Len(queue[ch]) : queue[ch][i].epoch = epoch

IInv ==
  /\ TypeOK
  /\ GateInv
  /\ CurrentInv
  /\ NoStaleClaim
  /\ LoadedInWindow
  /\ OneGroupPerWake
  /\ NoLostWakeup

-----------------------------------------------------------------------------
(* The polling loop finds a first active channel when there is one.        *)

\* A non-empty set of steps has a first one.
LEMMA FirstOfIsLeast ==
  ASSUME NEW S \in SUBSET Nat, S # {}
  PROVE  FirstOf(S) \in S /\ \A t \in S : FirstOf(S) <= t
<1> DEFINE Less == {ss \in Nat \X Nat : ss[1] < ss[2]}
<1>1. IsWellFoundedOn(Less, Nat)
  <2>1. OpToRel(<, Nat) = Less
    BY Zenon DEF OpToRel
  <2>. QED
    BY <2>1, NatLessThanWellFounded, Zenon
<1>2. \E s \in S : \A t \in S : ~(<<t, s>> \in Less)
  <2> HIDE DEF Less
  <2>. QED
    BY <1>1, WFMin, Zenon
<1>3. PICK s \in S : \A t \in S : ~(<<t, s>> \in Less)
  BY <1>2
<1>4. \A t \in S : s <= t
  <2>1. SUFFICES ASSUME NEW t \in S, t < s PROVE FALSE
    OBVIOUS
  <2>2. <<t, s>> \in Nat \X Nat /\ <<t, s>>[1] = t /\ <<t, s>>[2] = s
    OBVIOUS
  <2>3. <<t, s>> \in Less
    BY <2>1, <2>2, Zenon
  <2>. QED
    BY <1>3, <2>3, Zenon
<1>. QED
  BY <1>4 DEF FirstOf

\* The channel that the polling loop stops at exists.
LEMMA PolledChannelType ==
  ASSUME NEW c \in Config, Polls(c)
  PROVE  PolledChannel(c) \in Channels
<1>1. FirstOf(PollSteps(c)) \in Nat
  BY FirstOfIsLeast DEF Polls, PollSteps, Channels
<1>. QED
  BY <1>1, SizeAssumption DEF PolledChannel, Config, Channels

\* A pulse leaves a configuration that handle_broadcast_config could have left.
LEMMA AdvancedType ==
  ASSUME NEW c \in Config
  PROVE  Advanced(c) \in Config
<1>1. Polls(c) => (PolledChannel(c) + 1) % NumChannels \in Channels
  BY PolledChannelType, SizeAssumption DEF Channels
<1> DEFINE next == IF Polls(c) THEN (PolledChannel(c) + 1) % NumChannels ELSE c.pollNext
           group == IF Alternates(c) THEN 1 - c.currentGroup ELSE c.currentGroup
<1>2. next \in Channels /\ group \in {0, 1}
  BY <1>1 DEF Config
<1>3. Advanced(c) = [c EXCEPT !.pollNext = next, !.currentGroup = group]
  BY Zenon DEF Advanced
<1> HIDE DEF next, group
<1>. QED
  BY <1>2, <1>3 DEF Config

-----------------------------------------------------------------------------
(* The inductive invariant holds initially and every action preserves it.  *)

\* The queues and counters after a reset are well typed.
LEMMA EmptyQueues ==
  ASSUME NEW S
  PROVE  [ch \in Channels |-> <<>>] \in [Channels -> Seq(S)]
OBVIOUS

\* The state main starts the threads in
LEMMA InitIInv == Init => IInv
<1> SUFFICES ASSUME Init PROVE IInv
  OBVIOUS
<1> USE SizeAssumption DEF Init
<1>1. cfg \in Config
  BY DEF Config, Channels
<1>2. /\ queue \in [Channels -> Seq(Group)] /\ wakes \in [Channels -> Seq(Nat)]
      /\ \A ch \in Channels : Len(queue[ch]) <= QueueDepth
  BY EmptyQueues
<1>3. TypeOK
  BY <1>1, <1>2 DEF TypeOK, NoPulse
<1>. QED
  BY <1>3 DEF IInv, GateInv, CurrentInv, NoStaleClaim, LoadedInWindow, OneGroupPerWake,
     NoLostWakeup, Holding, NoPulse

\* A sender that only moves between its waiting places keeps everything else.
LEMMA MoveIInv ==
  ASSUME IInv, NEW ch \in Channels, NEW place \in {"check", "blocked", "claim"},
         pc' = [pc EXCEPT ![ch] = place], place = "blocked" => wakes[ch] = <<>>,
         UNCHANGED <<schedVars, queue, wakes, now, opened, local, written, ghostVars, taken>>
  PROVE  IInv'
<1> USE DEF IInv, schedVars, ghostVars
<1>1. TypeOK'
  BY DEF TypeOK
<1>2. GateInv' /\ CurrentInv' /\ OneGroupPerWake'
  BY DEF GateInv, CurrentInv, OneGroupPerWake
<1>3. NoStaleClaim' /\ LoadedInWindow'
  BY DEF NoStaleClaim, LoadedInWindow, Holding, TypeOK
<1>4. NoLostWakeup'
  BY DEF NoLostWakeup, TypeOK
<1>. QED
  BY <1>1, <1>2, <1>3, <1>4

\* An accepted configuration clears queues, wakes and window, so nothing old is left.
LEMMA ConfigureIInv ==
  ASSUME IInv, NEW req \in ConfigRequests, Configure(req)
  PROVE  IInv'
<1> USE SizeAssumption DEF IInv, Configure, ResetBuffers, senderVars
<1>1. cfg' \in Config
  BY RequestAssumption DEF ValidRequest, ConfigRequest, Config, Channels
<1>2. TypeOK'
  <2>1. /\ queue' \in [Channels -> Seq(Group)] /\ wakes' \in [Channels -> Seq(Nat)]
        /\ \A ch \in Channels : Len(queue'[ch]) <= QueueDepth
    BY EmptyQueues
  <2>2. epoch' \in Nat /\ pulses' \in Nat /\ lastPulse' \in Nat \cup {NoPulse}
    BY DEF TypeOK
  <2>3. notified' \in [Channels -> Nat] /\ taken' \in [Channels -> Nat]
    OBVIOUS
  <2>4. gateOpen' \in BOOLEAN /\ gateUntil' \in Nat
    OBVIOUS
  <2>. QED
    BY <1>1, <2>1, <2>2, <2>3, <2>4 DEF TypeOK
<1>3. GateInv' /\ CurrentInv'
  BY DEF GateInv, CurrentInv, TypeOK, NoPulse
<1>4. NoStaleClaim' /\ LoadedInWindow' /\ OneGroupPerWake' /\ NoLostWakeup'
  BY DEF NoStaleClaim, LoadedInWindow, Holding, OneGroupPerWake, NoLostWakeup
<1>. QED
  BY <1>2, <1>3, <1>4

\* A pulse adds wakes of the current configuration and opens the window from now on.
LEMMA PulseIInv ==
  ASSUME IInv, Pulse
  PROVE  IInv'
<1> DEFINE mask == SelectedMask(cfg)
<1> USE SizeAssumption DEF IInv
<1>1. /\ gateOpen' = TRUE /\ gateUntil' = now + Window
      /\ cfg' = Advanced(cfg)
      /\ wakes' = [ch \in Channels |->
                     IF ch \in mask THEN Append(wakes[ch], epoch) ELSE wakes[ch]]
      /\ pc' = [ch \in Channels |->
                  IF ch \in mask /\ pc[ch] = "blocked" THEN "check" ELSE pc[ch]]
      /\ pulses' = pulses + 1
      /\ notified' = [ch \in Channels |-> notified[ch] + (IF ch \in mask THEN 1 ELSE 0)]
      /\ lastPulse' = now
      /\ UNCHANGED <<queue, now, opened, local, written, epoch, taken>>
  BY DEF Pulse, Notify
<1> HIDE DEF mask
<1>2. TypeOK'
  <2>1. cfg' \in Config
    BY <1>1, AdvancedType DEF TypeOK
  <2>2. wakes' \in [Channels -> Seq(Nat)]
    BY <1>1 DEF TypeOK
  <2>3. notified' \in [Channels -> Nat]
    BY <1>1 DEF TypeOK
  <2>4. pc' \in [Channels -> {"check", "blocked", "claim", "send", "write"}]
    BY <1>1 DEF TypeOK
  <2>. QED
    BY <1>1, <2>1, <2>2, <2>3, <2>4 DEF TypeOK
<1>3. GateInv'
  BY <1>1 DEF GateInv, TypeOK, NoPulse
<1>4. CurrentInv'
  <2>1. ASSUME NEW ch \in Channels, NEW i \in 1 .. Len(wakes'[ch])
        PROVE  wakes'[ch][i] = epoch
    <3>1. CASE ch \in mask
      BY <1>1, <2>1, <3>1 DEF CurrentInv, TypeOK
    <3>2. CASE ch \notin mask
      BY <1>1, <2>1, <3>2 DEF CurrentInv, TypeOK
    <3>. QED
      BY <3>1, <3>2
  <2>. QED
    BY <1>1, <2>1 DEF CurrentInv
<1>5. NoStaleClaim' /\ LoadedInWindow'
  BY <1>1 DEF NoStaleClaim, LoadedInWindow, Holding, TypeOK
<1>6. OneGroupPerWake'
  <2>1. ASSUME NEW ch \in Channels
        PROVE  taken'[ch] + Len(wakes'[ch]) <= notified'[ch]
    <3>1. CASE ch \in mask
      BY <1>1, <3>1 DEF OneGroupPerWake, TypeOK
    <3>2. CASE ch \notin mask
      BY <1>1, <3>2 DEF OneGroupPerWake, TypeOK
    <3>. QED
      BY <3>1, <3>2
  <2>. QED
    BY <2>1 DEF OneGroupPerWake
<1>7. NoLostWakeup'
  BY <1>1 DEF NoLostWakeup, TypeOK
<1>. QED
  BY <1>2, <1>3, <1>4, <1>5, <1>6, <1>7

\* A group is accepted only while the window of the last pulse lasts.
LEMMA EnqueueIInv ==
  ASSUME IInv, NEW c \in Channels, NEW size \in GroupSizes, EnqueueGroup(c, size)
  PROVE  IInv'
<1> DEFINE group == [size |-> size, epoch |-> epoch, age |-> GroupAge]
<1> USE SizeAssumption DEF IInv, schedVars, senderVars, ghostVars
<1>1. GroupAge \in Nat /\ GroupAge <= Window
  BY DEF EnqueueGroup, GateIsOpen, GateInv, GroupAge, TypeOK, NoPulse
<1>2. group \in Group /\ group.epoch = epoch /\ group.age <= Window
  BY <1>1 DEF Group, TypeOK
<1>3. /\ Len(queue[c]) < QueueDepth
      /\ queue' = [queue EXCEPT ![c] = Append(@, group)]
      /\ UNCHANGED <<schedVars, wakes, now, opened, senderVars, ghostVars, taken>>
  BY DEF EnqueueGroup
<1> HIDE DEF group
<1>4. ASSUME NEW ch \in Channels
      PROVE  /\ Len(queue'[ch]) <= QueueDepth
             /\ \A i \in 1 .. Len(queue'[ch]) :
                  queue'[ch][i].epoch = epoch /\ queue'[ch][i].age <= Window
  <2>1. CASE ch = c
    <3>1. PICK old \in Seq(Group) : old = queue[c]
      BY DEF TypeOK
    <3>2. queue'[ch] = Append(old, group)
      BY <1>3, <2>1, <3>1 DEF TypeOK
    <3>3. \A i \in 1 .. Len(old) : old[i].epoch = epoch /\ old[i].age <= Window
      BY <3>1 DEF CurrentInv, LoadedInWindow
    <3>4. /\ Len(old) \in Nat /\ Len(Append(old, group)) = Len(old) + 1
          /\ \A i \in 1 .. Len(Append(old, group)) :
               Append(old, group)[i] = group \/ (i \in 1 .. Len(old) /\ Append(old, group)[i] = old[i])
      BY <1>2
    <3>5. Len(queue'[ch]) <= QueueDepth
      <4>1. Len(old) < QueueDepth /\ QueueDepth \in Nat
        BY <1>3, <3>1
      <4>. QED
        BY <3>2, <3>4, <4>1
    <3>6. \A i \in 1 .. Len(Append(old, group)) :
            Append(old, group)[i].epoch = epoch /\ Append(old, group)[i].age <= Window
      BY <1>2, <3>3, <3>4
    <3>. QED
      BY <3>2, <3>5, <3>6
  <2>2. CASE ch # c
    BY <1>3, <2>2 DEF TypeOK, CurrentInv, LoadedInWindow
  <2>. QED
    BY <2>1, <2>2
<1>5. TypeOK'
  <2>1. queue' \in [Channels -> Seq(Group)]
    BY <1>2, <1>3 DEF TypeOK
  <2>. QED
    BY <1>3, <1>4, <2>1 DEF TypeOK
<1>6. GateInv' /\ CurrentInv'
  BY <1>3, <1>4 DEF GateInv, CurrentInv
<1>7. NoStaleClaim' /\ LoadedInWindow'
  BY <1>3, <1>4 DEF NoStaleClaim, LoadedInWindow, Holding
<1>8. OneGroupPerWake' /\ NoLostWakeup'
  BY <1>3 DEF OneGroupPerWake, NoLostWakeup
<1>. QED
  BY <1>5, <1>6, <1>7, <1>8

\* A late group closes the window.
LEMMA RefuseIInv ==
  ASSUME IInv, RefuseGroup
  PROVE  IInv'
<1> USE DEF IInv, RefuseGroup, senderVars, ghostVars
<1>1. TypeOK'
  BY DEF TypeOK
<1>2. GateInv' /\ CurrentInv' /\ OneGroupPerWake' /\ NoLostWakeup'
  BY DEF GateInv, CurrentInv, OneGroupPerWake, NoLostWakeup
<1>3. NoStaleClaim' /\ LoadedInWindow'
  BY DEF NoStaleClaim, LoadedInWindow, Holding
<1>. QED
  BY <1>1, <1>2, <1>3

\* A claimed wake leaves the head of the wakes, and the rest are still of this configuration.
LEMMA TailOfWakes ==
  ASSUME IInv, NEW c \in Channels, wakes[c] # <<>>,
         wakes' = [wakes EXCEPT ![c] = Tail(@)]
  PROVE  /\ Head(wakes[c]) = epoch
         /\ wakes' \in [Channels -> Seq(Nat)]
         /\ Len(wakes'[c]) = Len(wakes[c]) - 1
         /\ \A ch \in Channels : ch # c => wakes'[ch] = wakes[ch]
         /\ \A ch \in Channels : \A i \in 1 .. Len(wakes'[ch]) : wakes'[ch][i] = epoch
<1> USE DEF IInv
<1>1. wakes[c] \in Seq(Nat) /\ Len(wakes[c]) >= 1
  BY DEF TypeOK
<1>2. /\ Tail(wakes[c]) \in Seq(Nat)
      /\ Len(Tail(wakes[c])) = Len(wakes[c]) - 1
      /\ \A i \in 1 .. Len(wakes[c]) - 1 : Tail(wakes[c])[i] = wakes[c][i + 1]
      /\ Head(wakes[c]) = wakes[c][1]
  BY <1>1
<1>3. \A i \in 1 .. Len(wakes[c]) - 1 : Tail(wakes[c])[i] = epoch
  BY <1>1, <1>2 DEF CurrentInv
<1>. QED
  BY <1>1, <1>2, <1>3 DEF CurrentInv, TypeOK

\* Taking the first group leaves the others as they were.
LEMMA TailOfQueue ==
  ASSUME IInv, NEW c \in Channels, queue[c] # <<>>,
         queue' = [queue EXCEPT ![c] = Tail(@)]
  PROVE  /\ Head(queue[c]) \in Group
         /\ Head(queue[c]).epoch = epoch /\ Head(queue[c]).age <= Window
         /\ queue' \in [Channels -> Seq(Group)]
         /\ \A ch \in Channels : Len(queue'[ch]) <= QueueDepth
         /\ \A ch \in Channels : \A i \in 1 .. Len(queue'[ch]) :
              queue'[ch][i].epoch = epoch /\ queue'[ch][i].age <= Window
<1> USE SizeAssumption DEF IInv
<1>1. queue[c] \in Seq(Group) /\ Len(queue[c]) >= 1 /\ Len(queue[c]) <= QueueDepth
  BY DEF TypeOK
<1>2. /\ Tail(queue[c]) \in Seq(Group)
      /\ Len(Tail(queue[c])) = Len(queue[c]) - 1
      /\ \A i \in 1 .. Len(queue[c]) - 1 : Tail(queue[c])[i] = queue[c][i + 1]
      /\ Head(queue[c]) = queue[c][1] /\ Head(queue[c]) \in Group
  BY <1>1
<1>3. \A i \in 1 .. Len(queue[c]) - 1 :
        Tail(queue[c])[i].epoch = epoch /\ Tail(queue[c])[i].age <= Window
  BY <1>1, <1>2 DEF CurrentInv, LoadedInWindow
<1>4. Head(queue[c]).epoch = epoch /\ Head(queue[c]).age <= Window
  BY <1>1, <1>2 DEF CurrentInv, LoadedInWindow
<1>5. ASSUME NEW ch \in Channels, ch # c
      PROVE  /\ queue'[ch] = queue[ch] /\ Len(queue'[ch]) <= QueueDepth
             /\ \A i \in 1 .. Len(queue'[ch]) :
                  queue'[ch][i].epoch = epoch /\ queue'[ch][i].age <= Window
  BY <1>5 DEF CurrentInv, LoadedInWindow, TypeOK
<1>6. queue'[c] = Tail(queue[c]) /\ queue' \in [Channels -> Seq(Group)]
  BY <1>2 DEF TypeOK
<1>. QED
  BY <1>1, <1>2, <1>3, <1>4, <1>5, <1>6

\* take_broadcast_group claims a wake and a group of the same configuration.
LEMMA TakeIInv ==
  ASSUME IInv, NEW c \in Channels, Take(c)
  PROVE  IInv'
<1> USE SizeAssumption DEF IInv
<1>1. CASE wakes[c] = <<>>
  <2>1. wakes' = wakes
    BY <1>1 DEF Take, TypeOK
  <2>2. /\ pc' = [pc EXCEPT ![c] = "check"]
        /\ UNCHANGED <<schedVars, queue, now, opened, local, written, ghostVars, taken>>
    BY <1>1 DEF Take, CanTake
  <2>. QED
    BY <2>1, <2>2, MoveIInv
<1>2. CASE wakes[c] # <<>>
  <2>1. wakes' = [wakes EXCEPT ![c] = Tail(@)]
    BY <1>2 DEF Take
  <2>2. UNCHANGED <<schedVars, now, opened, written, ghostVars>>
    BY DEF Take
  <2>3. /\ Head(wakes[c]) = epoch /\ wakes' \in [Channels -> Seq(Nat)]
        /\ Len(wakes'[c]) = Len(wakes[c]) - 1
        /\ \A ch \in Channels : ch # c => wakes'[ch] = wakes[ch]
        /\ \A ch \in Channels : \A i \in 1 .. Len(wakes'[ch]) : wakes'[ch][i] = epoch
    BY <1>2, <2>1, TailOfWakes
  <2>4. Len(wakes[c]) \in Nat /\ pc[c] = "claim"
    BY DEF TypeOK, Take
  <2>5. NoLostWakeup' /\ GateInv'
    <3>1. ASSUME NEW ch \in Channels, pc'[ch] = "blocked" PROVE wakes'[ch] = <<>>
      <4>1. ch # c /\ pc[ch] = "blocked"
        BY <3>1 DEF Take, TypeOK
      <4>. QED
        BY <2>3, <4>1 DEF NoLostWakeup
    <3>. QED
      BY <2>2, <3>1 DEF NoLostWakeup, GateInv, schedVars, ghostVars
  <2>6. CASE CanTake(c)
    <3> DEFINE claim == [wake |-> Head(wakes[c]), size |-> Head(queue[c]).size,
                         epoch |-> Head(queue[c]).epoch, age |-> Head(queue[c]).age]
    <3>1. /\ queue' = [queue EXCEPT ![c] = Tail(@)]
          /\ local' = [local EXCEPT ![c] = claim]
          /\ taken' = [taken EXCEPT ![c] = @ + 1]
          /\ pc' = [pc EXCEPT ![c] = "send"]
      BY <2>6 DEF Take
    <3>2. /\ Head(queue[c]) \in Group
          /\ Head(queue[c]).epoch = epoch /\ Head(queue[c]).age <= Window
          /\ queue' \in [Channels -> Seq(Group)]
          /\ \A ch \in Channels : Len(queue'[ch]) <= QueueDepth
          /\ \A ch \in Channels : \A i \in 1 .. Len(queue'[ch]) :
               queue'[ch][i].epoch = epoch /\ queue'[ch][i].age <= Window
      BY <2>6, <3>1, TailOfQueue DEF CanTake
    <3>3. claim \in Claim /\ claim.wake = claim.epoch /\ claim.age <= Window
      BY <2>3, <3>2 DEF Claim, Group, TypeOK
    <3> HIDE DEF claim
    <3>4. TypeOK'
      <4>1. local' \in [Channels -> Claim \cup {NoClaim}]
        BY <3>1, <3>3 DEF TypeOK
      <4>2. pc' \in [Channels -> {"check", "blocked", "claim", "send", "write"}]
        BY <3>1 DEF TypeOK
      <4>3. taken' \in [Channels -> Nat]
        BY <3>1 DEF TypeOK
      <4>. QED
        BY <2>2, <2>3, <3>2, <4>1, <4>2, <4>3 DEF TypeOK, schedVars, ghostVars
    <3>5. CurrentInv'
      BY <2>2, <2>3, <3>2 DEF CurrentInv, ghostVars
    <3>6. NoStaleClaim' /\ LoadedInWindow'
      BY <3>1, <3>2, <3>3 DEF NoStaleClaim, LoadedInWindow, Holding, TypeOK
    <3>7. OneGroupPerWake'
      <4>1. ASSUME NEW ch \in Channels
            PROVE  taken'[ch] + Len(wakes'[ch]) <= notified[ch]
        <5>1. Len(wakes[ch]) \in Nat /\ taken[ch] \in Nat /\ notified[ch] \in Nat
              /\ taken[ch] + Len(wakes[ch]) <= notified[ch]
          BY DEF TypeOK, OneGroupPerWake
        <5>2. CASE ch = c
          BY <2>3, <2>4, <3>1, <5>1, <5>2 DEF TypeOK
        <5>3. CASE ch # c
          BY <2>3, <3>1, <5>1, <5>3 DEF TypeOK
        <5>. QED
          BY <5>2, <5>3
      <4>. QED
        BY <2>2, <4>1 DEF OneGroupPerWake, ghostVars
    <3>. QED
      BY <2>5, <3>4, <3>5, <3>6, <3>7
  <2>7. CASE ~CanTake(c)
    <3>1. pc' = [pc EXCEPT ![c] = "check"] /\ UNCHANGED <<queue, local, taken>>
      BY <2>7 DEF Take
    <3>2. TypeOK'
      BY <2>2, <2>3, <3>1 DEF TypeOK, schedVars, ghostVars
    <3>3. CurrentInv'
      BY <2>2, <2>3, <3>1 DEF CurrentInv, ghostVars
    <3>4. NoStaleClaim' /\ LoadedInWindow'
      BY <3>1 DEF NoStaleClaim, LoadedInWindow, Holding, TypeOK
    <3>5. OneGroupPerWake'
      <4>1. ASSUME NEW ch \in Channels
            PROVE  taken'[ch] + Len(wakes'[ch]) <= notified[ch]
        <5>1. Len(wakes[ch]) \in Nat /\ taken[ch] \in Nat /\ notified[ch] \in Nat
              /\ taken[ch] + Len(wakes[ch]) <= notified[ch]
          BY DEF TypeOK, OneGroupPerWake
        <5>2. CASE ch = c
          BY <2>3, <2>4, <3>1, <5>1, <5>2 DEF TypeOK
        <5>3. CASE ch # c
          BY <2>3, <3>1, <5>1, <5>3 DEF TypeOK
        <5>. QED
          BY <5>2, <5>3
      <4>. QED
        BY <2>2, <4>1 DEF OneGroupPerWake, ghostVars
    <3>. QED
      BY <2>5, <3>2, <3>3, <3>4, <3>5
  <2>. QED
    BY <2>6, <2>7
<1>. QED
  BY <1>1, <1>2

\* Sending changes only the sender's own state.
LEMMA SendIInv ==
  ASSUME IInv, NEW c \in Channels, NEW ok \in BOOLEAN, BeginSend(c) \/ WriteFrame(c, ok)
  PROVE  IInv'
<1> USE DEF IInv, schedVars, ghostVars
<1>1. UNCHANGED <<schedVars, queue, wakes, now, opened, ghostVars, taken>>
  BY DEF BeginSend, WriteFrame
<1>2. GateInv' /\ CurrentInv' /\ OneGroupPerWake'
  BY <1>1 DEF GateInv, CurrentInv, OneGroupPerWake
<1>3. /\ pc' = pc \/ pc' = [pc EXCEPT ![c] = "write"] \/ pc' = [pc EXCEPT ![c] = "check"]
      /\ \/ local' = local
         \/ local' = [local EXCEPT ![c] = NoClaim] /\ pc' = [pc EXCEPT ![c] = "check"]
      /\ pc[c] \in {"send", "write"}
      /\ written' \in [Channels -> Nat]
  <2>1. written \in [Channels -> Nat]
    BY DEF TypeOK
  <2>2. CASE BeginSend(c)
    BY <2>1, <2>2 DEF BeginSend, Finish
  <2>3. CASE WriteFrame(c, ok)
    <3>1. \/ written' = [written EXCEPT ![c] = @ + 1] /\ pc' = pc /\ local' = local
          \/ Finish(c)
      BY <2>3 DEF WriteFrame
    <3>2. pc[c] = "write"
      BY <2>3 DEF WriteFrame
    <3>. QED
      BY <2>1, <3>1, <3>2 DEF Finish
  <2>. QED
    BY <2>2, <2>3
<1>4. TypeOK'
  BY <1>1, <1>3 DEF TypeOK
<1>5. NoStaleClaim' /\ LoadedInWindow'
  BY <1>1, <1>3 DEF NoStaleClaim, LoadedInWindow, Holding, TypeOK
<1>6. NoLostWakeup'
  BY <1>1, <1>3 DEF NoLostWakeup, TypeOK
<1>. QED
  BY <1>2, <1>4, <1>5, <1>6

\* The channel flag and the clock are outside the protocol.
LEMMA OutsideIInv ==
  ASSUME IInv, opened' \subseteq Channels, now' \in Nat, now <= now',
         UNCHANGED <<schedVars, queue, wakes, senderVars, ghostVars, taken>>
  PROVE  IInv'
<1> USE DEF IInv, schedVars, senderVars, ghostVars
<1>1. TypeOK'
  BY DEF TypeOK
<1>2. GateInv' /\ CurrentInv' /\ OneGroupPerWake' /\ NoLostWakeup'
  BY DEF GateInv, CurrentInv, OneGroupPerWake, NoLostWakeup, TypeOK, NoPulse
<1>3. NoStaleClaim' /\ LoadedInWindow'
  BY DEF NoStaleClaim, LoadedInWindow, Holding
<1>. QED
  BY <1>1, <1>2, <1>3

\* Every step preserves the invariant.
LEMMA StepIInv == IInv /\ [Next]_vars => IInv'
<1> SUFFICES ASSUME IInv, [Next]_vars PROVE IInv'
  OBVIOUS
<1>1. ASSUME NEW req \in ConfigRequests, Configure(req) PROVE IInv'
  BY <1>1, ConfigureIInv
<1>2. CASE Pulse
  BY <1>2, PulseIInv
<1>3. ASSUME NEW ch \in Channels, NEW size \in GroupSizes, EnqueueGroup(ch, size) PROVE IInv'
  BY <1>3, EnqueueIInv
<1>4. CASE RefuseGroup
  BY <1>4, RefuseIInv
<1>5. ASSUME NEW ch \in Channels, CheckWake(ch) PROVE IInv'
  <2>1. PICK place \in {"blocked", "claim"} :
          /\ place = "blocked" => wakes[ch] = <<>>
          /\ pc' = [pc EXCEPT ![ch] = place]
    BY <1>5 DEF CheckWake
  <2>. QED
    BY <1>5, <2>1, MoveIInv DEF CheckWake
<1>6. ASSUME NEW ch \in Channels, Take(ch) PROVE IInv'
  BY <1>6, TakeIInv
<1>7. ASSUME NEW ch \in Channels, BeginSend(ch) PROVE IInv'
  BY <1>7, SendIInv
<1>8. ASSUME NEW ch \in Channels, NEW ok \in BOOLEAN, WriteFrame(ch, ok) PROVE IInv'
  BY <1>8, SendIInv
<1>9. ASSUME NEW ch \in Channels, SpuriousWakeup(ch) PROVE IInv'
  BY <1>9, MoveIInv DEF SpuriousWakeup
<1>10. ASSUME NEW ch \in Channels, OpenChannel(ch) \/ CloseChannel(ch) PROVE IInv'
  <2>1. opened' \subseteq Channels /\ now' \in Nat /\ now <= now'
    BY <1>10 DEF OpenChannel, CloseChannel, IInv, TypeOK
  <2>2. UNCHANGED <<schedVars, queue, wakes, senderVars, ghostVars, taken>>
    BY <1>10 DEF OpenChannel, CloseChannel
  <2>. QED
    BY <2>1, <2>2, OutsideIInv
<1>11. CASE Tick
  BY <1>11, OutsideIInv DEF Tick, IInv, TypeOK
<1>12. CASE UNCHANGED vars
  BY <1>12, OutsideIInv DEF vars, IInv, TypeOK
<1>. QED
  BY <1>1, <1>2, <1>3, <1>4, <1>5, <1>6, <1>7, <1>8, <1>9, <1>10, <1>11, <1>12
     DEF Next, BetweenPulses, Sender

-----------------------------------------------------------------------------

\* IInv is an inductive invariant of the scheduler: the wake, reset and window protocol of
\* broadcast_can_send_thread, handle_broadcast_config and process_broadcast_pps.
THEOREM Invariance == Spec => []IInv
BY InitIInv, StepIInv, PTL DEF Spec

\* Type correctness of the scheduler state, the bound of the group queues included.
THEOREM TypeCorrect == Spec => []TypeOK
<1>1. IInv => TypeOK
  BY DEF IInv
<1>. QED
  BY <1>1, Invariance, PTL

\* No wake from before a reset takes a group loaded after it.
THEOREM ClaimsAreCurrent == Spec => []NoStaleClaim
<1>1. IInv => NoStaleClaim
  BY DEF IInv
<1>. QED
  BY <1>1, Invariance, PTL

\* Every group was loaded within the window of a pulse of its configuration.
THEOREM GroupsAreInWindow == Spec => []LoadedInWindow
<1>1. IInv => LoadedInWindow
  BY DEF IInv
<1>. QED
  BY <1>1, Invariance, PTL

\* A channel never takes more groups than it was given wakes.
THEOREM WakesBoundGroups == Spec => []OneGroupPerWake
<1>1. IInv => OneGroupPerWake
  BY DEF IInv
<1>. QED
  BY <1>1, Invariance, PTL

\* No sender sleeps on a pending wake.
THEOREM NoSleepOnWake == Spec => []NoLostWakeup
<1>1. IInv => NoLostWakeup
  BY DEF IInv
<1>. QED
  BY <1>1, Invariance, PTL
-----------------------------------------------------------------------------
(* The schedule: select_broadcast_mask_on_pps.                             *)

\* The channel that the polling loop looks at in step s.
At(c, s) == (c.pollNext + s) % NumChannels

\* Polling: of two active channels, the one whose turn comes later has been served as
\* often as the other, or once more.
PollTurns ==
  \A s, t \in Channels :
    s < t /\ At(cfg, s) \in cfg.active /\ At(cfg, t) \in cfg.active
      => notified[At(cfg, t)] - notified[At(cfg, s)] \in 0 .. 1

\* A and B: the group whose turn it is has been served as often as the other, or once less.
GroupTurns ==
  \A a \in cfg.groupA \ cfg.groupB, b \in cfg.groupB \ cfg.groupA :
    /\ notified[a] + notified[b] = pulses
    /\ cfg.currentGroup = 0 => notified[b] - notified[a] \in 0 .. 1
    /\ cfg.currentGroup = 1 => notified[a] - notified[b] \in 0 .. 1

TurnInv ==
  cfg.enable = 1 =>
    /\ cfg.mode = SIMULTANEOUS =>
         \A ch \in Channels : notified[ch] = IF ch \in cfg.active THEN pulses ELSE 0
    /\ cfg.mode = POLLING =>
         PollTurns /\ \A ch \in Channels \ cfg.active : notified[ch] = 0
    /\ cfg.mode = AB_ALTERNATE =>
         GroupTurns /\ \A ch \in Channels \ (cfg.groupA \cup cfg.groupB) : notified[ch] = 0


\* Division with remainder.
LEMMA Division ==
  ASSUME NEW n \in Nat \ {0}, NEW x \in Nat
  PROVE  x % n \in 0 .. n - 1 /\ \E q \in Nat : x = n * q + (x % n)
<1>1. x % n \in 0 .. n - 1 /\ x \div n \in Nat /\ x = n * (x \div n) + (x % n)
  OBVIOUS
<1>. QED
  BY <1>1

\* Once around the channels and on is where one was.
LEMMA OnceAround ==
  ASSUME NEW n \in Nat \ {0}, NEW z \in Nat
  PROVE  (z + n) % n = z % n
<1>1. PICK r \in 0 .. n - 1, q \in Nat : r = z % n /\ z = n * q + r
  BY Division
<1>2. PICK y \in Nat : y = z + n
  OBVIOUS
<1>3. PICK t \in 0 .. n - 1, p \in Nat : t = y % n /\ y = n * p + t
  BY Division
<1>4. n * p + t = n * (q + 1) + r
  BY <1>1, <1>2, <1>3
<1>5. t = r
  BY <1>4
<1>. QED
  BY <1>1, <1>2, <1>3, <1>5

\* Step s of the loop that starts behind the channel found in step d is a later step of the
\* loop that found it, or the channel found itself, or one that was passed over before it.
LEMMA StepsBehind ==
  ASSUME NEW p \in Channels, NEW d \in Channels, NEW s \in Channels, NEW y \in Channels,
         y = d + 1 + s \/ y = d + 1 + s - NumChannels
  PROVE  (((((p + d) % NumChannels) + 1) % NumChannels) + s) % NumChannels = (p + y) % NumChannels
<1>1. PICK N \in Nat \ {0} : N = NumChannels
  BY SizeAssumption
<1>2. /\ p \in 0 .. N - 1 /\ d \in 0 .. N - 1 /\ s \in 0 .. N - 1 /\ y \in 0 .. N - 1
  BY <1>1 DEF Channels
<1>3. PICK q \in Int : q = (((p + d) % N) + 1) % N
  BY <1>1, <1>2
<1>4. /\ q \in 0 .. N - 1
      /\ \E k \in {0, 1, 2} : q = p + d + 1 - k * N
  <2>1. PICK r \in 0 .. N - 1 : r = (p + d) % N
    BY <1>1, <1>2
  <2>2. r = p + d \/ r = p + d - N
    BY <1>1, <1>2, <2>1
  <2>3. q = (r + 1) % N
    BY <1>3, <2>1
  <2>4. q = IF r + 1 = N THEN 0 ELSE r + 1
    BY <1>1, <2>1, <2>3
  <2>. QED
    BY <1>1, <1>2, <2>1, <2>2, <2>4
<1>5. ASSUME NEW x \in Nat, NEW z \in Nat, NEW k \in {0, 1, 2, 3},
             x = z + k * N \/ z = x + k * N
      PROVE  x % N = z % N
  <2>1. \A w \in Nat : (w + N) % N = w % N
    BY <1>1, OnceAround
  <2>2. ASSUME NEW w \in Nat, NEW j \in {0, 1, 2, 3} PROVE (w + j * N) % N = w % N
    <3>1. PICK u \in Nat, v \in Nat : u = w + N /\ v = u + N
      BY <1>1
    <3>2. (w + N) % N = w % N /\ (u + N) % N = u % N /\ (v + N) % N = v % N
      BY <2>1
    <3>3. \/ w + j * N = w \/ w + j * N = w + N \/ w + j * N = u + N \/ w + j * N = v + N
      BY <1>1, <3>1
    <3>. QED
      BY <3>1, <3>2, <3>3
  <2>. QED
    BY <1>5, <2>2
<1>6. PICK k \in {0, 1, 2} : q = p + d + 1 - k * N
  BY <1>4
<1>7. PICK u \in Nat, v \in Nat : u = q + s /\ v = p + y
  BY <1>1, <1>2, <1>4
<1>8. u % N = v % N
  <2>1. \/ v = u + 0 * N \/ v = u + 1 * N \/ v = u + 2 * N \/ u = v + 1 * N
    BY <1>1, <1>2, <1>6, <1>7
  <2>. QED
    BY <1>5, <2>1
<1>. QED
  BY <1>1, <1>3, <1>7, <1>8

\* The loop looks at every channel once.
LEMMA EveryChannelHasAStep ==
  ASSUME NEW p \in Channels, NEW ch \in Channels
  PROVE  \E s \in Channels : ch = (p + s) % NumChannels
<1>1. PICK N \in Nat \ {0} : N = NumChannels
  BY SizeAssumption
<1>2. p \in 0 .. N - 1 /\ ch \in 0 .. N - 1
  BY <1>1 DEF Channels
<1>3. CASE p <= ch
  <2>1. PICK s \in 0 .. N - 1 : s = ch - p
    BY <1>1, <1>2, <1>3
  <2>2. ch = (p + s) % N
    BY <1>1, <1>2, <2>1
  <2>. QED
    BY <1>1, <2>2 DEF Channels
<1>4. CASE ch < p
  <2>1. PICK s \in 0 .. N - 1 : s = ch - p + N
    BY <1>1, <1>2, <1>4
  <2>2. ch = (p + s) % N
    BY <1>1, <1>2, <2>1
  <2>. QED
    BY <1>1, <2>2 DEF Channels
<1>. QED
  BY <1>2, <1>3, <1>4

\* The loop looks at no channel twice.
LEMMA StepsDiffer ==
  ASSUME NEW p \in Channels, NEW s \in Channels, NEW t \in Channels,
         (p + s) % NumChannels = (p + t) % NumChannels
  PROVE  s = t
<1>1. PICK N \in Nat \ {0} : N = NumChannels
  BY SizeAssumption
<1>2. p \in 0 .. N - 1 /\ s \in 0 .. N - 1 /\ t \in 0 .. N - 1
  BY <1>1 DEF Channels
<1>3. ASSUME NEW x \in Channels
      PROVE  (p + x) % N = p + x \/ (p + x) % N = p + x - N
  <2>1. x \in 0 .. N - 1
    BY <1>1 DEF Channels
  <2>2. PICK r \in Int : r = (p + x) % N
    BY <1>1, <1>2, <2>1
  <2>3. r = p + x \/ r = p + x - N
    BY <1>1, <1>2, <2>1, <2>2
  <2>. QED
    BY <2>2, <2>3
<1>4. PICK r \in Int : r = (p + s) % N /\ r = (p + t) % N
  BY <1>1, <1>2
<1>5. (r = p + s \/ r = p + s - N) /\ (r = p + t \/ r = p + t - N)
  BY <1>3, <1>4
<1>. QED
  BY <1>1, <1>2, <1>5

\* What a pulse changes of the configuration.
LEMMA AdvancedFields ==
  ASSUME NEW c \in Config
  PROVE  /\ Advanced(c).enable = c.enable /\ Advanced(c).mode = c.mode
         /\ Advanced(c).active = c.active
         /\ Advanced(c).groupA = c.groupA /\ Advanced(c).groupB = c.groupB
         /\ Advanced(c).pollNext =
              IF Polls(c) THEN (PolledChannel(c) + 1) % NumChannels ELSE c.pollNext
         /\ Advanced(c).currentGroup =
              IF Alternates(c) THEN 1 - c.currentGroup ELSE c.currentGroup
BY DEF Advanced, Config

\* A pulse in polling mode serves the active channel whose turn it is, and its next turn
\* comes after all the others'.
LEMMA PollPulse ==
  ASSUME TypeOK, Pulse, cfg.enable = 1, cfg.mode = POLLING, PollTurns,
         \A ch \in Channels \ cfg.active : notified[ch] = 0
  PROVE  PollTurns' /\ \A ch \in Channels \ cfg.active : notified'[ch] = 0
<1>1. cfg \in Config /\ cfg.pollNext \in Channels /\ notified \in [Channels -> Nat]
      /\ cfg.active \subseteq Channels
  BY DEF TypeOK, Config
<1>2. /\ cfg' = Advanced(cfg)
      /\ notified' = [ch \in Channels |->
                        notified[ch] + (IF ch \in SelectedMask(cfg) THEN 1 ELSE 0)]
  BY DEF Pulse
<1>3. /\ cfg'.active = cfg.active
      /\ cfg'.pollNext = IF Polls(cfg) THEN (PolledChannel(cfg) + 1) % NumChannels
                                       ELSE cfg.pollNext
  BY <1>1, <1>2, AdvancedFields
<1>4. \A ch \in Channels : ch \in SelectedMask(cfg) <=> Polls(cfg) /\ ch = PolledChannel(cfg)
  BY DEF SelectedMask, SIMULTANEOUS, POLLING, AB_ALTERNATE, Alternates
<1>5. CASE ~Polls(cfg)
  <2>1. cfg'.pollNext = cfg.pollNext
    BY <1>3, <1>5
  <2>2. \A ch \in Channels : notified'[ch] = notified[ch]
    BY <1>1, <1>2, <1>4, <1>5
  <2>3. \A s \in Channels : At(cfg, s)' = At(cfg, s) /\ At(cfg, s) \in Channels
    <3>1. ASSUME NEW s \in Channels PROVE (cfg.pollNext + s) % NumChannels \in Channels
      <4>1. PICK x \in Nat : x = cfg.pollNext + s
        BY <1>1 DEF Channels
      <4>2. x % NumChannels \in 0 .. NumChannels - 1
        BY SizeAssumption, Division
      <4>. QED
        BY <4>1, <4>2 DEF Channels
    <3>. QED
      BY <2>1, <3>1 DEF At
  <2>. QED
    BY <1>3, <2>2, <2>3 DEF PollTurns
<1>6. CASE Polls(cfg)
  <2>1. PollSteps(cfg) # {} /\ PollSteps(cfg) \in SUBSET Nat /\ PollSteps(cfg) \subseteq Channels
    BY <1>6, SizeAssumption DEF Polls, PollSteps, Channels
  <2>2. PICK d \in Channels : /\ d = FirstOf(PollSteps(cfg)) /\ d \in PollSteps(cfg)
                              /\ \A t \in PollSteps(cfg) : d <= t
    BY <2>1, FirstOfIsLeast
  <2>3. PICK ch0 \in Channels : ch0 = PolledChannel(cfg)
    BY <1>1, <1>6, PolledChannelType
  <2>4. ch0 = (cfg.pollNext + d) % NumChannels /\ ch0 = At(cfg, d) /\ ch0 \in cfg.active
    BY <2>2, <2>3 DEF PolledChannel, PollSteps, At
  <2>5. \A ch \in Channels : notified'[ch] = notified[ch] + (IF ch = ch0 THEN 1 ELSE 0)
    BY <1>2, <1>4, <1>6, <2>3
  <2>6. cfg'.pollNext = (((cfg.pollNext + d) % NumChannels) + 1) % NumChannels
    BY <1>3, <1>6, <2>3, <2>4
  <2>7. ASSUME NEW s \in Channels, NEW t \in Channels, s < t,
               At(cfg, s)' \in cfg.active, At(cfg, t)' \in cfg.active
        PROVE  notified'[At(cfg, t)'] - notified'[At(cfg, s)'] \in 0 .. 1
    <3>1. PICK N \in Nat \ {0} : N = NumChannels
      BY SizeAssumption
    <3>2. d \in 0 .. N - 1 /\ s \in 0 .. N - 1 /\ t \in 0 .. N - 1
      BY <3>1 DEF Channels
    <3>3. ASSUME NEW x \in Channels, At(cfg, x)' \in cfg.active
          PROVE  \/ /\ d + 1 + x < N /\ d + 1 + x \in Channels
                    /\ At(cfg, x)' = At(cfg, d + 1 + x)
                    /\ At(cfg, x)' # ch0
                 \/ x = N - 1 /\ At(cfg, x)' = ch0
      <4>1. x \in 0 .. N - 1
        BY <3>1 DEF Channels
      <4>2. CASE d + 1 + x < N
        <5>1. PICK y \in Channels : y = d + 1 + x
          BY <3>1, <3>2, <4>1, <4>2 DEF Channels
        <5>2. At(cfg, x)' = At(cfg, y)
          <6>1. (((((cfg.pollNext + d) % NumChannels) + 1) % NumChannels) + x) % NumChannels
                  = (cfg.pollNext + y) % NumChannels
            <7>1. PICK p \in Channels : p = cfg.pollNext
              BY <1>1
            <7>2. y = d + 1 + x \/ y = d + 1 + x - NumChannels
              BY <3>1, <5>1
            <7>3. (((((p + d) % NumChannels) + 1) % NumChannels) + x) % NumChannels
                    = (p + y) % NumChannels
              BY <7>2, StepsBehind
            <7>. QED
              BY <7>1, <7>3
          <6>. QED
            BY <2>6, <6>1 DEF At
        <5>3. y # d
          BY <3>2, <4>1, <5>1
        <5>4. At(cfg, y) # At(cfg, d)
          BY <1>1, <5>3, StepsDiffer DEF At
        <5>. QED
          BY <2>4, <4>2, <5>1, <5>2, <5>4
      <4>3. CASE d + 1 + x >= N
        <5>1. PICK y \in Channels : y = d + 1 + x - N
          BY <3>1, <3>2, <4>1, <4>3 DEF Channels
        <5>2. At(cfg, x)' = At(cfg, y)
          <6>1. (((((cfg.pollNext + d) % NumChannels) + 1) % NumChannels) + x) % NumChannels
                  = (cfg.pollNext + y) % NumChannels
            <7>1. PICK p \in Channels : p = cfg.pollNext
              BY <1>1
            <7>2. y = d + 1 + x \/ y = d + 1 + x - NumChannels
              BY <3>1, <5>1
            <7>3. (((((p + d) % NumChannels) + 1) % NumChannels) + x) % NumChannels
                    = (p + y) % NumChannels
              BY <7>2, StepsBehind
            <7>. QED
              BY <7>1, <7>3
          <6>. QED
            BY <2>6, <6>1 DEF At
        <5>3. y \in PollSteps(cfg)
          BY <3>3, <5>2 DEF PollSteps, At
        <5>4. d <= y
          BY <2>2, <5>3
        <5>5. y = d /\ x = N - 1
          BY <3>2, <4>1, <5>1, <5>4
        <5>. QED
          BY <2>4, <5>2, <5>5
      <4>. QED
        BY <3>2, <4>1, <4>2, <4>3
    <3>4. /\ d + 1 + s < N /\ d + 1 + s \in Channels
          /\ At(cfg, s)' = At(cfg, d + 1 + s) /\ At(cfg, s)' # ch0
      BY <2>7, <3>2, <3>3
    <3>5. PICK u \in Channels : u = d + 1 + s
      BY <3>4
    <3>6. At(cfg, s)' = At(cfg, u) /\ notified'[At(cfg, s)'] = notified[At(cfg, u)]
          /\ At(cfg, u) \in cfg.active /\ notified[At(cfg, u)] \in Nat
      <4>1. At(cfg, s)' = At(cfg, u)
        BY <3>4, <3>5
      <4>2. At(cfg, s)' \in Channels
        BY <1>1, <2>7
      <4>3. notified'[At(cfg, s)'] = notified[At(cfg, s)'] + 0
        BY <2>5, <3>4, <4>2
      <4>. QED
        BY <1>1, <2>7, <4>1, <4>2, <4>3
    <3>7. CASE t = N - 1 /\ At(cfg, t)' = ch0
      <4>1. d < u
        BY <3>2, <3>5
      <4>2. notified[At(cfg, u)] - notified[ch0] \in 0 .. 1
        BY <2>4, <3>6, <4>1 DEF PollTurns
      <4>3. notified'[ch0] = notified[ch0] + 1 /\ notified[ch0] \in Nat
        BY <1>1, <2>5
      <4>. QED
        BY <3>6, <3>7, <4>2, <4>3
    <3>8. CASE /\ d + 1 + t < N /\ d + 1 + t \in Channels
               /\ At(cfg, t)' = At(cfg, d + 1 + t) /\ At(cfg, t)' # ch0
      <4>1. PICK v \in Channels : v = d + 1 + t
        BY <3>8
      <4>2. u < v
        BY <2>7, <3>2, <3>5, <4>1
      <4>3. At(cfg, t)' \in Channels /\ At(cfg, t)' = At(cfg, v)
        BY <1>1, <2>7, <3>8, <4>1
      <4>4. notified'[At(cfg, t)'] = notified[At(cfg, v)] + 0 /\ notified[At(cfg, v)] \in Nat
        BY <1>1, <2>5, <3>8, <4>3
      <4>5. notified[At(cfg, v)] - notified[At(cfg, u)] \in 0 .. 1
        BY <2>7, <3>6, <4>2, <4>3 DEF PollTurns
      <4>. QED
        BY <3>6, <4>4, <4>5
    <3>. QED
      BY <2>7, <3>3, <3>7, <3>8
  <2>8. PollTurns'
    BY <1>3, <2>7 DEF PollTurns
  <2>9. \A ch \in Channels \ cfg.active : notified'[ch] = 0
    BY <2>4, <2>5
  <2>. QED
    BY <2>8, <2>9
<1>. QED
  BY <1>5, <1>6

\* A pulse in simultaneous mode serves every active channel.
LEMMA SimultaneousPulse ==
  ASSUME TypeOK, Pulse, cfg.enable = 1, cfg.mode = SIMULTANEOUS,
         \A ch \in Channels : notified[ch] = IF ch \in cfg.active THEN pulses ELSE 0
  PROVE  \A ch \in Channels : notified'[ch] = IF ch \in cfg.active THEN pulses' ELSE 0
<1>1. /\ notified' = [ch \in Channels |->
                        notified[ch] + (IF ch \in SelectedMask(cfg) THEN 1 ELSE 0)]
      /\ pulses' = pulses + 1
  BY DEF Pulse
<1>2. \A ch \in Channels : ch \in SelectedMask(cfg) <=> ch \in cfg.active
  BY DEF SelectedMask, SIMULTANEOUS, POLLING, AB_ALTERNATE, Alternates, Polls
<1>. QED
  BY <1>1, <1>2

\* A pulse in alternate mode serves the group whose turn it is, and gives the turn to the
\* other.
LEMMA AlternatePulse ==
  ASSUME TypeOK, Pulse, cfg.enable = 1, cfg.mode = AB_ALTERNATE, GroupTurns,
         \A ch \in Channels \ (cfg.groupA \cup cfg.groupB) : notified[ch] = 0
  PROVE  GroupTurns' /\ \A ch \in Channels \ (cfg.groupA \cup cfg.groupB) : notified'[ch] = 0
<1>1. cfg \in Config /\ notified \in [Channels -> Nat] /\ cfg.currentGroup \in {0, 1}
      /\ cfg.groupA \subseteq Channels /\ cfg.groupB \subseteq Channels /\ pulses \in Nat
  BY DEF TypeOK, Config
<1>2. /\ cfg' = Advanced(cfg)
      /\ notified' = [ch \in Channels |->
                        notified[ch] + (IF ch \in SelectedMask(cfg) THEN 1 ELSE 0)]
      /\ pulses' = pulses + 1
  BY DEF Pulse
<1>3. /\ cfg'.groupA = cfg.groupA /\ cfg'.groupB = cfg.groupB
      /\ cfg'.currentGroup = 1 - cfg.currentGroup
  BY <1>1, <1>2, AdvancedFields DEF Alternates
<1>4. \A ch \in Channels :
        ch \in SelectedMask(cfg) <=> ch \in (IF cfg.currentGroup = 0 THEN cfg.groupA
                                                                      ELSE cfg.groupB)
  BY DEF SelectedMask, SIMULTANEOUS, POLLING, AB_ALTERNATE, Alternates, Polls
<1>5. \A ch \in Channels : notified'[ch] = notified[ch] + (IF ch \in SelectedMask(cfg) THEN 1 ELSE 0)
  BY <1>2
<1>6. ASSUME NEW a \in cfg.groupA \ cfg.groupB, NEW b \in cfg.groupB \ cfg.groupA
      PROVE  /\ notified'[a] + notified'[b] = pulses'
             /\ cfg'.currentGroup = 0 => notified'[b] - notified'[a] \in 0 .. 1
             /\ cfg'.currentGroup = 1 => notified'[a] - notified'[b] \in 0 .. 1
  <2>1. /\ notified[a] + notified[b] = pulses
        /\ cfg.currentGroup = 0 => notified[b] - notified[a] \in 0 .. 1
        /\ cfg.currentGroup = 1 => notified[a] - notified[b] \in 0 .. 1
    BY DEF GroupTurns
  <2>2. a \in Channels /\ b \in Channels /\ notified[a] \in Nat /\ notified[b] \in Nat
    BY <1>1
  <2>3. CASE cfg.currentGroup = 0
    <3>1. notified'[a] = notified[a] + 1 /\ notified'[b] = notified[b] + 0
      BY <1>4, <1>5, <2>2, <2>3
    <3>. QED
      BY <1>2, <1>3, <2>1, <2>2, <2>3, <3>1
  <2>4. CASE cfg.currentGroup = 1
    <3>1. notified'[a] = notified[a] + 0 /\ notified'[b] = notified[b] + 1
      BY <1>4, <1>5, <2>2, <2>4
    <3>. QED
      BY <1>2, <1>3, <2>1, <2>2, <2>4, <3>1
  <2>. QED
    BY <1>1, <2>3, <2>4
<1>7. GroupTurns'
  BY <1>3, <1>6 DEF GroupTurns
<1>8. \A ch \in Channels \ (cfg.groupA \cup cfg.groupB) : notified'[ch] = 0
  BY <1>4, <1>5
<1>. QED
  BY <1>7, <1>8

\* Every step keeps the turns: a configuration starts them afresh, a pulse takes one.
LEMMA StepTurns == IInv /\ TurnInv /\ [Next]_vars => TurnInv'
<1> SUFFICES ASSUME IInv, TurnInv, [Next]_vars PROVE TurnInv'
  OBVIOUS
<1>1. TypeOK
  BY DEF IInv
<1>2. CASE UNCHANGED <<cfg, notified, pulses>>
  BY <1>2 DEF TurnInv, PollTurns, GroupTurns, At
<1>3. ASSUME NEW req \in ConfigRequests, Configure(req) PROVE TurnInv'
  <2>1. notified' = [ch \in Channels |-> 0] /\ pulses' = 0
    BY <1>3 DEF Configure
  <2>2. cfg'.pollNext \in Channels /\ cfg'.groupA \subseteq Channels /\ cfg'.groupB \subseteq Channels
    <3>1. /\ cfg'.pollNext = req.startChannel
          /\ cfg'.groupA = req.groupA /\ cfg'.groupB = req.groupB
      BY <1>3 DEF Configure
    <3>2. req.startChannel \in Nat /\ req.startChannel < NumChannels
          /\ req.groupA \subseteq Channels /\ req.groupB \subseteq Channels
      <4>1. req \in ConfigRequest
        BY RequestAssumption
      <4>. QED
        BY <1>3, <4>1 DEF Configure, ValidRequest, ConfigRequest
    <3>. QED
      BY <3>1, <3>2, SizeAssumption DEF Channels
  <2>3. \A ch \in Channels : notified'[ch] = 0
    BY <2>1
  <2>4. PollTurns'
    <3>1. ASSUME NEW s \in Channels PROVE At(cfg, s)' \in Channels
      BY <2>2, SizeAssumption DEF At, Channels
    <3>2. 0 - 0 \in 0 .. 1
      OBVIOUS
    <3>. QED
      BY <2>3, <3>1, <3>2 DEF PollTurns
  <2>5. GroupTurns'
    <3>1. 0 - 0 \in 0 .. 1 /\ 0 + 0 = 0
      OBVIOUS
    <3>. QED
      BY <2>1, <2>2, <2>3, <3>1 DEF GroupTurns
  <2>. QED
    BY <2>1, <2>3, <2>4, <2>5 DEF TurnInv
<1>4. CASE Pulse
  <2>1. /\ cfg'.enable = cfg.enable /\ cfg'.mode = cfg.mode /\ cfg'.active = cfg.active
        /\ cfg'.groupA = cfg.groupA /\ cfg'.groupB = cfg.groupB
    BY <1>1, <1>4, AdvancedFields DEF Pulse, TypeOK
  <2>2. SUFFICES ASSUME cfg.enable = 1 PROVE TurnInv'
    BY <2>1 DEF TurnInv
  <2>3. cfg.mode = SIMULTANEOUS =>
          \A ch \in Channels : notified'[ch] = IF ch \in cfg.active THEN pulses' ELSE 0
    BY <1>1, <1>4, <2>2, SimultaneousPulse DEF TurnInv
  <2>4. cfg.mode = POLLING =>
          PollTurns' /\ \A ch \in Channels \ cfg.active : notified'[ch] = 0
    BY <1>1, <1>4, <2>2, PollPulse DEF TurnInv
  <2>5. cfg.mode = AB_ALTERNATE =>
          GroupTurns' /\ \A ch \in Channels \ (cfg.groupA \cup cfg.groupB) : notified'[ch] = 0
    BY <1>1, <1>4, <2>2, AlternatePulse DEF TurnInv
  <2>. QED
    BY <2>1, <2>3, <2>4, <2>5 DEF TurnInv
<1>5. ASSUME NEW ch \in Channels, Sender(ch) \/ SpuriousWakeup(ch) \/ OpenChannel(ch)
                                  \/ CloseChannel(ch)
      PROVE  UNCHANGED <<cfg, notified, pulses>>
  <2>1. CASE CheckWake(ch) \/ Take(ch) \/ SpuriousWakeup(ch)
    BY <2>1 DEF CheckWake, Take, SpuriousWakeup, schedVars, ghostVars
  <2>2. CASE BeginSend(ch) \/ \E ok \in BOOLEAN : WriteFrame(ch, ok)
    BY <2>2 DEF BeginSend, WriteFrame, schedVars, ghostVars
  <2>3. CASE OpenChannel(ch) \/ CloseChannel(ch)
    BY <2>3 DEF OpenChannel, CloseChannel, schedVars, ghostVars
  <2>. QED
    BY <1>5, <2>1, <2>2, <2>3 DEF Sender
<1>6. ASSUME \/ \E ch \in Channels, size \in GroupSizes : EnqueueGroup(ch, size)
             \/ RefuseGroup \/ Tick \/ UNCHANGED vars
      PROVE  UNCHANGED <<cfg, notified, pulses>>
  BY <1>6 DEF EnqueueGroup, RefuseGroup, Tick, vars, schedVars, ghostVars
<1>. QED
  BY <1>2, <1>3, <1>4, <1>5, <1>6 DEF Next, BetweenPulses

\* Turns that are kept make an even schedule.
LEMMA TurnsAreEven == IInv /\ TurnInv => EvenSchedule
<1> SUFFICES ASSUME IInv, TurnInv, cfg.enable = 1 PROVE EvenSchedule
  BY DEF EvenSchedule
<1>1. cfg \in Config /\ notified \in [Channels -> Nat] /\ cfg.currentGroup \in {0, 1}
      /\ cfg.pollNext \in Channels /\ cfg.active \subseteq Channels
      /\ cfg.groupA \subseteq Channels /\ cfg.groupB \subseteq Channels
  BY DEF IInv, TypeOK, Config
<1>2. ASSUME cfg.mode = POLLING, NEW a \in cfg.active, NEW b \in cfg.active
      PROVE  notified[a] - notified[b] \in -1 .. 1
  <2>1. a \in Channels /\ b \in Channels /\ notified[a] \in Nat /\ notified[b] \in Nat
    BY <1>1
  <2>2. PICK s \in Channels : a = At(cfg, s)
    BY <1>1, <2>1, EveryChannelHasAStep DEF At
  <2>3. PICK t \in Channels : b = At(cfg, t)
    BY <1>1, <2>1, EveryChannelHasAStep DEF At
  <2>4. s \in Nat /\ t \in Nat
    BY SizeAssumption DEF Channels
  <2>5. PollTurns
    BY <1>2 DEF TurnInv
  <2>6. CASE s < t
    <3>1. notified[b] - notified[a] \in 0 .. 1
      BY <2>2, <2>3, <2>5, <2>6 DEF PollTurns
    <3>. QED
      BY <2>1, <3>1
  <2>7. CASE t < s
    <3>1. notified[a] - notified[b] \in 0 .. 1
      BY <2>2, <2>3, <2>5, <2>7 DEF PollTurns
    <3>. QED
      BY <2>1, <3>1
  <2>8. CASE s = t
    <3>1. a = b
      BY <2>2, <2>3, <2>8
    <3>. QED
      BY <2>1, <3>1
  <2>. QED
    BY <2>4, <2>6, <2>7, <2>8
<1>3. ASSUME cfg.mode = AB_ALTERNATE, NEW a \in cfg.groupA \ cfg.groupB,
             NEW b \in cfg.groupB \ cfg.groupA
      PROVE  notified[a] - notified[b] \in -1 .. 1 /\ notified[a] + notified[b] = pulses
  <2>1. notified[a] \in Nat /\ notified[b] \in Nat
    BY <1>1
  <2>2. /\ notified[a] + notified[b] = pulses
        /\ cfg.currentGroup = 0 => notified[b] - notified[a] \in 0 .. 1
        /\ cfg.currentGroup = 1 => notified[a] - notified[b] \in 0 .. 1
    BY <1>3 DEF TurnInv, GroupTurns
  <2>. QED
    BY <1>1, <2>1, <2>2
<1>. QED
  BY <1>2, <1>3 DEF EvenSchedule, TurnInv

\* The schedule is even for every number of channels, every mask and every start
\* (select_broadcast_mask_on_pps).
THEOREM ScheduleIsEven == Spec => []EvenSchedule
<1>1. Init => TurnInv
  <2>1. Init => cfg.enable = 0
    BY DEF Init
  <2>. QED
    BY <2>1 DEF TurnInv
<1>. QED
  BY <1>1, InitIInv, StepIInv, StepTurns, TurnsAreEven, PTL DEF Spec

-----------------------------------------------------------------------------
(* The driver, its thread and the scheduler.                               *)

PpsTypeOK ==
  /\ irqCount \in Nat
  /\ irqOccurred \in BOOLEAN
  /\ irqPc \in {"idle", "mark", "wake"}
  /\ waiting \in BOOLEAN
  /\ triggered \in BOOLEAN
  /\ ppsPc \in {"open", "poll", "test", "clear", "sleep", "process", "ended"}
  /\ processed \in Nat

\* Every interrupt has one token, and a token is counted once: in the handler, in
\* irq_occurred, with the thread, or processed.  Only the thread clears irq_occurred.
TokenInv ==
  /\ processed + One(irqOccurred) + One(ppsPc = "process") + One(irqPc = "mark") <= irqCount
  /\ ppsPc = "clear" => irqOccurred

\* The thread is on the wait queue from before its test until poll returns.
QueueInv ==
  /\ ppsPc \in {"test", "clear", "sleep"} => waiting
  /\ ppsPc = "sleep" /\ irqOccurred => triggered \/ irqPc = "wake"

PpsInv == PpsTypeOK /\ TokenInv /\ QueueInv

-----------------------------------------------------------------------------

\* Every step of the driver, the thread and the scheduler keeps PpsInv.
LEMMA StepPpsInv == PpsInv /\ [SysNext]_sysVars => PpsInv'
<1> SUFFICES ASSUME PpsInv, [SysNext]_sysVars PROVE PpsInv'
  OBVIOUS
<1> USE DEF PpsInv, PpsTypeOK, TokenInv, QueueInv, One
<1>1. CASE CountInterrupt
  BY <1>1 DEF CountInterrupt
<1>2. CASE MarkInterrupt
  BY <1>2 DEF MarkInterrupt
<1>3. CASE WakeWaiters
  BY <1>3 DEF WakeWaiters
<1>4. CASE OpenDevice \/ ThreadEnds
  BY <1>4 DEF OpenDevice, ThreadEnds, ThreadStep, driverVars
<1>5. CASE PollWait
  BY <1>5 DEF PollWait, ThreadStep
<1>6. CASE TestOccurred
  BY <1>6 DEF TestOccurred, ThreadStep, driverVars
<1>7. CASE ClearOccurred
  <2>1. /\ irqOccurred /\ ppsPc = "clear"
        /\ ~irqOccurred' /\ ppsPc' = "process"
        /\ UNCHANGED <<irqCount, irqPc, processed>>
        /\ waiting' = FALSE /\ triggered' = FALSE
    BY <1>7, Zenon DEF ClearOccurred, ThreadStep, LeaveQueue
  <2>2. irqOccurred' = FALSE
    BY <1>7, Zenon DEF ClearOccurred
  <2>3. PpsTypeOK' /\ QueueInv'
    BY <2>1, <2>2
  <2>4. One(irqOccurred) = 1 /\ One(ppsPc = "process") = 0
        /\ One(irqOccurred)' = 0 /\ One(ppsPc = "process")' = 1
    BY <2>1
  <2>5. TokenInv'
    BY <2>1, <2>4
  <2>. QED
    BY <2>3, <2>5
<1>8. CASE WakeUp
  BY <1>8 DEF WakeUp, ThreadStep
<1>9. CASE PollReturnsEmpty
  BY <1>9 DEF PollReturnsEmpty, ThreadStep, LeaveQueue
<1>10. CASE ProcessPulse
  BY <1>10 DEF ProcessPulse, driverVars
<1>11. CASE UNCHANGED ppsVars
  BY <1>11 DEF ppsVars, driverVars
<1>. QED
  BY <1>1, <1>2, <1>3, <1>4, <1>5, <1>6, <1>7, <1>8, <1>9, <1>10, <1>11
     DEF SysNext, Interrupt, Thread, sysVars

\* A step of the composition is a pulse, another step of the scheduler, or none of its own.
LEMMA StepIsStep == [SysNext]_sysVars => [Next]_vars
<1> SUFFICES ASSUME [SysNext]_sysVars PROVE [Next]_vars
  OBVIOUS
<1>1. CASE Interrupt
  BY <1>1 DEF Interrupt, CountInterrupt, MarkInterrupt, WakeWaiters
<1>2. CASE ProcessPulse
  BY <1>2 DEF ProcessPulse, Next
<1>3. CASE OpenDevice \/ PollWait \/ TestOccurred \/ ClearOccurred \/ WakeUp
           \/ ThreadEnds \/ PollReturnsEmpty
  BY <1>3 DEF OpenDevice, PollWait, TestOccurred, ClearOccurred, WakeUp, ThreadEnds,
              PollReturnsEmpty, ThreadStep
<1>4. CASE BetweenPulses
  BY <1>4 DEF Next
<1>5. CASE UNCHANGED sysVars
  BY <1>5 DEF sysVars
<1>. QED
  BY <1>1, <1>2, <1>3, <1>4, <1>5 DEF SysNext, Thread

-----------------------------------------------------------------------------

\* The driver and its thread feed the scheduler without changing what it may do: the
\* composition implements Broadcast!Spec (pps_irq_thread calls process_broadcast_pps).
THEOREM DriverImplements == SysSpec => Spec
<1>1. SysInit => Init
  BY DEF SysInit
<1>. QED
  BY <1>1, StepIsStep, PTL DEF SysSpec, Spec

\* What is proved of the scheduler holds of the whole: claims, windows, wakes, sleeps and
\* the schedule.
THEOREM SystemIsSafe ==
  SysSpec => [](NoStaleClaim /\ LoadedInWindow /\ OneGroupPerWake /\ NoLostWakeup
                  /\ EvenSchedule)
<1>1. IInv => NoStaleClaim /\ LoadedInWindow /\ OneGroupPerWake /\ NoLostWakeup
  BY DEF IInv
<1>. QED
  BY <1>1, DriverImplements, Invariance, ScheduleIsEven, PTL

\* PpsInv is an inductive invariant of the driver, its thread and the scheduler.
THEOREM PpsInvariance == SysSpec => []PpsInv
<1>1. ASSUME SysInit PROVE PpsInv
  <2>1. One(irqOccurred) = 0 /\ One(ppsPc = "process") = 0 /\ One(irqPc = "mark") = 0
    BY <1>1 DEF SysInit, One
  <2>2. PpsTypeOK /\ QueueInv
    BY <1>1 DEF SysInit, PpsTypeOK, QueueInv
  <2>3. irqCount = 0 /\ processed = 0 /\ ppsPc = "open"
    BY <1>1 DEF SysInit
  <2>4. TokenInv
    BY <2>1, <2>3 DEF TokenInv
  <2>. QED
    BY <2>2, <2>4 DEF PpsInv
<1>. QED
  BY <1>1, StepPpsInv, PTL DEF SysSpec

\* Pulses processed, taken up and pending are never more than the interrupts.
THEOREM PulsesAreInterrupts == SysSpec => []NoInventedPulse
<1>1. PpsInv => NoInventedPulse
  BY DEF PpsInv, PpsTypeOK, TokenInv, NoInventedPulse, One
<1>. QED
  BY <1>1, PpsInvariance, PTL

\* The thread never sleeps while irq_occurred is set and no wake-up is coming.
THEOREM NoSleepOnPulse == SysSpec => []NoSleepThrough
<1>1. PpsInv => NoSleepThrough
  BY DEF PpsInv, QueueInv, NoSleepThrough
<1>. QED
  BY <1>1, PpsInvariance, PTL
=============================================================================

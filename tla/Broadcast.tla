------------------------------ MODULE Broadcast ------------------------------
(***************************************************************************)
(* The pulse-per-second broadcast scheduler of main18.c.  The PC loads     *)
(* groups of CAN frames into one queue per channel while the window after  *)
(* a pulse is open; every pulse wakes the channels that the configured     *)
(* mode selects; a sender thread per channel claims a wake, takes one      *)
(* group and writes its frames to the CAN device.                          *)
(*                                                                         *)
(* Configuration, pulse, enqueue and take run under bcast_state_mutex, so  *)
(* each is one action.  The condition variable, the group held in a        *)
(* sender's local variable, the unlocked open/closed flag of a channel and *)
(* the device writes interleave with them.                                 *)
(***************************************************************************)
EXTENDS Integers, Sequences

CONSTANTS
  NumChannels,     \* AXICAN_MAX
  QueueDepth,      \* BCAST_GROUP_QUEUE_DEPTH
  GroupSizes,      \* the frame counts of groups, within 1..BCAST_MAX_FRAMES_PER_GROUP
  Window,          \* BCAST_PPS_RX_WINDOW_MS, in clock ticks
  ConfigRequests,  \* the configuration requests the PC may send
  MaxConfigs,      \* bound: accepted configurations
  MaxPulses,       \* bound: pulses under one configuration
  MaxTime          \* bound: clock ticks

Channels == 0 .. NumChannels - 1

SIMULTANEOUS == 1
POLLING      == 2
AB_ALTERNATE == 3

ConfigRequest ==
  [enable : Nat, mode : Nat, active : SUBSET Nat, groupA : SUBSET Nat,
   groupB : SUBSET Nat, startGroup : Nat, startChannel : Nat]

ASSUME SizeAssumption ==
  /\ NumChannels \in Nat \ {0}
  /\ QueueDepth \in Nat \ {0}
  /\ GroupSizes \subseteq Nat \ {0}
  /\ Window \in Nat

ASSUME RequestAssumption == ConfigRequests \subseteq ConfigRequest

ASSUME BoundAssumption ==
  MaxConfigs \in Nat /\ MaxPulses \in Nat /\ MaxTime \in Nat

VARIABLES
  cfg,        \* g_bcast_cfg
  queue,      \* g_bcast_group_buf_set: the groups waiting, per channel
  wakes,      \* g_bcast_wake[ch].pending: one entry, its configuration, per wake
  gateOpen,   \* g_bcast_rx_gate_open
  gateUntil,  \* g_bcast_rx_gate_until_ms
  now,        \* the monotonic clock
  opened,     \* the channels whose can_configs[ch].state is CAN_STATE_OPENED
  pc,         \* where the sender thread of a channel is
  local,      \* the sender's local group, with the wake it was claimed by
  written,    \* frames of the local group already written
  \* History, which no action's guard reads (but for the bounds):
  epoch,      \* configurations accepted so far
  pulses,     \* pulses processed since the last configuration
  notified,   \* wakes given to a channel since the last configuration
  taken,      \* groups taken by a channel since the last configuration
  lastPulse   \* the time of the last pulse since the last configuration

schedVars  == <<cfg, gateOpen, gateUntil>>
senderVars == <<pc, local, written>>
ghostVars  == <<epoch, pulses, notified, lastPulse>>
vars == <<schedVars, queue, wakes, now, opened, senderVars, ghostVars, taken>>

NoPulse == -1

Config == [enable : {0, 1}, mode : Nat, active : SUBSET Channels,
           groupA : SUBSET Channels, groupB : SUBSET Channels,
           currentGroup : {0, 1}, pollNext : Channels]
Group == [size : GroupSizes, epoch : Nat, age : Nat]
Claim == [wake : Nat, size : GroupSizes, epoch : Nat, age : Nat]

\* memset(&group, 0, sizeof(group)): nothing has been taken
NoClaim == [wake |-> 0, size |-> 0, epoch |-> 0, age |-> 0]

Init ==
  /\ cfg = [enable |-> 0, mode |-> 0, active |-> {}, groupA |-> {}, groupB |-> {},
            currentGroup |-> 0, pollNext |-> 0]
  /\ queue = [ch \in Channels |-> <<>>]
  /\ wakes = [ch \in Channels |-> <<>>]
  /\ gateOpen = FALSE
  /\ gateUntil = 0
  /\ now = 0
  /\ opened = {}
  /\ pc = [ch \in Channels |-> "check"]
  /\ local = [ch \in Channels |-> NoClaim]
  /\ written = [ch \in Channels |-> 0]
  /\ epoch = 0
  /\ pulses = 0
  /\ notified = [ch \in Channels |-> 0]
  /\ taken = [ch \in Channels |-> 0]
  /\ lastPulse = NoPulse

-----------------------------------------------------------------------------
(* Configuration: handle_broadcast_config and reset_broadcast_buffers.     *)

\* Fault: start_channel is not compared with AXICAN_MAX.
UncheckedStartChannel(req) ==
  /\ req.enable \in {0, 1}
  /\ req.enable = 1 => req.mode \in SIMULTANEOUS .. AB_ALTERNATE
  /\ req.active \cup req.groupA \cup req.groupB \subseteq Channels
  /\ req.startGroup <= 1

ValidRequest(req) ==
  /\ req.enable \in {0, 1}
  /\ req.enable = 1 => req.mode \in SIMULTANEOUS .. AB_ALTERNATE
  /\ req.active \subseteq Channels
  /\ req.groupA \subseteq Channels
  /\ req.groupB \subseteq Channels
  /\ req.startChannel < NumChannels
  /\ req.startGroup <= 1

\* Fault: the reset forgets the wake counters.
ResetKeepsWakes ==
  /\ queue' = [ch \in Channels |-> <<>>]
  /\ UNCHANGED wakes
  /\ gateOpen' = FALSE
  /\ gateUntil' = 0

\* Fault: the reset leaves the receive window open.
ResetKeepsGate ==
  /\ queue' = [ch \in Channels |-> <<>>]
  /\ wakes' = [ch \in Channels |-> <<>>]
  /\ UNCHANGED <<gateOpen, gateUntil>>

ResetBuffers ==
  /\ queue' = [ch \in Channels |-> <<>>]
  /\ wakes' = [ch \in Channels |-> <<>>]
  /\ gateOpen' = FALSE
  /\ gateUntil' = 0

\* A request that fails the validation is answered with status 1 and changes nothing.
Configure(req) ==
  /\ epoch < MaxConfigs
  /\ ValidRequest(req)
  /\ cfg' = [enable |-> req.enable, mode |-> req.mode, active |-> req.active,
             groupA |-> req.groupA, groupB |-> req.groupB,
             currentGroup |-> req.startGroup, pollNext |-> req.startChannel]
  /\ ResetBuffers
  /\ epoch' = epoch + 1
  /\ pulses' = 0
  /\ notified' = [ch \in Channels |-> 0]
  /\ taken' = [ch \in Channels |-> 0]
  /\ lastPulse' = NoPulse
  /\ UNCHANGED <<now, opened, senderVars>>

-----------------------------------------------------------------------------
(* Pulse: process_broadcast_pps.                                           *)

\* The steps from poll_next_channel at which the polling loop finds an active channel.
PollSteps(c) ==
  {s \in Channels : (c.pollNext + s) % NumChannels \in c.active}

FirstOf(S) == CHOOSE s \in S : \A t \in S : s <= t

PolledChannel(c) == (c.pollNext + FirstOf(PollSteps(c))) % NumChannels

Polls(c) == c.enable = 1 /\ c.mode = POLLING /\ PollSteps(c) # {}
Alternates(c) == c.enable = 1 /\ c.mode = AB_ALTERNATE

\* select_broadcast_mask_on_pps, its return value
SelectedMask(c) ==
  {ch \in Channels :
     \/ c.enable = 1 /\ c.mode = SIMULTANEOUS /\ ch \in c.active
     \/ Polls(c) /\ ch = PolledChannel(c)
     \/ Alternates(c) /\ ch \in (IF c.currentGroup = 0 THEN c.groupA ELSE c.groupB)}

\* Fault: the next poll starts one past the last start, not one past the polled channel.
AdvancedFromStart(c) ==
  [c EXCEPT !.pollNext = IF Polls(c) THEN (@ + 1) % NumChannels ELSE @,
            !.currentGroup = IF Alternates(c) THEN 1 - @ ELSE @]

\* select_broadcast_mask_on_pps, its effect on the configuration
Advanced(c) ==
  [c EXCEPT !.pollNext = IF Polls(c) THEN (PolledChannel(c) + 1) % NumChannels ELSE @,
            !.currentGroup = IF Alternates(c) THEN 1 - @ ELSE @]

\* Fault: the counter is raised and the condition variable is not signalled.
NotifyWithoutSignal(mask) ==
  /\ wakes' = [ch \in Channels |->
                 IF ch \in mask THEN Append(wakes[ch], epoch) ELSE wakes[ch]]
  /\ UNCHANGED pc

\* notify_broadcast_channels: pending++ and pthread_cond_signal under the wake mutex
Notify(mask) ==
  /\ wakes' = [ch \in Channels |->
                 IF ch \in mask THEN Append(wakes[ch], epoch) ELSE wakes[ch]]
  /\ pc' = [ch \in Channels |->
              IF ch \in mask /\ pc[ch] = "blocked" THEN "check" ELSE pc[ch]]

Pulse ==
  LET mask == SelectedMask(cfg) IN
  /\ pulses < MaxPulses
  /\ gateOpen' = TRUE
  /\ gateUntil' = now + Window
  /\ cfg' = Advanced(cfg)
  /\ Notify(mask)
  /\ pulses' = pulses + 1
  /\ notified' = [ch \in Channels |-> notified[ch] + (IF ch \in mask THEN 1 ELSE 0)]
  /\ lastPulse' = now
  /\ UNCHANGED <<queue, now, opened, local, written, epoch, taken>>

-----------------------------------------------------------------------------
(* Download of a group: enqueue_broadcast_group.                           *)

\* is_broadcast_rx_gate_open, its return value
GateIsOpen == gateOpen /\ now <= gateUntil

GroupAge == IF lastPulse = NoPulse THEN Window + 1 ELSE now - lastPulse

EnqueueGroup(ch, size) ==
  /\ GateIsOpen
  /\ Len(queue[ch]) < QueueDepth
  /\ queue' = [queue EXCEPT ![ch] =
                 Append(@, [size |-> size, epoch |-> epoch, age |-> GroupAge])]
  /\ UNCHANGED <<schedVars, wakes, now, opened, senderVars, ghostVars, taken>>

\* The attempt that finds the window over is refused and closes the gate.
RefuseGroup ==
  /\ gateOpen /\ ~GateIsOpen
  /\ gateOpen' = FALSE
  /\ gateUntil' = 0
  /\ UNCHANGED <<cfg, queue, wakes, now, opened, senderVars, ghostVars, taken>>

-----------------------------------------------------------------------------
(* The sender thread of a channel: broadcast_can_send_thread.              *)

\* The loop around pthread_cond_wait, under the wake mutex
CheckWake(ch) ==
  /\ pc[ch] = "check"
  /\ pc' = [pc EXCEPT ![ch] = IF wakes[ch] = <<>> THEN "blocked" ELSE "claim"]
  /\ UNCHANGED <<schedVars, queue, wakes, now, opened, local, written, ghostVars, taken>>

\* pthread_cond_wait may return without a signal.
SpuriousWakeup(ch) ==
  /\ pc[ch] = "blocked"
  /\ pc' = [pc EXCEPT ![ch] = "check"]
  /\ UNCHANGED <<schedVars, queue, wakes, now, opened, local, written, ghostVars, taken>>

CanTake(ch) == wakes[ch] # <<>> /\ ch \in opened /\ queue[ch] # <<>>

\* Fault: the wake seen in the wait loop is trusted and not counted again.
TakeOnObservedWake(ch) ==
  /\ pc[ch] = "claim"
  /\ IF ch \in opened /\ queue[ch] # <<>>
     THEN /\ queue' = [queue EXCEPT ![ch] = Tail(@)]
          /\ local' = [local EXCEPT ![ch] =
               [wake |-> IF wakes[ch] = <<>> THEN 0 ELSE Head(wakes[ch]),
                size |-> Head(queue[ch]).size,
                epoch |-> Head(queue[ch]).epoch, age |-> Head(queue[ch]).age]]
          /\ taken' = [taken EXCEPT ![ch] = @ + 1]
          /\ pc' = [pc EXCEPT ![ch] = "send"]
     ELSE /\ pc' = [pc EXCEPT ![ch] = "check"]
          /\ UNCHANGED <<queue, local, taken>>
  /\ wakes' = [wakes EXCEPT ![ch] = IF @ = <<>> THEN @ ELSE Tail(@)]
  /\ UNCHANGED <<schedVars, now, opened, written, ghostVars>>

\* take_broadcast_group: the wake and the group are claimed in one transaction.  A wake
\* is used up even when the channel is closed or has no group.
Take(ch) ==
  /\ pc[ch] = "claim"
  /\ wakes' = [wakes EXCEPT ![ch] = IF @ = <<>> THEN @ ELSE Tail(@)]
  /\ \/ /\ CanTake(ch)
        /\ queue' = [queue EXCEPT ![ch] = Tail(@)]
        /\ local' = [local EXCEPT ![ch] =
             [wake |-> Head(wakes[ch]), size |-> Head(queue[ch]).size,
              epoch |-> Head(queue[ch]).epoch, age |-> Head(queue[ch]).age]]
        /\ taken' = [taken EXCEPT ![ch] = @ + 1]
        /\ pc' = [pc EXCEPT ![ch] = "send"]
     \/ /\ ~CanTake(ch)
        /\ pc' = [pc EXCEPT ![ch] = "check"]
        /\ UNCHANGED <<queue, local, taken>>
  /\ UNCHANGED <<schedVars, now, opened, written, ghostVars>>

Finish(ch) ==
  /\ pc' = [pc EXCEPT ![ch] = "check"]
  /\ local' = [local EXCEPT ![ch] = NoClaim]
  /\ written' = [written EXCEPT ![ch] = 0]

\* Fault: the sender waits for a closed channel to be opened.
WaitForOpen(ch) ==
  /\ pc[ch] = "send"
  /\ ch \in opened
  /\ pc' = [pc EXCEPT ![ch] = "write"]
  /\ UNCHANGED <<local, written>>
  /\ UNCHANGED <<schedVars, queue, wakes, now, opened, ghostVars, taken>>

\* send_broadcast_group_for_channel, up to its loop: a closed channel drops the group.
BeginSend(ch) ==
  /\ pc[ch] = "send"
  /\ \/ /\ ch \in opened
        /\ pc' = [pc EXCEPT ![ch] = "write"]
        /\ UNCHANGED <<local, written>>
     \/ /\ ch \notin opened
        /\ Finish(ch)
  /\ UNCHANGED <<schedVars, queue, wakes, now, opened, ghostVars, taken>>

\* One round of the loop: a failed write abandons the rest of the group.
WriteFrame(ch, ok) ==
  /\ pc[ch] = "write"
  /\ \/ /\ ok /\ written[ch] + 1 < local[ch].size
        /\ written' = [written EXCEPT ![ch] = @ + 1]
        /\ UNCHANGED <<pc, local>>
     \/ /\ ~ok \/ written[ch] + 1 = local[ch].size
        /\ Finish(ch)
  /\ UNCHANGED <<schedVars, queue, wakes, now, opened, ghostVars, taken>>

-----------------------------------------------------------------------------
(* The rest of the system, as far as it reaches the scheduler.             *)

\* handle_can_start_stop writes can_configs[ch].state without a lock.
OpenChannel(ch) ==
  /\ ch \notin opened
  /\ opened' = opened \cup {ch}
  /\ UNCHANGED <<schedVars, queue, wakes, now, senderVars, ghostVars, taken>>

CloseChannel(ch) ==
  /\ ch \in opened
  /\ opened' = opened \ {ch}
  /\ UNCHANGED <<schedVars, queue, wakes, now, senderVars, ghostVars, taken>>

Tick ==
  /\ now < MaxTime
  /\ now' = now + 1
  /\ UNCHANGED <<schedVars, queue, wakes, opened, senderVars, ghostVars, taken>>

Sender(ch) ==
  \/ CheckWake(ch)
  \/ Take(ch)
  \/ BeginSend(ch)
  \/ \E ok \in BOOLEAN : WriteFrame(ch, ok)

\* Every step but the pulse, which a composition with the source of the pulses restricts
BetweenPulses ==
  \/ \E req \in ConfigRequests : Configure(req)
  \/ \E ch \in Channels, size \in GroupSizes : EnqueueGroup(ch, size)
  \/ RefuseGroup
  \/ \E ch \in Channels : Sender(ch)
  \/ \E ch \in Channels : SpuriousWakeup(ch)
  \/ \E ch \in Channels : OpenChannel(ch)
  \/ \E ch \in Channels : CloseChannel(ch)
  \/ Tick

Next == Pulse \/ BetweenPulses

Spec == Init /\ [][Next]_vars

\* A runnable sender thread is scheduled and a device write returns.
Fairness == \A ch \in Channels : WF_vars(Sender(ch))

FairSpec == Spec /\ Fairness

-----------------------------------------------------------------------------
(* What the scheduler promises.                                            *)

TypeOK ==
  /\ cfg \in Config
  /\ queue \in [Channels -> Seq(Group)]
  /\ \A ch \in Channels : Len(queue[ch]) <= QueueDepth
  /\ wakes \in [Channels -> Seq(Nat)]
  /\ gateOpen \in BOOLEAN
  /\ gateUntil \in Nat
  /\ now \in Nat
  /\ opened \subseteq Channels
  /\ pc \in [Channels -> {"check", "blocked", "claim", "send", "write"}]
  /\ local \in [Channels -> Claim \cup {NoClaim}]
  /\ written \in [Channels -> Nat]
  /\ epoch \in Nat
  /\ pulses \in Nat
  /\ notified \in [Channels -> Nat]
  /\ taken \in [Channels -> Nat]
  /\ lastPulse \in Nat \cup {NoPulse}

Holding(ch) == pc[ch] \in {"send", "write"}

\* A group that a sender holds was claimed by a wake of the configuration under which the
\* group was loaded: no wake from before a reset takes a group loaded after it, although
\* the sender sees the wake and claims it in two critical sections (take_broadcast_group).
NoStaleClaim ==
  \A ch \in Channels : Holding(ch) => local[ch].wake = local[ch].epoch

\* Every group that waits or is being sent was accepted at most Window after a pulse of
\* its own configuration, although the gate is closed lazily, by the first late group
\* (is_broadcast_rx_gate_open), and a reset takes back the window of an earlier pulse.
LoadedInWindow ==
  \A ch \in Channels :
    /\ \A i \in 1 .. Len(queue[ch]) : queue[ch][i].age <= Window
    /\ Holding(ch) => local[ch].age <= Window

\* One group per wake: what a channel has taken since the configuration and what it may
\* still take never exceed the pulses that selected it, whatever resets, spurious
\* wake-ups and closed channels come between (take_broadcast_group, notify).
OneGroupPerWake ==
  \A ch \in Channels : taken[ch] + Len(wakes[ch]) <= notified[ch]

\* No wake is lost: a sender asleep on its condition variable has no wake pending
\* (broadcast_can_send_thread against notify_broadcast_channels).
NoLostWakeup ==
  \A ch \in Channels : pc[ch] = "blocked" => wakes[ch] = <<>>

\* The schedule is even, whatever the masks and the start (select_broadcast_mask_on_pps):
\* simultaneous mode selects every active channel on every pulse, polling never serves an
\* active channel twice more than another, A and B alternate; nobody else is selected.
EvenSchedule ==
  LET Apart(a, b) == notified[a] - notified[b] IN
  cfg.enable = 1 =>
    /\ cfg.mode = SIMULTANEOUS =>
         \A ch \in Channels : notified[ch] = IF ch \in cfg.active THEN pulses ELSE 0
    /\ cfg.mode = POLLING =>
         /\ \A a, b \in cfg.active : Apart(a, b) \in -1 .. 1
         /\ \A ch \in Channels \ cfg.active : notified[ch] = 0
    /\ cfg.mode = AB_ALTERNATE =>
         /\ \A a \in cfg.groupA \ cfg.groupB, b \in cfg.groupB \ cfg.groupA :
              Apart(a, b) \in -1 .. 1 /\ notified[a] + notified[b] = pulses
         /\ \A ch \in Channels \ (cfg.groupA \cup cfg.groupB) : notified[ch] = 0

\* Every wake is claimed in the end: once the pulses stop, no wake stays pending, not even
\* on a closed channel or one with nothing to send (broadcast_can_send_thread).
WakesAreClaimed == <>[](\A ch \in Channels : wakes[ch] = <<>>)

\* A group that was taken is sent or given up: the sender returns to its loop
\* (send_broadcast_group_for_channel), so a reset or a closed channel cannot hold it up.
SendersReturn == \A ch \in Channels : Holding(ch) ~> pc[ch] = "check"
=============================================================================

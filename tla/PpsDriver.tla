------------------------------ MODULE PpsDriver ------------------------------
(***************************************************************************)
(* The source of the pulses: the kernel module zmuav_pl2ps_irq.c, whose    *)
(* interrupt handler counts a pulse, leaves it in irq_occurred and wakes   *)
(* the waiting thread, and pps_irq_thread of main18.c, which polls the     *)
(* device and calls process_broadcast_pps; composed with the scheduler.    *)
(*                                                                         *)
(* The interrupt and the thread run on different cores, so every atomic    *)
(* operation of the two is a step.  While its interrupt is being handled   *)
(* the line is masked: the handler does not nest.                          *)
(***************************************************************************)
EXTENDS Broadcast

CONSTANTS
  MaxInterrupts   \* bound: interrupts

ASSUME InterruptAssumption ==
  /\ MaxInterrupts \in Nat
  /\ MaxInterrupts <= MaxPulses    \* the bound of Broadcast never holds a pulse back

VARIABLES
  irqCount,     \* lp->irq_count, far from its end at 2^32: one pulse a second
  irqOccurred,  \* lp->irq_occurred
  irqPc,        \* where the interrupt handler is
  waiting,      \* the thread is on lp->irq_wait
  triggered,    \* the kernel's poll: a wake-up has come since the thread registered
  ppsPc,        \* where pps_irq_thread is
  \* History:
  processed,    \* pulses processed
  owed          \* an interrupt has come since the last pulse was processed

driverVars == <<irqCount, irqOccurred, irqPc, waiting, triggered>>
ppsVars == <<driverVars, ppsPc, processed, owed>>
sysVars == <<vars, ppsVars>>

SysInit ==
  /\ Init
  /\ irqCount = 0
  /\ irqOccurred = FALSE
  /\ irqPc = "idle"
  /\ waiting = FALSE
  /\ triggered = FALSE
  /\ ppsPc = "open"
  /\ processed = 0
  /\ owed = FALSE

-----------------------------------------------------------------------------
(* The interrupt handler: zmuav_pl2ps_irq_irq.                             *)

CountInterrupt ==
  /\ irqPc = "idle"
  /\ irqCount < MaxInterrupts
  /\ irqCount' = irqCount + 1
  /\ irqPc' = "mark"
  /\ UNCHANGED <<irqOccurred, waiting, triggered, ppsPc, processed, owed, vars>>

MarkInterrupt ==
  /\ irqPc = "mark"
  /\ irqOccurred' = TRUE
  /\ irqPc' = "wake"
  /\ owed' = TRUE
  /\ UNCHANGED <<irqCount, waiting, triggered, ppsPc, processed, vars>>

\* wake_up_interruptible: it reaches the threads on the wait queue.
WakeWaiters ==
  /\ irqPc = "wake"
  /\ triggered' = (triggered \/ waiting)
  /\ irqPc' = "idle"
  /\ UNCHANGED <<irqCount, irqOccurred, waiting, ppsPc, processed, owed, vars>>

-----------------------------------------------------------------------------
(* pps_irq_thread, and zmuav_pl2ps_irq_poll in the system call it makes.   *)

ThreadStep(from, to) ==
  /\ ppsPc = from
  /\ ppsPc' = to
  /\ UNCHANGED vars

OpenDevice ==
  /\ ThreadStep("open", "poll")
  /\ UNCHANGED <<driverVars, processed, owed>>

\* open fails, or poll fails with something other than EINTR: the thread ends.
ThreadEnds ==
  /\ ThreadStep("open", "ended") \/ ThreadStep("poll", "ended")
  /\ UNCHANGED <<driverVars, processed, owed>>

\* Fault: the driver's poll leaves poll_wait out.
PollWithoutWait ==
  /\ ThreadStep("poll", "test")
  /\ triggered' = FALSE
  /\ UNCHANGED <<irqCount, irqOccurred, irqPc, waiting, processed, owed>>

\* poll_wait
PollWait ==
  /\ ThreadStep("poll", "test")
  /\ waiting' = TRUE
  /\ triggered' = FALSE
  /\ UNCHANGED <<irqCount, irqOccurred, irqPc, processed, owed>>

\* atomic_read(&lp->irq_occurred)
TestOccurred ==
  /\ ThreadStep("test", IF irqOccurred THEN "clear" ELSE "sleep")
  /\ UNCHANGED <<driverVars, processed, owed>>

\* poll_freewait: the thread leaves the wait queue.
LeaveQueue == waiting' = FALSE /\ triggered' = FALSE

\* Fault: irq_occurred is left set.
ReturnWithoutClear ==
  /\ ThreadStep("clear", "process")
  /\ LeaveQueue
  /\ UNCHANGED <<irqCount, irqOccurred, irqPc, processed, owed>>

\* Fault: irq_occurred is cleared and the event mask is not set, so that poll waits on.
ClearWithoutEvent ==
  /\ ThreadStep("clear", "sleep")
  /\ irqOccurred' = FALSE
  /\ UNCHANGED <<irqCount, irqPc, waiting, triggered, processed, owed>>

\* atomic_set(&lp->irq_occurred, 0); poll leaves the wait queue and returns POLLIN.
ClearOccurred ==
  /\ ThreadStep("clear", "process")
  /\ irqOccurred' = FALSE
  /\ LeaveQueue
  /\ UNCHANGED <<irqCount, irqPc, processed, owed>>

\* The kernel's poll: a wake-up that came since the registration ends the sleep, and the
\* driver is asked again.
WakeUp ==
  /\ triggered
  /\ ThreadStep("sleep", "test")
  /\ triggered' = FALSE
  /\ UNCHANGED <<irqCount, irqOccurred, irqPc, waiting, processed, owed>>

\* After 1000 ms, or on a signal, poll returns 0 or EINTR and the thread calls it again.
\* (The kernel asks the driver once more before it does; the next call does that here.)
PollReturnsEmpty ==
  /\ ThreadStep("sleep", "poll")
  /\ LeaveQueue
  /\ UNCHANGED <<irqCount, irqOccurred, irqPc, processed, owed>>

\* process_broadcast_pps, and before it the ioctl GET_IRQ_COUNT, whose result is not used
ProcessPulse ==
  /\ ppsPc = "process"
  /\ Pulse
  /\ ppsPc' = "poll"
  /\ processed' = processed + 1
  /\ owed' = FALSE
  /\ UNCHANGED driverVars

-----------------------------------------------------------------------------

Interrupt == CountInterrupt \/ MarkInterrupt \/ WakeWaiters

Thread ==
  \/ OpenDevice
  \/ PollWait
  \/ TestOccurred
  \/ ClearOccurred
  \/ WakeUp
  \/ ProcessPulse

SysNext ==
  \/ Interrupt
  \/ Thread
  \/ ThreadEnds
  \/ PollReturnsEmpty
  \/ BetweenPulses /\ UNCHANGED ppsVars

SysSpec == SysInit /\ [][SysNext]_sysVars

\* An interrupt handler that has begun runs to its end; the thread is scheduled when it is
\* runnable.  Nothing is assumed of the 1000 ms of poll.
SysFairness ==
  /\ WF_sysVars(MarkInterrupt)
  /\ WF_sysVars(WakeWaiters)
  /\ WF_sysVars(Thread)
  /\ \A ch \in Channels : WF_sysVars(Sender(ch) /\ UNCHANGED ppsVars)

SysFairSpec == SysSpec /\ SysFairness

-----------------------------------------------------------------------------
(* What the driver and its thread promise.                                 *)

One(P) == IF P THEN 1 ELSE 0

\* No pulse is made up: the pulses processed, with the one the thread is about to process
\* and the one left in irq_occurred, are never more than the interrupts taken, although
\* irq_occurred is tested and cleared in two operations (zmuav_pl2ps_irq_poll).
NoInventedPulse ==
  processed + One(irqOccurred) + One(ppsPc = "process") <= irqCount

\* The thread never sleeps through a pulse: when it sleeps, or is about to, with
\* irq_occurred set, its wake-up has come or is on its way, because poll_wait comes before
\* the test (zmuav_pl2ps_irq_poll against zmuav_pl2ps_irq_irq).
NoSleepThrough ==
  ppsPc = "sleep" /\ irqOccurred => triggered \/ irqPc = "wake"

\* Every interrupt is followed by a pulse of the scheduler that begins after it, without
\* the help of poll's timeout, unless the thread has ended.  Interrupts that come while one
\* is being taken up may share that pulse.
PulseIsProcessed == owed ~> (~owed \/ ppsPc = "ended")
=============================================================================

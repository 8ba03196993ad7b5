# Verification of the ZYNQ CAN server

`tcp_server_can` runs on a ZYNQ board. A PC connects over TCP, configures six
CAN channels, downloads frames and receives what the channels report. This
directory holds TLA+ models of its core, TLC configurations that check them on
small instances, and TLAPS proofs of every safety property that the runs check,
for every value of the constants.

Source paths below are relative to `src/ZMHT-ZYNQ-CAN/src/`.

## The system

| Part | State | Operations | Meets |
|---|---|---|---|
| Broadcast scheduler (`main18.c`) | `g_bcast_cfg`, group queue and wake counter per channel, receive window | configure, pulse, enqueue, take, send | port 9009 configures it, 9012 loads it, the pulse thread drives it, one sender thread per channel |
| Ring buffers (`ringbuffer_channels.c`) | data, `in`, `out` | put, get, len, reset | every queue between two threads |
| Sockets of 9010, 9011, 9012 | one global socket and mutex per port, one handler thread per connection, `download_process_mutex` | accept, register and replace, receive, send, leave, close | every thread that reports to the PC |
| Stream parsers of 9009 and 9012 | receive buffer of a connection | receive, resynchronise, deliver | all commands and downloads |
| Normal transmit path | ring per channel, `packet_buffers[ch]` | enqueue, assemble, time out, discard, write | download handler, start/stop |
| Device simulator | table, batch, waiting command | load, dequeue, match, wait, answer | shares the receive ring with the reporting thread |
| Receive and upload path | receive ring, monitor ring, `can_data_type`, counters | read, report | 9010 |
| Channel configuration | `can_configs`, the settings of the devices | configure, start, stop, queries | one handler per client of 9009; read without a lock by every thread |
| Pulse driver (`zmuav_pl2ps_irq.c`) | interrupt count and flag, wait queue | interrupt, poll | the pulse thread |
| Start-up, flash upgrade, frame queue | - | - | not reached or not built, see "Not modelled" |

What is hard to test here: wakes and resets that cross between two critical
sections; rings that two threads use without a lock; descriptors that the
kernel hands out again while an old thread still holds the number; connections
replaced in the middle of a batch; frames lost at a full ring in the middle of
a message; a timeout that races the last frame; packets cut anywhere by TCP;
lengths and counts chosen by the PC; an interrupt at any point of a poll; two
clients that configure one channel, and ioctls that fail halfway; a global
variable shared by the threads of all channels. `PROJECT.json` lists each with
its line.

## Modules

`Broadcast` - the scheduler. `cfg`, `queue`, `wakes`, `gateOpen`, `gateUntil`
are the globals. Everything the code does under `bcast_state_mutex` is one
action: `Configure` (with `ResetBuffers`), `Pulse` (selection, window, `Notify`),
`EnqueueGroup`, `RefuseGroup` (the late group that closes the window), `Take`.
The sender thread is `CheckWake`, `Take`, `BeginSend`, `WriteFrame`; between
them anything may happen. A wake is an entry of a sequence where the code has a
counter, so that a wake remembers the configuration it belongs to; the history
variables are read by no guard. `MCBroadcast` has the requests of the two runs.

`PpsDriver` - extends `Broadcast` by the source of its pulses. The interrupt
handler is `CountInterrupt`, `MarkInterrupt`, `WakeWaiters`, one step for each of
its three operations; the thread is `PollWait`, `TestOccurred`, `ClearOccurred`
(the driver's poll), `WakeUp` or `PollReturnsEmpty` (the kernel's poll, external)
and `ProcessPulse`, which is `Broadcast`'s `Pulse`. All other steps of the
scheduler (`BetweenPulses`) leave the driver alone. Interrupts come at any
moment, but do not nest.

`RingBuffer` - one ring, with put and get in the steps (check, copy, update)
between which the other side may act. The memory barriers of the code are the
order of these steps. `Used` and `Unused` wrap as the 32-bit differences of the code
do. `BoundedFifo` is what a ring promises.

`ConnSlot` - the sockets. `slot` is the global socket of a port, `sock` the
handler's local variable, `owner` the kernel's table of descriptors. A send is
two steps (`BeginSend`, then `SendDone` or `SendFailed`) that hold the socket
mutex; `process` is `download_process_mutex`. Closing frees the descriptor for
any later `Accept`.

`StreamFramer` - the receive buffer. A stream is, at each position, what a
header read there would say: nothing valid, or a length. Sync word and checksum
are thus abstracted to "valid or not", and every combination is tried. `delivered`
is what the parser takes off the stream as a packet and hands on, to be carried
out or refused: a payload too short for its command, an unknown command or a full
ring are met after that, in the part the command belongs to.

`PacketAssembly` - the normal transmit path of a channel; the rounds of
`axican_data_send_thread` are `SendSingle`, `Discard`, `StoreFrame` and
`CompleteGroup`. Numbers and counts are cut modulo `Modulus`, as the code cuts 16 bits to 8.

`ChannelConfig` - port 9009. A handler in `handle_can_config` goes through
`ReceiveConfig` (checks, data mode), `SetBaud`, `RecordBaud`, `SetMode` and
`Respond`, and the handlers of other clients may act between any two of them. An
ioctl that fails changes nothing in `device`; `ALONG_MODE` notices, `NORMAL_MODE`
goes on, records the rate and reports success. `can_type` keeps 8 of the 16 bits
of the data mode. `BeginQuery`, `FillRow` and `Answer` are
`handle_can_info_query`, one row at a time. Three history variables say when
record and device can be expected to agree: `sound` (the handler met no other on
its channel and its ioctl has not failed), `doubt` (the record was last written by
one that was not sound) and `quiet` (per query, the channels that no handler has
configured since it began, whether in doubt or not).

`Monitor` - extends `ChannelConfig` by the frames a channel has sent on the bus:
the device's FIFO (external), `axican_read_data_t` with a full ring and a failing
read, the batches of `axican_data_process_thread_1` and their upload with the
type that `can_data_type` has at that moment. `MCMonitor` has the requests, one
for each way through `handle_can_config`.

`SimResponder` - `along_data_tid_thread`, with the receive thread that fills its
ring and the reporting thread, `axican_data_process_thread`, that takes from it too.
It extends `RingBuffer`: a put is `ReceiveFrame` and two steps of `StoreFrame`, a
get of either thread `BeginGet`, `CopyFrame` and `TakeFrame`, so that the gets of
the two threads meet as they do in the code (see findings). Both threads' uploads
are in the model. Two gets that overlap also race inside a step (`rb->out += 1` is
a load and a store, a copy may be torn); the model interleaves whole steps, and no
property says what a frame is once two gets have met (`met`): what is claimed from
then on, of the types, the bounds of the arrays and the answers, is claimed for any frame
that a get may return. The simulator keeps the length of the ring in an `int`, so
that counters which have overtaken each other give it a negative length and an
empty batch, and the reporting thread a full one. `MCSim` gives the ring its
elements.

Each module also has operators marked "Fault": a plausible mistake in the
definition that follows. They are used by no action; replacing the definition
by its fault must break the property it is there for.

## Runs

| Run | Bounds | Shows |
|---|---|---|
| `broadcast_wake` (driver and scheduler) | 1 channel, depth 2, groups of 2 frames, window 1, 2 configurations, 2 interrupts, 2 ticks | no pulse made up, none slept through, every interrupt followed by a pulse; no stale claim, groups only in the window, one group per wake, no lost wake-up, every wake claimed, senders return |
| `broadcast_schedule` | all 6 channels, every mask, start and mode, 13 pulses | the schedule is even; invalid requests are refused |
| `ring_buffer` | capacity 4, counters modulo 8, 1 consumer | counters agree, no race on a slot, refines `BoundedFifo` |
| `ring_two_consumers` | capacity 2, modulo 4, 2 consumers | violated, see findings |
| `conn_slot` | one upload and one download port, 2 connections, 2 descriptors, 1 unread batch | descriptors, slots, replacement, single producer, replaced uploads close |
| `packet_assembly` | ring of 2, groups of at most 3, numbers modulo 5, messages of 1, 2, 3, 4 and 7 frames, 3 messages, 2 seconds, timeout 1 | bounds, full runs, whole messages, no stale join, written once |
| `packet_mixed` | messages of 2 and 4 frames | violated, see findings |
| `sim_responder` | 2 keys, lengths 1, 4, 5 against a wait of 3, tables of 1 or 2 entries, batches and ring of 2, counters modulo 6, 3 frames, 1 get that meets another | wait buffer and batches in bounds, right answer, each thread's uploads in order and no frame in both, as long as gets take turns |
| `sim_skips` | length 2 | violated, see findings |
| `channel_monitor` | 2 channels, 2 clients, 2 configurations or queries, 7 kinds of request, ring and batches of 2, 3 frames | record and device agree, success is real, a query's rows of channels left alone are the record and, but for channels in doubt, the device's, sent frames are shown in order |
| `upload_type` | 2 channels, 1 client, ring and batch of 1 | violated, see findings |
| `stream_framer` | header 2, buffer 4, 6 positions, lengths 0 to 3 (3 does not fit) | room to receive, independent of the cutting, everything delivered |

Why the bounds are enough. Channels of the scheduler share only the
configuration and the window, so one channel shows the wake protocol, and two
configurations with a pulse before and one after the second show every order of a
wake, a reset and a claim; two interrupts are the least that can meet in one poll; the schedule is a function of the configuration and the pulse count and
is checked for all channels and more than two rounds of them. The ring's
counters wrap several times over its slots. Two connections are the replaced
one and the one that replaces it, and both may start again; instances with three
connections and three descriptors were also explored. A message of 4 frames is
refused for its count, one of 7 comes out of the cut to the modulus as 2. In the
simulator a length of 1 is answered at once, 4 just fits the wait buffer and 5 does
not; three frames overflow its ring and cut a batch short, and one get
that meets another is enough to move `out` past `in`. Two requests
are two configurations that overlap, one after the other, or a configuration and
a query; that more of them do no harm is proved. Three frames overflow the ring
of two. The clients of port 9009 are interchangeable, which the run uses.

Deadlock is not checked where the bounded environment stops and leaves the
thread waiting for input: `packet_assembly`, `sim_responder`, `stream_framer`.

Fairness. `Broadcast`: a sender that can run does, and a device write returns;
nothing is assumed of pulses, the PC or spurious wake-ups. `PpsDriver`: an
interrupt handler that has begun ends, and the pulse thread runs when it can;
nothing is assumed of the 1000 ms after which poll returns by itself, so no
pulse depends on that timeout. `ConnSlot`: handler
threads are scheduled (weak fairness of `Handler`), and a handler that waits for
the socket mutex to leave gets it if it is free again and again (strong fairness of
`LeaveSlot`): senders lock and unlock the mutex for each packet, and the assumption
is that the lock does not pass over a waiting thread for ever. Nothing is assumed of
`send`, which may block for ever; `ReplacedUploadCloses` excepts exactly a send
that never returns. `StreamFramer`: TCP delivers what was sent and the handler
runs.

## Findings

* `ring_two_consumers`: once a channel has been in simulation mode,
  `along_data_tid_thread` takes frames from `g_can_buf_set` for good, also when
  the channel is back in normal mode and `axican_data_process_thread` takes them
  too. `ringbuffer_get` is safe for one consumer. In the run the ring holds one
  element and both threads pass the check of the length; the first copies the
  element and advances `out`, and the second advances `out` past `in`, after which
  the length of the ring reads 2^32 - 1. What the second hands on depends on when it
  copied: after the first had advanced, the next slot, which was never written;
  before, the same element again. Both traces have ten states and TLC may report
  either. The comment at `ringbuffer_channels.c:193` calls the code safe for several
  threads.
* `packet_mixed`: a first frame refused for its count (`main18.c:2513`) does not
  end the group that was open, and the second frame of the refused message
  continues it. The comment at `main18.c:723` says that frames that do not
  follow each other are dropped.
* `sim_skips`: the comment at `main18.c:3855` says that a cached frame is followed
  by the next frame; `break` drops the rest of the batch.

* `upload_type`: `can_data_type` is one global variable; the reporting threads of
  all channels set it from the data mode of their own channel and read it again
  for every frame. With channels in different modes a frame is uploaded as 0x80
  that should be 0x82, or the other way round (comments at `main18.c:3540` and
  `3545`).

Behaviour that the models have and no document speaks about: in `NORMAL_MODE` a
failed ioctl is recorded and reported as a success (`main18.c:1321`, `1337`, `1348`);
`handle_can_config` never records the mode, so the information query reports the
mode that `main` set; a data mode of 0x0100 is refused and yet recorded as
`NORMAL_MODE` (`main18.c:1228`); after two overlapping configurations of a channel
the recorded rate may be the one the device lost. `RecordMatchesDevice` is stated
for what is left, and says that one undisturbed configuration mends the record.

## Proofs

Every safety property of a passing run is also proved, for all values of the
constants that satisfy the assumptions. Each proof has the same shape: an
inductive invariant, checked by TLC first, that holds initially, is preserved by
each action, and implies the property.

`BroadcastProofs` proves for any number of channels, queue depth, window,
requests and bounds: `TypeCorrect`, `ClaimsAreCurrent` (`NoStaleClaim`),
`GroupsAreInWindow` (`LoadedInWindow`), `WakesBoundGroups` (`OneGroupPerWake`),
`NoSleepOnWake` (`NoLostWakeup`). The inductive invariant `IInv` adds two facts
to these. `GateInv`: while the window is open, it ends `Window` after the last
pulse of the current configuration - without it nothing ties the gate to a
pulse that a reset has since erased. `CurrentInv`: everything that waits, wakes
and groups, carries the current configuration - without it a claim could join
the two. Both depend on the reset clearing queue, wakes and window in one
critical section.

`ScheduleIsEven` (`EvenSchedule`) needs to know whose turn it is, which the
property does not say: `PollTurns` orders the active channels by the step in
which the polling loop, begun at `pollNext`, will reach them, and says that one
whose turn is later has been served as often as one whose turn is earlier, or
once more; `GroupTurns` says the same of A and B. A pulse serves the first in
that order and makes it the last. `StepsBehind`, `StepsDiffer` and
`EveryChannelHasAStep` are the arithmetic of going round modulo the number of
channels; `FirstOfIsLeast` shows that the loop finds a first active channel.

For the driver (`PpsDriver`), `DriverImplements` shows that driver, thread and
scheduler together implement `Broadcast` with free pulses, so `SystemIsSafe` has
all of the above for the composition. `PulsesAreInterrupts` (`NoInventedPulse`)
and `NoSleepOnPulse` (`NoSleepThrough`) follow from `PpsInv`: `TokenInv` counts
each interrupt once, where it is now (about to be marked, marked, about to be
processed, processed), and `QueueInv` says that the thread is on the wait queue
from before it tests the flag until poll returns.

`RingBufferProofs`: `RingTypes` (`TypeOK`) for any number of consumers, and for
one consumer `RingCounters` (`CountersAgree`), `RingNoRace` (`NoSlotRace`) and
`RingImplementsFifo`, the refinement of `BoundedFifo`. The hypothesis
`OneConsumer` cannot be dropped: `ring_two_consumers` is the counterexample. The
steps are proved from the weaker `Alone`, that at most one consumer is in a get at
the time, which one consumer satisfies (`OneIsAlone`) and two that take turns
satisfy too; `StoredSteps` says what each step does to the stored elements. Both are
used for the simulator.
`PutInv` and `GetInv` are what each side still knows when it acts on what it has
checked: there is a free slot, there is an element and it has been copied. The
lemmas on slots show that counters less than the capacity apart name different
slots, across the wrap of the counters, because the modulus is a multiple of the
capacity.

`ConnSlotProofs` proves for any ports, connections and descriptors:
`TypeCorrect`, `HandlersOwnDescriptors` (`OwnDescriptor`), `SlotsAreLive`
(`SlotNamesCurrent`), `ReplacedConnectionsAreDown` (`ReplacedAreDown`),
`SingleProducer` (`OneProducer`). `IInv` adds `DescriptorInv` (descriptors and
connections belong to each other, both ways: that is what makes reuse harmless),
`SlotInv` (what is in a slot belongs to the connection last put there, which has
not withdrawn it) and `ProcessInv` (who holds `download_process_mutex`, and that
a batch under way is the current connection's).

`ChannelConfigProofs` proves `RecordIsTrue` (`RecordMatchesDevice`),
`SuccessIsTrue` (`SuccessIsReal`) and `QueryIsTrue` (`QuietRowsAreTrue`) for any
number of channels, clients and requests. `CfgInv` adds to them: `OwnerInv` (a
sound handler is the only one on its channel), `ToldInv` (what a sound handler
has told the device is still there), `RecordInv` (record and device agree but for
a channel in doubt or about to be recorded), `QueryInv` (no handler is at work on a
channel that a query counts on, and its row is its record). `MonitorProofs` shows that `Monitor`
implements `ChannelConfig` (`MonitorImplements`), so that they hold with the
reporting threads running, and `MonitorOrder` (`MonitorInOrder`): `OrderInv` says
of each channel that the batch, the ring and the device's FIFO are each in
order, one older than the next, and all younger than what the PC has seen;
`HandsInv` that what was counted is still there to be read.

`PacketAssemblyProofs` proves `PacketTypes`, `PacketBounds` (`BufferInBounds`),
`PacketFullRuns`, `PacketNoStaleJoin`, `PacketWholeMessages` and
`PacketWrittenOnce` for any ring, buffer, modulus, timeout and messages, in three
layers. `GroupInv` is about the buffer: what an active group holds, and when each
of its frames was stored. `WholeInv` follows a message through the ring:
`FramesInv` (a frame's number is below its message's count), `ChainInv` (while
none is lost, each frame in the ring carries on the one before it or begins a
message) and `RunInv` (while none is lost or refused, the group is a run of one
message, and the next frame carries it on or starts over). `OnceInv` holds with
losses too: `OrderInv` (group, ring and the frame the PC sends next are in the
order they were sent) and `FreshInv` (a message whose first frame still waits has
not been written).

`SimResponderProofs` proves `SimTypes`, `SimWaitInBounds` (`WaitInBounds`),
`SimAnswerMatches` (`AnswerMatches`) and `SimUploadInOrder` (`UploadInOrder`) for
any table, limits and traffic. The first three hold for gets that meet as well:
`ThreadInv` says what each thread still has to get and fits its batch, `WaitInv`
that a waiting command still has the entry which its first frame matched and fits
its buffer. `UploadInOrder` is conditional, and so is its invariant `MetInv`: as long
as no get has met another, the ring is the queue that `RingBufferProofs` shows
(`Alone`), and `OrderInv` says of each thread that what it has uploaded, what it
holds and what is in the ring are in the order of the bus, and that no frame is
with both. It orders nothing between the two threads: the reporting thread may
upload a frame after the simulator has uploaded a later one.

`StreamFramerProofs` proves `FramerTypes`, `FramerRoom` (`RoomToReceive`) and
`FramerSplitIndependent` (`SplitIndependent`) for any header, buffer and stream.
The last one is about a recursive function, `PacketsFrom`, of which the prover
first knows nothing: that a function exists which solves its equation is shown
by taking the least number of positions from the end of the stream for which
there would be none (`SolutionExists`). From the equation, each step of the
parser is one unfolding.

The assumptions are those named in the modules: sizes are positive, requests
have the shape of a request, ports of the two kinds are different, the null
descriptor and connection are none of the real ones. TLC evaluates them in the
runs.

Only model-checked: liveness (`WakesAreClaimed`, `SendersReturn`,
`ReplacedUploadCloses`, `AllDelivered`, `PulseIsProcessed`), which rests on
fairness and is out of the prover's reach. The four violated properties have
their counterexamples from TLC.

## Not modelled

* The memory model of the processor: a thread's steps are seen in order.
* The buffer and version queries, and the format of responses: they read
  state and change none that the program reads.
* Loading and removing the pulse driver, and its ioctls: `GET_IRQ_COUNT` is read
  and not used, `CLEAN_IRQ_COUNT` has no caller.
* `axican.c`: its calls are outcomes of the actions that use them.
* Start-up and shutdown: only `sigint_handler` clears `running`, and the calls that
  would install it are commented out (`main18.c:4316`).
* `flashcp.c`, `can_frame_queue.c`, `upgrade_flash.h`, `zhenghe/`: not called, not
  built, or declarations only.
* The counters written into upload packets (`data_counter`, `channel_frame_count`):
  several threads advance them without a lock, nothing in the program reads them
  back, and no document says what the PC may conclude from them. With them, the
  layout of the packet that `handle_normal_mode` builds.
* How long a channel may hold `packet_mutex` against the others: `PacketAssembly` has
  one channel and no notion of the time a write takes.

## Plan

Done: `Broadcast`, `PpsDriver` over it, `RingBuffer` over `BoundedFifo`, `ConnSlot`,
`StreamFramer`, `PacketAssembly`, `SimResponder` over `RingBuffer`, `ChannelConfig`, `Monitor` over it;
proofs of the safety properties of all of them, of the refinement of
`BoundedFifo`, and of the step from `PpsDriver` to `Broadcast` and from `Monitor` to
`ChannelConfig`.

Left: action properties that support the liveness properties (a connection that
has been shut down stays so, a wake is only removed by a claim or a reset), and
simpler proofs where a lemma turns out to serve several steps.

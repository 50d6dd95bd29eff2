# TLA+ models of ns-3.29 (with the epidemic routing fork)

This directory specifies and checks parts of this repository: ns-3.29, a discrete-event network simulator in C++, together with the routing protocol this fork adds under `contrib/epidemic-routing` and the scenario programs in `scratch/`. Paths below are relative to `ns-3.29/`.

- `*.tla` - specifications, `MC*.tla` - their instances for TLC, `*Proofs.tla` - theorems for TLAPS
- `*.cfg` - one per TLC run
- `PROJECT.json` - components, runs, mutants, the map from definitions to lines, findings, hazards, theorems

## 1. The system

ns-3 is a library. A scenario program builds nodes, devices, protocol stacks and applications, then calls `Simulator::Run`. From then on everything happens in *events*: callbacks with a time, kept in an event list, run one after the other by a *simulator implementation*. An event that runs may schedule, cancel and remove others; models hand each other packets by direct calls or by scheduling a reception after a delay. So nearly all of the concurrency is in the simulator implementations (threads that hand events over; processes that simulate parts of one network) and in protocols whose nodes exchange packets. Around the library there are Python programs: the test runner `test.py`, with worker threads, and the visualizer.

| Component | State | Operations | Interacts with |
|---|---|---|---|
| Event keys, event lists (`core/model/scheduler.h`, `map-`, `list-`, `heap-`, `calendar-scheduler`) | a set of events ordered by (time, uid) | Insert, PeekNext, RemoveNext, Remove | all simulators |
| `DefaultSimulatorImpl` | queue, clock, `m_uid`, stop flag, hand-over list with mutex and flag, destroy events | Schedule*, Cancel, Remove, IsExpired, Run, Stop, Destroy | any thread (hand-over), every model |
| `RealtimeSimulatorImpl`, `WallClockSynchronizer` | the same under one mutex, a condition, wall-clock origin | Schedule*, ScheduleRealtime*, Run, Stop, Synchronize, Signal | threads of devices |
| `DistributedSimulatorImpl`, `GrantedTimeWindowMpiInterface` | per rank: queue, clock, look-ahead, granted time, message counts | Run with MPI_Allgather, SendPacket, ReceiveMessages | ranks, over MPI |
| `NullMessageSimulatorImpl`, `RemoteChannelBundle` | per rank and neighbour: guarantee time, pending null message event | Run, SendPacket, SendNullMessage, HandleArriving | ranks, over MPI |
| Epidemic routing (`contrib/epidemic-routing`, `scratch/test-proposal-0720.cc`) | per node: packet queue, packet counter, contact times, predictabilities | RouteInput/Output, beacons, summary vectors, sends | nodes, over Wi-Fi |
| Point-to-point, CSMA | transmit machine, queue, medium state | Send, TransmitComplete, Receive, backoff | nodes |
| Traffic control | queue discs, device queues, wake callbacks | Enqueue, Run, Stop/Wake | devices |
| ARP / NDISC | cache entries, retries, pending packets | Lookup, timeouts, replies | IP |
| TCP | connection state, buffers, timers | segments, timeouts, user calls | peers |
| AODV, OLSR, DSDV, DSR | routing tables with lifetimes and sequence numbers | control messages, timers | nodes |
| Wi-Fi, mesh, WAVE, LTE, WiMAX, LR-WPAN, UAN | MAC/PHY state machines | frames, timers | nodes |
| Mobility, propagation, energy, antenna, buildings | real-valued models | computations | PHYs |
| Test runner (`test.py`) | input and output queue, worker threads, interrupt flag, tally, results file | dispatch, run a job, collect, SIGINT | processes of the tests |
| Visualizer (`src/visualizer/visualizer/core.py`) | simulation thread, lock, target time | Pause, go, update | simulator, GTK main loop |
| Flow monitor, stats, NetAnim, config store, bindings, build | measurement and tools | | |

`PROJECT.json` lists all of them with what is modelled and why others are not.

### What is hard, and what makes each part correct

- **DefaultSimulatorImpl.** Threads push to the hand-over list while main reads its flag without the mutex; main swaps the list out and moves it into the queue. `IsExpired` compares keys instead of looking in the queue. Events cancel and remove each other, some while they run, some in `Destroy`. `m_uid` is 32 bits wide and is the tie-breaker. Correct means: events run in key order and first-come-first-run at one time, each exactly once unless revoked; none that was revoked; `IsExpired` tells the truth; hand-overs are seen before the loop goes on.
- **Distributed (granted time window).** A rank may run ahead only as far as no message can still come from its past; messages are late and in any order; ranks finish or are stopped at different times. Correct means: no event from the past, monotone time, everyone leaves `Run` together, everyone does leave, nothing is lost.
- **Distributed (null messages).** Guarantees are promises on events not yet scheduled, computed in the middle of an event; ranks block for each other; each packet puts off the null message that would otherwise be sent. Correct means: no guarantee is broken or taken back, no event from the past, null messages never dry up, no deadlock.
- **Realtime.** A condition is waited for outside the critical section and signalled by others; the next event is chosen before the wait. Correct means: no lost wake-up, no event from the past.
- **Epidemic routing.** Summary vectors are stale on arrival; messages get lost; copies overwrite each other; queues overflow and expire; packet ids are made of 16 bits of an address and of a 16-bit counter, in which relays count too; several nodes make packets for one message, and what a node has had is known by the message and not by the packet. Correct means: ids clash only where these bits must, floods are limited, a packet is delivered again only if its destination cannot know of it, packets reach the destination when nodes keep meeting.
- **Test runner.** Threads share two queues; an interrupt comes at any time; a test may crash, print what cannot be decoded or leave no results file; a worker may die of an exception. Correct means: each job is run and counted once, the exit status tells whether all passed and agrees with the results file, all threads end.

## 2. Modules

| Module | Models |
|---|---|
| `EventKeys` | `Scheduler::EventKey`, its order, which event comes next |
| `DefaultSimulator` | `DefaultSimulatorImpl` with threads |
| `DefaultSimulatorProofs`, `DefaultSimulatorEventProofs` | theorems about it |
| `GrantedTimeWindow`, `MCGrantedTimeWindow` | `DistributedSimulatorImpl` on every rank, `GrantedTimeWindowMpiInterface`, `PointToPointRemoteChannel` |
| `GrantedTimeWindowProofs` | theorems about it |
| `NullMessage`, `MCNullMessage` | `NullMessageSimulatorImpl` on every rank, `RemoteChannelBundle`, `NullMessageMpiInterface`, the transmitters of point-to-point devices |
| `NullMessageProofs` | theorems about it: types, guarantees against packets, order of events, heartbeat, refinement |
| `NullMessageGuaranteeProofs` | theorems about it: guarantees only grow |
| `NullMessageDeadlockProofs` | theorem about it: no deadlock |
| `LogicalProcesses` | what both distributed simulators promise: abstract specification |
| `EpidemicRouting`, `MCEpidemicRouting` | the epidemic routing protocol of all nodes with the radio between them |
| `EpidemicRoutingProofs` | theorems about it |
| `TestRunner` | `test.py`: `run_tests`, `worker_thread.run`, `run_job_synchronously` |
| `TestRunnerProofs` | theorems about it |

`DefaultSimulator`, `GrantedTimeWindow` and `NullMessage` extend `EventKeys`; the latter two instantiate `LogicalProcesses`; the proof modules extend the specification they are about, those of `NullMessage` and of `DefaultSimulator` each the one before it; the MC modules give constants that a `.cfg` cannot express.

### DefaultSimulator

Variables have the names of the members. An `EventImpl` is the number of its creation; an `EventId` is `[ts, uid, impl]`. `pc` tells where main is: outside `Run`, at the flag test of `ProcessEventsWithContext`, in its swap and move, in the loop of `Run`, in the body of an event, in `Destroy`. While an event runs (or main is outside) `Calls` allows any call to the simulator: the model does not know what events do, so it allows everything. A worker's `ScheduleWithContext` is two actions, `Push` (append, under the mutex) and `LowerFlag` (the flag, then unlock), since main reads the flag without the mutex between them. `m_stop`, hand-over, `Cancel`, `Remove` follow their early returns. The history variables `due`, `revoked`, `log` are only read by properties.

### GrantedTimeWindow

One `pc` per rank: `loop` (running events within the window), `event`, `receive` (`ReceiveMessages`), `gather` (blocked in `MPI_Allgather`), `decide` (reading the answer), `done`. MPI is the set `sent`, of which `arrived` can be taken in; delivery is in any order. `IsLookAhead` is `CalculateLookAhead` with its `MPI_Allreduce`. One call of `Run` is modelled.

### LogicalProcesses

Processes with a clock each, an agenda of times at which they have something to do, and times at which messages under way are received. A process runs the earliest of its agenda, and only if no message that is or will be under way to it is earlier; what it sends is received no earlier than its own clock. `GrantedTimeWindow` and `NullMessage` implement it (`ImplementsProcesses`) although they know nothing of what is under way to them: one by agreeing on a window, the other by guarantees.

### NullMessage

One `pc` per rank: `start` (before `Run`), `loop`, `event` (in the body of an event), `receive` (`MPI_Testany` after an event), `safe` (after a blocking receive, before `CalculateSafeTime`), `done`. MPI keeps the order of messages between two ranks: `channel` is a sequence for each. A message with `rxTime` 0 is a null message, as in the code. The body of an event of the program is any sequence of `Schedule` and `SendPacket`; `SendPacket` is the whole path from a device that is ready, through `PointToPointRemoteChannel::TransmitStart`, to the reception time, guarantee and new null message event of `NullMessageMpiInterface::SendPacket`. The `TransmitComplete` event makes the device ready again. Null message events are known by their uid (`m_nullEventId`); a cancelled one stays in the list, as in the code, and does nothing.

The assertions of the code are not modelled as an abort; that they hold is what `Causality` and `NeverTakenBack` say. `ReceiveBlocking` always waits for a message; a rank that has no neighbour at all would return from `ReceiveMessages` at once (`null-message-mpi-interface.cc:306`), which the model leaves out: all ranks of the runs have neighbours, and the theorem on deadlock has it as a hypothesis.

### TestRunner

Jobs are numbered in the order of dispatch, `Break` is the job that ends a worker. A worker goes from `get` to `got` (it has a job, and is about to test `thread_exit`), `launched` (its process runs) and back, to `exited` by a break job or to `died` by an exception. `Report` chooses what the process did: exit code (negative for a signal), output that can be decoded or not, and whether it left a results file. Whether that file is complete is left open; `results` records whether main copied a file or wrote an entry of its own (`Entry`), and main raises when there is no file to copy. `Dispatch` stands for the three loops that choose suites, examples and Python examples; which those are is `NJobs`, `Skipped` and `Examples`. `tally` holds the five counters. The model begins where the list of suites is known.

### EpidemicRouting

One action per event handler: `Originate` (an application set up by the program's `do_proposal` sends its packet, which `RouteOutput` loops back into `RouteInput`), `Deliver` and `Relay` (the two ways through `RouteInput`), `RecvBeacon`, `RecvReply`, `RecvReplyBack` (`RecvEpidemic`), `SendPacketFromQueue` (scheduled with `Time (0)`). Each one includes the purges it makes on the way (`DropExpiredPackets`, `GetSummaryVector`, `Enqueue`).

- *Time.* Packets are numbered in the order they are made, hence of their expiry; `expired` counts those out of date. What is scheduled with `Time (0)` comes before everything that needs time (`InstantOver`).
- *Purge.* When the queue is too long its oldest entry goes and nothing else. Otherwise entries out of date go, but the loop erases the element its iterator stands on and increments it afterwards, which is undefined: the first such entry is gone, any of the others may be.
- *Predictabilities* are reals below 1; which of two is higher is left open, save where the code fixes it (`Answers`).
- *The scenario.* `scratch/test-proposal-0720.cc` tags packets with the uid of a message. `do_proposal` makes a data packet for a message at a node it reaches, unless that node has had the uid (`DoProposal`); so several nodes may each make a packet of one uid, to the one receiver its token names. `Flows` says who may: `<<source, destination, uid>>`. `queuelist` and `judge` live in the program and are reached through trace sources: a packet of 200 bytes or more (`Large`, and all packets of the program are) is not stored at a node that has had its *uid*. At the destination such a packet is delivered all the same, and, as it is not stored, delivered again with the next copy.
- *Ids.* `GlobalPacketID` is the low part of the source's address (`HostMod`, 2^16 in the code) and the count of the source (`CounterMod`, 2^16 too). The history variable `wrapped` holds the nodes whose counter has come round. `Find` returns an entry of id 0 when it finds nothing, so that a packet of id 0 is never taken for a duplicate.
- *Bounds.* `MaxPackets`, `MaxRadio` (a session starts only while fewer messages are on the air) and `MaxCount`: a counter that reached it stays, and its node makes no packets any more.

## 3. Runs

| Run | States | Shows |
|---|---|---|
| `default_simulator` | 540,916 | all properties of section 1 for any program of three events on main and one worker |
| `default_stop_time` | violation | see findings |
| `default_uid_wrap` | violation | see findings |
| `granted_time_window` | 681,978 | order of events, bounded skew and termination on a line of three ranks |
| `granted_time_window_lost` | violation | see findings |
| `null_message` | 130,763 | guarantees kept and growing, order of events, heartbeat, no deadlock, refinement and termination on a line of three ranks |
| `null_message_guarantee` | violation | see findings |
| `test_runner` | 193,717 | each job once, no thread waiting in vain, a true exit status and an end, under interrupts and dying workers |
| `epidemic_routing` | 305,328 | ids clash only as their bits allow; deliveries are repeated only where the destination cannot know; a packet for the sink gets there unless its source drops it |
| `epidemic_four_nodes` | 1,314,176 | flood limit; for a small packet, duplicates only after the destination dropped it |
| `epidemic_duplicates` | violation | see findings |
| `epidemic_disjoint` | violation | see findings |

Every property of a passing run has a mutant in `PROJECT.json`: a plausible bug in one definition under which TLC finds the property violated. `CHECK_DEADLOCK FALSE` is set throughout because the systems may stop: a simulation ends.

### Properties

`DefaultSimulator`: `TypeOK`; `EventsRunInOrder` (each step of the clock goes to a greater key); `SameTimeFifo`; `NothingLost` (each event is in exactly one place); `RevokedNeverRuns` and `ExpiryIsExact`, both of events of the queue only (see below, findings); `HandedOverInTime`; `DestroyEventsRun`.
`GrantedTimeWindow`: `TypeOK`; `NoEventFromThePast`; `TimeIsMonotone`; `LeaveTogether`; `InStep` (no rank is ahead of what another still has to run, or of what is under way, by more than its own look-ahead); `ImplementsProcesses`; `Termination`.
`NullMessage`: `TypeOK`; `GuaranteeKept` (what a rank was told against what is under way to it); `Causality`; `NeverTakenBack` (no guarantee and no safe time behind the clock); `GuaranteesGrow` (no step lowers either); `Heartbeat` (a null message event is always pending); `NoDeadlock` (as long as one rank has not returned, some rank can go on); `ImplementsProcesses`; `Termination`.
`TestRunner`: `TypeOK`; `InOnePlace`; `NoTestLeft`; `NoOneWaitsInVain` (a worker waits only while main has jobs to put in, and main only while a worker has not gone home: where one died with its job, main does wait in vain); `StatusIsTrue` (0 only if each test ran and ended with 0, and has its entry in the results file; 1 only if a job was handed back after an interrupt or a test failed); `Ends`.
`EpidemicRouting`: `TypeOK` with the length of the queues; `OneIdOnePacket` (two packets have one id only if their sources agree in the bits kept, and for one source only if its counter has come round); `FloodLimit`; `DuplicateOnlyAfterDrop` (a second delivery only if the destination's queue lost the packet, or did not store it as another of its uid had come, or its id is 0); `ReachesSink` (again and again all packets made for the sink are delivered, or dropped by their source, or share their id with another; since each of these stays so, it holds from some time on of each packet).

### Bounds and why they are enough

- *default_simulator*: three events are enough for one to cancel or remove another while a third was handed over; delays 0 and 1 give ties and order; a worker can be between `Push` and `LowerFlag` at any step of main. `UidMod` is large enough not to wrap; the wrap has a run of its own.
- *granted_time_window*: two links with delays 1 and 2 give ranks different look-aheads; the middle rank gets messages from both sides and may schedule one event of its own; two messages can be in transit while a window is decided; `Infinity` is 6.
- *null_message*: links with delays 1 and 2 and transmission times 1 and 2, so that guarantees, packets and null messages overtake each other in every way but on one channel; the first rank's program does one thing (`Work`), all ranks have an event before `Run`, the middle rank waits for both sides; `Stop` at 3 lets several rounds of null messages pass. More work, other delays and two ranks with later stop times were tried on the way and show nothing new.
- *null_message_guarantee*: two links of the same delay between two ranks, and two packets of unlike length.
- *test_runner*: two workers are enough for one to be between any two steps of the other; three jobs give one to skip, an example and a suite; all classes of exit codes (0, 1, 2, greater, signal).
- *epidemic_routing*: nodes 1, 2 and 5 with the sink 2, so that its address lies between those of the sources and is on either side of a session; `HostMod` 4, so that 1 and 5 agree in the bits an id keeps; two messages, one of which both sources may send on; queues of one packet with two packets make every drop happen. Ids do clash, and second packets of one uid do come. Two things do not happen: no counter comes round between two packets of one node, and as the queues hold one entry, `Purge` never passes over one after erasing another. Both are in the theorems, which hold for any `CounterMod` and any queue length.
- *epidemic_four_nodes*: with a hop limit of 2 a path of three hops needs four nodes; two messages on the air let a packet arrive after a summary vector that did not list it. The packet is small, so that the program's list does not keep copies out of queues.

### Fairness

- *GrantedTimeWindow*: weak fairness of each rank's loop (a process that can go on does), of `Allgather` (a collective call that all have entered returns) and of message delivery by MPI. Nothing is assumed of what events do: they may call `Stop` or not.
- *EpidemicRouting*: weak fairness of scheduled sends (the simulator runs them), of each node taking in what arrives, and of the end of recent periods (time goes on). `StayInRange` is weakly fair: any finite number of losses, at any point, and then none. That is the assumption under which delivery can be promised at all. Beacons are sent for ever by a timer; those between the sink and another node are strongly fair, because the bound `MaxRadio` disables a session again and again. No fairness for beacons among the others, nor for packets to be made.
- *NullMessage*: weak fairness of each rank's loop, which includes the receipt of a message that is there: MPI delivers. Nothing is assumed of the program.
- *TestRunner*: weak fairness of main and of each worker: threads are scheduled, and tests end (the code sets no limit on their time). None for interrupts and exceptions.
- *DefaultSimulator* states safety only: whether `Run` ends depends on the program.

## 4. Proofs

All proofs are checked by TLAPS with Z3, Zenon and LS4. The constants are arbitrary within the named assumptions of each module.

**DefaultSimulatorProofs.** `TypeCorrect`, `RunInOrder`, `ExpiryCorrect`: for any number of threads, delays and events, under `NoWrap` (`MaxEvents + 4 < UidMod`: `m_uid` does not wrap around, which is necessary, see the run `default_uid_wrap`). `TypeOK` and `ExpiryIsExact` are not inductive. `IInv` adds that a uid is left for each event still to be moved into the queue (`UidsLeft`), that the keys in the queue lie after the current key and below `m_uid` (`QueueKeys`), that an EventId whose key lies after the current one is in the queue or cancelled (`HeldIds`), that destroy events have their own uid, and that `m_unscheduledEvents` counts the queue.

**DefaultSimulatorEventProofs** extends it, under the same assumption, with what becomes of each event: `NoneLostOrDoubled` (`NothingLost`), `NeverRunRevoked` (`RevokedNeverRuns`), `FirstInFirstOut` (`SameTimeFifo`), `AllDestroyEventsRun` (`DestroyEventsRun`), `NoneLeftBehind` (`HandedOverInTime`); all properties of the run `default_simulator` are proved with that. The invariants are layered, each inductive given those before it. `PlaceInv`: the handed over, moving, queued, destroy and run events are disjoint sets of implementations, cover all that were made and not revoked, and the three lists are in the order of creation; a revoked event that is still in the queue or the list of destroy events is cancelled. `OrderInv`: among the events that have a uid, those of one thread have uids in the order of creation, and each event still handed over is newer than all of its thread that have one; the log is in the order of keys. `DestroyInv`: destroy events that ran are older than those in the list, which is empty from the call of `DoDispose` on. `DueInv`: while the flag is up, at most the event whose thread still holds the mutex is in the handed over list, so that a look at the flag without the mutex passes over no event that was entirely handed over when main came to it.

**GrantedTimeWindowProofs.** `TypeCorrect`, `Causality` (`NoEventFromThePast`), `Monotone`, `Skew` (`InStep`), `Together`, `Implementation` (the refinement `ImplementsProcesses`): for any graph of links, any delays, zero included, any look-ahead set by the program, and any order of delivery. The invariant is that there is a time, the *floor*, such that no rank is granted more than its look-ahead beyond it, what any rank may still run lies at it or after it, and every message in transit left at it or after it, so that it arrives a link's delay later (`Window`). When a rank finds equal counts in the answer of `MPI_Allgather`, the least next event time becomes the floor; otherwise nothing changes. The equality of two sums of message counts is turned into "nothing is under way" with facts on the cardinality of finite sets.

**NullMessageProofs.** `TypeCorrect`, `Guaranteed` (`GuaranteeKept`), `Causal` (`Causality`), `HeartbeatKept` (`Heartbeat`), `Implementation` (`ImplementsProcesses`): for any ranks, any delays, zero included, any `SchedulerTune`, any transmission times and any program, under `OneLinkEach`, that no two links join the same two ranks. That assumption is necessary: the run `null_message_guarantee` breaks `GuaranteeKept` without it. The inductive invariant `IInv` speaks of the greatest guarantee each rank has ever given each neighbour (`Promise`). What a rank may still send arrives no earlier: while its device is transmitting, the `TransmitComplete` event stands between it and the next packet (`Free`, `Idle`), and a rank runs no further than the guarantees it has itself, so that guarantees given do not exceed those received by more than the delay of the bundle. The other parts number the events of each rank (`Numbers`), keep pending events after the clock (`Ahead`), and say that packets under way are in order with the guarantees sent before them (`Told`).

**NullMessageGuaranteeProofs** extends it, under the same assumption: `NoneTakenBack` (`NeverTakenBack`) and `GuaranteesRise` (`GuaranteesGrow`). `Given (r, s)` is the last guarantee r gave s, be it under way or taken in. `GInv` adds to `IInv` that the guarantees in each queue rise, from the one the receiver has to `Given` (`Rising`), and that what r gave lies within what it could give now (`Standing`). The latter is not simple, since a guarantee is computed in the middle of an event that may go on to schedule an earlier one. `Given` is never more than the delay of the bundle beyond the safe time of r; and one of three holds: the clock of r has come to within the delay of it (`Passed`), or no event but the null message event for s is running, or pending before that (`Quiet`), or the devices to s are transmitting until then and the null message event has been put off as far (`Busy`). That each new guarantee is at least `Given` follows, so no message lowers one; and a rank that runs an event is, by its own safe time, no further than any guarantee it has.

**NullMessageDeadlockProofs** extends that: `DeadlockFree` (`NoDeadlock`). Its hypotheses (`Setting`) are `OneLinkEach`; `ShortNulls`, that a null message event is at most the delay of the bundle away, which the checker of the attribute `SchedulerTune` sees to (`null-message-simulator-impl.cc:60`, 0.01 to 1.0); `SameStop`, one stop time for all ranks, not after `Infinity`, without which a rank that stops early does leave others waiting; and `Connected`, that each rank has a neighbour. Links without delay and null delays of 0 are included. `DInv` adds to `GInv` that the stop event of a rank is pending, running or over (`Stops`); that the safe time of a rank that looks for its next event is one of its guarantees (`Limited`); and that what r gave s reaches the time of its next null message event, and the stop time once r has returned (`Lasting`). The argument: suppose all ranks that have not returned wait. Take the one with the least safe time, w (there are finitely many). Its safe time is the guarantee of some s, and nothing is under way from s. If s had returned, that guarantee would reach the stop time, at which w has an event: w would not wait. So s waits too, its next event lies beyond its safe time, its null message event for w not before that event, and the guarantee it gave w not before the null message event: the safe time of s is less than that of w, against the choice of w.

**TestRunnerProofs.** `TypeCorrect`, `EachJobOnce` (`InOnePlace`), `LastOut` (`NoTestLeft`), `SomeoneGoesOn` (`NoOneWaitsInVain`), `TrueStatus` (`StatusIsTrue`): for any number of workers and jobs, any of them skipped or examples, any exit codes. The invariant adds that a job not yet dispatched is nowhere (`Placed`), that in `input_queue` only break jobs stand behind a break job (`TestsFirst`), that the jobs leave it as they went in and each break job that did has sent a worker home (`Handed`: as many have exited as break jobs were taken, so that one is left for each who has not), that a job that comes back was run, skipped or marked, with the return code of its process (`Reported`), that the counters of passed and skipped tests add up to the number of jobs that were, and that what was counted has its entry in the results (`Counted`). When as many were counted as there are jobs, each job was: a fact on finite sets.

**EpidemicRoutingProofs.** `TypeCorrect`, `UniqueIds` (`OneIdOnePacket`), `Flood` (`FloodLimit`), `NoDuplicates` (`DuplicateOnlyAfterDrop`): for any set of nodes, any flows, hop limit, queue length and pattern of losses, and any `HostMod` and `CounterMod`: nothing is assumed of the addresses, nor that the counters do not wrap. The one assumption is that packets of one uid have one destination (`FlowsAssumption`), as in the program. The invariant says that all copies in queues, in scheduled sends and on the air carry the id of their packet, that this id is made of the source and a count of it, which is past as long as the counter has not come round, and that ids clash only as `MayClash` allows (`Named`); that for a copy not at its destination the hops made and the hops left add up to no more than the limit (`HopsLeft`); that a delivered packet is in its destination's queue, unless that dropped it or had another packet of its uid (`Remembered`, `Gone`); and that the list of a destination names only uids of which a packet was delivered (`Listed`): it is needed to know, when a packet is not stored, that another of its uid came before. `NoDuplicates` needs `Named`: the test for duplicates compares ids and not packets. All but one of the steps make no packet, and for those one lemma (`SoundStep`) asks only that each new copy is a copy of one there was before.

**Model-checked only.** Liveness (`Termination` of both distributed simulators, `Ends`, `ReachesSink`): fairness and ENABLED are out of the prover's reach. For two of them the safety they rest on is proved: `NoDeadlock` and `NoOneWaitsInVain`. All invariants and action properties of the passing runs are proved. Nothing recursive is modelled, so nothing needs induction over data, which the provers could not do either.

## 5. Findings

1. `default_stop_time`: `simulator.h` says `Run` returns when the next event is at the stop time or later. `Stop (delay)` is an ordinary event: those scheduled before it for the same time still run.
2. `default_uid_wrap`: `m_uid` is incremented as a `uint32_t` with no check, so the FIFO order that `simulator.h` promises ends after 2^32 events.
3. `granted_time_window_lost`: `Run` ends when all ranks are out of events, even if the counts show a message under way, which is lost.
4. `epidemic_duplicates`: the queue is the memory of deliveries, and what is not in it is delivered with each copy. A packet whose uid the destination has had, by a packet another node made for the same message, is not put into it; that is the trace of the run, which takes no drop. A packet the queue drops, or purges as out of date, is delivered again too.
5. `null_message_guarantee`: a guarantee is computed in the middle of an event from the time of the *next* event; if two links join the same two ranks, the running event can send a shorter packet over the other one, which breaks it. `remote-channel-bundle.h` says no packet arrives before the guarantee.
6. `epidemic_disjoint`: the documentation says nodes hand over all the other does not have; the gate on predictabilities keeps packets back, and a destination other than 192.168.2.5 is never given what is meant for it.

Met while reading, and not stated as properties:

- `simulator.h:1214`, `1229` and `1240` say that to remove, to cancel or to test a destroy event is not possible and ends "in a program error (crash)". `DefaultSimulatorImpl` has a branch for each (`default-simulator-impl.cc:328`, `:370`; `Cancel` by way of `IsExpired`), and none crashes. The model follows the code: `Cancel`, `RemoveDestroy` and `IsExpired` take such events too. As the documentation rules these calls out, `RevokedNeverRuns` and `ExpiryIsExact` are stated of events of the queue only; `DestroyEventsRun`, which is about the destroy events nobody revoked, is checked with the others being revoked in between.
- `simulator.h:730` says of `ScheduleNow` that its events are FIFO "after all normal events have expired"; they are queued behind the events already scheduled for the present time, and before all later ones, which is what `SameTimeFifo` says.
- `NullMessageSimulatorImpl`: a `SchedulerTune` below 1 with a delay of a few time steps rounds the delay of null message events down to 0, and the rank repeats them for ever; ranks with unlike stop times leave their neighbours in `MPI_Waitany`.
- `test.py`: a crash of the test runner while it lists the suites, or an `--example` that is not runnable, leads to "0 of 0 tests passed" and status 0; `--kinds` decodes what `run_job_synchronously` has already decoded, which Python 3 refuses; a suite that crashed with undecodable output counts as failed, and what it left of its results file is merged although the comment above the test says that a file is only read when it is valid.
- `visualizer/core.py`: when the simulation thread takes its lock only after `go` was set a second time, it runs past a pause; a selection made from code that runs under the lock waits for itself, since the lock is not reentrant.

## 6. Not modelled

- `DefaultSimulator`: `SetScheduler`, event contexts.
- `GrantedTimeWindow`: the width of times (`smallestTime + m_lookAhead` is a natural number without bound, so that an overflow for a look-ahead near the greatest time cannot be seen); a second `Run`; EventIds, `Cancel`, `Remove` (as in `DefaultSimulatorImpl`); freeing of send buffers.
- `NullMessage`: `Stop` called in an event (each rank stops by an event scheduled before `Run`), a second `Run`, EventIds of the program, destroy events, the queues of the devices, the gap between frames (`m_tInterframeGap`, by which `TransmitComplete` comes later than the end of the transmission, `point-to-point-net-device.cc:288`; it is 0 by default and here), freeing of send buffers.
- `TestRunner`: the build by waf, the choice of tests, the translation of results to text and HTML, temporary directories, what the results files of the tests contain.
- `EpidemicRouting`: the arithmetic of predictabilities and their ageing; interface notifications; of `do_proposal`, the copies and tokens it sends over OLSR (which node gets a message by them, and when, is left open: any node of `Flows` may make its packet at any time it has not had the uid); two applications that the program sets up at one instant at one node; `HopCount` 0, which the attribute allows and under which packets make one hop more than that; the `judge` flag when no trace sink is connected; `PacketQueue::MyDrop` (`epidemic-packet-queue.cc:213`, called from `test-proposal-0720.cc:745` by way of `epidemic-routing-protocol.cc:919`), which is to erase the entries of a message but compares the uid of the ns-3 packet with the uid of the tag, and in this program finds none.
- All components marked `not_modelled` in `PROJECT.json`: real-valued physics, byte-level formats, adapters to external software, and the protocols listed below.

### What share of the code this is

Nearly all of the Python in the repository, some 680,000 of 700,000 lines, are the files `bindings/modulegen__*.py`: generated lists of calls that register C++ classes with the bindings, without state or control. There is nothing in them to model. What is left in Python is `test.py` (modelled), the visualizer, build rules and examples. The simulator is C++, and the modules here translate its event core, its two distributed simulators and the routing protocol this fork adds; a few thousand of its several hundred thousand lines, chosen because concurrency and ordering are decided there.

## 7. What could come next

1. `RealtimeSimulator` with `WallClockSynchronizer`: lost wake-ups, choice of the next event before the wait, a second `Run`.
2. `EventLists`: the ordered set that `EventKeys` promises, implemented by the heap and calendar schedulers, checked against it on bounded inputs.
3. Point-to-point device with its queue, and traffic control with flow control of the device; ARP cache with retries.
4. The simulation thread of the visualizer with its lock.
5. `NullMessage` with several links between two ranks and the guarantee computed from the current time, as a repair to be checked.
6. `NoDeadlock` of `NullMessage` with a rank without neighbours, once `ReceiveBlocking` lets it pass; and what is lost when stop times differ, as an invariant: only ranks that reach a stopped one over waiting ones wait for ever.

## 8. Running

    tlc -workers 2 -config DefaultSimulator.cfg DefaultSimulator
    tlc -workers 2 -config GrantedTimeWindow.cfg MCGrantedTimeWindow
    tlc -workers 2 -config NullMessage.cfg MCNullMessage
    tlc -workers 2 -config EpidemicRouting.cfg MCEpidemicRouting
    tlc -workers 2 -config TestRunner.cfg TestRunner
    tlapm DefaultSimulatorProofs.tla
    tlapm DefaultSimulatorEventProofs.tla
    tlapm GrantedTimeWindowProofs.tla
    tlapm NullMessageProofs.tla
    tlapm NullMessageGuaranteeProofs.tla
    tlapm NullMessageDeadlockProofs.tla
    tlapm EpidemicRoutingProofs.tla
    tlapm TestRunnerProofs.tla

The `_*.cfg` variants run with the same module as the plain one of that name. The longest run takes about three minutes.

# Meshtastic Lab in TLA+

Meshtastic Lab runs two to ten native Meshtastic firmware processes in one
container, connects them through a simulated directed radio medium, generates
traffic, and shows the evidence in a web console. This directory holds TLA+
models of its concurrent core, the TLC configurations that check them, and proofs
that TLAPS checks. `PROJECT.json` maps every definition to the lines it models and
lists the runs, the mutants that show each property can fail, the findings, the
hazards and the theorems.

## The system

The backend is one Python process with one asyncio event loop. A task gives up
control only at an `await` that suspends, so **an action of a model is the code
between two suspensions**; worker threads (official-client calls, result
serialization) run beside the loop.

| Component | State | Operations | Interacts with | Hard behaviours | What makes it correct |
| --- | --- | --- | --- | --- | --- |
| `SimulatorService` lifecycle (`simulator/service.py`) | lifecycle state, startup and failure tasks, three locks, references to all parts | start, stop, reset, runtime failure, cleanup | everything | commands queue on locks while failures arrive; cleanup awaits between its steps | nothing leaks, FAILED is kept and cleaned, commands return |
| Startup (`service.py`) | restart rounds, verified nodes | configure, await reboot, restart, verify, warm up | gateways, worker threads | daemons lost at any time, threads that cannot be cancelled | exactly the unstable nodes restart; no thread at cleanup |
| Topology and scenario edits (`service.py`) | scenario, link map | replace, update links, apply preset | medium, traffic | edit against boot and against frames in flight | scenario and link map agree |
| `TrafficController` (`traffic/controller.py`) | run state, current and frozen result, files | start, stop, fail, finish, persist | service, disk | stop, fail and the run's own end race; persistence fails, is late, or the process crashes | a terminal result is frozen, never lost, and every copy says the same |
| Traffic accounting (`controller.py`) | messages, counters, packet ids, quarantine | submit, queue status, RF evidence, delivery, acknowledgment, finalize | gateways, firmware | reports in any order, twice, late or never | each message counted once; no report counted in another run |
| `NodeGateway` (`gateway/node_gateway.py`) | state, daemon connection, one client slot, three queues | start, stop, fail, admit, forward | daemon, clients, medium | daemon and clients vanish at any await | one client, no foreign frames, losses signalled, calls return |
| `DirectedMedium` (`simulator/medium.py`) | link map, one worker per node | start, stop, transmit, inject, edit links | gateways | edits and failures among the injections of a frame | one link map per frame, order, no silent loss |
| `EventBroker`, WebSocket handler, page (`metrics/events.py`, `main.py`, `App.tsx`) | stream id, sequence, history, subscriptions, page cursor | publish, reset, replay, reconnect | browser | overflow, eviction, resets and reconnects | a page has the events in order or is told that it lost some |
| `NativeProcessSupervisor` (`runtime/processes.py`) | child processes, exit and output tasks, logs | start, stop, drain, monitor, rotate | service | exits at any time, children that ignore SIGTERM, a start that fails half way, a crash during log rotation | no orphan, no false failure, archives of the newest output, bounded recent logs |
| Local-statistics sampling and run evidence (`service.py`, `controller.py`) | last answer per node, condition; failed receptions, topology history | request, retry, answer, edit | gateways, traffic | unasked reports and late answers overwrite each other; edits around a run | fresh samples, receptions counted once, a history that leads to the links |
| Official-client configuration (`runtime/configure.py`) | a session, the daemon's settings | transaction of settings, read back, reboot | daemon | refusals, silence and reboots in the middle | verified settings are applied and survive a reboot |
| Frame parser, flow schedule, reachability, presets (`gateway/framing.py`, `controller.py`, `models/scenario.py`) | a buffer; tables of a run; none | feed; submit; search | gateways, traffic | reads that cut frames anywhere; merged rates; hop limits | agree with a reference definition |
| Airtime, metric formulas, provenance, scripts, bench | none or local | pure functions and sequential clients | | | |

## Modules

| Module | Models | Runs |
| --- | --- | --- |
| `Lifecycle` | lifecycle commands, locks, failures, cleanup, edits | `lifecycle`, `lifecycle_race` |
| `LifecycleProofs` | theorems about `Lifecycle` and `Reachability` | TLAPS |
| `Startup` | `_configure_nodes`, warm-up, the way to RUNNING | `startup` |
| `RunContract` | what a user of the API is promised of a run (abstract) | `traffic_run` |
| `TrafficRun` | run lifecycle, persistence, archive, late finalization; implements `RunContract` | `traffic_run`, `traffic_run_export` |
| `TrafficRunProofs` | theorems about `TrafficRun`, its refinement of `RunContract` | TLAPS |
| `Accounting`, `MCAccounting` | counters, reports, packet ids (the MC module adds symmetry) | `accounting` |
| `AccountingProofs` | theorems about `Accounting` | TLAPS |
| `NodeLink` | what the service relies on of a gateway (abstract) | `gateway` |
| `Gateway` | one `NodeGateway`, its daemon and its clients; implements `NodeLink` | `gateway` |
| `GatewayProofs` | theorems about `Gateway`, its refinement of `NodeLink`, and `Framing` | TLAPS |
| `Topology` | the presets and the difference of two link maps, used by the next two | |
| `Medium`, `MCMedium` | `DirectedMedium` | `medium` |
| `MediumProofs` | theorems about `Medium` | TLAPS |
| `RunEvidence`, `MCRunEvidence` | local-statistics sampling, failed receptions, topology history | `run_evidence` |
| `EventStream` | broker, socket handler, one page | `event_stream` |
| `EventStreamProofs` | theorems about `EventStream` | TLAPS |
| `Supervisor`, `MCSupervisor` | `NativeProcessSupervisor` | `supervisor` |
| `SupervisorProofs` | theorems about `Supervisor` | TLAPS |
| `BoundedLog`, `Framing`, `Reachability`, `Schedule`, `Configure`, `MCAlgorithms` | the sequential parts | `algorithms` |
| `ComponentProofs` | theorems about `Startup`, `Configure`, `RunEvidence`, `BoundedLog`, `Schedule` | TLAPS |

A definition whose comment begins with "Mutant:" is a plausible bug that stands
next to the definition it replaces; it is no part of the specification.

### How the modules correspond to the code

**Lifecycle.** `pc[t]` is where the handler or failure task `t` is suspended and
`clean[t]` its place in `_cleanup_resources_unlocked`. Locks are an owner and a FIFO
queue, as in asyncio. Taking a free lifecycle lock is merged with the code after
it; waking from a queue is a step of its own, because a failure can fall in
between. `medium.apply_links` never suspends, so an edit is one step. The cleanup
lock is only ever taken under the lifecycle lock, so nobody waits for it. Request handlers are not cancelled and cleanup steps do not raise.
A scenario is its node set and its link map, each a version.

**Startup.** A gateway is its state and its event `failed`. A stage of
`_configure_nodes` gives every pending node a task; `Settled` is
`settle_node_tasks`. Deadlines are the error outcomes of the waits.

**TrafficRun.** The topology lock serializes the callers, so one call is in progress
at a time; the run task, the persistence thread, and the late finalization of an
earlier controller run beside it. Cancelling the run task and gathering it is one
step. A crash leaves the files as they are between two steps, so the invariants about
files are checked in every state between the two renames.

**Accounting.** One source: ids, pending submissions and quarantines are kept per
source. The firmware may report on a packet any number of times, in any order,
until `Lateness` after it got it. Each run is direct or broadcast, and with acknowledgments
asked for or not, as its request says (`ExpectsAcks`). `Lateness <= Quarantine` is the
assumption the code's five minutes stand for. The clock never goes back and entries are made in its
order, so dropping the expired ones from the front of a queue (`Popped`) is what the
code's loops do.

**Gateway.** `start` and `stop` hold the gateway's lock and are followed from await
to await; the daemon reader and writer and one handler per client run beside
them. As in the service, only a new or stopped gateway is started. The `finally`
of a session that ended runs before the next connection of the same client. `stop`
does not clear the daemon and RF queues, and neither does the model.

**Medium.** `UP` stands for WARMING_UP and RUNNING: the medium starts and WARMING_UP is
set without a suspension in between. Frames are numbered in the order they are
emitted. An injection never suspends, and the injections of a frame are scheduled
together, so all have run when `gather` returns or raises. `maps`, `sender` and
`outcome` record the past for the properties.

**EventStream.** Subscribers are independent, so one page is enough. A reset publishes
and clears in one step. The page's initial history request and its own reset can be
applied too late, for which the code has no remedy (events, or the notice that some were
dropped, are forgotten); the history variable `overtaken`
marks those behaviours and the comment before the properties says which they are.

**RunEvidence.** `pc[n]` is where `sample_node(n)` is: all nodes are sampled together.
`notified` keeps the time between `notify_all` and the waiter's next turn, in which
another report may overwrite the answer. The firmware answers a request at most once,
at any later time, and reports unasked whenever it likes. Only the nodes in `Counted`
have counters; the others take part in the link maps. `_run`'s handler of other
exceptions, which would finish a run without a final sample, cannot be reached by a
validated request and is left to `TrafficRun`.

**Supervisor.** A child dies by itself or by a signal, may ignore SIGTERM but not
SIGKILL, and is reaped some time after it died. An output task is at a read, in a
thread that appends the line, or closing its file in a thread; `cutOff` records whose
tasks the second deadline cancelled. One of the two streams of a child is modelled, and
its lines are numbered: `read[n]` is the last line the output task has read, and of those
up to it the deque holds the newest `recent[n]`, at most `RecentLines` (250 in the code). That
is all an archive can have. A line longer than `asyncio`'s limit of 64 KiB, which `readline`
answers with an exception, is assumed not to occur.

**BoundedLog.** `file` and `backup` are sequences of numbered lines with their sizes;
every system call of a rotation or a trimming is a step, and between any two the
process may crash and another one open the file. Between `truncate` and the end of the
rewrite in `_trim_existing` only the process has the lines that are to be kept (`tail`). A crash
there is `LoseTail`: any number of these lines may be on disk again, the others are lost. What
is left of the file is then what counts as saved. Lines are whole: half a line that a
crash leaves on disk is not distinguished from none.

**Framing, Reachability, Schedule, Configure.** One step is one turn of the loop in the
code. The parser runs on every byte string over four byte values, cut into reads in
every way; the search takes neighbours in every order, as Python's sets do; offsets of
jittered flows are all those the random generator can give; the daemon of a settings
transaction refuses, does not answer, or reboots at any step.

### The abstract specifications

`RunContract` has two variables: the outcome of every run, and the outcome its result on
disk shows. `TrafficRun` maps onto them by what the API would answer: `RunOutcome(r)` is the
frozen result or live state of the controller that holds `r` (the current one, or one a
late finalization waits for), and when none does the file, then the retained results
(the order of `traffic_result`). A result that is renamed into place before the run has its
outcome is no file yet. A run that leaves its controller has the outcome of
whichever copy is read then, so copies that differ would break the refinement, with one
exception that the contract states: a FAILED run may be left with a file of another outcome
(`Written`), and become what that file says (`LeftToDisk`). That is what the code does when the
second rename and the unlink of the first file both fail. While a late finalization is under
way the API has no answer of its own for the run; the model calls it active until it settles.

`NodeLink` has the phase of the link, whether a daemon is attached, whether a task
watches it, and the alarm. `Gateway` maps its call in progress and its reader onto the
phase, and its event `failed` onto the alarm. The gateway's `state` is deliberately not
part of the mapping: it is what the deviation below is about.

## What the runs show

Passing runs:

- `lifecycle`: two clients, both free to issue every command, and two scenario versions.
  STOPPED has released everything, FAILED has an owner of the cleanup and is not
  overwritten, traffic never outlives its RF path, a boot finds nothing left over, the
  scenario never drifts from what was booted, every command returns and every failure
  is cleaned up. There is no deadlock (TLC checks for it here and in `traffic_run`).
- `startup`: a node restarts if and only if its daemon was lost in the round, cleanup never
  meets a worker thread, and start ends.
- `traffic_run`: no finished run is lost except to the archive's limit, a summary file has
  its result, `RunContract` is implemented (`ImplementsContract`: one outcome for every run,
  for good and the same in every copy, unless a failed write left a file that could not be
  removed), and every run ends and the last summary settles although its finalization was
  late (`RunsSettle`).
- `accounting`: broadcast runs and direct runs with and without acknowledgments asked for.
  Every generated message is in one column, acknowledged messages were transmitted and
  submitted, counters match the records, the frozen result is consistent (an acknowledgment
  is expected of every submitted message if the run asked for them, else of none), and no report
  is counted in another run.
- `gateway`: one client at a time and no frame of one client for another, a stopped gateway
  holds nothing, `NodeLink` is implemented (`ImplementsLink`: the alarm is raised only for a
  lost daemon), and calls return although the daemon may never answer, and a running gateway
  that lost its daemon says so (`GatewayProgress`).
- `medium`: the receivers of a frame are a row of one link map, frames of one transmitter
  arrive in order, no loss goes unreported while the simulator is up, and a stopped
  medium is quiet.
- `event_stream`: a page sees the events in order and with a cursor that is never ahead;
  unless a request of its own was overtaken, it is told of every hole and catches up.
- `run_evidence`: a sample is never older than its sampling, failed receptions are counted
  once and a complete result has all of them, the recorded topology history leads from
  the snapshot to the links, and no start, stop or edit hangs on a silent node.
- `supervisor`: no child without a record, no failure report for a child that stop ended,
  an archive has the newest lines of what the child wrote, all of them or as many as the deque
  holds, unless a deadline cut the output off, exits are handled and stops return.
- `algorithms`: one of the sequential parts in each behaviour. Logs keep the newest lines
  within the limit wherever a rotation is interrupted, and through every trim that is not
  (one that is loses lines, below), the parser agrees with a parse of the whole stream, the
  search agrees with paths, the schedule is in due order and of the announced length, and a
  verified node has its settings also after a reboot.

Runs that end in a violation, each a disagreement between the code and its
documents (`findings` in `PROJECT.json` has the lines):

- `lifecycle_race`: a queued second start can restart the simulator without awaiting
  the failure task, which then tears the new simulation down.
- `traffic_run_export`: `fail` moves a finished run back to STOPPING, so that a terminal
  status and export readiness are not one.

### Known deviations

More disagreements were met while modelling. They have no run of their own; the
properties are stated so that they hold beside them, and the hazards name the lines.

- `service.py:731`: a gateway that fails in STARTING after its own watch window, while
  another node is still restarted, does not keep the simulator from RUNNING, although
  `docs/architecture.md` calls gateway readiness a hard gate. `Startup` has these
  behaviours: `life = "RUNNING"` does not imply that every gateway is.
- `node_gateway.py:149`: RUNNING is set after two awaits whatever happened to the daemon in
  between, although `docs/client-connections.md` says that the gateway enters FAILED.
  `ImplementsLink` shows that the event `failed` stays set.
- `events.py:203`: a cursor of 0 on the current stream reconnects past evicted events without
  a gap notice.
- `App.tsx:278` and `App.tsx:428`: the two races that `overtaken` marks.
- `controller.py:1347`: the files of a result whose write failed are unlinked with errors
  suppressed. If the second rename and the unlink of `{run}.json` both fail, the summary and the
  result say FAILED while the export (`main.py:196`) and, once the controller is gone,
  `traffic_result` (`service.py:502`) answer with a file that says COMPLETED; the archive skips
  the run because there is a file (`service.py:557`). `PersistFails` has these outcomes and
  `RunContract` the exception.
- `service.py:502`: while a late finalization goes on, the API may already answer with a result
  that is renamed into place although the second rename can still fail and unlink it.
- `processes.py:57`: a log is trimmed by truncating it and writing its end again. A controller
  that is killed in between, or a write that fails, loses lines that would have fitted.
  `LogIsRecent` holds of what is left (`LoseTail` begins the history `saved` anew).
- `processes.py:88`: the deques hold 250 lines of each stream, so archived logs have at most the
  newest 250; older ones are only in the log file.
- `controller.py:1617`: ids of a run longer than the quarantine are free when it ends, which
  `NoCrossRun` shows to be harmless under the assumption on the firmware's lateness.

### Bounds

Every bound is a constant with a comment. They are chosen so that each limit is
met and exceeded: histories and queues of one to three entries that overflow, one
reset, two lost connections, two runs so that an archive of one evicts,
three daemon connections so that a retry and a loss follow each other, two frames
among three nodes on queues of one, a sampling that retries once and a topology history
of one entry, children of two lines each and a deque of one, byte strings of seven with payloads of at most
one byte, graphs of four nodes, logs of four bytes and lines of up to five, seven daemon losses for three nodes and
three rounds, time up to beyond the quarantine. Lifecycle and TrafficRun (beyond
`MaxRuns`) need no counters: their state spaces are finite. Deadlock checking
is switched off where the system may be idle or the bounds run out.

### Fairness

Weak fairness is assumed only of steps that the event loop or a thread takes by
itself: a ready task runs, a lock passes to its first waiter, a worker thread ends,
a wait with a deadline ends. All waits of start, stop, cleanup, configuration and
handshake have deadlines in the code (`asyncio.timeout`, `wait_for`,
`_bounded_wait_closed`); a child ends after SIGKILL. Nothing is assumed of clients, daemons, processes, edits,
resets or closed connections.

## What is proved

Eight modules hold theorems. Each is about the specification without fairness and for
every value of the constants that satisfies the module's assumption:

| Module | Theorem | Statement | Assumes of the constants |
| --- | --- | --- | --- |
| `LifecycleProofs` | `LifecycleInvariant`, `LifecycleTypes` | `[]IInv`, `[]TypeOK` | callers are clients; the failure task and `None` are distinct from them |
| | `StoppedReleasesEverything` | `[]StoppedIsReleased` | |
| | `FailureIsOwned` | `[]FailedHasCleaner` | |
| | `TrafficIsStoppedFirst` | `[]TrafficHasRFPath` | |
| | `FailedStays`, `BootsAreClean` | `FailedIsSticky`, `CleanBoot` (of steps) | |
| | `ScenarioIsInForce` | `[]ScenarioAgreement` | |
| | `SearchFindsAll` | `[]ReachabilityExact`, of `Reachability` | finitely many nodes, the source is one; hop limits are positive |
| `ComponentProofs` | `InductiveInvariant`, `TypeCorrect` | `[]IInv`, `[]TypeOK` | at least one round |
| | `RestartsAreJustified` | `[]RestartsMatchLosses` | |
| | `CleanupIsQuiet` | `[]NoThreadAtCleanup` | |
| | `VerifiedNodesAreConfigured` | `[]VerifiedIsApplied`, of `Configure` | |
| | `SamplesAreFresh` | `[]SampleIsFresh`, of `RunEvidence` | distinct nodes, some of them counted |
| | `HistoryIsComplete` | `[]HistoryReplays`, of `RunEvidence` | |
| | `FailedReceptionsAreExact` | `[]FailedReceptionsExact`, of `RunEvidence` | |
| | `LogKeepsTheEnd` | `[]LogIsRecent`, of `BoundedLog` | a positive limit, lines of positive size |
| | `MessagesLeaveOnSchedule` | `[]ScheduleIsExact`, of `Schedule` | at least two distinct nodes; flows with a positive interval, distinct sources and a destination that is none of them |
| `TrafficRunProofs` | `RunInvariant`, `TrafficTypes` | `[]IInv`, `[]TypeOK` | an archive of at least one; `None` is no controller and no summary |
| | `NoRunIsLost` | `[]NoRunLost` | |
| | `RunsKeepTheContract` | `ImplementsContract` | |
| `AccountingProofs` | `AccountingInvariant` | `[]Inv` | finitely many receivers, `Lateness <= Quarantine` |
| | `LateReportsAreNotCounted` | `[]NoCrossRun` | |
| | `MessagesAreConserved` | `[]Conserved` | |
| | `ResultsAreConsistent` | `[]ResultConsistent` | |
| `GatewayProofs` | `GatewayInvariant`, `GatewayTypes` | `[]IInv`, `[]TypeOK` | queues of at least one; internal clients are clients |
| | `OneClientAtATime` | `[]OneClient` | |
| | `StopReleases` | `[]StoppedIsReleased` | |
| | `GatewayImplementsLink` | `ImplementsLink` | |
| | `FramesAreCutExactly` | `[]FramesMatchReference`, of `Framing` | the two magic bytes are bytes |
| `MediumProofs` | `MediumInvariant`, `MediumTypes` | `[]IInv`, `[]TypeOK` | presets are sets of pairs of nodes; queues of at least one |
| | `FanOutIsAtomic` | `[]FanOutIsOneTopology` | |
| | `FramesArriveInOrder` | `[]FramesInOrder` | |
| | `LossesAreReported` | `[]LossIsFailure` | |
| | `StoppedMediumIsQuiet` | `QuietAfterStop` (of steps) | |
| `SupervisorProofs` | `SupervisorInvariant` | `[]IInv` | a non-empty sequence of distinct nodes; a deque of at least one line |
| | `NoChildIsLost` | `[]NoOrphan` | |
| | `FailuresAreReal` | `[]NoFalseFailure` | |
| | `ArchivesAreWhole` | `[]ArchiveIsWhole` | |
| `EventStreamProofs` | `EventInvariant` | `[]IInv` (with `TypeOK`) | sizes of at least one; a replay asks for at least the whole history |
| | `EventsArriveInOrder` | `[]InOrder` | |
| | `NoSilentLoss` | `[]NoSilentGap` | |

The bounds (`MaxRuns`, `MaxLosses`, ...) are only assumed to be natural numbers, so the
theorems say that the properties do not depend on the values TLC was given.

Hardly one of the properties is inductive. Each proof rests on an invariant that is. TLC checked
it on the module's run before it was proved, except for those of `BoundedLog`, `Schedule` and
`Reachability`, which quantify over all numbers or sequences and are proved without that help:

- **Lifecycle.** Two tasks that clean up at once, or a starting task without the lifecycle
  lock, break the properties in one step. `Control` says which command can be suspended
  where and that an unfinished failure task is the one the service refers to; `Holding`
  where a task holds the lifecycle and topology locks, hence that at most one builds or
  cleans up; `Phase` which lifecycle states are possible at each place; `Standing` what
  is up while a task builds and what is left at each step of a cleanup; `RFUntilCleanup`
  that a controller has its RF path until a cleanup is past the traffic. The action
  properties follow from `StateSteps`, which says what each step may do to the state;
  `ScenarioIsInForce` from the locks an edit and a boot hold.
- **Startup.** `Division`: the rounds divide the nodes into verified and pending ones.
  `Tasks`: what a node's task can be in each stage. `Losses`: from the restart of a gateway
  to the end of its watch window `failed` is set exactly if the daemon was lost in this
  round. For `Configure`, `CallInv` relates memory, disk and the client's cache in the second session.
- **RunEvidence, samples.** `IdsGiven`: every request id the firmware, the wire or the service has was
  given out by `_control_packet_id`, so a new request has an id no answer can have yet.
  `AnswersFresh`: hence an answer to a request of this sampling, on the way or already taken,
  was counted after the sampling began.
- **RunEvidence, failed receptions.** `ReportsInOrder`: the totals of a node only grow, from the
  service's view over the reports on the way to the firmware's counter, so a late report is
  never below one already taken. `SamplerFits`: who samples in which phase. `AccountOpen`: while a
  run accepts reports, `failed` is the sum over the nodes of what each total has grown since its
  base; the property follows because such sums are monotonic (`MoreGrowth`).
- **RunEvidence, history.** `EditFits`: an edit under way holds the lock, and what it is about to
  record fits within the limit; so no edit is cut off half way. `ContinuedHistory`: entries for
  exactly the links that differ lead from one link map to the other.
- **BoundedLog.** Backup, file and the lines in a trim's memory, joined, are an end of what was
  saved, at every step of trimming and rotation. `GoneDidNotFit`: if a line is gone, what is
  kept and the longest line exceed the limit; for a trim because the newest line it cuts off
  would not have fitted (`CutDidNotFit`). A trim that is interrupted begins the history anew. `OversizedIsOld`: a file over the limit is one of an earlier controller.
- **Schedule.** `SentInOrder`: no message that is still to be sent is due before the last one sent.
  `SentIsCounted`: the timers add up to the messages sent. `RobinShares`: a round-robin
  source is inside one turn, the nodes it has passed in this turn got one message more.
- **Reachability.** `QueueInOrder`: the queue holds nodes of one distance and then of the next.
  `FrontierWaits`: the neighbour of a visited node is visited or waits with no more hops than it
  needs. Hence nothing near enough is left out when the queue is empty.
- **Framing.** `ReadTo(p)`: the parser has dealt with the first `p` bytes, and however many more
  arrive, a pass over all of them returns what was returned so far and then what a pass from there
  returns. Each branch of `feed` moves `p` on, by a run of noise, one refused header or one
  frame; a buffer that waits is empty or begins with an unfinished frame (`KeepsOpenOnly`).
- **TrafficRun.** `Controlled` and `CallInv`: who may be inside `_finish` and where the call
  in progress is. `Held`: no two controllers hold a run, and a run passes to the archive
  once. `OnDisk` and `ArchiveInv`: what the files and the archive have at each step of
  `_finish`. `NoFuture`: nothing is recorded of runs not yet started. The refinement is a
  step simulation under `IInv`: every action leaves every `RunOutcome(r)` and every file of a
  run with an outcome alone or takes one step of `RunContract`.
- **Accounting.** `IdInv`: a packet the firmware may still speak of holds its id among the
  run's ids while its run is current, and then in the quarantine until it is silent;
  `LeastMember` shows that popping a queue up to its first live entry loses none.
  `CountInv`: counters are cardinalities of sets of records and each record is
  consistent. Every handler changes one record and the counters to match, which `Fits` and
  `Counted` state once for all handlers. `AcksBounded`: acknowledged messages are no more than
  transmitted ones, and those no more than submitted ones. `ResultInv`: once reports are refused,
  nothing the metrics were computed from changes.
- **Gateway.** `Places`, `Attachment`, `Signalled`, `Doors` tie the place of start and stop
  to the state, the daemon connection, the event `failed` and the two listeners; `Sessions` and
  `Waiting` say who holds the slot and that frames queued for a client are its own. The
  refinement is again a step simulation.
- **Medium.** `Queued`, `Injecting`, `Arrived` follow a frame from the transmitter's queue
  through the injections to the receivers; `OneMap` says that the outcomes of a frame are those
  of the row its worker copied; `ByLife` what the lifecycle allows.
- **Supervisor.** `Records`: which nodes have a record at every place of start and stop.
  `Children`: the children of a stop past its deadlines are dead. `Tasks`, `Signals`: tasks
  outlive neither their record nor `_stopping`, signals are ours. `Drained`: what an output task
  has read when it ends, and that the deque holds the newest of the lines read (`HeldLines`).
- **EventStream.** The queue of a subscription and the history are always the end of the
  stream (`QueueInv`, `HistoryInv`), so what can go wrong lies between the page and the head
  of the queue, in the `Backlog`. `SentInv` bounds the backlog and the page's cursors by
  what the handler remembers to have sent, which is before the queue: that gives the order.
  `CoveredInv` says of every event of the backlog, and of the next one to come, that it
  continues the message before it, or stands behind a notice, or is one that the page, if it
  is next, can show without a hole (`PageReady`); `ShownInv` that the page shows an interval up
  to its cursor, and all it has room for while nothing was evicted; `CursorKept` that a
  connection is made with the cursor the page has. Working it out showed a third way to be overtaken, which the model had
  left out: the page's own reset also clears the knowledge that events were dropped.

A proof that a step preserves the invariant has one lemma per action, with one step per part
of the invariant the action can disturb.

What a sum, a search or a parse is for every input needs induction over data, and the induction
theorems of the library cannot be used with the installed provers. The proofs take the least
counterexample instead (`LeastNumber`, from the well-foundedness of `<`), or the smallest one
among the subsets of a finite set (`SmallestSet`). With these `TableExists` and `TablesAgree`
show that the function by which the library defines a sum exists and is unique, `SumUpdate` how a sum
changes with one term, `BallsToExist` and `BallsAgree` the same of the nodes within so many hops,
and `PassExists` of the results of a pass over a byte string. The definitions in the models are
recursive functions and the folds of the community modules.

Every invariant and every action property that a run checks is a theorem. Only model-checked are
the liveness properties: `CommandsReturn`, `StartupEnds`, `RunsSettle`, `GatewayProgress`,
`ExitsAreHandled`, `SamplingEnds`, `CatchesUp` (fairness and ENABLED are out of the prover's reach).

## Not modelled

Airtime, percentiles and drop reasons (floating point and tables), serialization, HTTP
status codes, rendering, hardware ids and command lines of the children, field validation
of scenarios and requests, scripts, the bench and the container (I/O, or no state
of their own). `components` in `PROJECT.json` has the reasons one by one.

## Plan

Models, done: `Lifecycle`, `TrafficRun`, `EventStream`, `Accounting`, `Gateway`, `Startup`,
`Medium`, `RunEvidence`, `Supervisor`, the sequential parts, `NodeLink` and `RunContract`
with the refinements that connect them. What is left of the code is listed above.

Proofs, done: every invariant and action property of the passing runs, and the two refinements.
What is left are the liveness properties, which stay with TLC.

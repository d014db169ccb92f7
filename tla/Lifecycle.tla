----------------------------- MODULE Lifecycle -----------------------------
(***************************************************************************)
(* The lifecycle of SimulatorService (backend/app/simulator/service.py):    *)
(* start, stop, reset, scenario edits, topology edits, traffic start/stop   *)
(* and the runtime-failure task, run concurrently by HTTP handlers on one   *)
(* asyncio event loop.                                                      *)
(*                                                                          *)
(* A step of the model is the code a task runs between two suspensions.     *)
(* asyncio.Lock is FIFO: a released lock is free until its first waiter     *)
(* runs, and a newcomer never overtakes a waiter.  The lifecycle lock is    *)
(* taken in the same step as the code that follows it, because start, stop  *)
(* and reset look at the failure task just before they ask for the lock.    *)
(***************************************************************************)
EXTENDS Naturals, Sequences, FiniteSets

CONSTANTS
    Clients,           \* concurrent HTTP handlers
    LifecycleCallers,  \* the clients that issue start, stop and reset
    Versions,          \* the node sets and link maps a scenario may hold
    DefaultVersion,    \* what default_scenario() holds
    FailTask,          \* the task "failed-simulation-cleanup"
    None

ASSUME LifecycleAssumption ==
    /\ LifecycleCallers \subseteq Clients
    /\ DefaultVersion \in Versions
    /\ FailTask \notin Clients
    /\ None \notin Clients \cup {FailTask} \cup Versions

Tasks == Clients \cup {FailTask}
Locks == {"lifecycle", "topology", "cleanup"}
Resources == {"processes", "gateways", "medium", "lag"}
States == {"STOPPED", "STARTING", "WARMING_UP", "RUNNING", "STOPPING", "FAILED"}

LockedCommands == {"start", "stop", "reset"}
TopologyCommands == {"apply_topology", "update_links", "start_traffic", "stop_traffic"}
Commands == LockedCommands \cup TopologyCommands \cup {"fail", "none"}

StartPhases == {"boot", "connect", "configure", "warm", "enable"}
CleanPcs == {"preclean", "abort", "stopping", "failing"}
Pcs == {"idle", "called", "await", "created", "queued", "reqTopology", "topology",
        "baseline", "halt"} \cup StartPhases \cup CleanPcs
CleanSteps == {"none", "request", "lock", "fail", "lag", "traffic", "medium",
               "gateways", "supervisor", "clear"}

VARIABLES
    state,      \* SimulatorService.state
    startup,    \* _startup_task: None or the task running start()
    live,       \* the resources that are up
    booted,     \* the node set the supervisor was started with
    scenario,   \* SimulatorService.scenario: its node set and its link map
    links,      \* None while medium and traffic are None, else medium._links
    run,        \* a traffic run is active on the current controller
    failTask,   \* _failure_cleanup_task: none, an unfinished task, a done one
    awaiters,   \* the clients that await the task failTask refers to
    captured,   \* the clients whose local "traffic" is the current controller
    owner,      \* owner[l]: the task that holds lock l
    queue,      \* queue[l]: the waiters of lock l, oldest first
    cmd,        \* cmd[t]: the command task t executes
    pc,         \* pc[t]: where it is suspended
    clean       \* clean[t]: where it is inside _cleanup_resources

vars == <<state, startup, live, booted, scenario, links, run, failTask,
          awaiters, captured, owner, queue, cmd, pc, clean>>

world == <<live, booted, scenario, links, run, captured>>
failure == <<failTask, awaiters>>
sync == <<owner, queue>>

Init ==
    /\ state = "STOPPED"
    /\ startup = None
    /\ live = {}
    /\ booted = DefaultVersion
    /\ scenario = [nodes |-> DefaultVersion, links |-> DefaultVersion]
    /\ links = None
    /\ run = FALSE
    /\ failTask = "none"
    /\ awaiters = {}
    /\ captured = {}
    /\ owner = [l \in Locks |-> None]
    /\ queue = [l \in Locks |-> <<>>]
    /\ cmd = [t \in Tasks |-> "none"]
    /\ pc = [t \in Tasks |-> "idle"]
    /\ clean = [t \in Tasks |-> "none"]

-----------------------------------------------------------------------------
(* asyncio.Lock *)

Free(l) == owner[l] = None /\ queue[l] = <<>>
NextInLine(t, l) == owner[l] = None /\ queue[l] # <<>> /\ Head(queue[l]) = t

\* acquire() of a topology or cleanup lock: at once when free, else in line.
Request(t, l) ==
    \/ /\ Free(l)
       /\ owner' = [owner EXCEPT ![l] = t]
       /\ UNCHANGED queue
    \/ /\ ~Free(l)
       /\ queue' = [queue EXCEPT ![l] = Append(@, t)]
       /\ UNCHANGED owner

\* The first waiter of a free lock wakes up as its owner.
Wake(t, l) ==
    /\ l # "lifecycle"
    /\ NextInLine(t, l)
    /\ owner' = [owner EXCEPT ![l] = t]
    /\ queue' = [queue EXCEPT ![l] = Tail(@)]
    /\ UNCHANGED <<state, startup, world, failure, cmd, pc, clean>>

Goto(t, label) == pc' = [pc EXCEPT ![t] = label]

\* The command returns or raises, and its handler is ready for another.
Finish(t) ==
    /\ Goto(t, "idle")
    /\ cmd' = [cmd EXCEPT ![t] = "none"]

\* The lifecycle lock is taken and released within one step ...
Return(t) == Finish(t) /\ UNCHANGED owner

\* ... or taken and held while the task is suspended at label.
Hold(t, label) ==
    /\ Goto(t, label)
    /\ owner' = [owner EXCEPT !["lifecycle"] = t]
    /\ UNCHANGED cmd

-----------------------------------------------------------------------------
(* What start, stop, reset and the failure task do once they obtain the      *)
(* lifecycle lock, up to their next suspension.                              *)

\* start() past its checks: STARTING, and supervisor.start() is running.
Boot(t) ==
    /\ state' = "STARTING"
    /\ startup' = t
    /\ live' = live \cup {"processes"}
    /\ booted' = scenario.nodes

\* Mutant: start() from FAILED trusts the failure task to have cleaned up.
StartWithoutPreclean(t) ==
    \/ /\ state \notin {"STOPPED", "FAILED"}
       /\ Return(t)
       /\ UNCHANGED <<state, startup, world, clean>>
    \/ /\ state \in {"STOPPED", "FAILED"}
       /\ Boot(t)
       /\ Hold(t, "boot")
       /\ UNCHANGED <<scenario, links, run, captured, clean>>

StartLocked(t) ==
    \/ /\ state \notin {"STOPPED", "FAILED"}   \* already running, or a conflict
       /\ Return(t)
       /\ UNCHANGED <<state, startup, world, clean>>
    \/ /\ state = "FAILED"
       /\ Hold(t, "preclean")
       /\ clean' = [clean EXCEPT ![t] = "request"]
       /\ UNCHANGED <<state, startup, world>>
    \/ /\ state = "STOPPED"         \* no firmware marker or build metadata
       /\ Return(t)
       /\ UNCHANGED <<state, startup, world, clean>>
    \/ /\ state = "STOPPED"
       /\ Boot(t)
       /\ Hold(t, "boot")
       /\ UNCHANGED <<scenario, links, run, captured, clean>>

StopLocked(t) ==
    \/ /\ state = "STOPPED"
       /\ Return(t)
       /\ UNCHANGED <<state, startup, world, clean>>
    \/ /\ state # "STOPPED"
       /\ state' = "STOPPING"
       /\ Hold(t, "reqTopology")
       /\ UNCHANGED <<startup, world, clean>>

ResetLocked(t) ==
    /\ scenario' = IF state = "STOPPED"
                   THEN [nodes |-> DefaultVersion, links |-> DefaultVersion]
                   ELSE scenario
    /\ Return(t)
    /\ UNCHANGED <<state, startup, live, booted, links, run, captured, clean>>

FailLocked(t) ==
    /\ Hold(t, "reqTopology")
    /\ UNCHANGED <<state, startup, world, clean>>

Locked(t) ==
    \/ cmd[t] = "start" /\ StartLocked(t)
    \/ cmd[t] = "stop" /\ StopLocked(t)
    \/ cmd[t] = "reset" /\ ResetLocked(t)
    \/ cmd[t] = "fail" /\ FailLocked(t)

-----------------------------------------------------------------------------
(* Calls, and the way to the lifecycle lock *)

\* A request arrives at a handler.
Call(t, c) ==
    /\ t \in Clients
    /\ pc[t] = "idle"
    /\ c \in LockedCommands => t \in LifecycleCallers
    /\ cmd' = [cmd EXCEPT ![t] = c]
    /\ Goto(t, "called")
    /\ UNCHANGED <<state, startup, world, failure, sync, clean>>

AskLifecycle(t) ==
    \/ /\ Free("lifecycle")
       /\ Locked(t)
       /\ UNCHANGED queue
    \/ /\ ~Free("lifecycle")
       /\ queue' = [queue EXCEPT !["lifecycle"] = Append(@, t)]
       /\ Goto(t, "queued")
       /\ UNCHANGED <<state, startup, world, owner, cmd, clean>>

\* _await_failure_cleanup: an unfinished task suspends the caller; a done one
\* is forgotten, and the caller goes straight on to the lifecycle lock.
EnterLocked(t) ==
    /\ pc[t] = "called"
    /\ cmd[t] \in LockedCommands
    /\ \/ /\ failTask = "active"
          /\ awaiters' = awaiters \cup {t}
          /\ Goto(t, "await")
          /\ UNCHANGED <<state, startup, world, failTask, sync, cmd, clean>>
       \/ /\ failTask # "active"
          /\ failTask' = "none"
          /\ awaiters' = {}
          /\ AskLifecycle(t)

\* Mutant: waiters watch the shared field, not the task they captured.
ResumeOnField(t) ==
    /\ pc[t] = "await"
    /\ failTask = "done"
    /\ failTask' = "none"
    /\ awaiters' = {}
    /\ AskLifecycle(t)

\* The awaited task is done.  It is forgotten only if still referred to.
ResumeLocked(t) ==
    /\ pc[t] = "await"
    /\ \/ /\ t \in awaiters
          /\ failTask = "done"
          /\ failTask' = "none"
          /\ awaiters' = {}
       \/ /\ t \notin awaiters
          /\ UNCHANGED failure
    /\ AskLifecycle(t)

\* The failure task is scheduled for the first time.
FailBegins ==
    /\ pc[FailTask] = "created"
    /\ AskLifecycle(FailTask)
    /\ UNCHANGED failure

\* The first waiter of the lifecycle lock wakes up.
WakeLifecycle(t) ==
    /\ pc[t] = "queued"
    /\ NextInLine(t, "lifecycle")
    /\ queue' = [queue EXCEPT !["lifecycle"] = Tail(@)]
    /\ Locked(t)
    /\ UNCHANGED failure

-----------------------------------------------------------------------------
(* The rest of start() *)

\* await supervisor.start(): then the gateways are built and started.
Booted(t) ==
    /\ pc[t] = "boot"
    /\ state # "FAILED"
    /\ live' = live \cup {"gateways"}
    /\ Goto(t, "connect")
    /\ UNCHANGED <<state, startup, booted, scenario, links, run, captured,
                   failure, sync, cmd, clean>>

Connected(t) ==
    /\ pc[t] = "connect"
    /\ state # "FAILED"
    /\ Goto(t, "configure")
    /\ UNCHANGED <<state, startup, world, failure, sync, cmd, clean>>

\* _configure_nodes() returned: traffic controller and medium are created.
Configured(t) ==
    /\ pc[t] = "configure"
    /\ state # "FAILED"
    /\ links' = scenario.links
    /\ live' = live \cup {"medium"}
    /\ state' = "WARMING_UP"
    /\ Goto(t, "warm")
    /\ UNCHANGED <<startup, booted, scenario, run, captured,
                   failure, sync, cmd, clean>>

WarmedUp(t) ==
    /\ pc[t] = "warm"
    /\ state # "FAILED"
    /\ Goto(t, "enable")
    /\ UNCHANGED <<state, startup, world, failure, sync, cmd, clean>>

\* Mutant: start() does not look at the state again before RUNNING.
StartedUnchecked(t) ==
    /\ pc[t] = "enable"
    /\ state' = "RUNNING"
    /\ live' = live \cup {"lag"}
    /\ startup' = None
    /\ owner' = [owner EXCEPT !["lifecycle"] = None]
    /\ Finish(t)
    /\ UNCHANGED <<booted, scenario, links, run, captured, failure, queue, clean>>

\* Mutant: start() leaves _startup_task set on its normal return.
StartedKeepsTask(t) ==
    /\ pc[t] = "enable"
    /\ state # "FAILED"
    /\ state' = "RUNNING"
    /\ live' = live \cup {"lag"}
    /\ owner' = [owner EXCEPT !["lifecycle"] = None]
    /\ Finish(t)
    /\ UNCHANGED <<startup, booted, scenario, links, run, captured, failure, queue, clean>>

\* Public clients are enabled: RUNNING, and start() returns.
Started(t) ==
    /\ pc[t] = "enable"
    /\ state # "FAILED"
    /\ state' = "RUNNING"
    /\ live' = live \cup {"lag"}
    /\ startup' = None
    /\ owner' = [owner EXCEPT !["lifecycle"] = None]
    /\ Finish(t)
    /\ UNCHANGED <<booted, scenario, links, run, captured, failure, queue, clean>>

\* A phase raises, or _raise_if_startup_failed does after it.  Warm-up is best
\* effort: only a failure reported meanwhile ends it.
StartRaises(t) ==
    /\ pc[t] \in StartPhases
    /\ pc[t] = "warm" => state = "FAILED"
    /\ state' = "FAILED"
    /\ Goto(t, "abort")
    /\ clean' = [clean EXCEPT ![t] = "request"]
    /\ UNCHANGED <<startup, world, failure, sync, cmd>>

-----------------------------------------------------------------------------
(* The topology lock and the commands it guards *)

RequestTopology(t) ==
    /\ \/ pc[t] = "called" /\ cmd[t] \in TopologyCommands
       \/ pc[t] = "reqTopology"
    /\ Request(t, "topology")
    /\ Goto(t, "topology")
    /\ UNCHANGED <<state, startup, world, failure, cmd, clean>>

HasTopology(t) == pc[t] = "topology" /\ owner["topology"] = t

ReleaseTopology == owner' = [owner EXCEPT !["topology"] = None]

\* stop() and the failure task dismantle the simulation under the lock.
Dismantle(t) ==
    /\ HasTopology(t)
    /\ \/ cmd[t] = "stop" /\ Goto(t, "stopping")
       \/ cmd[t] = "fail" /\ Goto(t, "failing")
    /\ clean' = [clean EXCEPT ![t] = "request"]
    /\ UNCHANGED <<state, startup, world, failure, sync, cmd>>

\* apply_topology() and update_links(): medium.apply_links never suspends, so
\* the medium and the scenario change in one step.
ApplyLinks(t, v) ==
    /\ HasTopology(t)
    /\ cmd[t] \in {"apply_topology", "update_links"}
    /\ \/ /\ state = "STOPPED" /\ cmd[t] = "apply_topology"
          /\ scenario' = [scenario EXCEPT !.links = v]
          /\ UNCHANGED links
       \/ /\ state = "RUNNING" /\ links # None
          /\ links' = v
          /\ scenario' = [scenario EXCEPT !.links = v]
    /\ ReleaseTopology
    /\ Finish(t)
    /\ UNCHANGED <<state, startup, live, booted, run, captured, failure, queue, clean>>

\* A topology command that the lifecycle state refuses.
TopologyConflict(t) ==
    /\ HasTopology(t)
    /\ \/ /\ cmd[t] \in {"apply_topology", "update_links"}
          /\ state # "RUNNING" \/ links = None
          /\ state = "STOPPED" => cmd[t] = "update_links"
       \/ /\ cmd[t] = "start_traffic"
          /\ state # "RUNNING" \/ links = None \/ run
       \/ /\ cmd[t] = "stop_traffic"
          /\ links = None
    /\ ReleaseTopology
    /\ Finish(t)
    /\ UNCHANGED <<state, startup, world, failure, queue, clean>>

\* start_traffic(): remember the controller and await the local statistics.
SampleBaseline(t) ==
    /\ HasTopology(t)
    /\ cmd[t] = "start_traffic"
    /\ state = "RUNNING" /\ links # None /\ ~run
    /\ captured' = captured \cup {t}
    /\ Goto(t, "baseline")
    /\ UNCHANGED <<state, startup, live, booted, scenario, links, run,
                   failure, sync, cmd, clean>>

\* Mutant: start_traffic() trusts the checks made before the await.
BaselineUnchecked(t) == TRUE

\* The recheck after the await: same controller, still RUNNING.
BaselineCurrent(t) == state = "RUNNING" /\ t \in captured

BeginRun(t) ==
    /\ pc[t] = "baseline"
    /\ BaselineCurrent(t)
    /\ run' = TRUE
    /\ captured' = captured \ {t}
    /\ ReleaseTopology
    /\ Finish(t)
    /\ UNCHANGED <<state, startup, live, booted, scenario, links,
                   failure, queue, clean>>

\* Sampling failed, the simulation stopped meanwhile, or the request is bad.
RefuseRun(t) ==
    /\ pc[t] = "baseline"
    /\ captured' = captured \ {t}
    /\ ReleaseTopology
    /\ Finish(t)
    /\ UNCHANGED <<state, startup, live, booted, scenario, links, run,
                   failure, queue, clean>>

\* stop_traffic(): traffic.stop() suspends until the run is finalized.
HaltRun(t) ==
    /\ HasTopology(t)
    /\ cmd[t] = "stop_traffic"
    /\ links # None
    /\ Goto(t, "halt")
    /\ UNCHANGED <<state, startup, world, failure, sync, cmd, clean>>

RunHalted(t) ==
    /\ pc[t] = "halt"
    /\ run' = FALSE
    /\ ReleaseTopology
    /\ Finish(t)
    /\ UNCHANGED <<state, startup, live, booted, scenario, links, captured,
                   failure, queue, clean>>

-----------------------------------------------------------------------------
(* _cleanup_resources *)

RequestCleanup(t) ==
    /\ clean[t] = "request"
    /\ Request(t, "cleanup")
    /\ clean' = [clean EXCEPT ![t] = "lock"]
    /\ UNCHANGED <<state, startup, world, failure, cmd, pc>>

\* Mutant: the gateways are forgotten.
SkipGateways(t) ==
    CASE clean[t] = "lock" -> "lag"
      [] clean[t] = "lag" -> "traffic"
      [] clean[t] = "traffic" -> "medium"
      [] clean[t] = "medium" -> "supervisor"
      [] OTHER -> "clear"

\* The order in which resources go down.  Only the failure task first calls
\* traffic.fail().
NextClean(t) ==
    CASE clean[t] = "lock" -> IF pc[t] = "failing" THEN "fail" ELSE "lag"
      [] clean[t] = "fail" -> "lag"
      [] clean[t] = "lag" -> "traffic"
      [] clean[t] = "traffic" -> "medium"
      [] clean[t] = "medium" -> "gateways"
      [] clean[t] = "gateways" -> "supervisor"
      [] OTHER -> "clear"

\* What the step clean[t] takes down once its await returns.
Takes(step) ==
    CASE step = "lag" -> {"lag"}
      [] step = "medium" -> {"medium"}
      [] step = "gateways" -> {"gateways"}
      [] step = "supervisor" -> {"processes"}
      [] OTHER -> {}

CleanStep(t) ==
    /\ clean[t] \notin {"none", "request", "clear"}
    /\ owner["cleanup"] = t
    /\ live' = live \ Takes(clean[t])
    /\ run' = (run /\ clean[t] \notin {"fail", "traffic"})
    /\ clean' = [clean EXCEPT ![t] = NextClean(t)]
    /\ UNCHANGED <<state, startup, booted, scenario, links, captured,
                   failure, sync, cmd, pc>>

\* The references are cleared, the locks released, and the caller goes on.
Cleared(t) ==
    /\ clean[t] = "clear"
    /\ links' = None
    /\ captured' = {}
    /\ clean' = [clean EXCEPT ![t] = "none"]
    /\ UNCHANGED <<scenario, run, awaiters, queue>>

ReleaseAll(t) ==
    owner' = [l \in Locks |-> IF owner[l] = t THEN None ELSE owner[l]]

\* start() from FAILED goes on to its capability checks and to STARTING.
RestartAfterClean(t) ==
    /\ pc[t] = "preclean"
    /\ Cleared(t)
    /\ Boot(t)
    /\ Goto(t, "boot")
    /\ owner' = [owner EXCEPT !["cleanup"] = None]
    /\ UNCHANGED <<failTask, cmd>>

\* ... or finds a capability missing and raises; the state stays FAILED.
GiveUpAfterClean(t) ==
    /\ pc[t] = "preclean"
    /\ Cleared(t)
    /\ ReleaseAll(t)
    /\ Finish(t)
    /\ UNCHANGED <<state, startup, live, booted, failTask>>

AbortedStart(t) ==
    /\ pc[t] = "abort"
    /\ Cleared(t)
    /\ startup' = None
    /\ ReleaseAll(t)
    /\ Finish(t)
    /\ UNCHANGED <<state, live, booted, failTask>>

Stopped(t) ==
    /\ pc[t] = "stopping"
    /\ Cleared(t)
    /\ state' = "STOPPED"
    /\ ReleaseAll(t)
    /\ Finish(t)
    /\ UNCHANGED <<startup, live, booted, failTask>>

FailDone ==
    /\ pc[FailTask] = "failing"
    /\ Cleared(FailTask)
    /\ failTask' = "done"
    /\ ReleaseAll(FailTask)
    /\ Finish(FailTask)
    /\ UNCHANGED <<state, startup, live, booted>>

-----------------------------------------------------------------------------
(* The environment: failures, scenario edits, the end of a run *)

\* _schedule_runtime_failure: start() deals with a failure of its own; else a
\* task is created unless one is unfinished.
ScheduleRuntimeFailure ==
    /\ state' = "FAILED"
    /\ IF startup = None /\ failTask # "active"
       THEN /\ failTask' = "active"
            /\ awaiters' = {}
            /\ cmd' = [cmd EXCEPT ![FailTask] = "fail"]
            /\ Goto(FailTask, "created")
       ELSE UNCHANGED <<failTask, awaiters, cmd, pc>>
    /\ UNCHANGED <<startup, world, sync, clean>>

ProcessFails ==
    /\ "processes" \in live
    /\ state \notin {"STOPPING", "STOPPED", "FAILED"}
    /\ ScheduleRuntimeFailure

\* gateway.failed and gateway.rf_queue_full
GatewayFails ==
    /\ "gateways" \in live
    /\ state \in {"WARMING_UP", "RUNNING"}
    /\ ScheduleRuntimeFailure

MediumFails ==
    /\ "medium" \in live
    /\ state \notin {"STOPPING", "STOPPED", "FAILED"}
    /\ ScheduleRuntimeFailure

\* Mutant: a failed simulation counts as stopped for edits.
ReplaceUnlessRunning(v, w) ==
    /\ state \in {"STOPPED", "FAILED"}
    /\ scenario' = [nodes |-> v, links |-> w]
    /\ UNCHANGED <<state, startup, live, booted, links, run, captured,
                   failure, sync, cmd, pc, clean>>

\* PUT /api/scenario runs without suspending.
ReplaceScenario(v, w) ==
    /\ state = "STOPPED"
    /\ scenario' = [nodes |-> v, links |-> w]
    /\ UNCHANGED <<state, startup, live, booted, links, run, captured,
                   failure, sync, cmd, pc, clean>>

\* A run reaches its own end.
RunEnds ==
    /\ run
    /\ run' = FALSE
    /\ UNCHANGED <<state, startup, live, booted, scenario, links, captured,
                   failure, sync, cmd, pc, clean>>

-----------------------------------------------------------------------------

TaskStep(t) ==
    \/ EnterLocked(t) \/ ResumeLocked(t) \/ WakeLifecycle(t)
    \/ Booted(t) \/ Connected(t) \/ Configured(t) \/ WarmedUp(t)
    \/ Started(t) \/ StartRaises(t)
    \/ \E l \in Locks : Wake(t, l)
    \/ RequestTopology(t) \/ Dismantle(t) \/ TopologyConflict(t)
    \/ \E v \in Versions : ApplyLinks(t, v)
    \/ SampleBaseline(t) \/ BeginRun(t) \/ RefuseRun(t)
    \/ HaltRun(t) \/ RunHalted(t)
    \/ RequestCleanup(t) \/ CleanStep(t)
    \/ RestartAfterClean(t) \/ GiveUpAfterClean(t) \/ AbortedStart(t)
    \/ Stopped(t)
    \/ t = FailTask /\ (FailBegins \/ FailDone)

Environment ==
    \/ \E t \in Clients, c \in LockedCommands \cup TopologyCommands : Call(t, c)
    \/ ProcessFails \/ GatewayFails \/ MediumFails
    \/ \E v, w \in Versions : ReplaceScenario(v, w)
    \/ RunEnds

Next == Environment \/ \E t \in Tasks : TaskStep(t)

\* Every await inside a command has a deadline, so a task that can go on does.
Fairness == \A t \in Tasks : WF_vars(TaskStep(t))

Spec == Init /\ [][Next]_vars
FairSpec == Spec /\ Fairness

-----------------------------------------------------------------------------
(* Properties *)

\* Every variable holds a value of the kind its field or task can hold.
TypeOK ==
    /\ state \in States
    /\ startup \in Tasks \cup {None}
    /\ live \subseteq Resources
    /\ booted \in Versions
    /\ scenario \in [nodes : Versions, links : Versions]
    /\ links \in Versions \cup {None}
    /\ run \in BOOLEAN
    /\ failTask \in {"none", "active", "done"}
    /\ awaiters \subseteq Tasks
    /\ captured \subseteq Tasks
    /\ owner \in [Locks -> Tasks \cup {None}]
    /\ queue \in [Locks -> Seq(Tasks)]
    /\ cmd \in [Tasks -> Commands]
    /\ pc \in [Tasks -> Pcs]
    /\ clean \in [Tasks -> CleanSteps]

\* STOPPED is published only after _cleanup_resources has released everything,
\* and nothing comes up again while the state is STOPPED, whatever commands
\* and failures overlapped (service.py stop, _cleanup_resources_unlocked).
StoppedIsReleased == state = "STOPPED" => live = {} /\ links = None /\ ~run

\* A failed simulation whose processes, gateways or medium are still up always
\* has a task that will take them down: the failure task, the start() that
\* failed, or a start() that cleans up first (_schedule_runtime_failure).
FailedHasCleaner ==
    state = "FAILED" /\ live # {} =>
        \/ failTask = "active"
        \/ \E t \in Clients : pc[t] = "preclean"
        \/ \E t \in Clients : startup = t /\ pc[t] \in StartPhases \cup {"abort"}

\* A traffic run is active only while the RF path under it is whole: cleanup
\* stops traffic first, and start_traffic never starts a run on a controller
\* that was torn down or replaced while it sampled its baseline.
TrafficHasRFPath ==
    run => links # None /\ {"processes", "gateways", "medium"} \subseteq live

\* The firmware that is up was booted with the scenario's node set, and the
\* medium routes with the scenario's links: edits never slip between the two.
ScenarioAgreement ==
    /\ "processes" \in live => booted = scenario.nodes
    /\ links # None => links = scenario.links

\* FAILED is never overwritten by a start() that was already under way: only a
\* stop or a new start leaves it (_raise_if_startup_failed after each await).
FailedIsSticky ==
    [][state = "FAILED" => state' \in {"FAILED", "STARTING", "STOPPING"}]_vars

\* start() boots onto clean ground: nothing of an earlier simulation is up.
CleanBoot ==
    [][state # "STARTING" /\ state' = "STARTING"
        => live = {} /\ ~run /\ links' = None]_vars

\* "Start and Stop await that task": no start() is under way while a failure
\* task still has to tear the simulation down.
StartAwaitsFailureTask == state = "STARTING" => failTask # "active"

\* Every request is answered and every failure ends with every resource
\* released: no order of lock waits, failures and cleanups leaves a handler
\* suspended for ever or a broken simulation up.
CommandsReturn ==
    /\ \A t \in Clients : pc[t] # "idle" ~> pc[t] = "idle"
    /\ state = "FAILED" ~> live = {}
=============================================================================

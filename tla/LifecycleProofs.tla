--------------------------- MODULE LifecycleProofs ---------------------------
(***************************************************************************)
(* Theorems about Lifecycle, for any set of clients and of callers.  The    *)
(* inductive invariant IInv ties each task's place in the code to the locks *)
(* it holds, to the lifecycle state, and to what is still up.               *)
(*                                                                          *)
(* And about Reachability, the search over the links a scenario enables:    *)
(* the queue is in the order of the hops, and a node that can be reached    *)
(* over a visited one is visited or waits with no more hops than it needs.  *)
(***************************************************************************)
EXTENDS Lifecycle, Reachability, FiniteSetTheorems, SequenceTheorems,
        WellFoundedInduction, TLAPS

StartPcs == StartPhases \cup {"abort"}
RFPath == {"processes", "gateways", "medium"}

\* Which command can be suspended where, and when it is inside a cleanup.
ControlOf(t) ==
    /\ cmd[t] = "fail" \/ pc[t] = "created" => t = FailTask
    /\ t = FailTask =>
         pc[t] \in {"idle", "created", "queued", "reqTopology", "topology", "failing"}
    /\ t = FailTask /\ pc[t] # "idle" => cmd[t] = "fail"
    /\ pc[t] \in {"await", "queued"} => cmd[t] \in LockedCommands \cup {"fail"}
    /\ pc[t] \in StartPcs \cup {"preclean"} => cmd[t] = "start"
    /\ pc[t] = "stopping" => cmd[t] = "stop"
    /\ pc[t] = "failing" => cmd[t] = "fail"
    /\ pc[t] = "reqTopology" => cmd[t] \in {"stop", "fail"}
    /\ pc[t] = "topology" => cmd[t] \in TopologyCommands \cup {"stop", "fail"}
    /\ clean[t] # "none" <=> pc[t] \in CleanPcs

\* The places at which task t holds the lifecycle lock, and the topology lock.
InLifecycle(t) ==
    \/ pc[t] \in StartPcs \cup CleanPcs \cup {"reqTopology"}
    \/ pc[t] = "topology" /\ cmd[t] \in {"stop", "fail"}
InTopology(t) == pc[t] \in {"baseline", "halt", "stopping", "failing"}

LocksOf(t) ==
    /\ InLifecycle(t) => owner["lifecycle"] = t
    /\ InTopology(t) => owner["topology"] = t

\* What the lifecycle state can be while task t is there.
PhaseOf(t) ==
    /\ pc[t] \in StartPhases => state \in {"STARTING", "WARMING_UP", "FAILED"}
    /\ pc[t] \in {"preclean", "abort"} => state = "FAILED"
    /\ InLifecycle(t) /\ cmd[t] = "stop" => state = "STOPPING"
    /\ pc[t] \in StartPcs <=> startup = t

\* What is up while task t builds, and what is left while it cleans up.
BuiltBy(t) ==
    /\ pc[t] \in StartPhases => "processes" \in live
    /\ pc[t] \in StartPhases \ {"boot"} => "gateways" \in live
CleanedBy(t) ==
    /\ clean[t] \in {"medium", "gateways", "supervisor", "clear"} => ~run
    /\ clean[t] \in {"traffic", "medium"} => live \subseteq RFPath
    /\ clean[t] = "gateways" => live \subseteq {"processes", "gateways"}
    /\ clean[t] = "supervisor" => live \subseteq {"processes"}
    /\ clean[t] = "clear" => live = {}

\* No failure task is unfinished unless the service refers to it.
FailTaskRef == failTask # "active" => pc[FailTask] = "idle"

\* A controller has its RF path until a cleanup is past the traffic.
RFUntilCleanup ==
    /\ links # None =>
         \/ RFPath \subseteq live
         \/ \E t \in Tasks : clean[t] \in {"gateways", "supervisor", "clear"}
    /\ captured # {} => links # None

Control == (\A t \in Tasks : ControlOf(t)) /\ FailTaskRef
Holding == \A t \in Tasks : LocksOf(t)
Phase == \A t \in Tasks : PhaseOf(t)
Standing == \A t \in Tasks : BuiltBy(t) /\ CleanedBy(t)

IInv ==
    /\ TypeOK
    /\ Control
    /\ Holding
    /\ Phase
    /\ Standing
    /\ RFUntilCleanup
    /\ StoppedIsReleased
    /\ FailedHasCleaner
    /\ TrafficHasRFPath

-----------------------------------------------------------------------------
(* Proofs.  One lemma per action shows that it preserves IInv, one step per *)
(* part of it.  The sets of labels, the frames and what the parts say of    *)
(* one task are expanded throughout; a leaf cites the parts it needs.       *)

USE LifecycleAssumption
USE DEF Tasks, Locks, Resources, States, LockedCommands, TopologyCommands,
        Commands, StartPhases, CleanPcs, Pcs, CleanSteps, StartPcs, RFPath,
        world, failure, sync, Goto, Finish,
        ControlOf, FailTaskRef, LocksOf, InLifecycle, InTopology, PhaseOf,
        BuiltBy, CleanedBy

\* Task t obtains the lifecycle lock in this step.
Obtains(t) ==
    /\ owner["lifecycle"] = None
    /\ pc[t] \in {"called", "await", "created", "queued"}
    /\ pc[t] = "called" => cmd[t] \in LockedCommands
    /\ queue' \in [Locks -> Seq(Tasks)]
    /\ awaiters' \subseteq Tasks
    /\ failTask' \in {"none", "active", "done"}
    /\ failTask' # failTask => failTask # "active" /\ failTask' = "none"

\* Waiting in line or taking a lock keeps the lock tables well formed
\* (asyncio.Lock.acquire).
LEMMA RequestTyped ==
    ASSUME TypeOK, NEW t \in Tasks, NEW l \in Locks, Request(t, l)
    PROVE  owner' \in [Locks -> Tasks \cup {None}] /\ queue' \in [Locks -> Seq(Tasks)]
<1>1. Append(queue[l], t) \in Seq(Tasks)
  BY DEF TypeOK
<1>2. CASE owner' = [owner EXCEPT ![l] = t] /\ UNCHANGED queue
  BY <1>2 DEF TypeOK
<1>3. CASE queue' = [queue EXCEPT ![l] = Append(@, t)] /\ UNCHANGED owner
  BY <1>1, <1>3 DEF TypeOK
<1> QED BY <1>2, <1>3 DEF Request

\* A request arriving at a handler (FastAPI route) preserves the inductive invariant.
LEMMA CallInv ==
    ASSUME IInv, NEW t \in Clients, NEW c \in LockedCommands \cup TopologyCommands,
           Call(t, c)
    PROVE  IInv'
<1>1. TypeOK'
  BY DEF IInv, TypeOK, Call
<1>2. Control' /\ Holding'
  BY DEF IInv, TypeOK, Control, Holding, Call
<1>3. Phase' /\ Standing'
  BY DEF IInv, TypeOK, Control, Holding, Phase, Standing, Call
<1>4. RFUntilCleanup' /\ TrafficHasRFPath'
  BY DEF IInv, TypeOK, Control, Holding, Phase, Standing, RFUntilCleanup,
     TrafficHasRFPath, StoppedIsReleased, Call
<1>5. StoppedIsReleased' /\ FailedHasCleaner'
  BY DEF IInv, TypeOK, Control, Holding, Phase, Standing, StoppedIsReleased,
     FailedHasCleaner, Call
<1> QED BY <1>1, <1>2, <1>3, <1>4, <1>5 DEF IInv

\* A lock handed to its first waiter preserves the inductive invariant.
LEMMA WakeInv ==
    ASSUME IInv, NEW t \in Tasks, NEW l \in Locks, Wake(t, l)
    PROVE  IInv'
<1>1. TypeOK'
  BY DEF IInv, TypeOK, Wake, NextInLine
<1>2. Control' /\ Holding'
  BY DEF IInv, TypeOK, Control, Holding, Wake, NextInLine
<1>3. Phase' /\ Standing'
  BY DEF IInv, TypeOK, Control, Holding, Phase, Standing, Wake, NextInLine
<1>4. RFUntilCleanup' /\ TrafficHasRFPath'
  BY DEF IInv, TypeOK, Control, Holding, Phase, Standing, RFUntilCleanup,
     TrafficHasRFPath, StoppedIsReleased, Wake, NextInLine
<1>5. StoppedIsReleased' /\ FailedHasCleaner'
  BY DEF IInv, TypeOK, Control, Holding, Phase, Standing, StoppedIsReleased,
     FailedHasCleaner, Wake, NextInLine
<1> QED BY <1>1, <1>2, <1>3, <1>4, <1>5 DEF IInv

\* start() past supervisor.start preserves the inductive invariant.
LEMMA BootedInv ==
    ASSUME IInv, NEW t \in Tasks, Booted(t)
    PROVE  IInv'
<1>1. TypeOK'
  BY DEF IInv, TypeOK, Booted
<1>2. Control' /\ Holding'
  BY DEF IInv, TypeOK, Control, Holding, Booted
<1>3. Phase' /\ Standing'
  BY DEF IInv, TypeOK, Control, Holding, Phase, Standing, Booted
<1>4. RFUntilCleanup' /\ TrafficHasRFPath'
  BY DEF IInv, TypeOK, Control, Holding, Phase, Standing, RFUntilCleanup,
     TrafficHasRFPath, StoppedIsReleased, Booted
<1>5. StoppedIsReleased' /\ FailedHasCleaner'
  BY DEF IInv, TypeOK, Control, Holding, Phase, Standing, StoppedIsReleased,
     FailedHasCleaner, Booted
<1> QED BY <1>1, <1>2, <1>3, <1>4, <1>5 DEF IInv

\* start() past the gateway connections preserves the inductive invariant.
LEMMA ConnectedInv ==
    ASSUME IInv, NEW t \in Tasks, Connected(t)
    PROVE  IInv'
<1>1. TypeOK'
  BY DEF IInv, TypeOK, Connected
<1>2. Control' /\ Holding'
  BY DEF IInv, TypeOK, Control, Holding, Connected
<1>3. Phase' /\ Standing'
  BY DEF IInv, TypeOK, Control, Holding, Phase, Standing, Connected
<1>4. RFUntilCleanup' /\ TrafficHasRFPath'
  BY DEF IInv, TypeOK, Control, Holding, Phase, Standing, RFUntilCleanup,
     TrafficHasRFPath, StoppedIsReleased, Connected
<1>5. StoppedIsReleased' /\ FailedHasCleaner'
  BY DEF IInv, TypeOK, Control, Holding, Phase, Standing, StoppedIsReleased,
     FailedHasCleaner, Connected
<1> QED BY <1>1, <1>2, <1>3, <1>4, <1>5 DEF IInv

\* start() past _configure_nodes preserves the inductive invariant.
LEMMA ConfiguredInv ==
    ASSUME IInv, NEW t \in Tasks, Configured(t)
    PROVE  IInv'
<1>1. TypeOK'
  BY DEF IInv, TypeOK, Configured
<1>2. Control' /\ Holding'
  BY DEF IInv, TypeOK, Control, Holding, Configured
<1>3. Phase' /\ Standing'
  BY DEF IInv, TypeOK, Control, Holding, Phase, Standing, Configured
<1>4. RFUntilCleanup' /\ TrafficHasRFPath'
  BY DEF IInv, TypeOK, Control, Holding, Phase, Standing, RFUntilCleanup,
     TrafficHasRFPath, StoppedIsReleased, Configured
<1>5. StoppedIsReleased' /\ FailedHasCleaner'
  BY DEF IInv, TypeOK, Control, Holding, Phase, Standing, StoppedIsReleased,
     FailedHasCleaner, Configured
<1> QED BY <1>1, <1>2, <1>3, <1>4, <1>5 DEF IInv

\* start() past warm-up preserves the inductive invariant.
LEMMA WarmedUpInv ==
    ASSUME IInv, NEW t \in Tasks, WarmedUp(t)
    PROVE  IInv'
<1>1. TypeOK'
  BY DEF IInv, TypeOK, WarmedUp
<1>2. Control' /\ Holding'
  BY DEF IInv, TypeOK, Control, Holding, WarmedUp
<1>3. Phase' /\ Standing'
  BY DEF IInv, TypeOK, Control, Holding, Phase, Standing, WarmedUp
<1>4. RFUntilCleanup' /\ TrafficHasRFPath'
  BY DEF IInv, TypeOK, Control, Holding, Phase, Standing, RFUntilCleanup,
     TrafficHasRFPath, StoppedIsReleased, WarmedUp
<1>5. StoppedIsReleased' /\ FailedHasCleaner'
  BY DEF IInv, TypeOK, Control, Holding, Phase, Standing, StoppedIsReleased,
     FailedHasCleaner, WarmedUp
<1> QED BY <1>1, <1>2, <1>3, <1>4, <1>5 DEF IInv

\* start() reaching RUNNING preserves the inductive invariant.
LEMMA StartedInv ==
    ASSUME IInv, NEW t \in Tasks, Started(t)
    PROVE  IInv'
<1>1. TypeOK'
  BY DEF IInv, TypeOK, Started
<1>2. Control' /\ Holding'
  BY DEF IInv, TypeOK, Control, Holding, Started
<1>3. Phase' /\ Standing'
  BY DEF IInv, TypeOK, Control, Holding, Phase, Standing, Started
<1>4. RFUntilCleanup' /\ TrafficHasRFPath'
  BY DEF IInv, TypeOK, Control, Holding, Phase, Standing, RFUntilCleanup,
     TrafficHasRFPath, StoppedIsReleased, Started
<1>5. StoppedIsReleased' /\ FailedHasCleaner'
  BY DEF IInv, TypeOK, Control, Holding, Phase, Standing, StoppedIsReleased,
     FailedHasCleaner, Started
<1> QED BY <1>1, <1>2, <1>3, <1>4, <1>5 DEF IInv

\* start() failing preserves the inductive invariant.
LEMMA StartRaisesInv ==
    ASSUME IInv, NEW t \in Tasks, StartRaises(t)
    PROVE  IInv'
<1>1. TypeOK'
  BY DEF IInv, TypeOK, StartRaises
<1>2. Control' /\ Holding'
  BY DEF IInv, TypeOK, Control, Holding, StartRaises
<1>3. Phase' /\ Standing'
  BY DEF IInv, TypeOK, Control, Holding, Phase, Standing, StartRaises
<1>4. RFUntilCleanup' /\ TrafficHasRFPath'
  BY DEF IInv, TypeOK, Control, Holding, Phase, Standing, RFUntilCleanup,
     TrafficHasRFPath, StoppedIsReleased, StartRaises
<1>5. StoppedIsReleased' /\ FailedHasCleaner'
  BY DEF IInv, TypeOK, Control, Holding, Phase, Standing, StoppedIsReleased,
     FailedHasCleaner, StartRaises
<1> QED BY <1>1, <1>2, <1>3, <1>4, <1>5 DEF IInv

\* Asking for the topology lock preserves the inductive invariant.
LEMMA RequestTopologyInv ==
    ASSUME IInv, NEW t \in Tasks, RequestTopology(t)
    PROVE  IInv'
<1>1. TypeOK'
  BY RequestTyped DEF IInv, TypeOK, RequestTopology
<1>2. Control' /\ Holding'
  BY DEF IInv, TypeOK, Control, Holding, RequestTopology, Request, Free
<1>3. Phase' /\ Standing'
  BY DEF IInv, TypeOK, Control, Holding, Phase, Standing, RequestTopology,
     Request, Free
<1>4. RFUntilCleanup' /\ TrafficHasRFPath'
  BY DEF IInv, TypeOK, Control, Holding, Phase, Standing, RFUntilCleanup,
     TrafficHasRFPath, StoppedIsReleased, RequestTopology, Request, Free
<1>5. StoppedIsReleased' /\ FailedHasCleaner'
  BY DEF IInv, TypeOK, Control, Holding, Phase, Standing, StoppedIsReleased,
     FailedHasCleaner, RequestTopology, Request, Free
<1> QED BY <1>1, <1>2, <1>3, <1>4, <1>5 DEF IInv

\* stop() and the failure task entering cleanup preserves the inductive invariant.
LEMMA DismantleInv ==
    ASSUME IInv, NEW t \in Tasks, Dismantle(t)
    PROVE  IInv'
<1>1. TypeOK'
  BY DEF IInv, TypeOK, Dismantle, HasTopology
<1>2. Control' /\ Holding'
  BY DEF IInv, TypeOK, Control, Holding, Dismantle, HasTopology
<1>3. Phase' /\ Standing'
  BY DEF IInv, TypeOK, Control, Holding, Phase, Standing, Dismantle,
     HasTopology
<1>4. RFUntilCleanup' /\ TrafficHasRFPath'
  BY DEF IInv, TypeOK, Control, Holding, Phase, Standing, RFUntilCleanup,
     TrafficHasRFPath, StoppedIsReleased, Dismantle, HasTopology
<1>5. StoppedIsReleased' /\ FailedHasCleaner'
  BY DEF IInv, TypeOK, Control, Holding, Phase, Standing, StoppedIsReleased,
     FailedHasCleaner, Dismantle, HasTopology
<1> QED BY <1>1, <1>2, <1>3, <1>4, <1>5 DEF IInv

\* A refused topology command preserves the inductive invariant.
LEMMA TopologyConflictInv ==
    ASSUME IInv, NEW t \in Tasks, TopologyConflict(t)
    PROVE  IInv'
<1>1. TypeOK'
  BY DEF IInv, TypeOK, TopologyConflict, HasTopology, ReleaseTopology
<1>2. Control' /\ Holding'
  BY DEF IInv, TypeOK, Control, Holding, TopologyConflict, HasTopology,
     ReleaseTopology
<1>3. Phase' /\ Standing'
  BY DEF IInv, TypeOK, Control, Holding, Phase, Standing, TopologyConflict,
     HasTopology, ReleaseTopology
<1>4. RFUntilCleanup' /\ TrafficHasRFPath'
  BY DEF IInv, TypeOK, Control, Holding, Phase, Standing, RFUntilCleanup,
     TrafficHasRFPath, StoppedIsReleased, TopologyConflict, HasTopology,
     ReleaseTopology
<1>5. StoppedIsReleased' /\ FailedHasCleaner'
  BY DEF IInv, TypeOK, Control, Holding, Phase, Standing, StoppedIsReleased,
     FailedHasCleaner, TopologyConflict, HasTopology, ReleaseTopology
<1> QED BY <1>1, <1>2, <1>3, <1>4, <1>5 DEF IInv

\* start_traffic() awaiting its baseline preserves the inductive invariant.
LEMMA SampleBaselineInv ==
    ASSUME IInv, NEW t \in Tasks, SampleBaseline(t)
    PROVE  IInv'
<1>1. TypeOK'
  BY DEF IInv, TypeOK, SampleBaseline, HasTopology
<1>2. Control' /\ Holding'
  BY DEF IInv, TypeOK, Control, Holding, SampleBaseline, HasTopology
<1>3. Phase' /\ Standing'
  BY DEF IInv, TypeOK, Control, Holding, Phase, Standing, SampleBaseline,
     HasTopology
<1>4. RFUntilCleanup' /\ TrafficHasRFPath'
  BY DEF IInv, TypeOK, Control, Holding, Phase, Standing, RFUntilCleanup,
     TrafficHasRFPath, StoppedIsReleased, SampleBaseline, HasTopology
<1>5. StoppedIsReleased' /\ FailedHasCleaner'
  BY DEF IInv, TypeOK, Control, Holding, Phase, Standing, StoppedIsReleased,
     FailedHasCleaner, SampleBaseline, HasTopology
<1> QED BY <1>1, <1>2, <1>3, <1>4, <1>5 DEF IInv

\* start_traffic() starting a run preserves the inductive invariant.
LEMMA BeginRunInv ==
    ASSUME IInv, NEW t \in Tasks, BeginRun(t)
    PROVE  IInv'
<1>1. TypeOK'
  BY DEF IInv, TypeOK, BeginRun, BaselineCurrent, ReleaseTopology
<1>2. Control' /\ Holding'
  BY DEF IInv, TypeOK, Control, Holding, BeginRun, BaselineCurrent,
     ReleaseTopology
<1>3. Phase' /\ Standing'
  BY DEF IInv, TypeOK, Control, Holding, Phase, Standing, BeginRun,
     BaselineCurrent, ReleaseTopology
<1>4. RFUntilCleanup' /\ TrafficHasRFPath'
  BY DEF IInv, TypeOK, Control, Holding, Phase, Standing, RFUntilCleanup,
     TrafficHasRFPath, StoppedIsReleased, BeginRun, BaselineCurrent,
     ReleaseTopology
<1>5. StoppedIsReleased' /\ FailedHasCleaner'
  BY DEF IInv, TypeOK, Control, Holding, Phase, Standing, StoppedIsReleased,
     FailedHasCleaner, BeginRun, BaselineCurrent, ReleaseTopology
<1> QED BY <1>1, <1>2, <1>3, <1>4, <1>5 DEF IInv

\* start_traffic() refusing a run preserves the inductive invariant.
LEMMA RefuseRunInv ==
    ASSUME IInv, NEW t \in Tasks, RefuseRun(t)
    PROVE  IInv'
<1>1. TypeOK'
  BY DEF IInv, TypeOK, RefuseRun, ReleaseTopology
<1>2. Control' /\ Holding'
  BY DEF IInv, TypeOK, Control, Holding, RefuseRun, ReleaseTopology
<1>3. Phase' /\ Standing'
  BY DEF IInv, TypeOK, Control, Holding, Phase, Standing, RefuseRun,
     ReleaseTopology
<1>4. RFUntilCleanup' /\ TrafficHasRFPath'
  BY DEF IInv, TypeOK, Control, Holding, Phase, Standing, RFUntilCleanup,
     TrafficHasRFPath, StoppedIsReleased, RefuseRun, ReleaseTopology
<1>5. StoppedIsReleased' /\ FailedHasCleaner'
  BY DEF IInv, TypeOK, Control, Holding, Phase, Standing, StoppedIsReleased,
     FailedHasCleaner, RefuseRun, ReleaseTopology
<1> QED BY <1>1, <1>2, <1>3, <1>4, <1>5 DEF IInv

\* stop_traffic() entering traffic.stop preserves the inductive invariant.
LEMMA HaltRunInv ==
    ASSUME IInv, NEW t \in Tasks, HaltRun(t)
    PROVE  IInv'
<1>1. TypeOK'
  BY DEF IInv, TypeOK, HaltRun, HasTopology
<1>2. Control' /\ Holding'
  BY DEF IInv, TypeOK, Control, Holding, HaltRun, HasTopology
<1>3. Phase' /\ Standing'
  BY DEF IInv, TypeOK, Control, Holding, Phase, Standing, HaltRun, HasTopology
<1>4. RFUntilCleanup' /\ TrafficHasRFPath'
  BY DEF IInv, TypeOK, Control, Holding, Phase, Standing, RFUntilCleanup,
     TrafficHasRFPath, StoppedIsReleased, HaltRun, HasTopology
<1>5. StoppedIsReleased' /\ FailedHasCleaner'
  BY DEF IInv, TypeOK, Control, Holding, Phase, Standing, StoppedIsReleased,
     FailedHasCleaner, HaltRun, HasTopology
<1> QED BY <1>1, <1>2, <1>3, <1>4, <1>5 DEF IInv

\* stop_traffic() returning preserves the inductive invariant.
LEMMA RunHaltedInv ==
    ASSUME IInv, NEW t \in Tasks, RunHalted(t)
    PROVE  IInv'
<1>1. TypeOK'
  BY DEF IInv, TypeOK, RunHalted, ReleaseTopology
<1>2. Control' /\ Holding'
  BY DEF IInv, TypeOK, Control, Holding, RunHalted, ReleaseTopology
<1>3. Phase' /\ Standing'
  BY DEF IInv, TypeOK, Control, Holding, Phase, Standing, RunHalted,
     ReleaseTopology
<1>4. RFUntilCleanup' /\ TrafficHasRFPath'
  BY DEF IInv, TypeOK, Control, Holding, Phase, Standing, RFUntilCleanup,
     TrafficHasRFPath, StoppedIsReleased, RunHalted, ReleaseTopology
<1>5. StoppedIsReleased' /\ FailedHasCleaner'
  BY DEF IInv, TypeOK, Control, Holding, Phase, Standing, StoppedIsReleased,
     FailedHasCleaner, RunHalted, ReleaseTopology
<1> QED BY <1>1, <1>2, <1>3, <1>4, <1>5 DEF IInv

\* Asking for the cleanup lock preserves the inductive invariant.
LEMMA RequestCleanupInv ==
    ASSUME IInv, NEW t \in Tasks, RequestCleanup(t)
    PROVE  IInv'
<1>1. TypeOK'
  BY RequestTyped DEF IInv, TypeOK, RequestCleanup
<1>2. Control' /\ Holding'
  BY DEF IInv, TypeOK, Control, Holding, RequestCleanup, Request, Free
<1>3. Phase' /\ Standing'
  BY DEF IInv, TypeOK, Control, Holding, Phase, Standing, RequestCleanup,
     Request, Free
<1>4. RFUntilCleanup' /\ TrafficHasRFPath'
  BY DEF IInv, TypeOK, Control, Holding, Phase, Standing, RFUntilCleanup,
     TrafficHasRFPath, StoppedIsReleased, RequestCleanup, Request, Free
<1>5. StoppedIsReleased' /\ FailedHasCleaner'
  BY DEF IInv, TypeOK, Control, Holding, Phase, Standing, StoppedIsReleased,
     FailedHasCleaner, RequestCleanup, Request, Free
<1> QED BY <1>1, <1>2, <1>3, <1>4, <1>5 DEF IInv

\* One step of _cleanup_resources_unlocked preserves the inductive invariant.
LEMMA CleanStepInv ==
    ASSUME IInv, NEW t \in Tasks, CleanStep(t)
    PROVE  IInv'
<1>1. TypeOK'
  BY DEF IInv, TypeOK, CleanStep, Takes, NextClean
<1>2. Control' /\ Holding'
  BY DEF IInv, TypeOK, Control, Holding, CleanStep, Takes, NextClean
<1>3. Phase' /\ Standing'
  <2>1. live' \subseteq live /\ (~run => ~run') /\ UNCHANGED <<pc, state>>
    BY DEF CleanStep
  <2>2. ASSUME NEW u \in Tasks, u # t PROVE (BuiltBy(u) /\ CleanedBy(u))'
    BY <2>2 DEF IInv, TypeOK, Control, Holding, Standing, CleanStep
  <2>3. BuiltBy(t)'
    BY DEF IInv, TypeOK, Control, Standing, CleanStep
  <2>4. CleanedBy(t)'
    <3>1. clean'[t] = NextClean(t) /\ live' = live \ Takes(clean[t])
          /\ run' = (run /\ clean[t] \notin {"fail", "traffic"})
          /\ clean[t] \notin {"none", "request", "clear"}
      BY DEF IInv, TypeOK, CleanStep
    <3>2. CleanedBy(t) /\ live \subseteq Resources /\ clean[t] \in CleanSteps
      BY DEF IInv, TypeOK, Standing
    <3>3. CASE clean[t] \in {"lock", "fail"}
      BY <3>1, <3>2, <3>3 DEF NextClean, Takes
    <3>4. CASE clean[t] \in {"lag", "traffic"}
      BY <3>1, <3>2, <3>4 DEF NextClean, Takes
    <3>5. CASE clean[t] \in {"medium", "gateways", "supervisor"}
      BY <3>1, <3>2, <3>5 DEF NextClean, Takes
    <3> QED BY <3>1, <3>2, <3>3, <3>4, <3>5
  <2>5. Phase'
    BY DEF IInv, TypeOK, Control, Phase, CleanStep
  <2> QED BY <2>2, <2>3, <2>4, <2>5 DEF Standing
<1>4. RFUntilCleanup' /\ TrafficHasRFPath'
  BY DEF IInv, TypeOK, Control, Holding, Phase, Standing, RFUntilCleanup,
     TrafficHasRFPath, StoppedIsReleased, CleanStep, Takes, NextClean
<1>5. StoppedIsReleased' /\ FailedHasCleaner'
  BY DEF IInv, TypeOK, Control, Holding, Phase, Standing, StoppedIsReleased,
     FailedHasCleaner, CleanStep, Takes, NextClean
<1> QED BY <1>1, <1>2, <1>3, <1>4, <1>5 DEF IInv

\* start() from FAILED going on preserves the inductive invariant.
LEMMA RestartAfterCleanInv ==
    ASSUME IInv, NEW t \in Tasks, RestartAfterClean(t)
    PROVE  IInv'
<1>1. TypeOK'
  BY DEF IInv, TypeOK, RestartAfterClean, Cleared, Boot
<1>2. Control' /\ Holding'
  BY DEF IInv, TypeOK, Control, Holding, RestartAfterClean, Cleared, Boot
<1>3. Phase' /\ Standing'
  BY DEF IInv, TypeOK, Control, Holding, Phase, Standing, RestartAfterClean,
     Cleared, Boot
<1>4. RFUntilCleanup' /\ TrafficHasRFPath'
  BY DEF IInv, TypeOK, Control, Holding, Phase, Standing, RFUntilCleanup,
     TrafficHasRFPath, StoppedIsReleased, RestartAfterClean, Cleared, Boot
<1>5. StoppedIsReleased' /\ FailedHasCleaner'
  BY DEF IInv, TypeOK, Control, Holding, Phase, Standing, StoppedIsReleased,
     FailedHasCleaner, RestartAfterClean, Cleared, Boot
<1> QED BY <1>1, <1>2, <1>3, <1>4, <1>5 DEF IInv

\* start() from FAILED refused preserves the inductive invariant.
LEMMA GiveUpAfterCleanInv ==
    ASSUME IInv, NEW t \in Tasks, GiveUpAfterClean(t)
    PROVE  IInv'
<1>1. TypeOK'
  BY DEF IInv, TypeOK, GiveUpAfterClean, Cleared, ReleaseAll
<1>2. Control' /\ Holding'
  BY DEF IInv, TypeOK, Control, Holding, GiveUpAfterClean, Cleared, ReleaseAll
<1>3. Phase' /\ Standing'
  BY DEF IInv, TypeOK, Control, Holding, Phase, Standing, GiveUpAfterClean,
     Cleared, ReleaseAll
<1>4. RFUntilCleanup' /\ TrafficHasRFPath'
  BY DEF IInv, TypeOK, Control, Holding, Phase, Standing, RFUntilCleanup,
     TrafficHasRFPath, StoppedIsReleased, GiveUpAfterClean, Cleared, ReleaseAll
<1>5. StoppedIsReleased' /\ FailedHasCleaner'
  BY DEF IInv, TypeOK, Control, Holding, Phase, Standing, StoppedIsReleased,
     FailedHasCleaner, GiveUpAfterClean, Cleared, ReleaseAll
<1> QED BY <1>1, <1>2, <1>3, <1>4, <1>5 DEF IInv

\* A failed start() raising preserves the inductive invariant.
LEMMA AbortedStartInv ==
    ASSUME IInv, NEW t \in Tasks, AbortedStart(t)
    PROVE  IInv'
<1>1. TypeOK'
  BY DEF IInv, TypeOK, AbortedStart, Cleared, ReleaseAll
<1>2. Control' /\ Holding'
  BY DEF IInv, TypeOK, Control, Holding, AbortedStart, Cleared, ReleaseAll
<1>3. Phase' /\ Standing'
  BY DEF IInv, TypeOK, Control, Holding, Phase, Standing, AbortedStart,
     Cleared, ReleaseAll
<1>4. RFUntilCleanup' /\ TrafficHasRFPath'
  BY DEF IInv, TypeOK, Control, Holding, Phase, Standing, RFUntilCleanup,
     TrafficHasRFPath, StoppedIsReleased, AbortedStart, Cleared, ReleaseAll
<1>5. StoppedIsReleased' /\ FailedHasCleaner'
  BY DEF IInv, TypeOK, Control, Holding, Phase, Standing, StoppedIsReleased,
     FailedHasCleaner, AbortedStart, Cleared, ReleaseAll
<1> QED BY <1>1, <1>2, <1>3, <1>4, <1>5 DEF IInv

\* stop() reaching STOPPED preserves the inductive invariant.
LEMMA StoppedInv ==
    ASSUME IInv, NEW t \in Tasks, Stopped(t)
    PROVE  IInv'
<1>1. TypeOK'
  BY DEF IInv, TypeOK, Stopped, Cleared, ReleaseAll
<1>2. Control' /\ Holding'
  BY DEF IInv, TypeOK, Control, Holding, Stopped, Cleared, ReleaseAll
<1>3. Phase' /\ Standing'
  BY DEF IInv, TypeOK, Control, Holding, Phase, Standing, Stopped, Cleared,
     ReleaseAll
<1>4. RFUntilCleanup' /\ TrafficHasRFPath'
  BY DEF IInv, TypeOK, Control, Holding, Phase, Standing, RFUntilCleanup,
     TrafficHasRFPath, StoppedIsReleased, Stopped, Cleared, ReleaseAll
<1>5. StoppedIsReleased' /\ FailedHasCleaner'
  BY DEF IInv, TypeOK, Control, Holding, Phase, Standing, StoppedIsReleased,
     FailedHasCleaner, Stopped, Cleared, ReleaseAll
<1> QED BY <1>1, <1>2, <1>3, <1>4, <1>5 DEF IInv

\* apply_topology() and update_links() preserves the inductive invariant.
LEMMA ApplyLinksInv ==
    ASSUME IInv, NEW t \in Tasks, NEW v \in Versions, ApplyLinks(t, v)
    PROVE  IInv'
<1>1. TypeOK'
  BY DEF IInv, TypeOK, ApplyLinks, HasTopology, ReleaseTopology
<1>2. Control' /\ Holding'
  BY DEF IInv, TypeOK, Control, Holding, ApplyLinks, HasTopology,
     ReleaseTopology
<1>3. Phase' /\ Standing'
  BY DEF IInv, TypeOK, Control, Holding, Phase, Standing, ApplyLinks,
     HasTopology, ReleaseTopology
<1>4. RFUntilCleanup' /\ TrafficHasRFPath'
  BY DEF IInv, TypeOK, Control, Holding, Phase, Standing, RFUntilCleanup,
     TrafficHasRFPath, StoppedIsReleased, ApplyLinks, HasTopology,
     ReleaseTopology
<1>5. StoppedIsReleased' /\ FailedHasCleaner'
  BY DEF IInv, TypeOK, Control, Holding, Phase, Standing, StoppedIsReleased,
     FailedHasCleaner, ApplyLinks, HasTopology, ReleaseTopology
<1> QED BY <1>1, <1>2, <1>3, <1>4, <1>5 DEF IInv

\* The failure task finishing preserves the inductive invariant.
LEMMA FailDoneInv ==
    ASSUME IInv, FailDone
    PROVE  IInv'
<1>1. TypeOK'
  BY DEF IInv, TypeOK, FailDone, Cleared, ReleaseAll
<1>2. Control' /\ Holding'
  BY DEF IInv, TypeOK, Control, Holding, FailDone, Cleared, ReleaseAll
<1>3. Phase' /\ Standing'
  BY DEF IInv, TypeOK, Control, Holding, Phase, Standing, FailDone, Cleared,
     ReleaseAll
<1>4. RFUntilCleanup' /\ TrafficHasRFPath'
  BY DEF IInv, TypeOK, Control, Holding, Phase, Standing, RFUntilCleanup,
     TrafficHasRFPath, StoppedIsReleased, FailDone, Cleared, ReleaseAll
<1>5. StoppedIsReleased' /\ FailedHasCleaner'
  BY DEF IInv, TypeOK, Control, Holding, Phase, Standing, StoppedIsReleased,
     FailedHasCleaner, FailDone, Cleared, ReleaseAll
<1> QED BY <1>1, <1>2, <1>3, <1>4, <1>5 DEF IInv

\* _schedule_runtime_failure preserves the inductive invariant.
LEMMA ScheduleRuntimeFailureInv ==
    ASSUME IInv, 
           ScheduleRuntimeFailure, state \notin {"STOPPING", "STOPPED", "FAILED"}
    PROVE  IInv'
<1>1. TypeOK'
  BY DEF IInv, TypeOK, ScheduleRuntimeFailure
<1>2. Control' /\ Holding'
  BY DEF IInv, TypeOK, Control, Holding, ScheduleRuntimeFailure
<1>3. Phase' /\ Standing'
  BY DEF IInv, TypeOK, Control, Holding, Phase, Standing,
     ScheduleRuntimeFailure
<1>4. RFUntilCleanup' /\ TrafficHasRFPath'
  BY DEF IInv, TypeOK, Control, Holding, Phase, Standing, RFUntilCleanup,
     TrafficHasRFPath, StoppedIsReleased, ScheduleRuntimeFailure
<1>5. StoppedIsReleased' /\ FailedHasCleaner'
  BY DEF IInv, TypeOK, Control, Holding, Phase, Standing, StoppedIsReleased,
     FailedHasCleaner, ScheduleRuntimeFailure
<1> QED BY <1>1, <1>2, <1>3, <1>4, <1>5 DEF IInv

\* replace_scenario() preserves the inductive invariant.
LEMMA ReplaceScenarioInv ==
    ASSUME IInv, NEW v \in Versions, NEW w \in Versions, ReplaceScenario(v, w)
    PROVE  IInv'
<1>1. TypeOK'
  BY DEF IInv, TypeOK, ReplaceScenario
<1>2. Control' /\ Holding'
  BY DEF IInv, TypeOK, Control, Holding, ReplaceScenario
<1>3. Phase' /\ Standing'
  BY DEF IInv, TypeOK, Control, Holding, Phase, Standing, ReplaceScenario
<1>4. RFUntilCleanup' /\ TrafficHasRFPath'
  BY DEF IInv, TypeOK, Control, Holding, Phase, Standing, RFUntilCleanup,
     TrafficHasRFPath, StoppedIsReleased, ReplaceScenario
<1>5. StoppedIsReleased' /\ FailedHasCleaner'
  BY DEF IInv, TypeOK, Control, Holding, Phase, Standing, StoppedIsReleased,
     FailedHasCleaner, ReplaceScenario
<1> QED BY <1>1, <1>2, <1>3, <1>4, <1>5 DEF IInv

\* A traffic run ending by itself preserves the inductive invariant.
LEMMA RunEndsInv ==
    ASSUME IInv, RunEnds
    PROVE  IInv'
<1>1. TypeOK'
  BY DEF IInv, TypeOK, RunEnds
<1>2. Control' /\ Holding'
  BY DEF IInv, TypeOK, Control, Holding, RunEnds
<1>3. Phase' /\ Standing'
  BY DEF IInv, TypeOK, Control, Holding, Phase, Standing, RunEnds
<1>4. RFUntilCleanup' /\ TrafficHasRFPath'
  BY DEF IInv, TypeOK, Control, Holding, Phase, Standing, RFUntilCleanup,
     TrafficHasRFPath, StoppedIsReleased, RunEnds
<1>5. StoppedIsReleased' /\ FailedHasCleaner'
  BY DEF IInv, TypeOK, Control, Holding, Phase, Standing, StoppedIsReleased,
     FailedHasCleaner, RunEnds
<1> QED BY <1>1, <1>2, <1>3, <1>4, <1>5 DEF IInv

\* A command that returns or raises as soon as it has the lifecycle lock preserves the inductive invariant.
LEMMA ReturnInv ==
    ASSUME IInv, NEW t \in Tasks, Obtains(t), Return(t), t # FailTask,
           UNCHANGED <<state, startup, live, booted, links, run, captured, clean>>,
           scenario' \in [nodes : Versions, links : Versions]
    PROVE  IInv'
<1>1. TypeOK'
  BY DEF IInv, TypeOK, Return, Obtains
<1>2. Control' /\ Holding'
  BY DEF IInv, TypeOK, Control, Holding, Return, Obtains
<1>3. Phase' /\ Standing'
  BY DEF IInv, TypeOK, Control, Holding, Phase, Standing, Return, Obtains
<1>4. RFUntilCleanup' /\ TrafficHasRFPath'
  BY DEF IInv, TypeOK, Control, Holding, Phase, Standing, RFUntilCleanup,
     TrafficHasRFPath, StoppedIsReleased, Return, Obtains
<1>5. StoppedIsReleased' /\ FailedHasCleaner'
  BY DEF IInv, TypeOK, Control, Holding, Phase, Standing, StoppedIsReleased,
     FailedHasCleaner, Return, Obtains
<1> QED BY <1>1, <1>2, <1>3, <1>4, <1>5 DEF IInv

\* start() from FAILED entering its cleanup preserves the inductive invariant.
LEMMA PrecleanInv ==
    ASSUME IInv, NEW t \in Tasks, Obtains(t),
           cmd[t] = "start", state = "FAILED",
           Hold(t, "preclean"), clean' = [clean EXCEPT ![t] = "request"],
           UNCHANGED <<state, startup, world>>
    PROVE  IInv'
<1>1. TypeOK'
  BY DEF IInv, TypeOK, Hold, Obtains
<1>2. Control' /\ Holding'
  BY DEF IInv, TypeOK, Control, Holding, Hold, Obtains
<1>3. Phase' /\ Standing'
  BY DEF IInv, TypeOK, Control, Holding, Phase, Standing, Hold, Obtains
<1>4. RFUntilCleanup' /\ TrafficHasRFPath'
  BY DEF IInv, TypeOK, Control, Holding, Phase, Standing, RFUntilCleanup,
     TrafficHasRFPath, StoppedIsReleased, Hold, Obtains
<1>5. StoppedIsReleased' /\ FailedHasCleaner'
  BY DEF IInv, TypeOK, Control, Holding, Phase, Standing, StoppedIsReleased,
     FailedHasCleaner, Hold, Obtains
<1> QED BY <1>1, <1>2, <1>3, <1>4, <1>5 DEF IInv

\* start() from STOPPED entering STARTING preserves the inductive invariant.
LEMMA BootInv ==
    ASSUME IInv, NEW t \in Tasks, Obtains(t),
           cmd[t] = "start", state = "STOPPED",
           Boot(t), Hold(t, "boot"), UNCHANGED <<scenario, links, run, captured, clean>>
    PROVE  IInv'
<1>1. TypeOK'
  BY DEF IInv, TypeOK, Boot, Hold, Obtains
<1>2. Control' /\ Holding'
  BY DEF IInv, TypeOK, Control, Holding, Boot, Hold, Obtains
<1>3. Phase' /\ Standing'
  BY DEF IInv, TypeOK, Control, Holding, Phase, Standing, Boot, Hold, Obtains
<1>4. RFUntilCleanup' /\ TrafficHasRFPath'
  BY DEF IInv, TypeOK, Control, Holding, Phase, Standing, RFUntilCleanup,
     TrafficHasRFPath, StoppedIsReleased, Boot, Hold, Obtains
<1>5. StoppedIsReleased' /\ FailedHasCleaner'
  BY DEF IInv, TypeOK, Control, Holding, Phase, Standing, StoppedIsReleased,
     FailedHasCleaner, Boot, Hold, Obtains
<1> QED BY <1>1, <1>2, <1>3, <1>4, <1>5 DEF IInv

\* stop() entering STOPPING preserves the inductive invariant.
LEMMA StopHoldInv ==
    ASSUME IInv, NEW t \in Tasks, Obtains(t),
           cmd[t] = "stop", state # "STOPPED",
           state' = "STOPPING", Hold(t, "reqTopology"), UNCHANGED <<startup, world, clean>>
    PROVE  IInv'
<1>1. TypeOK'
  BY DEF IInv, TypeOK, Hold, Obtains
<1>2. Control' /\ Holding'
  BY DEF IInv, TypeOK, Control, Holding, Hold, Obtains
<1>3. Phase' /\ Standing'
  BY DEF IInv, TypeOK, Control, Holding, Phase, Standing, Hold, Obtains
<1>4. RFUntilCleanup' /\ TrafficHasRFPath'
  BY DEF IInv, TypeOK, Control, Holding, Phase, Standing, RFUntilCleanup,
     TrafficHasRFPath, StoppedIsReleased, Hold, Obtains
<1>5. StoppedIsReleased' /\ FailedHasCleaner'
  BY DEF IInv, TypeOK, Control, Holding, Phase, Standing, StoppedIsReleased,
     FailedHasCleaner, Hold, Obtains
<1> QED BY <1>1, <1>2, <1>3, <1>4, <1>5 DEF IInv

\* The failure task obtaining the lifecycle lock preserves the inductive invariant.
LEMMA FailLockedInv ==
    ASSUME IInv, NEW t \in Tasks, Obtains(t), cmd[t] = "fail", FailLocked(t)
    PROVE  IInv'
<1>1. TypeOK'
  BY DEF IInv, TypeOK, FailLocked, Hold, Obtains
<1>2. Control' /\ Holding'
  BY DEF IInv, TypeOK, Control, Holding, FailLocked, Hold, Obtains
<1>3. Phase' /\ Standing'
  BY DEF IInv, TypeOK, Control, Holding, Phase, Standing, FailLocked, Hold,
     Obtains
<1>4. RFUntilCleanup' /\ TrafficHasRFPath'
  BY DEF IInv, TypeOK, Control, Holding, Phase, Standing, RFUntilCleanup,
     TrafficHasRFPath, StoppedIsReleased, FailLocked, Hold, Obtains
<1>5. StoppedIsReleased' /\ FailedHasCleaner'
  BY DEF IInv, TypeOK, Control, Holding, Phase, Standing, StoppedIsReleased,
     FailedHasCleaner, FailLocked, Hold, Obtains
<1> QED BY <1>1, <1>2, <1>3, <1>4, <1>5 DEF IInv

\* Whatever a task does on obtaining the lifecycle lock preserves IInv.
LEMMA LockedInv ==
    ASSUME IInv, NEW t \in Tasks, Obtains(t), Locked(t)
    PROVE  IInv'
<1>0. cmd[t] # "fail" => t # FailTask
  BY DEF IInv, TypeOK, Control, Obtains
<1>1. CASE cmd[t] = "start" /\ StartLocked(t)
  <2>1. CASE state = "STOPPED"
    <3>1. CASE Return(t) /\ UNCHANGED <<state, startup, world, clean>>
      BY <3>1, <1>0, <1>1, ReturnInv DEF IInv, TypeOK
    <3>2. CASE Boot(t) /\ Hold(t, "boot")
               /\ UNCHANGED <<scenario, links, run, captured, clean>>
      BY <3>2, <2>1, <1>1, BootInv
    <3> QED BY <1>1, <2>1, <3>1, <3>2 DEF StartLocked
  <2>2. CASE state = "FAILED"
    BY <2>2, <1>1, PrecleanInv DEF StartLocked
  <2>3. CASE state \notin {"STOPPED", "FAILED"}
    BY <2>3, <1>0, <1>1, ReturnInv DEF StartLocked, IInv, TypeOK
  <2> QED BY <2>1, <2>2, <2>3
<1>2. CASE cmd[t] = "stop" /\ StopLocked(t)
  <2>1. CASE state = "STOPPED"
    BY <2>1, <1>0, <1>2, ReturnInv DEF StopLocked, IInv, TypeOK
  <2>2. CASE state # "STOPPED"
    BY <2>2, <1>2, StopHoldInv DEF StopLocked
  <2> QED BY <2>1, <2>2
<1>3. CASE cmd[t] = "reset" /\ ResetLocked(t)
  BY <1>0, <1>3, ReturnInv DEF ResetLocked, IInv, TypeOK
<1>4. CASE cmd[t] = "fail" /\ FailLocked(t)
  BY <1>4, FailLockedInv
<1> QED BY <1>1, <1>2, <1>3, <1>4 DEF Locked

\* Asking for the lifecycle lock, with or without a wait, preserves IInv.
LEMMA AskLifecycleInv ==
    ASSUME IInv, NEW t \in Tasks, AskLifecycle(t),
           pc[t] \in {"called", "await", "created"},
           pc[t] = "called" => cmd[t] \in LockedCommands,
           awaiters' \subseteq Tasks,
           failTask' = failTask \/ (failTask # "active" /\ failTask' = "none")
    PROVE  IInv'
<1>1. CASE Free("lifecycle")
  <2>1. queue' \in [Locks -> Seq(Tasks)] /\ owner["lifecycle"] = None /\ Locked(t)
    BY <1>1 DEF AskLifecycle, IInv, TypeOK, Free
  <2> QED BY <2>1, LockedInv DEF Obtains, IInv, TypeOK
<1>2. CASE ~Free("lifecycle")
  <2>1. Append(queue["lifecycle"], t) \in Seq(Tasks)
    BY DEF IInv, TypeOK
  <2>2. /\ pc' = [pc EXCEPT ![t] = "queued"]
        /\ queue' \in [Locks -> Seq(Tasks)]
        /\ UNCHANGED <<state, startup, live, booted, scenario, links, run,
                       captured, owner, cmd, clean>>
    <3>1. queue' = [queue EXCEPT !["lifecycle"] = Append(@, t)]
      BY <1>2 DEF AskLifecycle
    <3>2. queue' \in [Locks -> Seq(Tasks)]
      BY <2>1, <3>1 DEF IInv, TypeOK
    <3> QED BY <1>2, <3>2 DEF AskLifecycle
  <2>3. TypeOK'
    BY <2>2 DEF IInv, TypeOK
  <2>4. Control'
    BY <2>2 DEF IInv, TypeOK, Control
  <2>5. Holding' /\ Phase'
    BY <2>2 DEF IInv, TypeOK, Holding, Phase
  <2>6. Standing' /\ RFUntilCleanup' /\ StoppedIsReleased' /\ TrafficHasRFPath'
    BY <2>2 DEF IInv, TypeOK, Standing, RFUntilCleanup,
       StoppedIsReleased, TrafficHasRFPath
  <2>7. FailedHasCleaner'
    BY <2>2 DEF IInv, TypeOK, FailedHasCleaner
  <2> QED BY <2>3, <2>4, <2>5, <2>6, <2>7 DEF IInv
<1> QED BY <1>1, <1>2

\* _await_failure_cleanup followed by the lifecycle lock preserves IInv.
LEMMA EnterLockedInv ==
    ASSUME IInv, NEW t \in Tasks, EnterLocked(t) PROVE IInv'
<1>1. CASE failTask = "active"
  <2>1. /\ pc' = [pc EXCEPT ![t] = "await"]
        /\ awaiters' = awaiters \cup {t}
        /\ cmd[t] \in LockedCommands /\ pc[t] = "called"
        /\ UNCHANGED <<state, startup, live, booted, scenario, links, run, failTask,
                       captured, owner, queue, cmd, clean>>
    BY <1>1 DEF EnterLocked
  <2>2. TypeOK'
    BY <2>1 DEF IInv, TypeOK
  <2>3. Control'
    BY <2>1 DEF IInv, TypeOK, Control
  <2>4. Holding' /\ Phase'
    BY <2>1 DEF IInv, TypeOK, Holding, Phase
  <2>5. Standing' /\ RFUntilCleanup' /\ StoppedIsReleased' /\ TrafficHasRFPath'
    BY <2>1 DEF IInv, TypeOK, Standing, RFUntilCleanup,
       StoppedIsReleased, TrafficHasRFPath
  <2>6. FailedHasCleaner'
    BY <2>1 DEF IInv, TypeOK, FailedHasCleaner
  <2> QED BY <2>2, <2>3, <2>4, <2>5, <2>6 DEF IInv
<1>2. CASE failTask # "active"
  BY <1>2, AskLifecycleInv DEF EnterLocked
<1> QED BY <1>1, <1>2

\* A command whose awaited failure task is done preserves IInv.
LEMMA ResumeLockedInv ==
    ASSUME IInv, NEW t \in Tasks, ResumeLocked(t) PROVE IInv'
BY AskLifecycleInv DEF ResumeLocked, IInv, TypeOK

\* The first step of the failure task preserves IInv.
LEMMA FailBeginsInv ==
    ASSUME IInv, FailBegins PROVE IInv'
BY AskLifecycleInv DEF FailBegins, IInv, TypeOK

\* The first waiter of the lifecycle lock waking up preserves IInv.
LEMMA WakeLifecycleInv ==
    ASSUME IInv, NEW t \in Tasks, WakeLifecycle(t) PROVE IInv'
<1>1. queue' \in [Locks -> Seq(Tasks)]
  BY DEF IInv, TypeOK, WakeLifecycle, NextInLine
<1> QED BY <1>1, LockedInv DEF WakeLifecycle, NextInLine, Obtains, IInv, TypeOK

\* Every step of a task preserves IInv.
LEMMA TaskStepInv ==
    ASSUME IInv, NEW t \in Tasks, TaskStep(t) PROVE IInv'
BY EnterLockedInv, ResumeLockedInv, WakeLifecycleInv, BootedInv, ConnectedInv,
   ConfiguredInv, WarmedUpInv, StartedInv, StartRaisesInv, WakeInv,
   RequestTopologyInv, DismantleInv, TopologyConflictInv, ApplyLinksInv,
   SampleBaselineInv, BeginRunInv, RefuseRunInv, HaltRunInv, RunHaltedInv,
   RequestCleanupInv, CleanStepInv, RestartAfterCleanInv, GiveUpAfterCleanInv,
   AbortedStartInv, StoppedInv, FailBeginsInv, FailDoneInv
   DEF TaskStep

\* Every step of the environment preserves IInv.
LEMMA EnvironmentInv ==
    ASSUME IInv, Environment PROVE IInv'
BY CallInv, ScheduleRuntimeFailureInv, ReplaceScenarioInv, RunEndsInv
   DEF Environment, ProcessFails, GatewayFails, MediumFails

\* The service starts in the inductive invariant.
LEMMA IInvInitial == Init => IInv
<1> SUFFICES ASSUME Init PROVE IInv
  OBVIOUS
<1>1. TypeOK
  <2>1. queue \in [Locks -> Seq(Tasks)]
    BY DEF Init
  <2>2. owner \in [Locks -> Tasks \cup {None}]
    BY DEF Init
  <2>3. /\ cmd \in [Tasks -> Commands]
        /\ pc \in [Tasks -> Pcs]
        /\ clean \in [Tasks -> CleanSteps]
    BY DEF Init
  <2> QED BY <2>1, <2>2, <2>3 DEF Init, TypeOK
<1>2. Control /\ Holding /\ Phase /\ Standing
  BY DEF Init, Control, Holding, Phase, Standing
<1>3. RFUntilCleanup /\ StoppedIsReleased /\ FailedHasCleaner /\ TrafficHasRFPath
  BY DEF Init, RFUntilCleanup, StoppedIsReleased, FailedHasCleaner, TrafficHasRFPath
<1> QED BY <1>1, <1>2, <1>3 DEF IInv

\* Every step of the service preserves it.
LEMMA IInvInductive == IInv /\ [Next]_vars => IInv'
<1> SUFFICES ASSUME IInv, [Next]_vars PROVE IInv'
  OBVIOUS
<1>1. CASE Next
  BY <1>1, TaskStepInv, EnvironmentInv DEF Next
<1>2. CASE UNCHANGED vars
  BY <1>2 DEF vars, IInv, TypeOK, Control, Holding, Phase, Standing,
     RFUntilCleanup, StoppedIsReleased, FailedHasCleaner, TrafficHasRFPath
<1> QED BY <1>1, <1>2

\* IInv is an invariant of the service.
THEOREM LifecycleInvariant == Spec => []IInv
BY IInvInitial, IInvInductive, PTL DEF Spec

\* Every field of the service and of its tasks keeps its type.
THEOREM LifecycleTypes == Spec => []TypeOK
<1>1. IInv => TypeOK
  BY DEF IInv
<1> QED BY <1>1, LifecycleInvariant, PTL

\* STOPPED always means that every process, gateway, medium worker and traffic
\* run has been released, for any number of overlapping commands and failures.
THEOREM StoppedReleasesEverything == Spec => []StoppedIsReleased
<1>1. IInv => StoppedIsReleased
  BY DEF IInv
<1> QED BY <1>1, LifecycleInvariant, PTL

\* A failed simulation that still holds resources always has a task that will
\* release them.
THEOREM FailureIsOwned == Spec => []FailedHasCleaner
<1>1. IInv => FailedHasCleaner
  BY DEF IInv
<1> QED BY <1>1, LifecycleInvariant, PTL

\* A traffic run is never active over a dismantled RF path.
THEOREM TrafficIsStoppedFirst == Spec => []TrafficHasRFPath
<1>1. IInv => TrafficHasRFPath
  BY DEF IInv
<1> QED BY <1>1, LifecycleInvariant, PTL

\* The only steps that change the lifecycle state, with what they require.
LEMMA StateSteps ==
    ASSUME IInv, [Next]_vars, state' # state
    PROVE  \/ state' = "FAILED"
           \/ state' = "STOPPING"
           \/ state' = "STOPPED" /\ state = "STOPPING"
           \/ state' \in {"WARMING_UP", "RUNNING"} /\ state # "FAILED"
           \/ state' = "STARTING" /\ live = {} /\ ~run /\ links' = None
<1>1. ASSUME NEW t \in Tasks, Locked(t)
      PROVE  \/ state' = "STOPPING"
             \/ state' = "STARTING" /\ live = {} /\ ~run /\ links' = None
  BY <1>1 DEF IInv, StoppedIsReleased, Locked, StartLocked, StopLocked,
     ResetLocked, FailLocked, Boot
<1>2. ASSUME NEW t \in Tasks,
             EnterLocked(t) \/ ResumeLocked(t) \/ WakeLifecycle(t)
               \/ (t = FailTask /\ FailBegins)
      PROVE  Locked(t)
  BY <1>2 DEF EnterLocked, ResumeLocked, WakeLifecycle, FailBegins, AskLifecycle
<1>3. ASSUME NEW t \in Tasks,
             Configured(t) \/ Started(t) \/ StartRaises(t)
      PROVE  \/ state' = "FAILED"
             \/ state' \in {"WARMING_UP", "RUNNING"} /\ state # "FAILED"
  BY <1>3 DEF Configured, Started, StartRaises
<1>4. ASSUME NEW t \in Tasks, RestartAfterClean(t)
      PROVE  state' = "STARTING" /\ live = {} /\ ~run /\ links' = None
  BY <1>4 DEF IInv, Standing, RestartAfterClean, Cleared, Boot
<1>5. ASSUME NEW t \in Tasks, Stopped(t)
      PROVE  state' = "STOPPED" /\ state = "STOPPING"
  BY <1>5 DEF IInv, Control, Phase, Stopped
<1>6. CASE ProcessFails \/ GatewayFails \/ MediumFails
  BY <1>6 DEF ProcessFails, GatewayFails, MediumFails, ScheduleRuntimeFailure
<1>7. CASE \E t \in Tasks : TaskStep(t)
  BY <1>1, <1>2, <1>3, <1>4, <1>5, <1>7 DEF TaskStep, Booted, Connected, WarmedUp,
     Wake, RequestTopology, Dismantle, TopologyConflict, ApplyLinks, SampleBaseline,
     BeginRun, RefuseRun, HaltRun, RunHalted, RequestCleanup, CleanStep,
     GiveUpAfterClean, AbortedStart, FailDone
<1>8. CASE Environment
  BY <1>6, <1>8 DEF Environment, Call, ReplaceScenario, RunEnds
<1> QED BY <1>7, <1>8 DEF Next, vars

\* No start() under way overwrites FAILED; only stop or a new start leaves it.
THEOREM FailedStays == Spec => FailedIsSticky
<1>1. IInv /\ [Next]_vars
        => [state = "FAILED" => state' \in {"FAILED", "STARTING", "STOPPING"}]_vars
  BY StateSteps
<1> QED BY <1>1, LifecycleInvariant, PTL DEF Spec, FailedIsSticky

\* A start() never boots over what an earlier simulation left behind.
THEOREM BootsAreClean == Spec => CleanBoot
<1>1. IInv /\ [Next]_vars
        => [state # "STARTING" /\ state' = "STARTING"
              => live = {} /\ ~run /\ links' = None]_vars
  BY StateSteps
<1> QED BY <1>1, LifecycleInvariant, PTL DEF Spec, CleanBoot

\* Every step of the service keeps the scenario, the firmware and the medium in
\* agreement: the scenario is replaced only when nothing is up.
LEMMA AgreementStep ==
    ASSUME IInv, ScenarioAgreement, [Next]_vars
    PROVE  ScenarioAgreement'
<1> DEFINE Kept == /\ UNCHANGED <<booted, scenario>> /\ links' \in {links, None}
                   /\ "processes" \in live' => "processes" \in live
<1>1. Kept => ScenarioAgreement'
  BY DEF ScenarioAgreement
<1>2. state = "STOPPED" => "processes" \notin live /\ links = None
  BY DEF IInv, StoppedIsReleased
<1>3. ASSUME NEW t \in Tasks, Locked(t)
      PROVE  ScenarioAgreement'
  <2>1. CASE cmd[t] = "start" /\ StartLocked(t)
    <3>1. Kept \/ (Boot(t) /\ UNCHANGED <<scenario, links>>)
      BY <2>1 DEF StartLocked
    <3> QED BY <1>1, <3>1 DEF Boot, ScenarioAgreement
  <2>2. CASE cmd[t] = "reset" /\ ResetLocked(t)
    BY <1>2, <2>2 DEF ResetLocked, ScenarioAgreement
  <2>3. CASE StopLocked(t) \/ FailLocked(t)
    BY <1>1, <2>3 DEF StopLocked, FailLocked
  <2> QED BY <1>3, <2>1, <2>2, <2>3 DEF Locked
<1>4. ASSUME NEW t \in Tasks,
             EnterLocked(t) \/ ResumeLocked(t) \/ WakeLifecycle(t)
               \/ (t = FailTask /\ FailBegins)
      PROVE  Kept \/ Locked(t)
  BY <1>4 DEF EnterLocked, ResumeLocked, WakeLifecycle, FailBegins, AskLifecycle
<1>5. ASSUME NEW t \in Tasks, Configured(t)
      PROVE  ScenarioAgreement'
  BY <1>5 DEF Configured, ScenarioAgreement
<1>6. ASSUME NEW t \in Tasks, NEW v \in Versions, ApplyLinks(t, v)
      PROVE  ScenarioAgreement'
  <2>1. UNCHANGED <<live, booted>> /\ scenario' = [scenario EXCEPT !.links = v]
        /\ (links' = v \/ (state = "STOPPED" /\ links' = links))
    BY <1>6 DEF ApplyLinks
  <2>2. scenario \in [nodes : Versions, links : Versions]
    BY DEF IInv, TypeOK
  <2>3. scenario'.nodes = scenario.nodes /\ scenario'.links = v
    BY <2>1, <2>2
  <2> QED BY <1>2, <2>1, <2>3 DEF ScenarioAgreement
<1>7. ASSUME NEW t \in Tasks, RestartAfterClean(t)
      PROVE  ScenarioAgreement'
  BY <1>7 DEF RestartAfterClean, Cleared, Boot, ScenarioAgreement
<1>8. ASSUME NEW t \in Tasks,
             \/ Booted(t) \/ Connected(t) \/ WarmedUp(t) \/ Started(t) \/ StartRaises(t)
             \/ \E l \in Locks : Wake(t, l)
             \/ RequestTopology(t) \/ Dismantle(t) \/ TopologyConflict(t)
             \/ SampleBaseline(t) \/ BeginRun(t) \/ RefuseRun(t) \/ HaltRun(t) \/ RunHalted(t)
             \/ RequestCleanup(t) \/ CleanStep(t) \/ GiveUpAfterClean(t) \/ AbortedStart(t)
             \/ Stopped(t) \/ FailDone
      PROVE  Kept
  BY <1>8 DEF Booted, Connected, WarmedUp, Started, StartRaises, Wake, RequestTopology,
     Dismantle, TopologyConflict, SampleBaseline, BeginRun, RefuseRun, HaltRun, RunHalted,
     RequestCleanup, CleanStep, GiveUpAfterClean, AbortedStart, Stopped, FailDone, Cleared
<1>9. CASE Environment
  <2>1. CASE \E v, w \in Versions : ReplaceScenario(v, w)
    BY <1>2, <2>1 DEF ReplaceScenario, ScenarioAgreement
  <2>2. CASE \/ \E t \in Clients, c \in LockedCommands \cup TopologyCommands : Call(t, c)
             \/ ProcessFails \/ GatewayFails \/ MediumFails \/ RunEnds
    BY <1>1, <2>2 DEF Call, ProcessFails, GatewayFails, MediumFails, ScheduleRuntimeFailure,
       RunEnds
  <2> QED BY <1>9, <2>1, <2>2 DEF Environment
<1>10. CASE UNCHANGED vars
  BY <1>1, <1>10 DEF vars
<1> HIDE DEF Kept
<1>11. CASE \E t \in Tasks : TaskStep(t)
  BY <1>1, <1>3, <1>4, <1>5, <1>6, <1>7, <1>8, <1>11 DEF TaskStep
<1> QED BY <1>9, <1>10, <1>11 DEF Next

\* replace_scenario, apply_topology, update_links and reset: the firmware that is up was
\* booted with the scenario's node set, and the medium routes with its links.
THEOREM ScenarioIsInForce == Spec => []ScenarioAgreement
<1>1. Init => ScenarioAgreement
  BY DEF Init, ScenarioAgreement
<1> QED BY <1>1, AgreementStep, LifecycleInvariant, PTL DEF Spec

-----------------------------------------------------------------------------
(* The search of Reachability: which nodes are within so many hops.          *)

HIDE LifecycleAssumption

\* A set of numbers that is not empty has a least member: the form in which
\* these proofs use induction over the numbers.
LEMMA LeastNumber ==
    ASSUME NEW K \in SUBSET Nat, K # {}
    PROVE  \E m \in K : \A k \in K : m <= k
<1> DEFINE R == OpToRel(<, Nat)
<1>1. IsWellFoundedOn(R, Nat)
  BY NatLessThanWellFounded
<1> HIDE DEF R
<1>2. PICK m \in K : \A k \in K : ~(<<k, m>> \in R)
  BY <1>1, WFMin
<1>3. \A k \in K : ~(k < m)
  BY <1>2 DEF R, OpToRel
<1> QED
  BY <1>3

-----------------------------------------------------------------------------
\* The nodes one link further, over the links E.
Further(E, B) == B \cup UNION {{m \in GraphNodes : <<n, m>> \in E} : n \in B}

\* b has the nodes within i links at i, up to k links.
BallsTo(b, E, k) == b = [i \in 0 .. k |-> IF i = 0 THEN {Source} ELSE Further(E, b[i - 1])]

\* The same for every number of hops, as Within defines it.
Balls(b, E) == b = [i \in Nat |-> IF i = 0 THEN {Source} ELSE Further(E, b[i - 1])]

\* Within, with the links as an argument.
WithinOf(E, k) == (CHOOSE b : Balls(b, E))[k]

\* WithinOf is Within, for the enabled links.
LEMMA WithinIs == \A k : Within(k) = WithinOf(enabled, k)
BY DEF Within, WithinOf, Balls, Further, Adjacency

\* There is such a function for every number of hops.
LEMMA BallsToExist == ASSUME NEW E, NEW k \in Nat PROVE \E b : BallsTo(b, E, k)
<1> DEFINE K == {j \in Nat : ~\E b : BallsTo(b, E, j)}
<1> SUFFICES ASSUME K # {}
             PROVE  FALSE
  OBVIOUS
<1>1. PICK j \in K : \A i \in K : j <= i
  <2> HIDE DEF K
  <2> QED
    BY LeastNumber DEF K
<1>2. j \in Nat /\ (~\E b : BallsTo(b, E, j)) /\ (j # 0 => \E b : BallsTo(b, E, j - 1))
  <2>1. j # 0 => j - 1 \in Nat /\ j - 1 \notin K
    BY <1>1
  <2> QED
    BY <1>1, <2>1
<1> HIDE DEF K
<1>3. CASE j = 0
  <2> DEFINE b == [i \in 0 .. 0 |-> {Source}]
  <2>1. b = [i \in 0 .. 0 |-> IF i = 0 THEN {Source} ELSE Further(E, b[i - 1])]
    OBVIOUS
  <2> HIDE DEF b
  <2> QED
    BY <1>2, <1>3, <2>1 DEF BallsTo
<1>4. CASE j # 0
  <2>1. PICK b : BallsTo(b, E, j - 1)
    BY <1>2, <1>4
  <2>2. \A i \in 0 .. j - 1 : b[i] = IF i = 0 THEN {Source} ELSE Further(E, b[i - 1])
    BY <2>1 DEF BallsTo
  <2> DEFINE c == [i \in 0 .. j |-> IF i = 0 THEN {Source} ELSE Further(E, b[i - 1])]
             d == [i \in 0 .. j |-> IF i = 0 THEN {Source} ELSE Further(E, c[i - 1])]
  <2>3. ASSUME NEW i \in 0 .. j
        PROVE  c[i] = d[i]
    <3>1. CASE i = 0
      BY <3>1
    <3>2. CASE i # 0
      <4>1. i - 1 \in 0 .. j - 1 /\ i - 1 \in 0 .. j
        BY <1>2, <3>2
      <4>2. c[i - 1] = b[i - 1]
        BY <2>2, <4>1
      <4> QED
        BY <3>2, <4>2
    <3> QED
      BY <3>1, <3>2
  <2>4. c = d
    BY <2>3
  <2>5. BallsTo(c, E, j)
    <3> HIDE DEF c
    <3> QED
      BY <2>4 DEF BallsTo
  <2> QED
    BY <1>2, <2>5
<1> QED
  BY <1>3, <1>4

\* And only one.
LEMMA BallsAgree ==
    ASSUME NEW E, NEW j \in Nat, NEW k \in Nat, NEW b, NEW c, BallsTo(b, E, j), BallsTo(c, E, k)
    PROVE  \A i \in Nat : i <= j /\ i <= k => b[i] = c[i]
<1> DEFINE K == {i \in Nat : i <= j /\ i <= k /\ b[i] # c[i]}
<1> SUFFICES ASSUME K # {}
             PROVE  FALSE
  OBVIOUS
<1>1. PICK i \in K : \A h \in K : i <= h
  <2> HIDE DEF K
  <2> QED
    BY LeastNumber DEF K
<1>2. i \in Nat /\ i <= j /\ i <= k /\ b[i] # c[i]
  BY <1>1
<1>3. /\ b[i] = IF i = 0 THEN {Source} ELSE Further(E, b[i - 1])
      /\ c[i] = IF i = 0 THEN {Source} ELSE Further(E, c[i - 1])
  <2>1. /\ \A h \in 0 .. j : b[h] = IF h = 0 THEN {Source} ELSE Further(E, b[h - 1])
        /\ \A h \in 0 .. k : c[h] = IF h = 0 THEN {Source} ELSE Further(E, c[h - 1])
    BY DEF BallsTo
  <2>2. i \in 0 .. j /\ i \in 0 .. k
    BY <1>2
  <2> QED
    BY <2>1, <2>2
<1>4. i # 0 /\ b[i - 1] # c[i - 1]
  BY <1>2, <1>3
<1>5. i - 1 \in K
  BY <1>2, <1>4
<1> QED
  BY <1>1, <1>2, <1>5

\* The nodes within no link are the source; those within one more are one link further.
LEMMA WithinSteps ==
    ASSUME NEW E
    PROVE  /\ WithinOf(E, 0) = {Source}
           /\ \A i \in Nat : WithinOf(E, i + 1) = Further(E, WithinOf(E, i))
<1> DEFINE own(k) == CHOOSE b : BallsTo(b, E, k)
           F == [k \in Nat |-> own(k)[k]]
           G == [k \in Nat |-> IF k = 0 THEN {Source} ELSE Further(E, F[k - 1])]
<1>1. \A k \in Nat : BallsTo(own(k), E, k)
  BY BallsToExist
<1> HIDE DEF own
<1>2. ASSUME NEW k \in Nat
      PROVE  F[k] = G[k]
  <2>1. own(k)[k] = IF k = 0 THEN {Source} ELSE Further(E, own(k)[k - 1])
    <3>1. \A i \in 0 .. k : own(k)[i] = IF i = 0 THEN {Source} ELSE Further(E, own(k)[i - 1])
      BY <1>1 DEF BallsTo
    <3>2. k \in 0 .. k
      OBVIOUS
    <3> QED
      BY <3>1, <3>2
  <2>2. CASE k # 0
    <3>1. k - 1 \in Nat /\ k - 1 <= k
      BY <2>2
    <3>2. own(k)[k - 1] = own(k - 1)[k - 1]
      BY <1>1, <3>1, BallsAgree
    <3> QED
      BY <2>1, <2>2, <3>1, <3>2
  <2> QED
    BY <2>1, <2>2
<1>3. F = G
  BY <1>2
<1>4. Balls(F, E)
  <2> HIDE DEF F
  <2> QED
    BY <1>3 DEF Balls
<1> DEFINE B == CHOOSE b : Balls(b, E)
<1>5. Balls(B, E)
  BY <1>4
<1>6. \A k : WithinOf(E, k) = B[k]
  BY DEF WithinOf
<1> HIDE DEF B, F, G
<1>7. B[0] = {Source} /\ \A i \in Nat : B[i + 1] = Further(E, B[i])
  <2>1. \A i \in Nat : B[i] = IF i = 0 THEN {Source} ELSE Further(E, B[i - 1])
    BY <1>5 DEF Balls
  <2>2. ASSUME NEW i \in Nat
        PROVE  B[i + 1] = Further(E, B[i])
    <3>1. i + 1 \in Nat /\ i + 1 # 0 /\ (i + 1) - 1 = i
      OBVIOUS
    <3> QED
      BY <2>1, <3>1
  <2> QED
    BY <2>1, <2>2
<1> QED
  BY <1>6, <1>7

\* More links reach more nodes.
LEMMA WithinGrows ==
    ASSUME NEW E, NEW i \in Nat, NEW k \in Nat, i <= k
    PROVE  WithinOf(E, i) \subseteq WithinOf(E, k)
<1> DEFINE K == {j \in Nat : ~(WithinOf(E, i) \subseteq WithinOf(E, i + j))}
<1>1. K = {}
  <2> SUFFICES ASSUME K # {}
               PROVE  FALSE
    OBVIOUS
  <2>1. PICK j \in K : \A h \in K : j <= h
    <3> HIDE DEF K
    <3> QED
      BY LeastNumber DEF K
  <2>2. j # 0
    BY <2>1
  <2>3. j - 1 \in Nat /\ j - 1 \notin K /\ i + j = (i + (j - 1)) + 1 /\ i + (j - 1) \in Nat
    BY <2>1, <2>2
  <2>4. WithinOf(E, i + j) = Further(E, WithinOf(E, i + (j - 1)))
    BY <2>3, WithinSteps
  <2>5. WithinOf(E, i + (j - 1)) \subseteq WithinOf(E, i + j)
    BY <2>4 DEF Further
  <2> QED
    BY <2>1, <2>3, <2>5
<1>2. k - i \in Nat /\ i + (k - i) = k
  OBVIOUS
<1> QED
  BY <1>1, <1>2

-----------------------------------------------------------------------------
(* The search of a node's neighbourhood. *)

\* An entry that waits for a node, with the hops to it.
Waits(node, hops) == \E j \in DOMAIN pending : pending[j] = <<node, hops>>

\* The entries are of nodes within their hops and in the order of their hops,
\* which differ by one at most.
QueueInOrder ==
    /\ \A j \in DOMAIN pending :
         pending[j][2] \in 1 .. maxHops /\ pending[j][1] \in WithinOf(enabled, pending[j][2])
    /\ \A i, j \in DOMAIN pending :
         /\ i < j => pending[i][2] <= pending[j][2]
         /\ pending[j][2] <= pending[i][2] + 1

\* A neighbour of a visited node that is within i links is visited or waits with
\* one link more at most.
FrontierWaits ==
    \A v \in visited, i \in Nat, m \in GraphNodes :
        i < maxHops /\ v \in WithinOf(enabled, i) /\ <<v, m>> \in enabled
            => m \in visited \/ \E h \in Nat : h <= i + 1 /\ Waits(m, h)

\* The inductive invariant of the search.
SearchInv ==
    /\ maxHops \in Nat /\ pending \in Seq(GraphNodes \X Nat)
    /\ maxHops = 0 => pending = <<>> /\ reachable = {}
    /\ maxHops # 0 =>
         /\ Source \in visited /\ reachable = visited \ {Source}
         /\ visited \subseteq WithinOf(enabled, maxHops)
         /\ QueueInOrder /\ FrontierWaits

\* While every entry has more hops, all nodes within i links are visited.
LEMMA NearVisited ==
    ASSUME Source \in visited, FrontierWaits, maxHops \in Nat, NEW k \in Nat, k <= maxHops,
           \A m : \A h \in Nat : Waits(m, h) => h > k
    PROVE  WithinOf(enabled, k) \subseteq visited
<1> DEFINE K == {i \in Nat : i <= k /\ ~(WithinOf(enabled, i) \subseteq visited)}
<1> SUFFICES ASSUME K # {}
             PROVE  FALSE
  OBVIOUS
<1>1. PICK i \in K : \A h \in K : i <= h
  <2> HIDE DEF K
  <2> QED
    BY LeastNumber DEF K
<1>2. i # 0
  BY <1>1, WithinSteps
<1>3. i - 1 \in Nat /\ i - 1 \notin K /\ (i - 1) + 1 = i /\ i - 1 < maxHops /\ i \in Nat /\ i <= k
  BY <1>1, <1>2
<1>4. WithinOf(enabled, i) = Further(enabled, WithinOf(enabled, i - 1))
  BY <1>3, WithinSteps
<1>5. WithinOf(enabled, i - 1) \subseteq visited
  BY <1>3
<1>6. PICK m \in WithinOf(enabled, i) : m \notin visited
  BY <1>1
<1>7. PICK v \in WithinOf(enabled, i - 1) : m \in GraphNodes /\ <<v, m>> \in enabled
  BY <1>4, <1>5, <1>6 DEF Further
<1>8. \E h \in Nat : h <= (i - 1) + 1 /\ Waits(m, h)
  BY <1>3, <1>5, <1>6, <1>7 DEF FrontierWaits
<1> QED
  BY <1>3, <1>8

\* The entries of a set of nodes: one of each, all with the same hops.
LEMMA QueuedEntries ==
    ASSUME NEW S \in SUBSET GraphNodes, NEW hops \in Nat, NEW q \in Queued(S, hops)
    PROVE  /\ q \in Seq(GraphNodes \X Nat)
           /\ \A j \in DOMAIN q : q[j][2] = hops /\ q[j][1] \in S
           /\ \A m \in S : \E j \in DOMAIN q : q[j] = <<m, hops>>
<1> DEFINE D == 1 .. Cardinality(S)
<1>1. IsFiniteSet(S) /\ Cardinality(S) \in Nat
  BY FS_Subset, FS_CardinalityType, ReachabilityAssumption
<1>2. PICK p \in [D -> S] :
          /\ \A i, j \in D : i # j => p[i] # p[j]
          /\ q = [i \in DOMAIN p |-> <<p[i], hops>>]
  BY DEF Queued, SetToSeqs
<1>3. p \in Injection(D, S)
  BY <1>2 DEF Injection, IsInjective
<1>4. Cardinality(D) = Cardinality(S)
  BY <1>1, FS_Interval
<1>5. p \in Surjection(D, S)
  BY <1>1, <1>3, <1>4, FS_Injection
<1>6. \A m \in S : \E j \in D : p[j] = m
  BY <1>5 DEF Surjection
<1>7. q \in [D -> GraphNodes \X Nat]
  BY <1>2
<1>8. q \in Seq(GraphNodes \X Nat)
  BY <1>1, <1>7
<1>9. DOMAIN q = D /\ \A j \in D : q[j] = <<p[j], hops>> /\ p[j] \in S
  BY <1>2
<1> HIDE DEF D
<1>10. \A j \in DOMAIN q : q[j][2] = hops /\ q[j][1] \in S
  BY <1>9
<1>11. \A m \in S : \E j \in DOMAIN q : q[j] = <<m, hops>>
  BY <1>6, <1>9
<1> QED
  BY <1>8, <1>10, <1>11

\* A search begins with the source visited and its neighbours waiting.
LEMMA SearchBegins == SearchInv /\ BeginSearch => SearchInv'
<1> SUFFICES ASSUME SearchInv, BeginSearch
             PROVE  SearchInv'
  OBVIOUS
<1> DEFINE S == {m \in GraphNodes : <<Source, m>> \in enabled'}
<1>1. maxHops' \in Nat \ {0} /\ visited' = {Source} /\ reachable' = {} /\ pending' \in Queued(S, 1)
  BY ReachabilityAssumption DEF SearchInv, BeginSearch
<1>2. /\ pending' \in Seq(GraphNodes \X Nat)
      /\ \A j \in DOMAIN pending' : pending'[j][2] = 1 /\ pending'[j][1] \in S
      /\ \A m \in S : \E j \in DOMAIN pending' : pending'[j] = <<m, 1>>
  <2>1. S \in SUBSET GraphNodes
    OBVIOUS
  <2> HIDE DEF S
  <2> QED
    BY <1>1, <2>1, QueuedEntries, ReachabilityAssumption
<1>3. WithinOf(enabled', 0) = {Source} /\ WithinOf(enabled', 1) = Further(enabled', {Source})
  BY WithinSteps
<1>4. S \subseteq WithinOf(enabled', 1)
  BY <1>3 DEF Further
<1>5. QueueInOrder'
  <2> HIDE DEF S
  <2>1. 1 \in 1 .. maxHops'
    BY <1>1
  <2> QED
    BY <1>2, <1>4, <2>1 DEF QueueInOrder
<1>6. FrontierWaits'
  BY <1>1, <1>2 DEF FrontierWaits, Waits
<1>7. visited' \subseteq WithinOf(enabled', maxHops')
  BY <1>1, <1>3, WithinGrows
<1> QED
  BY <1>1, <1>2, <1>5, <1>6, <1>7 DEF SearchInv

\* Taking the first node of the queue keeps the invariant: the node is near
\* enough, and its neighbours are put behind what waits already.
LEMMA SearchVisits == SearchInv /\ Visit => SearchInv'
<1> SUFFICES ASSUME SearchInv, Visit
             PROVE  SearchInv'
  OBVIOUS
<1> DEFINE target == Head(pending)[1]
           hops == Head(pending)[2]
           rest == Tail(pending)
<1>1. /\ maxHops \in Nat \ {0} /\ maxHops' = maxHops /\ enabled' = enabled
      /\ pending \in Seq(GraphNodes \X Nat) /\ pending # <<>>
      /\ Source \in visited /\ reachable = visited \ {Source}
      /\ visited \subseteq WithinOf(enabled, maxHops)
      /\ QueueInOrder /\ FrontierWaits
  BY DEF SearchInv, Visit
<1>2. /\ Len(pending) \in Nat \ {0} /\ DOMAIN pending = 1 .. Len(pending)
      /\ Head(pending) = pending[1]
      /\ rest \in Seq(GraphNodes \X Nat) /\ DOMAIN rest = 1 .. Len(pending) - 1
      /\ \A j \in DOMAIN rest : rest[j] = pending[j + 1] /\ j + 1 \in DOMAIN pending
  BY <1>1
<1>3. /\ target \in GraphNodes /\ hops \in 1 .. maxHops /\ hops \in Nat /\ pending[1] = <<target, hops>>
      /\ target \in WithinOf(enabled, hops)
  <2>1. pending[1] \in GraphNodes \X Nat /\ 1 \in DOMAIN pending
    BY <1>1, <1>2
  <2> QED
    BY <1>1, <2>1 DEF QueueInOrder
<1>4. \A m, h : Waits(m, h) => <<m, h>> = <<target, hops>> \/ \E j \in DOMAIN rest : rest[j] = <<m, h>>
  <2> SUFFICES ASSUME NEW m, NEW h, NEW j \in DOMAIN pending, pending[j] = <<m, h>>
               PROVE  <<m, h>> = <<target, hops>> \/ \E i \in DOMAIN rest : rest[i] = <<m, h>>
    BY DEF Waits
  <2>1. CASE j = 1
    BY <1>3, <2>1
  <2>2. CASE j # 1
    <3>1. j - 1 \in DOMAIN rest /\ (j - 1) + 1 = j
      BY <1>2, <2>2
    <3> QED
      BY <1>2, <3>1
  <2> QED
    BY <2>1, <2>2
<1>5. /\ \A j \in DOMAIN rest :
           /\ rest[j][2] \in hops .. hops + 1 /\ rest[j][2] <= maxHops
           /\ rest[j][1] \in WithinOf(enabled, rest[j][2])
      /\ \A i, j \in DOMAIN rest : i < j => rest[i][2] <= rest[j][2]
  <2>1. ASSUME NEW j \in DOMAIN rest
        PROVE  /\ rest[j][2] \in hops .. hops + 1 /\ rest[j][2] <= maxHops
               /\ rest[j][1] \in WithinOf(enabled, rest[j][2])
    <3>1. rest[j] = pending[j + 1] /\ j + 1 \in DOMAIN pending /\ 1 \in DOMAIN pending /\ 1 < j + 1
      BY <1>2
    <3>2. pending[j + 1][2] \in 1 .. maxHops /\ pending[j + 1][1] \in WithinOf(enabled, pending[j + 1][2])
      BY <1>1, <3>1 DEF QueueInOrder
    <3>3. pending[1][2] <= pending[j + 1][2] /\ pending[j + 1][2] <= pending[1][2] + 1
      BY <1>1, <3>1 DEF QueueInOrder
    <3> QED
      BY <1>2, <1>3, <3>1, <3>2, <3>3
  <2>2. ASSUME NEW i \in DOMAIN rest, NEW j \in DOMAIN rest, i < j
        PROVE  rest[i][2] <= rest[j][2]
    <3>1. /\ rest[j] = pending[j + 1] /\ j + 1 \in DOMAIN pending
          /\ rest[i] = pending[i + 1] /\ i + 1 \in DOMAIN pending /\ i + 1 < j + 1
      BY <1>2, <2>2
    <3> QED
      BY <1>1, <3>1 DEF QueueInOrder
  <2> QED
    BY <2>1, <2>2
<1> HIDE DEF target, hops, rest
<1>6. CASE target \in visited
  <2>1. pending' = rest /\ visited' = visited /\ reachable' = reachable
    BY <1>2, <1>3, <1>6 DEF Visit, target, rest
  <2>2. QueueInOrder'
    <3>1. \A j \in DOMAIN rest : rest[j][2] \in Nat /\ rest[j][2] >= hops /\ rest[j][2] <= hops + 1
      BY <1>3, <1>5
    <3> QED
      BY <1>1, <1>3, <1>5, <2>1, <3>1 DEF QueueInOrder
  <2>3. \A m, h : Waits(m, h) => m \in visited \/ Waits(m, h)'
    BY <1>4, <1>6, <2>1 DEF Waits
  <2>4. FrontierWaits'
    BY <1>1, <2>1, <2>3 DEF FrontierWaits
  <2> QED
    BY <1>1, <1>2, <2>1, <2>2, <2>4 DEF SearchInv
<1>7. CASE target \notin visited
  <2> DEFINE S == Adjacency(target) \ visited'
  <2>1. visited' = visited \cup {target} /\ reachable' = reachable \cup {target}
    BY <1>2, <1>7 DEF Visit, target
  <2>2. \/ hops < maxHops /\ \E q \in Queued(S, hops + 1) : pending' = rest \o q
        \/ hops = maxHops /\ pending' = rest
    <3>1. IF hops < maxHops THEN \E q \in Queued(S, hops + 1) : pending' = rest \o q
                            ELSE pending' = rest
      BY <1>7 DEF Visit, target, hops, rest
    <3> HIDE DEF S
    <3>2. hops < maxHops \/ hops = maxHops
      BY <1>1, <1>3
    <3> QED
      BY <1>1, <3>1, <3>2
  <2>3. PICK q \in Seq(GraphNodes \X Nat) :
          /\ pending' = rest \o q
          /\ \A j \in DOMAIN q : hops < maxHops /\ q[j][2] = hops + 1 /\ q[j][1] \in S
          /\ hops < maxHops => \A m \in S : \E j \in DOMAIN q : q[j] = <<m, hops + 1>>
    <3>1. CASE hops < maxHops
      <4>1. PICK q \in Queued(S, hops + 1) : pending' = rest \o q
        <5> HIDE DEF S
        <5> QED
          BY <1>1, <1>3, <2>2, <3>1
      <4>2. S \in SUBSET GraphNodes /\ hops + 1 \in Nat
        BY <1>3 DEF Adjacency
      <4> HIDE DEF S
      <4>3. /\ q \in Seq(GraphNodes \X Nat)
            /\ \A j \in DOMAIN q : q[j][2] = hops + 1 /\ q[j][1] \in S
            /\ \A m \in S : \E j \in DOMAIN q : q[j] = <<m, hops + 1>>
        BY <4>1, <4>2, QueuedEntries
      <4> QED
        BY <3>1, <4>1, <4>3
    <3>2. CASE hops = maxHops
      <4>1. pending' = rest \o <<>> /\ <<>> \in Seq(GraphNodes \X Nat)
        BY <1>2, <1>3, <2>2, <3>2
      <4>2. ~(hops < maxHops) /\ \A j : j \notin DOMAIN <<>>
        BY <1>1, <1>3, <3>2
      <4> HIDE DEF S
      <4> QED
        BY <4>1, <4>2, Zenon
    <3> QED
      BY <2>2, <3>1, <3>2
  <2> HIDE DEF S
  <2>4. /\ pending' \in Seq(GraphNodes \X Nat)
        /\ DOMAIN pending' = 1 .. Len(rest) + Len(q)
        /\ Len(rest) \in Nat /\ Len(q) \in Nat /\ DOMAIN rest = 1 .. Len(rest) /\ DOMAIN q = 1 .. Len(q)
        /\ \A j \in DOMAIN pending' :
             pending'[j] = IF j <= Len(rest) THEN rest[j] ELSE q[j - Len(rest)]
    <3>1. rest \in Seq(GraphNodes \X Nat) /\ q \in Seq(GraphNodes \X Nat) /\ pending' = rest \o q
      BY <1>2, <2>3
    <3> HIDE DEF rest
    <3> QED
      BY <3>1, ConcatProperties, LenProperties
  <2>5. \A j \in DOMAIN pending' : \/ j \in DOMAIN rest /\ pending'[j] = rest[j]
                                   \/ /\ j > Len(rest) /\ j - Len(rest) \in DOMAIN q
                                      /\ pending'[j] = q[j - Len(rest)]
    BY <2>4
  <2>6. \A m, h : (\E j \in DOMAIN rest : rest[j] = <<m, h>>) => Waits(m, h)'
    <3>1. \A j \in DOMAIN rest : j \in DOMAIN pending' /\ pending'[j] = rest[j]
      BY <2>4
    <3> QED
      BY <3>1 DEF Waits
  <2>7. \A m, h : (\E j \in DOMAIN q : q[j] = <<m, h>>) => Waits(m, h)'
    <3> SUFFICES ASSUME NEW m, NEW h, NEW j \in DOMAIN q, q[j] = <<m, h>>
                 PROVE  \E i \in DOMAIN pending' : pending'[i] = <<m, h>>
      BY DEF Waits
    <3>1. /\ j + Len(rest) \in DOMAIN pending' /\ ~(j + Len(rest) <= Len(rest))
          /\ (j + Len(rest)) - Len(rest) = j
      BY <2>4
    <3>2. pending'[j + Len(rest)] = q[j]
      BY <2>4, <3>1
    <3> QED
      BY <3>1, <3>2
  <2>8. S \subseteq WithinOf(enabled, hops + 1)
    <3>1. WithinOf(enabled, hops + 1) = Further(enabled, WithinOf(enabled, hops))
      BY <1>3, WithinSteps
    <3> QED
      BY <1>3, <3>1 DEF S, Adjacency, Further
  <2>9. QueueInOrder'
    <3>1. ASSUME NEW j \in DOMAIN pending'
          PROVE  /\ pending'[j][2] \in hops .. hops + 1 /\ pending'[j][2] <= maxHops
                 /\ pending'[j][1] \in WithinOf(enabled, pending'[j][2])
                 /\ j > Len(rest) => pending'[j][2] = hops + 1
      <4>1. CASE j \in DOMAIN rest /\ pending'[j] = rest[j]
        BY <1>5, <2>4, <4>1
      <4>2. CASE j > Len(rest) /\ j - Len(rest) \in DOMAIN q /\ pending'[j] = q[j - Len(rest)]
        <5>1. /\ pending'[j][2] = hops + 1 /\ pending'[j][1] \in S /\ hops < maxHops
          BY <2>3, <4>2
        <5> QED
          BY <1>1, <1>3, <2>8, <5>1
      <4> QED
        BY <2>5, <4>1, <4>2
    <3>2. ASSUME NEW i \in DOMAIN pending', NEW j \in DOMAIN pending', i < j
          PROVE  pending'[i][2] <= pending'[j][2]
      <4>1. CASE j > Len(rest)
        BY <1>3, <3>1, <4>1
      <4>2. CASE j <= Len(rest)
        BY <1>5, <2>4, <3>2, <4>2
      <4> QED
        BY <2>4, <4>1, <4>2
    <3>3. ASSUME NEW i \in DOMAIN pending', NEW j \in DOMAIN pending'
          PROVE  pending'[j][2] <= pending'[i][2] + 1
      BY <1>3, <3>1
    <3> QED
      BY <1>1, <1>3, <3>1, <3>2, <3>3 DEF QueueInOrder
  <2>10. \A m, h : Waits(m, h) => m \in visited' \/ Waits(m, h)'
    BY <1>4, <2>1, <2>6
  <2>11. ASSUME NEW i \in Nat, i < maxHops, target \in WithinOf(enabled, i)
         PROVE  hops <= i
    <3> SUFFICES ASSUME i < hops
                 PROVE  FALSE
      BY <1>3
    <3>1. \A m : \A h \in Nat : Waits(m, h) => h > i
      <4> SUFFICES ASSUME NEW m, NEW h \in Nat, Waits(m, h)
                   PROVE  h > i
        OBVIOUS
      <4>1. CASE <<m, h>> = <<target, hops>>
        BY <4>1
      <4>2. CASE \E j \in DOMAIN rest : rest[j] = <<m, h>>
        BY <1>3, <1>5, <4>2
      <4> QED
        BY <1>4, <4>1, <4>2
    <3>2. i <= maxHops
      BY <1>1, <2>11
    <3>3. WithinOf(enabled, i) \subseteq visited
      BY <1>1, <3>1, <3>2, NearVisited
    <3> QED
      BY <1>7, <2>11, <3>3
  <2>12. FrontierWaits'
    <3> SUFFICES ASSUME NEW v \in visited', NEW i \in Nat, NEW m \in GraphNodes, i < maxHops,
                        v \in WithinOf(enabled, i), <<v, m>> \in enabled
                 PROVE  m \in visited' \/ \E h \in Nat : h <= i + 1 /\ Waits(m, h)'
      BY <1>1 DEF FrontierWaits
    <3>1. CASE v = target
      <4>1. hops <= i /\ hops < maxHops
        BY <1>1, <1>3, <2>11, <3>1
      <4>2. m \in visited' \/ m \in S
        BY <3>1 DEF S, Adjacency
      <4>3. PICK h \in Nat : h = hops + 1 /\ h <= i + 1
        BY <1>3, <4>1
      <4>4. m \in S => Waits(m, h)'
        BY <2>3, <2>7, <4>1, <4>3
      <4> QED
        BY <4>2, <4>3, <4>4
    <3>2. CASE v \in visited
      BY <1>1, <2>1, <2>10, <3>2 DEF FrontierWaits
    <3> QED
      BY <2>1, <3>1, <3>2
  <2>13. visited' \subseteq WithinOf(enabled, maxHops)
    BY <1>1, <1>3, <2>1, WithinGrows
  <2>14. reachable' = visited' \ {Source}
    BY <1>1, <1>7, <2>1
  <2> QED
    BY <1>1, <2>1, <2>4, <2>9, <2>12, <2>13, <2>14 DEF SearchInv
<1> QED
  BY <1>6, <1>7

\* Every step keeps the invariant.
LEMMA SearchStep == SearchInv /\ [SearchNext]_search => SearchInv'
<1> SUFFICES ASSUME SearchInv, [SearchNext]_search
             PROVE  SearchInv'
  OBVIOUS
<1>1. CASE UNCHANGED search
  BY <1>1 DEF search, SearchInv, QueueInOrder, FrontierWaits, Waits
<1> QED
  BY <1>1, SearchBegins, SearchVisits DEF SearchNext

\* When nothing waits any more, everything near enough was visited.
LEMMA FinishedIsExact == SearchInv => ReachabilityExact
<1> SUFFICES ASSUME SearchInv, maxHops # 0, pending = <<>>
             PROVE  reachable = WithinOf(enabled, maxHops) \ {Source}
  BY WithinIs DEF ReachabilityExact
<1>1. \A m, h : ~Waits(m, h)
  BY DEF Waits
<1>2. WithinOf(enabled, maxHops) \subseteq visited
  BY <1>1, NearVisited DEF SearchInv
<1> QED
  BY <1>2 DEF SearchInv

\* What get_reachable_nodes returns when its queue is empty is exactly the
\* nodes other than the source that a path of at most max_hops enabled links
\* reaches, for any graph, any source and any number of hops: the search visits a
\* node on the first entry it meets, which is one of a shortest path because the
\* queue is in the order of the hops.
THEOREM SearchFindsAll == SearchSpec => []ReachabilityExact
<1>1. SearchInit => SearchInv
  BY DEF SearchInit, SearchInv
<1> QED
  BY <1>1, SearchStep, FinishedIsExact, PTL DEF SearchSpec
=============================================================================

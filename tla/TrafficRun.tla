----------------------------- MODULE TrafficRun -----------------------------
(***************************************************************************)
(* The life of a traffic run: TrafficController.start, _run, stop, fail and *)
(* _finish (backend/app/traffic/controller.py), the persistence thread, and *)
(* what SimulatorService keeps of a run once its controller is gone         *)
(* (service.py: teardown, volatile archive, late finalization).             *)
(*                                                                          *)
(* start_traffic, stop_traffic and teardown run under the topology lock     *)
(* (module Lifecycle), so one caller at a time drives the controllers; the  *)
(* run task, the persistence thread and late finalization run beside it.    *)
(***************************************************************************)
EXTENDS Naturals, Sequences, FiniteSets, SequencesExt

CONSTANTS
    Controllers,   \* TrafficController objects alive at the same time
    MaxRuns,       \* bound: runs started in a behaviour
    MaxVolatile,   \* MAX_VOLATILE_RESULTS
    None

Runs == 1 .. MaxRuns
Terminal == {"COMPLETED", "CANCELLED", "FAILED"}
RunStates == {"IDLE", "RUNNING", "STOPPING"} \cup Terminal
Failures == {"none", "exception", "runtime", "persistence"}
Results == [run : Runs, state : Terminal, failure : Failures]
Summaries == [run : Runs, state : RunStates, failure : Failures]

ASSUME TrafficRunAssumption ==
    /\ MaxRuns \in Nat
    /\ MaxVolatile \in Nat \ {0}
    /\ None \notin Controllers /\ None \notin Summaries

VARIABLES
    ctl,       \* ctl[c]: the fields of controller c
    current,   \* SimulatorService.traffic
    op,        \* the call in progress: "none", "stop", "teardown", "failure"
    on,        \* the controller it was made on
    pc,        \* where it is suspended
    started,   \* number of runs started so far
    resultFile,  \* resultFile[r]: {run}.json
    summaryFile, \* summaryFile[r]: {run}.summary.json
    volatile,  \* _volatile_results, oldest first
    evicted,   \* runs popped from _volatile_results
    last,      \* _last_traffic_summary
    late       \* controllers with a late-finalization task

vars == <<ctl, current, op, on, pc, started, resultFile, summaryFile,
          volatile, evicted, last, late>>
disk == <<resultFile, summaryFile>>
archive == <<volatile, evicted>>
caller == <<op, on, pc>>

\* A controller as its constructor leaves it.  "failure" is current.failure;
\* "fin" is the progress of _finish, for the run task or for the caller.
NewController ==
    [state |-> "IDLE", run |-> 0, failure |-> "none", frozen |-> None,
     done |-> TRUE, timedOut |-> FALSE, task |-> "none",
     fin |-> "idle", finisher |-> "none", terminal |-> None]

Init ==
    /\ ctl = [c \in Controllers |-> NewController]
    /\ current = None
    /\ op = "none" /\ on = None /\ pc = "idle"
    /\ started = 0
    /\ resultFile = [r \in Runs |-> None]
    /\ summaryFile = [r \in Runs |-> None]
    /\ volatile = <<>>
    /\ evicted = {}
    /\ last = None
    /\ late = {}

-----------------------------------------------------------------------------
(* What the service keeps of a run *)

\* summary(): the frozen result once there is one, else the live fields.
Summary(c) ==
    IF ctl[c].run = 0 THEN None
    ELSE IF ctl[c].frozen # None THEN ctl[c].frozen
    ELSE [run |-> ctl[c].run, state |-> ctl[c].state, failure |-> ctl[c].failure]

VolatileRuns == {volatile[i].run : i \in DOMAIN volatile}

\* _archive_unpersisted_traffic_result: only a frozen result with no file; the
\* oldest entries go beyond the limit.
Archive(c) ==
    IF /\ ctl[c].frozen # None
       /\ resultFile[ctl[c].run] = None
       /\ ctl[c].run \notin VolatileRuns
    THEN LET kept == Append(volatile, ctl[c].frozen)
             excess == IF Len(kept) > MaxVolatile THEN Len(kept) - MaxVolatile ELSE 0
         IN  /\ volatile' = SubSeq(kept, excess + 1, Len(kept))
             /\ evicted' = evicted \cup {kept[i].run : i \in 1 .. excess}
    ELSE UNCHANGED archive

-----------------------------------------------------------------------------
(* _finish: metrics thread, persistence thread, freeze *)

\* Mutant: the terminal state is published before persistence.
FinishPublishesEarly(k, by, target) ==
    [k EXCEPT !.done = FALSE, !.fin = "metrics", !.finisher = by, !.state = target,
              !.terminal = [run |-> k.run, state |-> target, failure |-> k.failure]]

\* The first step of _finish; the caller has checked that no other _finish is
\* under way and that nothing is frozen yet.
FinishFields(k, by, target) ==
    [k EXCEPT !.done = FALSE, !.fin = "metrics", !.finisher = by,
              !.terminal = [run |-> k.run, state |-> target, failure |-> k.failure]]

MetricsComputed(c) ==
    /\ ctl[c].fin = "metrics"
    /\ ctl' = [ctl EXCEPT ![c] = [@ EXCEPT
           !.fin = "write", !.terminal = [ctl[c].terminal EXCEPT !.failure = ctl[c].failure]]]
    /\ UNCHANGED <<current, caller, started, disk, archive, last, late>>

\* _freeze_and_persist: the two temporary files are written, then renamed.
RenameResult(c) ==
    /\ ctl[c].fin = "write"
    /\ resultFile' = [resultFile EXCEPT ![ctl[c].run] = ctl[c].terminal]
    /\ ctl' = [ctl EXCEPT ![c].fin = "summary"]
    /\ UNCHANGED <<current, caller, started, summaryFile, archive, last, late>>

RenameSummary(c) ==
    /\ ctl[c].fin = "summary"
    /\ summaryFile' = [summaryFile EXCEPT ![ctl[c].run] = ctl[c].terminal]
    /\ ctl' = [ctl EXCEPT ![c].fin = "freeze"]
    /\ UNCHANGED <<current, caller, started, resultFile, archive, last, late>>

\* unlink of run r's file, with an OSError suppressed.
Unlink(files, r) == {files, [files EXCEPT ![r] = None]}

\* An OSError while writing or renaming: the files of the run are unlinked, each
\* if it can be, and the result becomes FAILED.  A file that could not be
\* unlinked still holds the result as it was to be.
PersistFails(c) ==
    /\ ctl[c].fin \in {"write", "summary"}
    /\ resultFile' \in Unlink(resultFile, ctl[c].run)
    /\ summaryFile' \in Unlink(summaryFile, ctl[c].run)
    /\ ctl' = [ctl EXCEPT ![c] = [@ EXCEPT
           !.fin = "freeze",
           !.terminal = [ctl[c].terminal EXCEPT !.state = "FAILED", !.failure = "persistence"]]]
    /\ UNCHANGED <<current, caller, started, archive, last, late>>

\* Result, state and phase become terminal together; waiters are released.
Freeze(c) ==
    /\ ctl[c].fin = "freeze"
    /\ ctl' = [ctl EXCEPT ![c] = [@ EXCEPT
           !.frozen = ctl[c].terminal, !.failure = ctl[c].terminal.failure,
           !.state = ctl[c].terminal.state, !.terminal = None,
           !.done = TRUE, !.fin = "idle", !.finisher = "none",
           !.task = IF ctl[c].finisher = "task" THEN "done" ELSE ctl[c].task]]
    /\ UNCHANGED <<current, caller, started, disk, archive, last, late>>

-----------------------------------------------------------------------------
(* _run: the run task *)

Generated(c) ==
    /\ ctl[c].task = "generating"
    /\ ctl' = [ctl EXCEPT ![c].task = "draining"]
    /\ UNCHANGED <<current, caller, started, disk, archive, last, late>>

Drained(c) ==
    /\ ctl[c].task = "draining"
    /\ ctl' = [ctl EXCEPT ![c].task = "sampling"]
    /\ UNCHANGED <<current, caller, started, disk, archive, last, late>>

\* The final sample is in: the run finishes as COMPLETED.
RunCompletes(c) ==
    /\ ctl[c].task = "sampling"
    /\ ctl' = [ctl EXCEPT ![c] =
                 FinishFields([@ EXCEPT !.task = "finishing"], "task", "COMPLETED")]
    /\ UNCHANGED <<current, caller, started, disk, archive, last, late>>

\* An exception while generating or draining: STOPPING, then FAILED.
RunRaises(c) ==
    /\ ctl[c].task \in {"generating", "draining"}
    /\ ctl' = [ctl EXCEPT ![c] =
                 FinishFields([@ EXCEPT !.task = "finishing", !.state = "STOPPING",
                                        !.failure = "exception"], "task", "FAILED")]
    /\ UNCHANGED <<current, caller, started, disk, archive, last, late>>

-----------------------------------------------------------------------------
(* Calls.  A call on controller c is suspended at pc; "finish" means inside  *)
(* its own _finish.                                                          *)

Suspend(label) == pc' = label /\ UNCHANGED <<op, on>>

\* stop() answered ok.  For a teardown, _cleanup_resources_unlocked keeps the
\* summary, archives a finalized result or tracks the late one, and goes on to
\* stop medium, gateways and processes.
StopReturns(c, ok) ==
    \/ /\ op = "stop"
       /\ op' = "none" /\ on' = None /\ pc' = "idle"
       /\ UNCHANGED <<archive, last, late>>
    \/ /\ op # "stop"
       /\ last' = Summary(c)
       /\ Suspend("dismantle")
       /\ IF ok THEN Archive(c) /\ UNCHANGED late
                ELSE late' = late \cup {c} /\ UNCHANGED archive

\* What stop() does once no _finish is under way.
StopBody(c) ==
    \/ /\ ctl[c].state # "FAILED"
       /\ ctl[c].task \in {"none", "done"}
       /\ StopReturns(c, TRUE)
       /\ UNCHANGED ctl
    \/ /\ ctl[c].state = "FAILED" \/ ctl[c].task \notin {"none", "done"}
       /\ ctl' = [ctl EXCEPT ![c].state = IF @ = "FAILED" THEN @ ELSE "STOPPING",
                             ![c].task = "done"]
       /\ Suspend("stopSample")
       /\ UNCHANGED <<archive, last, late>>

\* Mutant: a stop that gives up waiting reports the run as finalized.
StopEntryOptimistic(c) ==
    \/ /\ ctl[c].frozen # None \/ ~ctl[c].done
       /\ StopReturns(c, TRUE)
       /\ UNCHANGED ctl
    \/ /\ ctl[c].frozen = None /\ ctl[c].done
       /\ StopBody(c)

StopEntry(c) ==
    \/ /\ ctl[c].frozen # None
       /\ StopReturns(c, TRUE)
       /\ UNCHANGED ctl
    \/ /\ ctl[c].frozen = None
       /\ ctl[c].done
       /\ StopBody(c)
    \/ /\ ctl[c].frozen = None
       /\ ~ctl[c].done
       /\ ctl[c].timedOut
       /\ StopReturns(c, FALSE)
       /\ UNCHANGED ctl
    \/ /\ ctl[c].frozen = None
       /\ ~ctl[c].done
       /\ ~ctl[c].timedOut
       /\ Suspend("stopWait")
       /\ UNCHANGED <<ctl, archive, last, late>>

FailBody(c) ==
    \/ /\ ctl[c].state \notin {"RUNNING", "STOPPING", "FAILED"}
       /\ Suspend("stop")
       /\ UNCHANGED ctl
    \/ /\ ctl[c].state \in {"RUNNING", "STOPPING", "FAILED"}
       /\ ctl' = [ctl EXCEPT ![c] = [@ EXCEPT
              !.state = "STOPPING", !.failure = "runtime", !.task = "done",
              !.frozen = IF ctl[c].frozen = None THEN None  \* current is the frozen result
                         ELSE [ctl[c].frozen EXCEPT !.failure = "runtime"]]]
       /\ Suspend("failSample")

FailEntry(c) ==
    \/ /\ ctl[c].done
       /\ FailBody(c)
    \/ /\ ~ctl[c].done
       /\ Suspend(IF ctl[c].timedOut THEN "stop" ELSE "failWait")
       /\ UNCHANGED ctl

-----------------------------------------------------------------------------

\* start_traffic(): archive what the controller is about to forget, then start.
StartTraffic ==
    /\ op = "none" /\ current # None
    /\ started < MaxRuns
    /\ ctl[current].state \notin {"RUNNING", "STOPPING"}
    /\ ctl[current].task \in {"none", "done"}
    /\ Archive(current)
    /\ started' = started + 1
    /\ ctl' = [ctl EXCEPT ![current] = [@ EXCEPT
           !.state = "RUNNING", !.run = started + 1, !.failure = "none",
           !.frozen = None, !.timedOut = FALSE, !.task = "generating"]]
    /\ UNCHANGED <<current, caller, disk, last, late>>

\* stop_traffic(), a teardown by stop(), and one by the failure task.
BeginCall(kind) ==
    /\ op = "none" /\ current # None
    /\ op' = kind /\ on' = current
    /\ pc' = IF kind = "failure" THEN "fail" ELSE "stop"
    /\ UNCHANGED <<ctl, current, started, disk, archive, last, late>>

CallStep(c) ==
    \/ /\ pc = "fail"
       /\ FailEntry(c)
       /\ UNCHANGED <<archive, last, late>>
    \/ /\ pc = "failWait" /\ ctl[c].done
       /\ FailBody(c)
       /\ UNCHANGED <<archive, last, late>>
    \/ /\ pc = "failSample"
       /\ IF ctl[c].frozen = None
          THEN /\ ctl' = [ctl EXCEPT ![c] = FinishFields(@, "caller", "FAILED")]
               /\ Suspend("failFinish")
          ELSE /\ Suspend("stop") /\ UNCHANGED ctl
       /\ UNCHANGED <<archive, last, late>>
    \/ /\ pc = "failFinish" /\ ctl[c].done
       /\ Suspend("stop")
       /\ UNCHANGED <<ctl, archive, last, late>>
    \/ /\ pc = "stop"
       /\ StopEntry(c)
    \/ /\ pc = "stopWait" /\ ctl[c].done
       /\ StopBody(c)
    \/ /\ pc = "stopSample"
       /\ IF ctl[c].frozen = None
          THEN /\ ctl' = [ctl EXCEPT ![c] = FinishFields(@, "caller",
                            IF @.state = "FAILED" THEN "FAILED" ELSE "CANCELLED")]
               /\ Suspend("stopFinish")
               /\ UNCHANGED <<archive, last, late>>
          ELSE /\ StopReturns(c, TRUE) /\ UNCHANGED ctl
    \/ /\ pc = "stopFinish" /\ ctl[c].done
       /\ StopReturns(c, TRUE)
       /\ UNCHANGED ctl

Call ==
    /\ op # "none"
    /\ CallStep(on)
    /\ UNCHANGED <<current, started, disk>>

\* The five-second wait for another _finish runs out, and stays run out.
WaitTimesOut ==
    /\ pc \in {"stopWait", "failWait"}
    /\ ~ctl[on].done
    /\ ctl' = [ctl EXCEPT ![on].timedOut = TRUE]
    /\ \/ pc = "failWait" /\ Suspend("stop") /\ UNCHANGED <<archive, last, late>>
       \/ pc = "stopWait" /\ StopReturns(on, FALSE)
    /\ UNCHANGED <<current, started, disk>>

\* The rest of the teardown: self.traffic = None.
Dismantled ==
    /\ pc = "dismantle"
    /\ current' = None
    /\ op' = "none" /\ on' = None /\ pc' = "idle"
    /\ UNCHANGED <<ctl, started, disk, archive, last, late>>

\* The next start() builds a controller; an object no task refers to is free.
BuildController(c) ==
    /\ op = "none" /\ current = None
    /\ c \notin late
    /\ ctl' = [ctl EXCEPT ![c] = NewController]
    /\ current' = c
    /\ UNCHANGED <<caller, started, disk, archive, last, late>>

\* Mutant: a late run's summary is not refreshed.
SettleLateKeepsSummary(c) ==
    /\ c \in late
    /\ ctl[c].done
    /\ Archive(c)
    /\ late' = late \ {c}
    /\ UNCHANGED <<ctl, current, caller, started, disk, last>>

\* _settle_late_traffic_finalization
SettleLate(c) ==
    /\ c \in late
    /\ ctl[c].done
    /\ last' = IF last = None \/ last.run = ctl[c].run THEN Summary(c) ELSE last
    /\ Archive(c)
    /\ late' = late \ {c}
    /\ UNCHANGED <<ctl, current, caller, started, disk>>

-----------------------------------------------------------------------------

RunTask(c) == Generated(c) \/ Drained(c) \/ RunCompletes(c) \/ RunRaises(c)
Finishing(c) ==
    \/ MetricsComputed(c) \/ RenameResult(c) \/ RenameSummary(c)
    \/ PersistFails(c) \/ Freeze(c)
CallerStep == Call \/ WaitTimesOut \/ Dismantled

Next ==
    \/ StartTraffic
    \/ \E kind \in {"stop", "teardown", "failure"} : BeginCall(kind)
    \/ CallerStep
    \/ \E c \in Controllers :
         RunTask(c) \/ Finishing(c) \/ BuildController(c) \/ SettleLate(c)

\* A run's schedule, drain and sampling are bounded in time, worker threads
\* finish, and the event loop runs every task that is ready.
Fairness ==
    /\ WF_vars(CallerStep)
    /\ \A c \in Controllers :
         WF_vars(RunTask(c)) /\ WF_vars(Finishing(c)) /\ WF_vars(SettleLate(c))

Spec == Init /\ [][Next]_vars
FairSpec == Spec /\ Fairness

-----------------------------------------------------------------------------
(* Properties *)

Fields == [state : RunStates, run : {0} \cup Runs, failure : Failures,
           frozen : Results \cup {None}, done : BOOLEAN, timedOut : BOOLEAN,
           task : {"none", "generating", "draining", "sampling", "finishing", "done"},
           fin : {"idle", "metrics", "write", "summary", "freeze"},
           finisher : {"none", "task", "caller"}, terminal : Results \cup {None}]

\* Every field holds a value of its kind.
TypeOK ==
    /\ ctl \in [Controllers -> Fields]
    /\ current \in Controllers \cup {None}
    /\ op \in {"none", "stop", "teardown", "failure"}
    /\ on \in Controllers \cup {None}
    /\ pc \in {"idle", "stop", "stopWait", "stopSample", "stopFinish",
               "fail", "failWait", "failSample", "failFinish", "dismantle"}
    /\ started \in 0 .. MaxRuns
    /\ resultFile \in [Runs -> Results \cup {None}]
    /\ summaryFile \in [Runs -> Results \cup {None}]
    /\ volatile \in Seq(Results)
    /\ evicted \subseteq Runs
    /\ last \in Summaries \cup {None}
    /\ late \subseteq Controllers

\* "A terminal status and export readiness are one API invariant": a run is
\* exportable (result_is_finalized) exactly when its state is terminal.
ExportIffTerminal ==
    \A c \in Controllers : ctl[c].run # 0 =>
        (ctl[c].frozen # None <=> ctl[c].state \in Terminal)

\* No run is forgotten: it is still held by the current controller, by one a
\* late-finalization task waits for, on disk, or among the retained unpersisted
\* results, unless newer unpersisted results pushed it out.  A summary on disk
\* always has its result: a crash between the two renames leaves a run that can
\* still be exported (_freeze_and_persist).
NoRunLost ==
    /\ \A r \in 1 .. started :
        \/ resultFile[r] # None
        \/ r \in VolatileRuns \cup evicted
        \/ \E c \in late \cup ({current} \ {None}) : ctl[c].run = r
    /\ \A r \in Runs : summaryFile[r] # None => resultFile[r] = summaryFile[r]

\* The controllers whose runs are not yet left to the disk and the archive: the
\* current one, and those a late-finalization task waits for.
Holding == late \cup ({current} \ {None})

\* The outcome of run r: the frozen result or the live state of the controller
\* that holds it (for the current one: what the API answers), and once none does
\* what the API reads, the disk before the retained results (traffic_result).
RunOutcome(r) ==
    LET holders == {c \in Holding : ctl[c].run = r}
        live(c) == IF ctl[c].frozen # None THEN ctl[c].frozen.state ELSE ctl[c].state
        archived == {i \in DOMAIN volatile : volatile[i].run = r}
    IN  IF r > started THEN "none"
        ELSE IF r \in evicted THEN "forgotten"
        ELSE IF holders # {} THEN
            LET c == CHOOSE c \in holders : TRUE
            IN  IF live(c) \in Terminal THEN live(c) ELSE "active"
        ELSE IF resultFile[r] # None THEN resultFile[r].state
        ELSE IF archived # {} THEN volatile[CHOOSE i \in archived : TRUE].state
        ELSE "active"

OutcomeOfRuns == [r \in Runs |-> RunOutcome(r)]

\* What the files say of the runs that have an outcome.
FilesOfRuns ==
    [r \in Runs |-> IF RunOutcome(r) \in Terminal /\ resultFile[r] # None
                    THEN resultFile[r].state ELSE "none"]

Promise == INSTANCE RunContract WITH
    Outcomes <- Terminal, outcome <- OutcomeOfRuns, file <- FilesOfRuns

\* The controllers, the disk and the archive together implement the contract of
\* a run: the terminal state a run shows is final ("The controller does not
\* publish a terminal state until persistence finishes"), its file and the
\* archive say the same, and none is given up but an unsaved one, whatever
\* stops, failures and timeouts overlap its finalization.  The one exception: a
\* run that is FAILED because of a write error whose file could not be unlinked
\* may, once its controller is gone, become what that file says.
ImplementsContract == Promise!Spec

\* Every run that was started ends, and after a teardown the last summary does
\* not keep reporting a run as active: it becomes terminal or makes room for
\* another run's (_settle_late_traffic_finalization).
RunsSettle ==
    /\ Promise!Ends
    /\ \A r \in Runs :
         (last # None /\ last.run = r) ~>
             (last = None \/ last.run # r \/ last.state \in Terminal)
=============================================================================

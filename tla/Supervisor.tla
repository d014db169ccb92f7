----------------------------- MODULE Supervisor -----------------------------
(***************************************************************************)
(* NativeProcessSupervisor (backend/app/runtime/processes.py): it starts    *)
(* one firmware child per node, watches each child's exit, drains its       *)
(* output, and stops all of them with a deadline.  start and stop run under *)
(* one lock; the tasks of the children run beside them, and children exit   *)
(* or ignore signals as they like.                                          *)
(*                                                                          *)
(* Of the two streams of a child one is modelled, and lines are numbered in *)
(* the order in which the child writes them.  What write_line does to the   *)
(* file is module BoundedLog.                                               *)
(***************************************************************************)
EXTENDS Naturals, Sequences, FiniteSets, FiniteSetsExt, SequencesExt

CONSTANTS
    NodeSeq,     \* the nodes in the scenario's order
    RecentLines, \* maxlen of the deques stdout_lines and stderr_lines
    MaxLines     \* bound: lines a child writes

Nodes == Range(NodeSeq)

ASSUME SupervisorAssumption ==
    /\ NodeSeq \in Seq(Nodes) /\ NodeSeq # <<>> /\ IsInjective(NodeSeq)
    /\ RecentLines \in Nat \ {0} /\ MaxLines \in Nat

VARIABLES
    ctl,        \* where start or stop is; "idle" when nobody has the lock
    next,       \* index of the record that start or stop works on
    records,    \* nodes with a record
    stopping,   \* _stopping
    child,      \* child[n]: "none", "alive" or "dead"
    signal,     \* signal[n]: the last signal sent to it
    cause,      \* history: whether it died by itself or by a signal of ours
    reaped,     \* nodes whose return code is known
    monitor,    \* monitor[n]: the task _monitor_exit
    drain,      \* drain[n]: the task _drain_output
    written,    \* history: written[n] is how many lines the child wrote
    read,       \* read[n]: the last line that its drain has read
    recent,     \* recent[n]: how many lines, up to that one, the deque holds
    archived,   \* archived[n]: the lines in archived_logs, or NoLogs
    cutOff,     \* history: nodes whose tasks were cancelled by the last stop
    reported    \* nodes whose failure the handler was told

os == <<child, signal, cause, reaped, written>>
tasks == <<monitor, drain, read, recent, reported>>
control == <<ctl, next, records, stopping, archived, cutOff>>
vars == <<os, tasks, control>>

\* As many lines, up to line last; NoLogs is none of these.
Lines(last, count) == [last |-> last, count |-> count]
NoLogs == Lines(0, MaxLines + 1)
Each(value) == [n \in Nodes |-> value]
Current == NodeSeq[next]
Alive == {n \in Nodes : child[n] = "alive"}

Init ==
    /\ ctl = "idle" /\ next = 1 /\ records = {} /\ stopping = FALSE
    /\ child = Each("none") /\ signal = Each("none") /\ cause = Each("none")
    /\ reaped = {} /\ written = Each(0)
    /\ monitor = Each("none") /\ drain = Each("none") /\ reported = {}
    /\ read = Each(0) /\ recent = Each(0)
    /\ archived = Each(NoLogs) /\ cutOff = {}

-----------------------------------------------------------------------------
(* Children and the operating system *)

WriteLine(n) ==
    /\ child[n] = "alive" /\ written[n] < MaxLines
    /\ written' = [written EXCEPT ![n] = @ + 1]
    /\ UNCHANGED <<child, signal, cause, reaped, tasks, control>>

\* A child exits, by itself or because of a signal; it may ignore SIGTERM.
Exit(n) ==
    /\ child[n] = "alive"
    /\ child' = [child EXCEPT ![n] = "dead"]
    /\ cause' = [cause EXCEPT ![n] = IF signal[n] = "none" THEN "own" ELSE "ours"]
    /\ UNCHANGED <<signal, reaped, written, tasks, control>>

\* The event loop learns of the exit and sets the return code.
Reap(n) ==
    /\ child[n] = "dead" /\ n \notin reaped
    /\ reaped' = reaped \cup {n}
    /\ UNCHANGED <<child, signal, cause, written, tasks, control>>

-----------------------------------------------------------------------------
(* The tasks of a record *)

\* Mutant: an exit is a failure whether a stop is going on or not.
MonitorAlways(n) ==
    /\ monitor[n] = "wait" /\ n \in reaped
    /\ monitor' = [monitor EXCEPT ![n] = "handling"]
    /\ reported' = reported \cup {n}
    /\ UNCHANGED <<os, drain, read, recent, control>>

\* _monitor_exit after process.wait(); the record's state becomes FAILED.
Monitor(n) ==
    /\ monitor[n] = "wait" /\ n \in reaped
    /\ monitor' = [monitor EXCEPT ![n] = IF stopping THEN "done" ELSE "handling"]
    /\ reported' = IF stopping THEN reported ELSE reported \cup {n}
    /\ UNCHANGED <<os, drain, read, recent, control>>

\* failure_handler returns or raises.
Handled(n) ==
    /\ monitor[n] = "handling"
    /\ monitor' = [monitor EXCEPT ![n] = "done"]
    /\ UNCHANGED <<os, drain, read, recent, reported, control>>

\* _drain_output: a thread opens the log, writes a line or closes it.  A log that
\* cannot be opened or written is given up; the lines are read all the same.
ThreadDone(n) ==
    /\ drain[n] \in {"opening", "writing", "closing"}
    /\ drain' = [drain EXCEPT ![n] = IF @ = "closing" THEN "done" ELSE "reading"]
    /\ UNCHANGED <<os, monitor, read, recent, reported, control>>

\* A line is read, and the deque drops its oldest line when it is full; with a log
\* a thread writes the line.
ReadLine(n) ==
    /\ drain[n] = "reading" /\ read[n] < written[n]
    /\ read' = [read EXCEPT ![n] = @ + 1]
    /\ recent' = [recent EXCEPT ![n] = IF @ < RecentLines THEN @ + 1 ELSE @]
    /\ \E then \in {"writing", "reading"} : drain' = [drain EXCEPT ![n] = then]
    /\ UNCHANGED <<os, monitor, reported, control>>

\* The end of the stream.
EndOfOutput(n) ==
    /\ drain[n] = "reading" /\ read[n] = written[n] /\ child[n] = "dead"
    /\ \E then \in {"closing", "done"} : drain' = [drain EXCEPT ![n] = then]
    /\ UNCHANGED <<os, monitor, read, recent, reported, control>>

-----------------------------------------------------------------------------
(* start *)

\* Only without records: the old archive goes.
StartBegins ==
    /\ ctl = "idle" /\ records = {}
    /\ ctl' = "allocate" /\ next' = 1
    /\ stopping' = FALSE
    /\ archived' = Each(NoLogs) /\ cutOff' = {}
    /\ UNCHANGED <<os, tasks, records>>

\* A record, and a child that is being created.
Allocate ==
    /\ ctl = "allocate"
    /\ ctl' = "spawn"
    /\ records' = records \cup {Current}
    /\ child' = [child EXCEPT ![Current] = "none"]
    /\ signal' = [signal EXCEPT ![Current] = "none"]
    /\ cause' = [cause EXCEPT ![Current] = "none"]
    /\ reaped' = reaped \ {Current}
    /\ written' = [written EXCEPT ![Current] = 0]
    /\ read' = [read EXCEPT ![Current] = 0]
    /\ recent' = [recent EXCEPT ![Current] = 0]
    /\ monitor' = [monitor EXCEPT ![Current] = "none"]
    /\ drain' = [drain EXCEPT ![Current] = "none"]
    /\ reported' = reported \ {Current}
    /\ UNCHANGED <<next, stopping, archived, cutOff>>

\* _start_one after create_subprocess_exec: the tasks, then the next node.
Spawned ==
    /\ ctl = "spawn"
    /\ child' = [child EXCEPT ![Current] = "alive"]
    /\ monitor' = [monitor EXCEPT ![Current] = "wait"]
    /\ drain' = [drain EXCEPT ![Current] = "opening"]
    /\ IF next = Len(NodeSeq) THEN ctl' = "idle" /\ UNCHANGED next
       ELSE ctl' = "allocate" /\ next' = next + 1
    /\ UNCHANGED <<signal, cause, reaped, written, read, recent, reported,
                   records, stopping, archived, cutOff>>

\* Records whose child has been created, and those of them not known dead.
Created == {n \in records : child[n] # "none"}
Unreaped == Created \ reaped

\* _stop_unlocked up to its first suspension.
Terminate ==
    /\ ctl' = "terminate" /\ next' = 1
    /\ stopping' = TRUE
    /\ signal' = [n \in Nodes |-> IF n \in Unreaped THEN "term" ELSE signal[n]]

\* Mutant: a failed start leaves what it started to the next stop.
SpawnFailsAlone ==
    /\ ctl = "spawn"
    /\ ctl' = "idle" /\ records' = {}
    /\ UNCHANGED <<os, tasks, next, stopping, archived, cutOff>>

\* The child cannot be created: start stops what it has started.
SpawnFails ==
    /\ ctl = "spawn"
    /\ Terminate
    /\ UNCHANGED <<child, cause, reaped, written, tasks, records, archived, cutOff>>

-----------------------------------------------------------------------------
(* stop *)

StopBegins ==
    /\ ctl = "idle" /\ records # {}
    /\ Terminate
    /\ UNCHANGED <<child, cause, reaped, written, tasks, records, archived, cutOff>>

\* All children of the records are reaped, in time or after the kill.
AllReaped ==
    /\ ctl \in {"terminate", "kill"} /\ Unreaped = {}
    /\ ctl' = "join"
    /\ UNCHANGED <<os, tasks, next, records, stopping, archived, cutOff>>

\* Mutant: the children that do not answer are asked again.
ShutdownTimeoutPolite ==
    /\ ctl = "terminate" /\ Unreaped # {}
    /\ signal' = [n \in Nodes |-> IF n \in Unreaped THEN "term" ELSE signal[n]]
    /\ UNCHANGED <<child, cause, reaped, written, tasks, control>>

\* shutdown_timeout passes.
ShutdownTimeout ==
    /\ ctl = "terminate" /\ Unreaped # {}
    /\ ctl' = "kill"
    /\ signal' = [n \in Nodes |-> IF n \in Unreaped THEN "kill" ELSE signal[n]]
    /\ UNCHANGED <<child, cause, reaped, written, tasks,
                   next, records, stopping, archived, cutOff>>

TasksDone(n) == monitor[n] \in {"none", "done"} /\ drain[n] \in {"none", "done"}

\* The tasks of the record are over, and it is archived: the next one.  The last
\* one ends the stop.
Archive ==
    /\ archived' = [archived EXCEPT ![Current] = Lines(read[Current], recent[Current])]
    /\ IF next = Cardinality(records)
       THEN ctl' = "idle" /\ records' = {} /\ stopping' = FALSE /\ UNCHANGED next
       ELSE ctl' = "join" /\ next' = next + 1 /\ UNCHANGED <<records, stopping>>

\* Mutant: a record is archived without waiting for its tasks.
JoinedEarly ==
    /\ ctl \in {"join", "cancel"}
    /\ Archive
    /\ UNCHANGED <<os, tasks, cutOff>>

Joined ==
    /\ ctl \in {"join", "cancel"} /\ TasksDone(Current)
    /\ Archive
    /\ UNCHANGED <<os, tasks, cutOff>>

\* OUTPUT_DRAIN_TIMEOUT_SECONDS pass: what is left is cancelled.  A drain that has
\* a log closes it in a thread, also beside a thread that still writes.
DrainTimeout ==
    /\ ctl = "join" /\ ~TasksDone(Current)
    /\ ctl' = "cancel"
    /\ cutOff' = cutOff \cup {Current}
    /\ monitor' = [monitor EXCEPT ![Current] = "done"]
    /\ \E then \in {"closing", "done"} :
         /\ drain[Current] = "writing" => then = "closing"
         /\ drain[Current] \notin {"reading", "writing"} => then = "done"
         /\ drain' = [drain EXCEPT ![Current] = then]
    /\ UNCHANGED <<os, read, recent, reported, next, records, stopping, archived>>

\* reset
ClearArchive ==
    /\ ctl = "idle"
    /\ archived' = Each(NoLogs)
    /\ UNCHANGED <<os, tasks, ctl, next, records, stopping, cutOff>>

-----------------------------------------------------------------------------
Next ==
    \/ \E n \in Nodes :
         \/ WriteLine(n) \/ Exit(n) \/ Reap(n)
         \/ Monitor(n) \/ Handled(n)
         \/ ThreadDone(n) \/ ReadLine(n) \/ EndOfOutput(n)
    \/ StartBegins \/ Allocate \/ Spawned \/ SpawnFails
    \/ StopBegins \/ AllReaped \/ ShutdownTimeout \/ Joined \/ DrainTimeout
    \/ ClearArchive

Spec == Init /\ [][Next]_vars

\* Exits are noticed and tasks run; a killed child dies; deadlines pass; a thread
\* may be slow but ends (stop waits without a deadline for the threads that close
\* the logs).  Nothing makes a child obey SIGTERM or end by itself.
Fairness ==
    /\ \A n \in Nodes :
         /\ WF_vars(Reap(n)) /\ WF_vars(Monitor(n))
         /\ WF_vars(Exit(n) /\ signal[n] = "kill")
         /\ WF_vars(ThreadDone(n))
    /\ WF_vars(AllReaped) /\ WF_vars(ShutdownTimeout)
    /\ WF_vars(Joined) /\ WF_vars(DrainTimeout)
    /\ WF_vars(Allocate) /\ WF_vars(Spawned)

FairSpec == Spec /\ Fairness

-----------------------------------------------------------------------------
(* Properties *)

\* A child that runs has a record, so that the next stop will find it: neither a
\* start that fails half way nor a stop with a child that ignores SIGTERM leaves
\* one behind.
NoOrphan == Alive \subseteq records

\* The failure handler hears of a child that ended by itself, never of one that
\* stop ended: _stopping outlives every monitor.
NoFalseFailure == \A n \in reported : cause[n] = "own"

\* What a deque holds of so many lines.
Held(lines) == IF lines < RecentLines THEN lines ELSE RecentLines

\* What a stop archives are the newest lines that the child wrote, all of them or as
\* many as a deque holds, unless the node's tasks were cut off by the deadline: the
\* last words of a child that crashed are read before the record goes.
ArchiveIsWhole ==
    \A n \in Nodes : archived[n] # NoLogs /\ child[n] = "dead" /\ n \notin cutOff
                        => archived[n] = Lines(written[n], Held(written[n]))

\* An exit does not go unnoticed: the handler hears of it, or a stop takes the
\* record away.  And a stop ends, whatever the children do and however slow
\* their logs are.
ExitsAreHandled ==
    /\ \A n \in Nodes :
         n \in records /\ child[n] = "dead" ~> n \in reported \/ n \notin records
    /\ stopping ~> ~stopping
=============================================================================

--------------------------- MODULE SupervisorProofs ---------------------------
(***************************************************************************)
(* Theorems about Supervisor, for any sequence of nodes and any number of   *)
(* lines.  The inductive invariant says which nodes have a record at every  *)
(* place of start and stop, that the children of a stop past its deadlines  *)
(* are dead, that the tasks of a record outlive neither the record nor the  *)
(* flag _stopping, and what a drain has read when it ends.                  *)
(***************************************************************************)
EXTENDS Supervisor, FiniteSetTheorems, TLAPS

Drains == {"none", "opening", "reading", "writing", "closing", "done"}
Places == {"idle", "allocate", "spawn", "terminate", "kill", "join", "cancel"}
StopPlaces == {"terminate", "kill", "join", "cancel"}

\* The first k nodes of the scenario.
First(k) == {NodeSeq[i] : i \in 1 .. k}

OsTypes ==
    /\ child \in [Nodes -> {"none", "alive", "dead"}]
    /\ signal \in [Nodes -> {"none", "term", "kill"}]
    /\ cause \in [Nodes -> {"none", "own", "ours"}]
    /\ reaped \subseteq Nodes /\ written \in [Nodes -> 0 .. MaxLines]
TaskTypes ==
    /\ monitor \in [Nodes -> {"none", "wait", "handling", "done"}]
    /\ drain \in [Nodes -> Drains] /\ read \in [Nodes -> 0 .. MaxLines]
    /\ recent \in [Nodes -> 0 .. MaxLines] /\ reported \subseteq Nodes
ControlTypes ==
    /\ ctl \in Places /\ next \in 1 .. Len(NodeSeq)
    /\ records \subseteq Nodes /\ stopping \in BOOLEAN
Archives == {NoLogs} \cup [last : 0 .. MaxLines, count : 0 .. MaxLines]
ArchiveTypes == archived \in [Nodes -> Archives] /\ cutOff \subseteq Nodes

TypeOK == OsTypes /\ TaskTypes /\ ControlTypes /\ ArchiveTypes

\* The records are those of the first nodes, at every place of start and stop.
Records ==
    /\ ctl = "idle" => records = {} \/ records = First(Len(NodeSeq))
    /\ ctl = "allocate" => records = First(next - 1)
    /\ ctl = "spawn" => records = First(next)
    /\ ctl \in StopPlaces =>
         /\ Cardinality(records) \in next .. Len(NodeSeq)
         /\ records = First(Cardinality(records))
    /\ ctl \in {"terminate", "kill"} => next = 1
    /\ stopping <=> ctl \in StopPlaces

\* A child belongs to a record while it lives, and is known dead before the
\* records are joined.
ChildOf(n) ==
    /\ child[n] = "alive" => n \in records /\ archived[n] = NoLogs
    /\ n \in reaped => child[n] = "dead"
    /\ ctl \in {"join", "cancel"} => child[n] # "alive"
    /\ ctl = "spawn" /\ n = Current => child[n] = "none"
    /\ ctl \in {"allocate", "spawn"} => archived[n] = NoLogs

\* The tasks of a child exist as long as its record does, and end before it.
TasksOf(n) ==
    /\ n \notin records => TasksDone(n)
    /\ ctl \in {"join", "cancel"} /\ n \in First(next - 1) => TasksDone(n)
    /\ child[n] = "none" /\ n \in records => monitor[n] = "none" /\ drain[n] = "none"

\* No signal is sent to a child outside a stop, and its exit is its own until then.
SignalOf(n) ==
    /\ n \in records /\ ~stopping => signal[n] = "none" /\ cause[n] # "ours"
    /\ child[n] = "dead" => cause[n] # "none"
    /\ n \in reported => child[n] = "dead" /\ cause[n] = "own"

\* A deque holds the newest of the lines that its drain has read, and a drain that
\* ended by itself has read all that a dead child wrote.
DrainOf(n) ==
    /\ n \in records /\ child[n] # "none" => drain[n] # "none"
    /\ n \in records /\ n \notin cutOff /\ drain[n] \in {"closing", "done"} =>
         child[n] = "dead" /\ read[n] = written[n]
    /\ read[n] <= written[n] /\ recent[n] = Held(read[n])
    /\ archived[n] # NoLogs /\ child[n] = "dead" /\ n \notin cutOff
         => archived[n] = Lines(written[n], Held(written[n]))

Children == \A n \in Nodes : ChildOf(n)
Tasks == \A n \in Nodes : TasksOf(n)
Signals == \A n \in Nodes : SignalOf(n)
Drained == \A n \in Nodes : DrainOf(n)

IInv == TypeOK /\ Records /\ Children /\ Tasks /\ Signals /\ Drained

-----------------------------------------------------------------------------
(* Proofs.  One lemma per action; the parts of IInv that speak of one node   *)
(* are shown for that node.                                                  *)

USE DEF TypeOK, OsTypes, TaskTypes, ControlTypes, ArchiveTypes,
        os, tasks, control, Drains, Places, StopPlaces, Each, TasksDone

\* The bounds are numbers.
LEMMA Bounds ==
    /\ Len(NodeSeq) \in Nat /\ Len(NodeSeq) >= 1
    /\ MaxLines \in Nat /\ RecentLines \in Nat /\ RecentLines >= 1
BY SupervisorAssumption

\* A deque holds no more lines than were read, nor one line more than its bound.
LEMMA HeldLines ==
    ASSUME NEW lines \in Nat
    PROVE  /\ Held(lines) \in 0 .. lines /\ Held(0) = 0
           /\ Held(lines + 1) =
                IF Held(lines) < RecentLines THEN Held(lines) + 1 ELSE Held(lines)
BY Bounds DEF Held

\* The scenario's nodes are numbered.
LEMMA Numbering ==
    /\ \A i \in 1 .. Len(NodeSeq) : NodeSeq[i] \in Nodes
    /\ \A n \in Nodes : \E i \in 1 .. Len(NodeSeq) : NodeSeq[i] = n
    /\ \A i, j \in 1 .. Len(NodeSeq) : NodeSeq[i] = NodeSeq[j] => i = j
<1>1. DOMAIN NodeSeq = 1 .. Len(NodeSeq)
  BY SupervisorAssumption
<1> QED BY <1>1, SupervisorAssumption DEF Nodes, Range, IsInjective

\* A prefix of k nodes has k members.
LEMMA FirstCardinality ==
    ASSUME NEW k \in 1 .. Len(NodeSeq)
    PROVE  Cardinality(First(k)) = k
<1> DEFINE f == [i \in 1 .. k |-> NodeSeq[i]]
<1>1. f \in Bijection(1 .. k, First(k))
  BY Bounds, Numbering DEF Bijection, Injection, Surjection, IsInjective, First
<1> QED BY <1>1, Bounds, FS_CountingElements DEF ExistsBijection

\* Allocating or joining the next node extends the prefix.
LEMMA FirstExtends ==
    ASSUME NEW i \in 1 .. Len(NodeSeq)
    PROVE  /\ First(i - 1) \cup {NodeSeq[i]} = First(i)
           /\ NodeSeq[i] \notin First(i - 1)
           /\ First(i) \subseteq Nodes /\ First(i) # {}
BY Bounds, Numbering DEF First

\* An empty archive is an archive.
LEMMA NoArchive == Each(NoLogs) \in [Nodes -> Archives]
BY DEF Archives

\* Before the first node there is none.
LEMMA FirstNone == First(0) = {}
BY DEF First

\* The node that start or stop works on is one of the scenario's.
LEMMA CurrentIsNode == TypeOK => Current \in Nodes
BY Bounds, Numbering DEF Current

\* A line written by a child preserves the inductive invariant.
LEMMA WriteLineInv ==
    ASSUME IInv, NEW n \in Nodes, WriteLine(n)
    PROVE  IInv'
<1> USE Bounds
<1>1. TypeOK'
  BY DEF IInv, Records, WriteLine, Current
<1>2. Records'
  BY DEF IInv, Records, WriteLine, Current
<1>3. ASSUME NEW m \in Nodes PROVE ChildOf(m)' /\ TasksOf(m)'
  BY DEF IInv, Records, Children, ChildOf, Tasks, TasksOf, WriteLine, Current
<1>4. ASSUME NEW m \in Nodes PROVE SignalOf(m)'
  BY DEF IInv, Records, Children, ChildOf, Tasks, TasksOf, Signals, SignalOf,
     WriteLine, Current
<1>5. ASSUME NEW m \in Nodes PROVE DrainOf(m)'
  BY DEF IInv, Records, Children, ChildOf, Tasks, TasksOf, Drained, DrainOf, WriteLine,
     Current
<1> QED BY <1>1, <1>2, <1>3, <1>4, <1>5 DEF IInv, Children, Tasks, Signals, Drained

\* An exit of a child preserves it.
LEMMA ExitInv ==
    ASSUME IInv, NEW n \in Nodes, Exit(n)
    PROVE  IInv'
<1> USE Bounds
<1>1. TypeOK'
  BY DEF IInv, Records, Exit, Current
<1>2. Records'
  BY DEF IInv, Records, Exit, Current
<1>3. ASSUME NEW m \in Nodes PROVE ChildOf(m)' /\ TasksOf(m)'
  BY DEF IInv, Records, Children, ChildOf, Tasks, TasksOf, Exit, Current
<1>4. ASSUME NEW m \in Nodes PROVE SignalOf(m)'
  BY DEF IInv, Records, Children, ChildOf, Tasks, TasksOf, Signals, SignalOf, Exit,
     Current
<1>5. ASSUME NEW m \in Nodes PROVE DrainOf(m)'
  BY DEF IInv, Records, Children, ChildOf, Tasks, TasksOf, Drained, DrainOf, Exit,
     Current
<1> QED BY <1>1, <1>2, <1>3, <1>4, <1>5 DEF IInv, Children, Tasks, Signals, Drained

\* The event loop learning of an exit preserves it.
LEMMA ReapInv ==
    ASSUME IInv, NEW n \in Nodes, Reap(n)
    PROVE  IInv'
<1> USE Bounds
<1>1. TypeOK'
  BY DEF IInv, Records, Reap, Current
<1>2. Records'
  BY DEF IInv, Records, Reap, Current
<1>3. ASSUME NEW m \in Nodes PROVE ChildOf(m)' /\ TasksOf(m)'
  BY DEF IInv, Records, Children, ChildOf, Tasks, TasksOf, Reap, Current
<1>4. ASSUME NEW m \in Nodes PROVE SignalOf(m)'
  BY DEF IInv, Records, Children, ChildOf, Tasks, TasksOf, Signals, SignalOf, Reap,
     Current
<1>5. ASSUME NEW m \in Nodes PROVE DrainOf(m)'
  BY DEF IInv, Records, Children, ChildOf, Tasks, TasksOf, Drained, DrainOf, Reap,
     Current
<1> QED BY <1>1, <1>2, <1>3, <1>4, <1>5 DEF IInv, Children, Tasks, Signals, Drained

\* _monitor_exit preserves it: outside a stop the exit is the child's own.
LEMMA MonitorInv ==
    ASSUME IInv, NEW n \in Nodes, Monitor(n)
    PROVE  IInv'
<1> USE Bounds
<1>1. TypeOK'
  BY DEF IInv, Records, Monitor, Current
<1>2. Records'
  BY DEF IInv, Records, Monitor, Current
<1>3. ASSUME NEW m \in Nodes PROVE ChildOf(m)' /\ TasksOf(m)'
  BY DEF IInv, Records, Children, ChildOf, Tasks, TasksOf, Monitor, Current
<1>4. ASSUME NEW m \in Nodes PROVE SignalOf(m)'
  BY DEF IInv, Records, Children, ChildOf, Tasks, TasksOf, Signals, SignalOf, Monitor,
     Current
<1>5. ASSUME NEW m \in Nodes PROVE DrainOf(m)'
  BY DEF IInv, Records, Children, ChildOf, Tasks, TasksOf, Drained, DrainOf, Monitor,
     Current
<1> QED BY <1>1, <1>2, <1>3, <1>4, <1>5 DEF IInv, Children, Tasks, Signals, Drained

\* The end of the failure handler preserves it.
LEMMA HandledInv ==
    ASSUME IInv, NEW n \in Nodes, Handled(n)
    PROVE  IInv'
<1> USE Bounds
<1>1. TypeOK'
  BY DEF IInv, Records, Handled, Current
<1>2. Records'
  BY DEF IInv, Records, Handled, Current
<1>3. ASSUME NEW m \in Nodes PROVE ChildOf(m)' /\ TasksOf(m)'
  BY DEF IInv, Records, Children, ChildOf, Tasks, TasksOf, Handled, Current
<1>4. ASSUME NEW m \in Nodes PROVE SignalOf(m)'
  BY DEF IInv, Records, Children, ChildOf, Tasks, TasksOf, Signals, SignalOf, Handled,
     Current
<1>5. ASSUME NEW m \in Nodes PROVE DrainOf(m)'
  BY DEF IInv, Records, Children, ChildOf, Tasks, TasksOf, Drained, DrainOf, Handled,
     Current
<1> QED BY <1>1, <1>2, <1>3, <1>4, <1>5 DEF IInv, Children, Tasks, Signals, Drained

\* The end of a thread that works on a log preserves it.
LEMMA ThreadDoneInv ==
    ASSUME IInv, NEW n \in Nodes, ThreadDone(n)
    PROVE  IInv'
<1> USE Bounds
<1>1. TypeOK'
  BY DEF IInv, Records, ThreadDone, Current
<1>2. Records'
  BY DEF IInv, Records, ThreadDone, Current
<1>3. ASSUME NEW m \in Nodes PROVE ChildOf(m)' /\ TasksOf(m)'
  BY DEF IInv, Records, Children, ChildOf, Tasks, TasksOf, ThreadDone, Current
<1>4. ASSUME NEW m \in Nodes PROVE SignalOf(m)'
  BY DEF IInv, Records, Children, ChildOf, Tasks, TasksOf, Signals, SignalOf,
     ThreadDone, Current
<1>5. ASSUME NEW m \in Nodes PROVE DrainOf(m)'
  BY DEF IInv, Records, Children, ChildOf, Tasks, TasksOf, Drained, DrainOf,
     ThreadDone, Current
<1> QED BY <1>1, <1>2, <1>3, <1>4, <1>5 DEF IInv, Children, Tasks, Signals, Drained

\* A line drained preserves it.
LEMMA ReadLineInv ==
    ASSUME IInv, NEW n \in Nodes, ReadLine(n)
    PROVE  IInv'
<1> USE Bounds
<1>1. TypeOK'
  <2>1. read[n] + 1 \in 0 .. MaxLines /\ read[n] \in Nat /\ read[n] + 1 \in Nat
    BY DEF IInv, ReadLine
  <2>2. recent[n] = Held(read[n])
    BY DEF IInv, Drained, DrainOf
  <2>3. recent'[n] = IF recent[n] < RecentLines THEN recent[n] + 1 ELSE recent[n]
    BY DEF IInv, ReadLine
  <2>4. Held(read[n] + 1) = IF Held(read[n]) < RecentLines
                            THEN Held(read[n]) + 1 ELSE Held(read[n])
    BY <2>1, HeldLines
  <2>5. Held(read[n] + 1) \in 0 .. read[n] + 1
    BY <2>1, HeldLines
  <2>6. recent'[n] \in 0 .. MaxLines
    BY <2>1, <2>2, <2>3, <2>4, <2>5
  <2>7. recent' \in [Nodes -> 0 .. MaxLines]
    BY <2>6 DEF IInv, ReadLine
  <2> QED BY <2>1, <2>7 DEF IInv, ReadLine
<1>2. Records'
  BY DEF IInv, Records, ReadLine, Current
<1>3. ASSUME NEW m \in Nodes PROVE ChildOf(m)' /\ TasksOf(m)'
  BY DEF IInv, Records, Children, ChildOf, Tasks, TasksOf, ReadLine, Current
<1>4. ASSUME NEW m \in Nodes PROVE SignalOf(m)'
  BY DEF IInv, Records, Children, ChildOf, Tasks, TasksOf, Signals, SignalOf, ReadLine,
     Current
<1>5. ASSUME NEW m \in Nodes PROVE DrainOf(m)'
  <2>1. read[m] \in Nat /\ recent[m] = Held(read[m])
    BY DEF IInv, Drained, DrainOf
  <2>2. recent'[m] = Held(read'[m])
    <3>1. CASE m # n
      BY <2>1, <3>1 DEF IInv, ReadLine
    <3>2. CASE m = n
      <4>1. /\ read'[n] = read[n] + 1
            /\ recent'[n] = IF recent[n] < RecentLines THEN recent[n] + 1 ELSE recent[n]
        BY DEF IInv, ReadLine
      <4>2. Held(read[n] + 1) = IF Held(read[n]) < RecentLines
                                THEN Held(read[n]) + 1 ELSE Held(read[n])
        BY <2>1, <3>2, HeldLines
      <4> QED BY <2>1, <3>2, <4>1, <4>2
    <3> QED BY <3>1, <3>2
  <2> QED BY <2>2 DEF IInv, Records, Tasks, TasksOf, Drained, DrainOf, ReadLine
<1> QED BY <1>1, <1>2, <1>3, <1>4, <1>5 DEF IInv, Children, Tasks, Signals, Drained

\* The end of a child's output preserves it.
LEMMA EndOfOutputInv ==
    ASSUME IInv, NEW n \in Nodes, EndOfOutput(n)
    PROVE  IInv'
<1> USE Bounds
<1>1. TypeOK'
  BY DEF IInv, Records, EndOfOutput, Current
<1>2. Records'
  BY DEF IInv, Records, EndOfOutput, Current
<1>3. ASSUME NEW m \in Nodes PROVE ChildOf(m)' /\ TasksOf(m)'
  BY DEF IInv, Records, Children, ChildOf, Tasks, TasksOf, EndOfOutput, Current
<1>4. ASSUME NEW m \in Nodes PROVE SignalOf(m)'
  BY DEF IInv, Records, Children, ChildOf, Tasks, TasksOf, Signals, SignalOf,
     EndOfOutput, Current
<1>5. ASSUME NEW m \in Nodes PROVE DrainOf(m)'
  BY DEF IInv, Records, Children, ChildOf, Tasks, TasksOf, Drained, DrainOf,
     EndOfOutput, Current
<1> QED BY <1>1, <1>2, <1>3, <1>4, <1>5 DEF IInv, Children, Tasks, Signals, Drained

\* The begin of start, without records, preserves it.
LEMMA StartBeginsInv ==
    ASSUME IInv, StartBegins
    PROVE  IInv'
<1> USE Bounds
<1>1. OsTypes'
  BY FirstNone DEF IInv, StartBegins
<1>2. TaskTypes'
  BY FirstNone DEF IInv, StartBegins
<1>3. next' \in 1 .. Len(NodeSeq)
  BY Bounds DEF StartBegins
<1>4. ControlTypes'
  BY <1>3 DEF IInv, StartBegins
<1>5. ArchiveTypes'
  BY NoArchive DEF IInv, StartBegins
<1>6. Records'
  BY FirstNone DEF IInv, Records, StartBegins
<1>7. ASSUME NEW m \in Nodes PROVE ChildOf(m)' /\ TasksOf(m)'
  BY FirstNone DEF IInv, Records, Children, ChildOf, Tasks, TasksOf, StartBegins
<1>8. ASSUME NEW m \in Nodes PROVE SignalOf(m)'
  BY FirstNone DEF IInv, Records, Children, ChildOf, Tasks, TasksOf, Signals, SignalOf,
     StartBegins
<1>9. ASSUME NEW m \in Nodes PROVE DrainOf(m)'
  BY FirstNone DEF IInv, Records, Children, ChildOf, Tasks, TasksOf, Drained, DrainOf,
     StartBegins
<1> QED BY <1>1, <1>2, <1>4, <1>6, <1>7, <1>8, <1>9, <1>5
        DEF IInv, Children, Tasks, Signals, Drained

\* A new record preserves it.
LEMMA AllocateInv ==
    ASSUME IInv, Allocate
    PROVE  IInv'
<1> USE Bounds
<1>1. PICK c \in Nodes :
        /\ c = Current
        /\ First(next - 1) \cup {c} = First(next) /\ c \notin First(next - 1)
  BY CurrentIsNode, FirstExtends DEF IInv, Current
<1>2. Current' = c
  BY <1>1 DEF Allocate, Current
<1>3. OsTypes'
  BY <1>1 DEF IInv, Allocate
<1>4. TaskTypes'
  BY <1>1 DEF IInv, Allocate
<1>5. ControlTypes'
  BY <1>1 DEF IInv, Allocate
<1>6. ArchiveTypes'
  BY <1>1 DEF IInv, Allocate
<1>7. Records'
  BY <1>1 DEF IInv, Records, Allocate
<1>8. ASSUME NEW m \in Nodes PROVE ChildOf(m)' /\ TasksOf(m)'
  BY <1>1, <1>2 DEF IInv, Records, Children, ChildOf, Tasks, TasksOf, Allocate
<1>9. ASSUME NEW m \in Nodes PROVE SignalOf(m)'
  BY <1>1, <1>2 DEF IInv, Records, Children, ChildOf, Tasks, TasksOf, Signals,
     SignalOf, Allocate
<1>10. ASSUME NEW m \in Nodes PROVE DrainOf(m)'
  <2>1. Held(0) = 0
    BY HeldLines
  <2> QED BY <1>1, <1>2, <2>1 DEF IInv, Records, Children, ChildOf, Tasks, TasksOf,
             Drained, DrainOf, Allocate
<1> QED BY <1>3, <1>4, <1>5, <1>7, <1>8, <1>9, <1>10, <1>6
        DEF IInv, Children, Tasks, Signals, Drained

\* A child that was created preserves it.
LEMMA SpawnedInv ==
    ASSUME IInv, Spawned
    PROVE  IInv'
<1> USE Bounds
<1>1. PICK c \in Nodes :
        /\ c = Current
        /\ First(next - 1) \cup {c} = First(next) /\ c \notin First(next - 1)
  BY CurrentIsNode, FirstExtends DEF IInv, Current
<1>2. OsTypes'
  BY <1>1 DEF IInv, Spawned
<1>3. TaskTypes'
  BY <1>1 DEF IInv, Spawned
<1>4. ControlTypes'
  BY <1>1 DEF IInv, Spawned
<1>5. ArchiveTypes'
  BY <1>1 DEF IInv, Spawned
<1>6. Records'
  <2>1. records' = records /\ ctl = "spawn" /\ records = First(next)
    BY DEF IInv, Records, Spawned
  <2>2. CASE next = Len(NodeSeq)
    BY <2>1, <2>2 DEF IInv, Records, Spawned
  <2>3. CASE next # Len(NodeSeq)
    <3>1. ctl' = "allocate" /\ next' = next + 1 /\ next' - 1 = next
      BY <2>3 DEF IInv, Spawned
    <3>2. stopping' = FALSE
      BY <2>1 DEF IInv, Records, Spawned
    <3> QED BY <2>1, <3>1, <3>2 DEF Records
  <2> QED BY <2>2, <2>3
<1>7. ASSUME NEW m \in Nodes PROVE ChildOf(m)' /\ TasksOf(m)'
  BY <1>1 DEF IInv, Records, Children, ChildOf, Tasks, TasksOf, Spawned
<1>8. ASSUME NEW m \in Nodes PROVE SignalOf(m)'
  BY <1>1 DEF IInv, Records, Children, ChildOf, Tasks, TasksOf, Signals, SignalOf,
     Spawned
<1>9. ASSUME NEW m \in Nodes PROVE DrainOf(m)'
  BY <1>1 DEF IInv, Records, Children, ChildOf, Tasks, TasksOf, Drained, DrainOf,
     Spawned
<1> QED BY <1>2, <1>3, <1>4, <1>6, <1>7, <1>8, <1>9, <1>5
        DEF IInv, Children, Tasks, Signals, Drained

\* A start that fails and stops what it started preserves it.
LEMMA SpawnFailsInv ==
    ASSUME IInv, SpawnFails
    PROVE  IInv'
<1> USE Bounds, FirstCardinality
<1>1. TypeOK'
  BY DEF IInv, Records, SpawnFails, Terminate, Unreaped, Created
<1>2. Records'
  BY DEF IInv, Records, SpawnFails, Terminate, Unreaped, Created
<1>3. ASSUME NEW m \in Nodes PROVE ChildOf(m)' /\ TasksOf(m)'
  BY DEF IInv, Records, Children, ChildOf, Tasks, TasksOf, SpawnFails, Terminate,
     Unreaped, Created
<1>4. ASSUME NEW m \in Nodes PROVE SignalOf(m)'
  BY DEF IInv, Records, Children, ChildOf, Tasks, TasksOf, Signals, SignalOf,
     SpawnFails, Terminate, Unreaped, Created
<1>5. ASSUME NEW m \in Nodes PROVE DrainOf(m)'
  BY DEF IInv, Records, Children, ChildOf, Tasks, TasksOf, Drained, DrainOf,
     SpawnFails, Terminate, Unreaped, Created
<1> QED BY <1>1, <1>2, <1>3, <1>4, <1>5 DEF IInv, Children, Tasks, Signals, Drained

\* The begin of stop preserves it.
LEMMA StopBeginsInv ==
    ASSUME IInv, StopBegins
    PROVE  IInv'
<1> USE Bounds
<1>1. Cardinality(First(Len(NodeSeq))) = Len(NodeSeq)
  BY FirstCardinality
<1>2. OsTypes'
  BY <1>1 DEF IInv, StopBegins, Terminate, Unreaped, Created
<1>3. TaskTypes'
  BY <1>1 DEF IInv, StopBegins, Terminate, Unreaped, Created
<1>4. ControlTypes'
  BY <1>1 DEF IInv, StopBegins, Terminate, Unreaped, Created
<1>5. ArchiveTypes'
  BY <1>1 DEF IInv, StopBegins, Terminate, Unreaped, Created
<1>6. Records'
  BY <1>1 DEF IInv, Records, StopBegins, Terminate, Unreaped, Created
<1>7. ASSUME NEW m \in Nodes PROVE ChildOf(m)' /\ TasksOf(m)'
  BY <1>1 DEF IInv, Records, Children, ChildOf, Tasks, TasksOf, StopBegins, Terminate,
     Unreaped, Created
<1>8. ASSUME NEW m \in Nodes PROVE SignalOf(m)'
  BY <1>1 DEF IInv, Records, Children, ChildOf, Tasks, TasksOf, Signals, SignalOf,
     StopBegins, Terminate, Unreaped, Created
<1>9. ASSUME NEW m \in Nodes PROVE DrainOf(m)'
  BY <1>1 DEF IInv, Records, Children, ChildOf, Tasks, TasksOf, Drained, DrainOf,
     StopBegins, Terminate, Unreaped, Created
<1> QED BY <1>2, <1>3, <1>4, <1>6, <1>7, <1>8, <1>9, <1>5
        DEF IInv, Children, Tasks, Signals, Drained

\* Going on to the records once all children are reaped preserves it.
LEMMA AllReapedInv ==
    ASSUME IInv, AllReaped
    PROVE  IInv'
<1> USE Bounds, FirstNone
<1>1. TypeOK'
  BY DEF IInv, Records, AllReaped, Unreaped, Created
<1>2. Records'
  BY DEF IInv, Records, AllReaped, Unreaped, Created
<1>3. ASSUME NEW m \in Nodes PROVE ChildOf(m)' /\ TasksOf(m)'
  BY DEF IInv, Records, Children, ChildOf, Tasks, TasksOf, AllReaped, Unreaped, Created
<1>4. ASSUME NEW m \in Nodes PROVE SignalOf(m)'
  BY DEF IInv, Records, Children, ChildOf, Tasks, TasksOf, Signals, SignalOf,
     AllReaped, Unreaped, Created
<1>5. ASSUME NEW m \in Nodes PROVE DrainOf(m)'
  BY DEF IInv, Records, Children, ChildOf, Tasks, TasksOf, Drained, DrainOf, AllReaped,
     Unreaped, Created
<1> QED BY <1>1, <1>2, <1>3, <1>4, <1>5 DEF IInv, Children, Tasks, Signals, Drained

\* The kill after shutdown_timeout preserves it.
LEMMA ShutdownTimeoutInv ==
    ASSUME IInv, ShutdownTimeout
    PROVE  IInv'
<1> USE Bounds
<1>1. TypeOK'
  BY DEF IInv, Records, ShutdownTimeout, Unreaped, Created
<1>2. Records'
  BY DEF IInv, Records, ShutdownTimeout, Unreaped, Created
<1>3. ASSUME NEW m \in Nodes PROVE ChildOf(m)' /\ TasksOf(m)'
  BY DEF IInv, Records, Children, ChildOf, Tasks, TasksOf, ShutdownTimeout, Unreaped,
     Created
<1>4. ASSUME NEW m \in Nodes PROVE SignalOf(m)'
  BY DEF IInv, Records, Children, ChildOf, Tasks, TasksOf, Signals, SignalOf,
     ShutdownTimeout, Unreaped, Created
<1>5. ASSUME NEW m \in Nodes PROVE DrainOf(m)'
  BY DEF IInv, Records, Children, ChildOf, Tasks, TasksOf, Drained, DrainOf,
     ShutdownTimeout, Unreaped, Created
<1> QED BY <1>1, <1>2, <1>3, <1>4, <1>5 DEF IInv, Children, Tasks, Signals, Drained

\* A record joined and archived preserves it; the last one ends the stop.
LEMMA JoinedInv ==
    ASSUME IInv, Joined
    PROVE  IInv'
<1> USE Bounds
<1>1. PICK c \in Nodes :
        /\ c = Current
        /\ First(next - 1) \cup {c} = First(next) /\ c \notin First(next - 1)
  BY CurrentIsNode, FirstExtends DEF IInv, Current
<1>2. next # Cardinality(records) => next + 1 \in 1 .. Cardinality(records)
  BY DEF IInv, Records, Joined
<1>3. c \in records
  BY <1>1, Numbering DEF IInv, Records, Joined, First, Current
<1>4. archived' \in [Nodes -> Archives]
  <2>1. Lines(read[c], recent[c]) \in Archives
    BY DEF IInv, Lines, Archives
  <2> QED BY <1>1, <2>1 DEF IInv, Joined, Archive
<1>5. OsTypes'
  BY <1>1, <1>2 DEF IInv, Records, Joined, Archive
<1>6. TaskTypes'
  BY <1>1, <1>2 DEF IInv, Records, Joined, Archive
<1>7. next' \in 1 .. Len(NodeSeq)
  BY <1>2 DEF IInv, Records, Joined, Archive
<1>8. ControlTypes'
  BY <1>7 DEF IInv, Joined, Archive
<1>9. ArchiveTypes'
  BY <1>1, <1>2, <1>4 DEF IInv, Records, Joined, Archive
<1>10. Records'
  BY <1>1, <1>2 DEF IInv, Records, Joined, Archive
<1>11. ASSUME NEW m \in Nodes PROVE ChildOf(m)' /\ TasksOf(m)'
  <2>1. child[m] # "alive" /\ ctl' \notin {"allocate", "spawn"}
    BY DEF IInv, Children, ChildOf, Joined, Archive
  <2>2. ChildOf(m)'
    BY <2>1 DEF IInv, Children, ChildOf, Joined
  <2>3. TasksOf(m)'
    BY <1>1, <1>2 DEF IInv, Records, Tasks, TasksOf, Joined, Archive
  <2> QED BY <2>2, <2>3
<1>12. ASSUME NEW m \in Nodes PROVE SignalOf(m)'
  BY <1>1, <1>2 DEF IInv, Records, Children, ChildOf, Tasks, TasksOf, Signals,
     SignalOf, Joined, Archive
<1>13. ASSUME NEW m \in Nodes PROVE DrainOf(m)'
  BY <1>1, <1>3 DEF IInv, Records, Children, ChildOf, Tasks, TasksOf, Drained, DrainOf,
     Joined, Archive
<1> QED BY <1>5, <1>6, <1>8, <1>10, <1>11, <1>12, <1>13, <1>9
        DEF IInv, Children, Tasks, Signals, Drained

\* A drain cut off by its deadline preserves it.
LEMMA DrainTimeoutInv ==
    ASSUME IInv, DrainTimeout
    PROVE  IInv'
<1> USE Bounds, CurrentIsNode
<1>1. TypeOK'
  BY DEF IInv, Records, DrainTimeout
<1>2. Records'
  BY DEF IInv, Records, DrainTimeout
<1>3. ASSUME NEW m \in Nodes PROVE ChildOf(m)' /\ TasksOf(m)'
  BY DEF IInv, Records, Children, ChildOf, Tasks, TasksOf, DrainTimeout
<1>4. ASSUME NEW m \in Nodes PROVE SignalOf(m)'
  BY DEF IInv, Records, Children, ChildOf, Tasks, TasksOf, Signals, SignalOf,
     DrainTimeout
<1>5. ASSUME NEW m \in Nodes PROVE DrainOf(m)'
  BY DEF IInv, Records, Children, ChildOf, Tasks, TasksOf, Drained, DrainOf,
     DrainTimeout
<1> QED BY <1>1, <1>2, <1>3, <1>4, <1>5 DEF IInv, Children, Tasks, Signals, Drained

\* Clearing the archive preserves it.
LEMMA ClearArchiveInv ==
    ASSUME IInv, ClearArchive
    PROVE  IInv'
<1> USE Bounds
<1>1. TypeOK'
  BY NoArchive DEF IInv, ClearArchive
<1>2. Records'
  BY DEF IInv, Records, ClearArchive, Current
<1>3. ASSUME NEW m \in Nodes PROVE ChildOf(m)' /\ TasksOf(m)'
  BY DEF IInv, Records, Children, ChildOf, Tasks, TasksOf, ClearArchive, Current
<1>4. ASSUME NEW m \in Nodes PROVE SignalOf(m)'
  BY DEF IInv, Records, Children, ChildOf, Tasks, TasksOf, Signals, SignalOf,
     ClearArchive, Current
<1>5. ASSUME NEW m \in Nodes PROVE DrainOf(m)'
  BY DEF IInv, Records, Children, ChildOf, Tasks, TasksOf, Drained, DrainOf,
     ClearArchive, Current
<1> QED BY <1>1, <1>2, <1>3, <1>4, <1>5 DEF IInv, Children, Tasks, Signals, Drained

\* The inductive invariant holds in every reachable state of the supervisor.
THEOREM SupervisorInvariant == Spec => []IInv
<1>1. Init => IInv
  <2> SUFFICES ASSUME Init PROVE IInv
    OBVIOUS
  <2> USE Bounds, FirstNone DEF Init
  <2>1. OsTypes
    OBVIOUS
  <2>2. TaskTypes
    OBVIOUS
  <2>3. next \in 1 .. Len(NodeSeq)
    OBVIOUS
  <2>4. ControlTypes
    BY <2>3
  <2>5. ArchiveTypes
    BY NoArchive
  <2>6. Records
    BY DEF Records
  <2>7. Children /\ Tasks /\ Signals /\ Drained
    BY HeldLines
       DEF Children, ChildOf, Tasks, TasksOf, Signals, SignalOf, Drained, DrainOf
  <2> QED BY <2>1, <2>2, <2>4, <2>6, <2>7, <2>5 DEF IInv
<1>2. IInv /\ [Next]_vars => IInv'
  <2> SUFFICES ASSUME IInv, [Next]_vars PROVE IInv'
    OBVIOUS
  <2>1. CASE UNCHANGED vars
    BY <2>1 DEF vars, IInv, Records, Children, ChildOf, Tasks, TasksOf,
       Signals, SignalOf, Drained, DrainOf, Current
  <2>2. CASE Next
    BY <2>2, WriteLineInv, ExitInv, ReapInv, MonitorInv, HandledInv, ThreadDoneInv,
       ReadLineInv, EndOfOutputInv, StartBeginsInv, AllocateInv, SpawnedInv,
       SpawnFailsInv, StopBeginsInv, AllReapedInv, ShutdownTimeoutInv, JoinedInv,
       DrainTimeoutInv, ClearArchiveInv DEF Next
  <2> QED BY <2>1, <2>2
<1> QED BY <1>1, <1>2, PTL DEF Spec

\* No child is left without a record, whatever fails in start or stop
\* (_start_one, _stop_unlocked).
THEOREM NoChildIsLost == Spec => []NoOrphan
<1>1. IInv => NoOrphan
  BY DEF IInv, Children, ChildOf, NoOrphan, Alive
<1> QED BY <1>1, SupervisorInvariant, PTL

\* The failure handler is never told of a child that stop ended (_monitor_exit).
THEOREM FailuresAreReal == Spec => []NoFalseFailure
<1>1. IInv => NoFalseFailure
  BY DEF IInv, Signals, SignalOf, NoFalseFailure
<1> QED BY <1>1, SupervisorInvariant, PTL

\* A log archived without a cut-off is all that the child wrote (_stop_unlocked,
\* _drain_output).
THEOREM ArchivesAreWhole == Spec => []ArchiveIsWhole
<1>1. IInv => ArchiveIsWhole
  BY DEF IInv, Drained, DrainOf, ArchiveIsWhole
<1> QED BY <1>1, SupervisorInvariant, PTL

=============================================================================

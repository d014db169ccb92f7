--------------------------- MODULE TrafficRunProofs ---------------------------
(***************************************************************************)
(* Theorems about TrafficRun, for any controllers, any number of runs and   *)
(* any size of the archive: no run is lost, and controllers, disk and       *)
(* archive together implement RunContract.  The inductive invariant says    *)
(* who may be inside _finish, what is on disk at each of its steps, and     *)
(* that a run passes from its controller to the archive once only.          *)
(***************************************************************************)
EXTENDS TrafficRun, SequenceTheorems, TLAPS

Archived == VolatileRuns \cup evicted

\* The run of c has been recorded, or there is none.
Recorded(c) ==
    \/ ctl[c].run = 0
    \/ ctl[c].frozen # None /\ (resultFile[ctl[c].run] # None \/ ctl[c].run \in Archived)

\* The fields of one controller agree: one _finish at a time, on a run that has
\* no result yet.
FieldsOf(c) ==
    LET k == ctl[c] IN
    /\ k.done <=> k.fin = "idle"
    /\ k.terminal = None <=> k.fin = "idle"
    /\ k.fin # "idle" => /\ k.run # 0 /\ k.frozen = None /\ k.terminal.run = k.run
                         /\ k.task \in {"finishing", "done"}
    /\ k.task = "finishing" <=> k.finisher = "task"
    /\ k.task = "finishing" => k.fin # "idle"
    /\ k.run = 0 <=> k.state = "IDLE"
    /\ k.run = 0 => k.task = "none" /\ k.frozen = None
    /\ k.task = "none" => k.run = 0
    /\ k.frozen # None => /\ k.frozen.run = k.run /\ k.task = "done" /\ k.fin = "idle"
                          /\ k.state \in Terminal \cup {"STOPPING"}
    /\ k.state \in Terminal => k.frozen # None
    /\ k.task = "done" /\ k.fin = "idle" /\ k.frozen = None =>
         on = c /\ pc \in {"stopSample", "failSample"}

\* Where the call is, and what it may rely on there.
CallInv ==
    /\ op = "none" <=> pc = "idle"
    /\ op = "none" <=> on = None
    /\ on # None => on = current
    /\ pc \in {"stopSample", "failSample"} =>
         ctl[on].run # 0 /\ ctl[on].task = "done" /\ ctl[on].fin = "idle"
    /\ pc = "stopFinish" => ctl[on].task = "done" /\ ctl[on].run # 0
    /\ pc = "dismantle" => op # "stop" /\ (on \in late \/ Recorded(on))

\* Who holds a run: no two controllers the same one, and the archive none that
\* the current controller or a late one may still put there.
HolderOf(c) ==
    /\ ctl[c].run <= started
    /\ \A d \in Controllers : ctl[d].run = ctl[c].run /\ ctl[c].run # 0 => c = d
    /\ c \in late => /\ ctl[c].run # 0 /\ ctl[c].run \notin Archived
                     /\ ctl[c].frozen # None \/ ctl[c].fin # "idle"
                     /\ c = current => pc = "dismantle"
    /\ c = current /\ pc # "dismantle" => ctl[c].run \notin Archived
    /\ c \notin late /\ c # current => ctl[c].run = 0 \/ ctl[c].frozen # None

\* What is on disk at each step of _finish.
DiskOf(c) ==
    LET r == ctl[c].run IN
    ctl[c].run # 0 =>
    /\ ctl[c].frozen = None /\ ctl[c].fin \in {"idle", "metrics", "write"} =>
         resultFile[r] = None /\ summaryFile[r] = None
    /\ ctl[c].fin = "summary" => resultFile[r] = ctl[c].terminal /\ summaryFile[r] = None
    /\ ctl[c].fin = "freeze" =>
         \/ resultFile[r] = None /\ summaryFile[r] = None
         \/ resultFile[r] = ctl[c].terminal /\ summaryFile[r] = ctl[c].terminal
         \/ ctl[c].terminal.state = "FAILED" /\ summaryFile[r] = None
    /\ ctl[c].frozen # None /\ resultFile[r] # None =>
         ctl[c].frozen.state \in {"FAILED", resultFile[r].state}

\* The archive: distinct unpersisted runs, each as its controller froze it.
ArchiveInv ==
    /\ Len(volatile) <= MaxVolatile
    /\ \A i, j \in DOMAIN volatile : volatile[i].run = volatile[j].run => i = j
    /\ VolatileRuns \cap evicted = {}
    /\ \A r \in Archived : r <= started /\ resultFile[r] = None
    /\ \A c \in Controllers :
         /\ ctl[c].run \in Archived => ctl[c].frozen # None
         /\ \A i \in DOMAIN volatile :
              volatile[i].run = ctl[c].run => volatile[i].state = ctl[c].frozen.state

NoFuture == \A r \in Runs : r > started => resultFile[r] = None /\ summaryFile[r] = None

Controlled == \A c \in Controllers : FieldsOf(c)
Held == \A c \in Controllers : HolderOf(c)
OnDisk == \A c \in Controllers : DiskOf(c)

IInv ==
    /\ TypeOK
    /\ Controlled
    /\ CallInv
    /\ Held
    /\ OnDisk
    /\ ArchiveInv
    /\ NoFuture
    /\ NoRunLost

-----------------------------------------------------------------------------
(* Proofs.  First what a result is, what Archive does, and what every step    *)
(* of one controller has in common; then one lemma per action.               *)

USE DEF disk, archive, caller

\* A result has the fields of one, and is not None.
LEMMA ResultFields ==
    /\ None \notin Results /\ None \notin Summaries
    /\ \A x \in Results : x.run \in Runs /\ x.state \in Terminal /\ x.failure \in Failures
    /\ \A x \in Results : x \in Summaries
    /\ \A r \in Runs, t \in Terminal, f \in Failures :
         [run |-> r, state |-> t, failure |-> f] \in Results
    /\ \A x \in Results, f \in Failures :
         /\ [x EXCEPT !.failure = f] \in Results
         /\ [x EXCEPT !.failure = f].run = x.run
         /\ [x EXCEPT !.failure = f].state = x.state
BY TrafficRunAssumption DEF Results, Summaries, Terminal, RunStates, Failures

\* Runs are positive numbers.
LEMMA RunNumbers == Runs \subseteq Nat \ {0} /\ MaxRuns \in Nat /\ Runs = 1 .. MaxRuns
BY TrafficRunAssumption DEF Runs

\* A sequence without its first elements.
LEMMA WithoutFirst ==
    ASSUME NEW k \in Seq(Results), NEW e \in Nat, e <= Len(k),
           NEW t, t = SubSeq(k, e + 1, Len(k))
    PROVE  /\ t \in Seq(Results) /\ Len(t) = Len(k) - e
           /\ \A i \in 1 .. Len(t) : i + e \in (e + 1) .. Len(k) /\ t[i] = k[i + e]
           /\ \A i \in (e + 1) .. Len(k) : i - e \in 1 .. Len(t) /\ t[i - e] = k[i]
<1>1. \A i \in (e + 1) .. Len(k) : k[i] \in Results
  OBVIOUS
<1>2. /\ t \in Seq(Results)
      /\ Len(t) = IF e + 1 <= Len(k) THEN Len(k) - (e + 1) + 1 ELSE 0
      /\ \A i \in 1 .. Len(k) - (e + 1) + 1 : t[i] = k[(e + 1) + i - 1]
  <2>1. e + 1 \in Int /\ Len(k) \in Int
    OBVIOUS
  <2> QED BY <1>1, <2>1, SubSeqProperties
<1> DEFINE n == Len(k)
<1>3. n \in Nat /\ Len(t) = n - e /\ n - (e + 1) + 1 = n - e /\ e <= n
  BY <1>2
<1>4. \A i \in 1 .. n - e : t[i] = k[(e + 1) + i - 1]
  BY <1>2, <1>3
<1> HIDE DEF n
<1>5. \A m \in Nat : \A i \in 1 .. m - e : i + e \in (e + 1) .. m /\ (e + 1) + i - 1 = i + e
  OBVIOUS
<1>6. \A m \in Nat : \A i \in (e + 1) .. m : i - e \in 1 .. m - e /\ (i - e) + e = i
  OBVIOUS
<1>7. \A i \in 1 .. n - e : i + e \in (e + 1) .. n /\ t[i] = k[i + e]
  BY <1>3, <1>4, <1>5
<1>8. \A i \in (e + 1) .. n : i - e \in 1 .. n - e /\ t[i - e] = k[i]
  BY <1>3, <1>6, <1>7
<1> QED BY <1>2, <1>3, <1>7, <1>8 DEF n

\* What Archive does: the run joins the archive if it has a result and no file,
\* and only the oldest entry leaves the retained ones.
LEMMA ArchiveEffect ==
    ASSUME IInv, NEW c \in Controllers, Archive(c), ctl[c].run \notin Archived
    PROVE  /\ volatile' \in Seq(Results) /\ Len(volatile') <= MaxVolatile
           /\ evicted \subseteq evicted' /\ evicted' \subseteq Runs
           /\ \A i, j \in DOMAIN volatile' : volatile'[i].run = volatile'[j].run => i = j
           /\ VolatileRuns' \cap evicted' = {}
           /\ Archived \subseteq Archived'
           /\ Archived' \subseteq Archived \cup {ctl[c].run}
           /\ ctl[c].run \in Archived' => ctl[c].frozen # None /\ resultFile[ctl[c].run] = None
           /\ ctl[c].frozen # None /\ resultFile[ctl[c].run] = None => ctl[c].run \in Archived'
           /\ \A i \in DOMAIN volatile' :
                \/ \E j \in DOMAIN volatile : volatile'[i] = volatile[j]
                \/ volatile'[i] = ctl[c].frozen
<1> DEFINE new == ctl[c].frozen # None /\ resultFile[ctl[c].run] = None
           kept == Append(volatile, ctl[c].frozen)
           excess == IF Len(kept) > MaxVolatile THEN Len(kept) - MaxVolatile ELSE 0
<1>1. volatile \in Seq(Results) /\ Len(volatile) <= MaxVolatile /\ evicted \subseteq Runs
  BY DEF IInv, TypeOK, ArchiveInv
<1>2. new => ctl[c].frozen \in Results /\ ctl[c].frozen.run = ctl[c].run
  BY DEF IInv, TypeOK, Fields, Controlled, FieldsOf
<1>3. CASE ~new
  BY <1>1, <1>3 DEF IInv, ArchiveInv, Archive, Archived, VolatileRuns
<1>4. CASE new
  <2>1. /\ volatile' = SubSeq(kept, excess + 1, Len(kept))
        /\ evicted' = evicted \cup {kept[i].run : i \in 1 .. excess}
    BY <1>4 DEF Archive, Archived
  <2>2. /\ kept \in Seq(Results) /\ Len(kept) = Len(volatile) + 1 /\ Len(kept) \in Nat
        /\ kept[Len(kept)] = ctl[c].frozen
        /\ \A i \in 1 .. Len(volatile) : kept[i] = volatile[i]
    BY <1>1, <1>2, <1>4
  <2>3. excess \in Nat /\ excess <= Len(kept) /\ Len(kept) - excess <= MaxVolatile
    BY <2>2, TrafficRunAssumption
  <2> HIDE DEF kept, excess
  <2>4. /\ volatile' \in Seq(Results) /\ Len(volatile') = Len(kept) - excess
        /\ \A i \in 1 .. Len(volatile') :
             i + excess \in (excess + 1) .. Len(kept) /\ volatile'[i] = kept[i + excess]
        /\ \A i \in (excess + 1) .. Len(kept) :
             i - excess \in 1 .. Len(volatile') /\ volatile'[i - excess] = kept[i]
    BY <2>1, <2>2, <2>3, WithoutFirst
  <2>5. \A i, j \in 1 .. Len(kept) : kept[i].run = kept[j].run => i = j
    <3>1. \A i \in 1 .. Len(volatile) : kept[i].run # ctl[c].frozen.run
      BY <1>1, <1>2, <1>4, <2>2 DEF Archived, VolatileRuns
    <3>2. \A i \in 1 .. Len(kept) : i \in 1 .. Len(volatile) \/ i = Len(kept)
      BY <1>1, <2>2
    <3> QED BY <1>1, <2>2, <3>1, <3>2 DEF IInv, ArchiveInv
  <2>6. \A i \in 1 .. Len(kept) : kept[i].run \notin evicted /\ kept[i].run \in Runs
    <3>1. \A i \in 1 .. Len(volatile) : volatile[i].run \notin evicted
      BY <1>1 DEF IInv, ArchiveInv, VolatileRuns
    <3>2. \A i \in 1 .. Len(kept) : i \in 1 .. Len(volatile) \/ i = Len(kept)
      BY <1>1, <2>2
    <3> QED BY <1>1, <1>2, <1>4, <2>2, <3>1, <3>2, ResultFields DEF Archived
  <2>7. Archived \cup {ctl[c].run} = evicted \cup {kept[i].run : i \in 1 .. Len(kept)}
    <3>1. 1 .. Len(kept) = (1 .. Len(volatile)) \cup {Len(kept)}
      BY <1>1, <2>2
    <3>2. VolatileRuns = {kept[i].run : i \in 1 .. Len(volatile)}
      BY <1>1, <2>2 DEF VolatileRuns
    <3> QED BY <1>2, <1>4, <2>2, <3>1, <3>2 DEF Archived
  <2>8. DOMAIN volatile' = 1 .. Len(volatile') /\ DOMAIN volatile = 1 .. Len(volatile)
    BY <1>1, <2>4
  <2>9. VolatileRuns' = {kept[i].run : i \in (excess + 1) .. Len(kept)}
    BY <2>4, <2>8 DEF VolatileRuns
  <2>10. \A i, j \in DOMAIN volatile' : volatile'[i].run = volatile'[j].run => i = j
    <3> SUFFICES ASSUME NEW i \in DOMAIN volatile', NEW j \in DOMAIN volatile',
                        volatile'[i].run = volatile'[j].run
                 PROVE  i = j
      OBVIOUS
    <3>1. i + excess \in 1 .. Len(kept) /\ j + excess \in 1 .. Len(kept)
      BY <2>2, <2>3, <2>4, <2>8
    <3>2. kept[i + excess].run = kept[j + excess].run
      BY <2>4, <2>8
    <3>3. i + excess = j + excess
      BY <2>5, <3>1, <3>2
    <3> QED BY <2>3, <2>8, <3>3
  <2>11. 1 .. Len(kept) = (1 .. excess) \cup ((excess + 1) .. Len(kept))
    BY <2>2, <2>3
  <2>12. Archived' = Archived \cup {ctl[c].run}
    BY <2>1, <2>7, <2>9, <2>11 DEF Archived
  <2>13. VolatileRuns' \cap evicted' = {} /\ evicted' \subseteq Runs /\ evicted \subseteq evicted'
    <3>1. \A i \in 1 .. excess, j \in (excess + 1) .. Len(kept) : i # j
      BY <2>2, <2>3
    <3> QED BY <1>1, <2>1, <2>5, <2>6, <2>9, <2>11, <3>1
  <2>14. ASSUME NEW i \in DOMAIN volatile'
         PROVE  \/ \E j \in DOMAIN volatile : volatile'[i] = volatile[j]
                \/ volatile'[i] = ctl[c].frozen
    <3>1. i + excess \in 1 .. Len(volatile) \/ i + excess = Len(kept)
      BY <1>1, <2>2, <2>3, <2>4, <2>8
    <3> QED BY <2>2, <2>4, <2>8, <3>1
  <2> QED BY <1>4, <2>3, <2>4, <2>10, <2>12, <2>13, <2>14
<1> QED BY <1>3, <1>4

\* What the steps inside one controller have in common: the other controllers,
\* the archive and the files of other runs stay, and a frozen result stays
\* frozen, with its state and its files.
Within(c) ==
    /\ ctl' \in [Controllers -> Fields]
    /\ \A d \in Controllers : d # c => ctl'[d] = ctl[d]
    /\ ctl'[c].run = ctl[c].run
    /\ ctl[c].frozen # None =>
         /\ ctl'[c].frozen # None /\ ctl'[c].frozen.state = ctl[c].frozen.state
         /\ UNCHANGED disk
    /\ ctl[c].fin # "idle" => ctl'[c].fin # "idle" \/ ctl'[c].frozen # None
    /\ resultFile' \in [Runs -> Results \cup {None}]
    /\ summaryFile' \in [Runs -> Results \cup {None}]
    /\ \A r \in Runs : r # ctl[c].run =>
         resultFile'[r] = resultFile[r] /\ summaryFile'[r] = summaryFile[r]
    /\ ctl[c].run # 0 /\ summaryFile'[ctl[c].run] # None =>
         resultFile'[ctl[c].run] = summaryFile'[ctl[c].run]
    /\ UNCHANGED <<current, started, volatile, evicted, last, late, op, on>>
    /\ pc' \in {"idle", "stop", "stopWait", "stopSample", "stopFinish",
                "fail", "failWait", "failSample", "failFinish", "dismantle"}
    /\ pc' = pc \/ (on = c /\ pc # "dismantle" /\ pc' # "dismantle")

\* The fields of a controller, one by one.
LEMMA FieldTypes ==
    ASSUME TypeOK, NEW c \in Controllers
    PROVE  /\ ctl[c] \in Fields
           /\ ctl[c].run \in {0} \cup Runs /\ ctl[c].state \in RunStates
           /\ ctl[c].frozen \in Results \cup {None} /\ ctl[c].terminal \in Results \cup {None}
           /\ ctl[c].failure \in Failures
           /\ ctl[c].done \in BOOLEAN /\ ctl[c].timedOut \in BOOLEAN
BY DEF TypeOK, Fields

\* A step within one controller keeps the invariant if what the controller, its
\* files and the call on it promise still holds.
LEMMA WithinKeepsInvariant ==
    ASSUME IInv, NEW c \in Controllers, Within(c), FieldsOf(c)', DiskOf(c)', CallInv'
    PROVE  IInv'
<1>1. TypeOK'
  BY DEF IInv, TypeOK, Within
<1>2. Archived' = Archived /\ VolatileRuns' = VolatileRuns
  BY DEF Archived, VolatileRuns, Within
<1>3. \A d \in Controllers : ctl'[d].run = ctl[d].run
  BY DEF Within
<1>4. \A d \in Controllers : /\ ctl[d].run \in {0} \cup Runs
                             /\ d # c /\ ctl[d].run # 0 => ctl[d].run # ctl[c].run
  BY FieldTypes DEF IInv, Held, HolderOf
<1>5. Controlled'
  <2> SUFFICES ASSUME NEW d \in Controllers, d # c PROVE FieldsOf(d)'
    BY DEF Controlled
  <2> QED BY DEF IInv, Controlled, FieldsOf, Within
<1>6. Held'
  <2> SUFFICES ASSUME NEW d \in Controllers PROVE HolderOf(d)'
    BY DEF Held
  <2>1. HolderOf(d)
    BY DEF IInv, Held
  <2>2. /\ ctl'[d].run = ctl[d].run
        /\ ctl[d].frozen # None => ctl'[d].frozen # None
        /\ ctl[d].fin # "idle" => ctl'[d].fin # "idle" \/ ctl'[d].frozen # None
        /\ late' = late /\ current' = current /\ started' = started
        /\ pc' = "dismantle" <=> pc = "dismantle"
    BY DEF Within
  <2> QED BY <1>2, <1>3, <2>1, <2>2 DEF HolderOf
<1>7. OnDisk'
  <2> SUFFICES ASSUME NEW d \in Controllers, d # c PROVE DiskOf(d)'
    BY DEF OnDisk
  <2>1. DiskOf(d) /\ ctl'[d] = ctl[d]
    BY DEF IInv, OnDisk, Within
  <2>2. ctl[d].run # 0 => /\ resultFile'[ctl[d].run] = resultFile[ctl[d].run]
                          /\ summaryFile'[ctl[d].run] = summaryFile[ctl[d].run]
    BY <1>4 DEF Within
  <2> QED BY <2>1, <2>2 DEF DiskOf
<1>8. ArchiveInv'
  <2>1. \A r \in Archived : resultFile'[r] = None
    <3>1. \A r \in Archived : r \in Runs /\ resultFile[r] = None
      BY ResultFields DEF IInv, TypeOK, ArchiveInv, Archived, VolatileRuns
    <3>2. ctl[c].run \in Archived => ctl[c].frozen # None
      BY DEF IInv, ArchiveInv
    <3> QED BY <3>1, <3>2 DEF Within
  <2>2. \A d \in Controllers : ctl'[d].run \in Archived => ctl'[d].frozen # None
    BY DEF IInv, ArchiveInv, Within
  <2>3. ASSUME NEW d \in Controllers, NEW i \in DOMAIN volatile, volatile[i].run = ctl[d].run
        PROVE  volatile[i].state = ctl'[d].frozen.state
    <3>1. ctl[d].run \in Archived
      BY <2>3 DEF Archived, VolatileRuns
    <3> QED BY <2>3, <3>1 DEF IInv, ArchiveInv, Within
  <2>4. volatile' = volatile /\ evicted' = evicted /\ started' = started
    BY DEF Within
  <2> QED BY <1>2, <1>3, <2>1, <2>2, <2>3, <2>4 DEF IInv, ArchiveInv
<1>9. NoFuture'
  <2>1. \A r \in Runs : r > started => r # ctl[c].run
    BY RunNumbers, <1>4 DEF IInv, TypeOK, Held, HolderOf
  <2> QED BY <2>1 DEF IInv, NoFuture, Within
<1>10. NoRunLost'
  <2>1. ASSUME NEW r \in 1 .. started
        PROVE  \/ resultFile'[r] # None
               \/ r \in VolatileRuns \cup evicted
               \/ \E d \in late \cup ({current} \ {None}) : ctl'[d].run = r
    <3>1. r \in Runs
      BY RunNumbers DEF IInv, TypeOK
    <3>2. late \cup ({current} \ {None}) \subseteq Controllers
      BY DEF IInv, TypeOK
    <3>3. CASE r # ctl[c].run
      BY <1>3, <2>1, <3>1, <3>2, <3>3 DEF IInv, NoRunLost, Within
    <3>4. CASE c \in late \cup ({current} \ {None}) /\ r = ctl[c].run
      BY <1>3, <3>4
    <3>5. CASE c \notin late \cup ({current} \ {None}) /\ r = ctl[c].run
      <4>1. c # None
        BY TrafficRunAssumption
      <4>2. r # 0
        BY <3>1, RunNumbers
      <4>3. ctl[c].frozen # None
        BY <3>5, <4>1, <4>2 DEF IInv, Held, HolderOf
      <4>4. resultFile' = resultFile
        BY <4>3 DEF Within
      <4> QED BY <1>3, <2>1, <3>2, <4>4 DEF IInv, NoRunLost
    <3> QED BY <3>3, <3>4, <3>5
  <2>2. \A r \in Runs : summaryFile'[r] # None => resultFile'[r] = summaryFile'[r]
    <3>1. \A r \in Runs : r # 0
      BY RunNumbers
    <3> QED BY <3>1 DEF IInv, NoRunLost, Within
  <2> QED BY <1>2, <2>1, <2>2 DEF NoRunLost, Within
<1> QED BY <1>1, <1>5, <1>6, <1>7, <1>8, <1>9, <1>10 DEF IInv

\* A step of the run task or of _finish: it finds a task that runs or a _finish
\* that is under way, so no call is past its sample on that controller.
LEMMA TaskStepKeepsInvariant ==
    ASSUME IInv, NEW c \in Controllers, Within(c), FieldsOf(c)', DiskOf(c)', UNCHANGED caller,
           ctl[c].fin # "idle" \/ ctl[c].task # "done",
           ctl[c].task = "done" => ctl'[c].task = "done"
    PROVE  IInv'
<1>1. on # None => on \in Controllers
  BY DEF IInv, TypeOK
<1>2. CallInv
  BY DEF IInv
<1>3. pc \in {"stopSample", "failSample"} => on # None /\ on # c
  BY <1>2 DEF CallInv
<1>4. pc \in {"stopFinish", "dismantle"} => on # None
  BY <1>2 DEF CallInv
<1>5. \A d \in Controllers : Recorded(d) => Recorded(d)'
  <2>1. Archived' = Archived
    BY DEF Archived, VolatileRuns, Within
  <2>2. \A d \in Controllers : d # c => ctl[d].run # ctl[c].run \/ ctl[d].run = 0
    BY DEF IInv, Held, HolderOf
  <2> SUFFICES ASSUME NEW d \in Controllers, Recorded(d) PROVE Recorded(d)'
    OBVIOUS
  <2>3. CASE d = c
    BY <2>1, <2>3 DEF Recorded, Within
  <2>4. CASE d # c
    <3>1. ctl'[d] = ctl[d]
      BY <2>4 DEF Within
    <3>2. ctl[d].run # 0 => resultFile'[ctl[d].run] = resultFile[ctl[d].run]
      BY <2>2, <2>4, FieldTypes DEF IInv, Within
    <3> QED BY <2>1, <3>1, <3>2 DEF Recorded
  <2> QED BY <2>3, <2>4
<1>6. CallInv'
  <2>1. pc \in {"stopSample", "failSample"} =>
          ctl'[on].run # 0 /\ ctl'[on].task = "done" /\ ctl'[on].fin = "idle"
    BY <1>1, <1>2, <1>3 DEF CallInv, Within
  <2>2. pc = "stopFinish" => ctl'[on].task = "done" /\ ctl'[on].run # 0
    BY <1>1, <1>2, <1>4 DEF CallInv, Within
  <2>3. pc = "dismantle" => op # "stop" /\ (on \in late \/ Recorded(on)')
    BY <1>1, <1>2, <1>4, <1>5 DEF CallInv
  <2>4. UNCHANGED <<op, on, pc, late, current>>
    BY DEF Within
  <2> QED BY <1>2, <2>1, <2>2, <2>3, <2>4 DEF CallInv
<1> QED BY <1>6, WithinKeepsInvariant

\* What the invariant says of one controller.
LEMMA ControllerFacts ==
    ASSUME IInv, NEW c \in Controllers
    PROVE  /\ ctl \in [Controllers -> Fields] /\ ctl[c] \in Fields
           /\ FieldsOf(c) /\ DiskOf(c)
           /\ ctl[c].run \in {0} \cup Runs
           /\ ctl[c].frozen \in Results \cup {None} /\ ctl[c].terminal \in Results \cup {None}
           /\ resultFile \in [Runs -> Results \cup {None}]
           /\ summaryFile \in [Runs -> Results \cup {None}]
           /\ \A r \in Runs : summaryFile[r] # None => resultFile[r] = summaryFile[r]
           /\ pc \in {"idle", "stop", "stopWait", "stopSample", "stopFinish",
                      "fail", "failWait", "failSample", "failFinish", "dismantle"}
           /\ None \notin Results
BY FieldTypes, ResultFields DEF IInv, TypeOK, Controlled, OnDisk, NoRunLost

\* A step of one controller that leaves the files alone.
LEMMA WithinFields ==
    ASSUME IInv, NEW c \in Controllers, NEW x \in Fields,
           ctl' = [ctl EXCEPT ![c] = x], x.run = ctl[c].run,
           ctl[c].frozen # None => x.frozen # None /\ x.frozen.state = ctl[c].frozen.state,
           ctl[c].fin # "idle" => x.fin # "idle" \/ x.frozen # None,
           UNCHANGED <<current, started, disk, archive, last, late, op, on>>,
           pc' \in {"idle", "stop", "stopWait", "stopSample", "stopFinish",
                    "fail", "failWait", "failSample", "failFinish", "dismantle"},
           pc' = pc \/ (on = c /\ pc # "dismantle" /\ pc' # "dismantle")
    PROVE  Within(c) /\ ctl'[c] = x
BY ControllerFacts DEF Within

\* Steps of the run task that only move it on.
LEMMA TaskMovesStep ==
    ASSUME IInv, NEW c \in Controllers, Generated(c) \/ Drained(c)
    PROVE  IInv' /\ Within(c) /\ ctl'[c].frozen = ctl[c].frozen
<1> USE ControllerFacts
<1>1. PICK t \in {"draining", "sampling"} : ctl' = [ctl EXCEPT ![c].task = t]
  BY DEF Generated, Drained
<1>2. /\ ctl[c].task \in {"generating", "draining"}
      /\ UNCHANGED <<current, caller, started, disk, archive, last, late>>
  BY DEF Generated, Drained
<1> DEFINE x == [ctl[c] EXCEPT !.task = t]
<1>3. /\ x \in Fields /\ x.task = t /\ x.state = ctl[c].state /\ x.run = ctl[c].run
      /\ x.frozen = ctl[c].frozen /\ x.done = ctl[c].done /\ x.fin = ctl[c].fin
      /\ x.finisher = ctl[c].finisher /\ x.terminal = ctl[c].terminal
  BY DEF Fields
<1>4. ctl' = [ctl EXCEPT ![c] = x]
  BY <1>1
<1> HIDE DEF x
<1>5. Within(c) /\ ctl'[c] = x
  BY <1>2, <1>3, <1>4, WithinFields
<1>6. FieldsOf(c)' /\ DiskOf(c)'
  BY <1>2, <1>3, <1>5 DEF FieldsOf, DiskOf
<1> QED BY <1>2, <1>3, <1>5, <1>6, TaskStepKeepsInvariant DEF FieldsOf

\* The run task enters _finish.
LEMMA RunEndsStep ==
    ASSUME IInv, NEW c \in Controllers, RunCompletes(c) \/ RunRaises(c)
    PROVE  IInv' /\ Within(c) /\ ctl'[c].frozen = ctl[c].frozen
<1> USE ControllerFacts, ResultFields
<1>1. PICK y \in Fields, target \in Terminal :
        /\ ctl' = [ctl EXCEPT ![c] = FinishFields(y, "task", target)]
        /\ y.task = "finishing" /\ y.run = ctl[c].run /\ y.frozen = ctl[c].frozen
        /\ y.state \in {ctl[c].state, "STOPPING"}
  <2>1. CASE RunCompletes(c)
    <3>1. [ctl[c] EXCEPT !.task = "finishing"] \in Fields
      BY DEF Fields
    <3> QED BY <2>1, <3>1 DEF RunCompletes, Fields, Terminal
  <2>2. CASE RunRaises(c)
    <3>1. [ctl[c] EXCEPT !.task = "finishing", !.state = "STOPPING", !.failure = "exception"] \in Fields
      <4>1. "STOPPING" \in RunStates /\ "exception" \in Failures
        BY DEF RunStates, Failures
      <4> QED BY <4>1, ZenonT(60) DEF Fields
    <3> QED BY <2>2, <3>1 DEF RunRaises, Fields, Terminal
  <2> QED BY <2>1, <2>2
<1>2. /\ ctl[c].task \in {"generating", "draining", "sampling"}
      /\ UNCHANGED <<current, caller, started, disk, archive, last, late>>
  BY DEF RunCompletes, RunRaises
<1>3. ctl[c].run # 0 /\ ctl[c].frozen = None /\ ctl[c].fin = "idle" /\ ctl[c].run \in Runs
  BY <1>2 DEF FieldsOf
<1> DEFINE x == FinishFields(y, "task", target)
           z == [run |-> y.run, state |-> target, failure |-> y.failure]
<1>4. z \in Results /\ z.run = ctl[c].run
  BY <1>1, <1>3 DEF Fields
<1>5. /\ x \in Fields /\ x.task = "finishing" /\ x.state = y.state /\ x.run = ctl[c].run
      /\ x.frozen = None /\ x.done = FALSE /\ x.fin = "metrics"
      /\ x.finisher = "task" /\ x.terminal = z
  BY <1>1, <1>3, <1>4 DEF Fields, FinishFields
<1> HIDE DEF x, z
<1>6. Within(c) /\ ctl'[c] = x
  BY <1>1, <1>2, <1>3, <1>5, WithinFields DEF x
<1>7. FieldsOf(c)'
  BY <1>1, <1>3, <1>4, <1>5, <1>6 DEF FieldsOf, Terminal
<1>8. DiskOf(c)'
  BY <1>2, <1>3, <1>5, <1>6 DEF DiskOf
<1> QED BY <1>2, <1>3, <1>5, <1>6, <1>7, <1>8, TaskStepKeepsInvariant

\* Computing the metrics decides nothing about the result.
LEMMA MetricsComputedStep ==
    ASSUME IInv, NEW c \in Controllers, MetricsComputed(c)
    PROVE  IInv' /\ Within(c) /\ ctl'[c].frozen = ctl[c].frozen
<1> USE ControllerFacts, ResultFields
<1>1. /\ ctl[c].fin = "metrics"
      /\ UNCHANGED <<current, caller, started, disk, archive, last, late>>
  BY DEF MetricsComputed
<1>2. ctl[c].terminal \in Results /\ ctl[c].run # 0 /\ ctl[c].frozen = None
      /\ ctl[c].failure \in Failures
  BY <1>1 DEF FieldsOf, Fields
<1> DEFINE z == [ctl[c].terminal EXCEPT !.failure = ctl[c].failure]
           x == [ctl[c] EXCEPT !.fin = "write", !.terminal = z]
<1>3. z \in Results /\ z.run = ctl[c].terminal.run
  BY <1>2
<1>4. ctl' = [ctl EXCEPT ![c] = x]
  BY <1>2 DEF MetricsComputed
<1> HIDE DEF z
<1>5. /\ x \in Fields /\ x.fin = "write" /\ x.terminal = z
      /\ x.state = ctl[c].state /\ x.run = ctl[c].run /\ x.task = ctl[c].task
      /\ x.frozen = ctl[c].frozen /\ x.done = ctl[c].done /\ x.finisher = ctl[c].finisher
  BY <1>3, ZenonT(60) DEF Fields
<1> HIDE DEF x
<1>6. Within(c) /\ ctl'[c] = x
  BY <1>1, <1>4, <1>5, WithinFields
<1>7. FieldsOf(c)' /\ DiskOf(c)'
  BY <1>1, <1>2, <1>3, <1>5, <1>6 DEF FieldsOf, DiskOf
<1> QED BY <1>1, <1>5, <1>6, <1>7, TaskStepKeepsInvariant

\* A controller whose run is frozen has fields of their kinds.
LEMMA FrozenFields ==
    ASSUME NEW k \in Fields, NEW z \in Results, NEW f \in Failures, NEW s \in RunStates
    PROVE  [k EXCEPT !.frozen = z, !.failure = f, !.state = s, !.terminal = None, !.done = TRUE,
                     !.fin = "idle", !.finisher = "none", !.task = "done"] \in Fields
BY DEF Fields

\* The result is frozen once, as the terminal result decided before.
LEMMA FreezeStep ==
    ASSUME IInv, NEW c \in Controllers, Freeze(c)
    PROVE  /\ IInv' /\ Within(c) /\ UNCHANGED disk
           /\ ctl[c].run \in Runs /\ ctl[c].frozen = None
           /\ ctl'[c].frozen = ctl[c].terminal /\ ctl[c].terminal \in Results
<1> USE ControllerFacts, ResultFields
<1>1. /\ ctl[c].fin = "freeze"
      /\ UNCHANGED <<current, caller, started, disk, archive, last, late>>
  BY DEF Freeze
<1>2. /\ ctl[c].terminal \in Results /\ ctl[c].run # 0 /\ ctl[c].frozen = None
      /\ ctl[c].terminal.run = ctl[c].run
      /\ ctl[c].finisher = "task" \/ ctl[c].task = "done"
      /\ ctl[c].terminal.state \in RunStates
  BY <1>1 DEF FieldsOf, Fields, RunStates
<1> DEFINE t == IF ctl[c].finisher = "task" THEN "done" ELSE ctl[c].task
           x == [ctl[c] EXCEPT
           !.frozen = ctl[c].terminal, !.failure = ctl[c].terminal.failure,
           !.state = ctl[c].terminal.state, !.terminal = None,
           !.done = TRUE, !.fin = "idle", !.finisher = "none",
           !.task = t]
<1>3. ctl' = [ctl EXCEPT ![c] = x]
  BY DEF Freeze
<1>4. t = "done" /\ ctl[c].terminal.failure \in Failures
  BY <1>2
<1> HIDE DEF t
<1>5. x \in Fields
  BY <1>2, <1>4, FrozenFields
<1>6. /\ x.fin = "idle" /\ x.terminal = None /\ x.frozen = ctl[c].terminal
      /\ x.state = ctl[c].terminal.state /\ x.run = ctl[c].run /\ x.task = "done"
      /\ x.done = TRUE /\ x.finisher = "none"
  BY <1>4 DEF Fields
<1> HIDE DEF x
<1>7. Within(c) /\ ctl'[c] = x
  BY <1>1, <1>2, <1>3, <1>5, <1>6, WithinFields, ZenonT(60)
<1>8. FieldsOf(c)'
  BY <1>1, <1>2, <1>5, <1>6, <1>7 DEF FieldsOf, Terminal
<1>9. DiskOf(c)'
  BY <1>1, <1>2, <1>5, <1>6, <1>7 DEF DiskOf
<1> QED BY <1>1, <1>2, <1>5, <1>6, <1>7, <1>8, <1>9, TaskStepKeepsInvariant

\* Writing the two files: the run has no result yet, so no other copy is touched.
LEMMA RenameStep ==
    ASSUME IInv, NEW c \in Controllers, RenameResult(c) \/ RenameSummary(c)
    PROVE  IInv' /\ Within(c) /\ ctl'[c].frozen = ctl[c].frozen /\ ctl'[c].state = ctl[c].state
<1> USE ControllerFacts
<1>1. PICK f \in {"summary", "freeze"} :
        /\ ctl' = [ctl EXCEPT ![c].fin = f]
        /\ f = "summary" => RenameResult(c)
        /\ f = "freeze" => RenameSummary(c)
  BY DEF RenameResult, RenameSummary
<1>2. /\ ctl[c].fin \in {"write", "summary"}
      /\ UNCHANGED <<current, caller, started, archive, last, late>>
  BY DEF RenameResult, RenameSummary
<1>3. /\ ctl[c].terminal \in Results /\ ctl[c].run # 0 /\ ctl[c].frozen = None
      /\ ctl[c].run \in Runs
  BY <1>2 DEF FieldsOf, Fields
<1> DEFINE x == [ctl[c] EXCEPT !.fin = f]
           r == ctl[c].run
<1>4. /\ x \in Fields /\ x.fin = f /\ x.state = ctl[c].state /\ x.run = r
      /\ x.frozen = ctl[c].frozen /\ x.done = ctl[c].done /\ x.task = ctl[c].task
      /\ x.finisher = ctl[c].finisher /\ x.terminal = ctl[c].terminal
  BY DEF Fields
<1>5. ctl' = [ctl EXCEPT ![c] = x]
  BY <1>1
<1> HIDE DEF x
<1>6. /\ ctl'[c] = x /\ ctl' \in [Controllers -> Fields]
      /\ \A d \in Controllers : d # c => ctl'[d] = ctl[d]
  BY <1>4, <1>5
<1>7. /\ resultFile' = [resultFile EXCEPT ![r] = ctl[c].terminal]
      /\ f = "summary" => summaryFile' = summaryFile /\ summaryFile[r] = None
      /\ f = "freeze" => summaryFile' = [summaryFile EXCEPT ![r] = ctl[c].terminal]
  <2>1. CASE f = "summary"
    BY <1>1, <1>3, <2>1 DEF RenameResult, DiskOf
  <2>2. CASE f = "freeze"
    <3>1. resultFile' = resultFile /\ resultFile[r] = ctl[c].terminal
      BY <1>1, <1>3, <2>2 DEF RenameSummary, DiskOf
    <3> QED BY <1>1, <1>3, <2>2, <3>1 DEF RenameSummary
  <2> QED BY <2>1, <2>2
<1>8. /\ resultFile' \in [Runs -> Results \cup {None}]
      /\ summaryFile' \in [Runs -> Results \cup {None}]
      /\ \A s \in Runs : s # r => resultFile'[s] = resultFile[s] /\ summaryFile'[s] = summaryFile[s]
      /\ resultFile'[r] = ctl[c].terminal
      /\ f = "summary" => summaryFile'[r] = None
      /\ f = "freeze" => summaryFile'[r] = ctl[c].terminal
  BY <1>1, <1>3, <1>7
<1>9. Within(c)
  BY <1>1, <1>2, <1>3, <1>4, <1>6, <1>8 DEF Within
<1>10. FieldsOf(c)'
  BY <1>1, <1>2, <1>4, <1>6 DEF FieldsOf
<1>11. DiskOf(c)'
  BY <1>1, <1>3, <1>4, <1>6, <1>8 DEF DiskOf
<1> QED BY <1>2, <1>4, <1>6, <1>9, <1>10, <1>11, TaskStepKeepsInvariant

\* A failed write leaves the frozen result as it is.
LEMMA PersistFailsStep ==
    ASSUME IInv, NEW c \in Controllers, PersistFails(c)
    PROVE  IInv' /\ Within(c) /\ ctl'[c].frozen = ctl[c].frozen /\ ctl'[c].state = ctl[c].state
<1> USE ControllerFacts
<1>1. /\ ctl[c].fin \in {"write", "summary"}
      /\ UNCHANGED <<current, caller, started, archive, last, late>>
  BY DEF PersistFails
<1>2. /\ ctl[c].terminal \in Results /\ ctl[c].run # 0 /\ ctl[c].frozen = None
      /\ ctl[c].run \in Runs
  BY <1>1 DEF FieldsOf, Fields
<1> DEFINE z == [ctl[c].terminal EXCEPT !.state = "FAILED", !.failure = "persistence"]
           x == [ctl[c] EXCEPT !.fin = "freeze", !.terminal = z]
           r == ctl[c].run
<1>3. z \in Results /\ z.run = ctl[c].terminal.run /\ z.state = "FAILED"
  BY <1>2 DEF Results, Terminal, Failures
<1>4. ctl' = [ctl EXCEPT ![c] = x]
  BY DEF PersistFails
<1> HIDE DEF z
<1>5. /\ x \in Fields /\ x.fin = "freeze" /\ x.state = ctl[c].state /\ x.run = r
      /\ x.frozen = ctl[c].frozen /\ x.done = ctl[c].done /\ x.task = ctl[c].task
      /\ x.finisher = ctl[c].finisher /\ x.terminal = z
  BY <1>3 DEF Fields
<1> HIDE DEF x
<1>6. /\ ctl'[c] = x /\ ctl' \in [Controllers -> Fields]
      /\ \A d \in Controllers : d # c => ctl'[d] = ctl[d]
  BY <1>4, <1>5
<1>7. /\ resultFile' \in [Runs -> Results \cup {None}]
      /\ summaryFile' \in [Runs -> Results \cup {None}]
      /\ \A s \in Runs : s # r => resultFile'[s] = resultFile[s] /\ summaryFile'[s] = summaryFile[s]
      /\ summaryFile'[r] = None
  <2>1. summaryFile[r] = None
    BY <1>1, <1>2 DEF DiskOf
  <2> QED BY <1>2, <2>1 DEF PersistFails, Unlink
<1>8. Within(c)
  BY <1>1, <1>2, <1>5, <1>6, <1>7 DEF Within
<1>9. FieldsOf(c)'
  BY <1>1, <1>2, <1>3, <1>5, <1>6 DEF FieldsOf
<1>10. DiskOf(c)'
  BY <1>2, <1>3, <1>5, <1>6, <1>7 DEF DiskOf
<1> QED BY <1>1, <1>5, <1>6, <1>8, <1>9, <1>10, TaskStepKeepsInvariant

\* A step of the call in progress that stays inside the controller.
LEMMA CallWithin ==
    ASSUME IInv, op # "none", NEW c \in Controllers, on = c, pc # "dismantle", NEW x \in Fields,
           ctl' = [ctl EXCEPT ![c] = x], x.run = ctl[c].run,
           ctl[c].frozen # None => x.frozen # None /\ x.frozen.state = ctl[c].frozen.state,
           ctl[c].fin # "idle" => x.fin # "idle" \/ x.frozen # None,
           UNCHANGED <<current, started, disk, archive, last, late, op, on>>,
           pc' \in {"stop", "stopWait", "stopSample", "stopFinish",
                    "fail", "failWait", "failSample", "failFinish"},
           FieldsOf(c)', DiskOf(c)',
           pc' \in {"stopSample", "failSample"} =>
             x.run # 0 /\ x.task = "done" /\ x.fin = "idle",
           pc' = "stopFinish" => x.task = "done" /\ x.run # 0
    PROVE  IInv' /\ Within(c) /\ ctl'[c] = x
<1>1. Within(c) /\ ctl'[c] = x
  BY WithinFields
<1>2. CallInv'
  <2>1. CallInv
    BY DEF IInv
  <2> QED BY <1>1, <2>1 DEF CallInv
<1> QED BY <1>1, <1>2, WithinKeepsInvariant

\* Steps of a call that only change where it is suspended.
LEMMA CallMoves ==
    ASSUME IInv, op # "none", NEW c \in Controllers, on = c, pc # "dismantle",
           UNCHANGED <<ctl, current, started, disk, archive, last, late, op, on>>,
           pc' \in {"stop", "stopWait", "failWait"},
           pc \in {"stopSample", "failSample"} => ctl[c].frozen # None
    PROVE  IInv' /\ Within(c) /\ ctl'[c].frozen = ctl[c].frozen
<1> USE ControllerFacts
<1> DEFINE x == ctl[c]
<1>1. x \in Fields /\ ctl' = [ctl EXCEPT ![c] = x] /\ ctl'[c] = ctl[c]
  OBVIOUS
<1>2. FieldsOf(c)'
  BY <1>1 DEF FieldsOf
<1>3. DiskOf(c)'
  BY <1>1 DEF DiskOf
<1> QED BY <1>1, <1>2, <1>3, CallWithin

\* A controller that stop() or fail() has marked, or that enters _finish.
Stopping(k, s) == [k EXCEPT !.state = s, !.task = "done"]
Failing(k, z) == [k EXCEPT !.state = "STOPPING", !.failure = "runtime", !.task = "done",
                           !.frozen = z]

\* What stopping leaves alone.
LEMMA StoppingFields ==
    ASSUME NEW k \in Fields, NEW s \in RunStates
    PROVE  LET x == Stopping(k, s) IN
           /\ x \in Fields /\ x.frozen = k.frozen /\ x.state = s /\ x.run = k.run
           /\ x.task = "done" /\ x.fin = k.fin /\ x.done = k.done
           /\ x.finisher = k.finisher /\ x.terminal = k.terminal
BY DEF Fields, Stopping

\* What failing leaves alone.
LEMMA FailingFields ==
    ASSUME NEW k \in Fields, NEW z \in Results \cup {None}
    PROVE  LET x == Failing(k, z) IN
           /\ x \in Fields /\ x.frozen = z /\ x.state = "STOPPING" /\ x.run = k.run
           /\ x.task = "done" /\ x.fin = k.fin /\ x.done = k.done
           /\ x.finisher = k.finisher /\ x.terminal = k.terminal
<1>1. "runtime" \in Failures /\ "STOPPING" \in RunStates
  BY DEF Failures, RunStates
<1> QED BY <1>1 DEF Fields, Failing

\* The fields after finishing have their types.
LEMMA FinishingFields ==
    ASSUME NEW k \in Fields, NEW by \in {"task", "caller"}, NEW target \in Terminal, k.run \in Runs
    PROVE  FinishFields(k, by, target) \in Fields
<1>1. [run |-> k.run, state |-> target, failure |-> k.failure] \in Results
  BY ResultFields DEF Fields
<1> QED BY <1>1 DEF Fields, FinishFields

\* fail(): the run is marked as failed by the runtime.
LEMMA FailBodyStep ==
    ASSUME IInv, op # "none", NEW c \in Controllers, on = c, pc \in {"fail", "failWait"},
           ctl[c].done, FailBody(c),
           UNCHANGED <<current, started, disk, archive, last, late>>
    PROVE  IInv' /\ Within(c) /\ (ctl'[c].frozen = None <=> ctl[c].frozen = None)
<1> USE ControllerFacts, ResultFields
<1>1. CASE ctl[c].state \notin {"RUNNING", "STOPPING", "FAILED"}
  BY <1>1, CallMoves DEF FailBody, Suspend
<1>2. CASE ctl[c].state \in {"RUNNING", "STOPPING", "FAILED"}
  <2> DEFINE z == IF ctl[c].frozen = None THEN None
                  ELSE [ctl[c].frozen EXCEPT !.failure = "runtime"]
             x == Failing(ctl[c], z)
  <2>1. "runtime" \in Failures
    BY DEF Failures
  <2>2. /\ z \in Results \cup {None}
        /\ ctl[c].frozen = None => z = None
        /\ ctl[c].frozen # None =>
             z \in Results /\ z.run = ctl[c].frozen.run /\ z.state = ctl[c].frozen.state
    BY <2>1
  <2>3. ctl' = [ctl EXCEPT ![c] = x] /\ pc' = "failSample" /\ UNCHANGED <<op, on>>
    BY <1>2 DEF FailBody, Suspend, Failing
  <2> HIDE DEF z
  <2>4. /\ x \in Fields /\ x.frozen = z /\ x.state = "STOPPING" /\ x.run = ctl[c].run
        /\ x.task = "done" /\ x.fin = ctl[c].fin /\ x.done = ctl[c].done
        /\ x.finisher = ctl[c].finisher /\ x.terminal = ctl[c].terminal
    BY <2>2, FailingFields
  <2> HIDE DEF x
  <2>5. /\ ctl[c].fin = "idle" /\ ctl[c].run # 0 /\ ctl[c].finisher # "task"
        /\ ctl[c].terminal = None /\ ctl[c].done
        /\ ctl[c].frozen # None => ctl[c].frozen.run = ctl[c].run
    BY <1>2 DEF FieldsOf
  <2>6. ctl'[c] = x
    BY <2>3
  <2>7. FieldsOf(c)'
    BY <2>2, <2>3, <2>4, <2>5, <2>6 DEF FieldsOf, Terminal
  <2>8. DiskOf(c)'
    BY <2>2, <2>4, <2>5, <2>6 DEF DiskOf
  <2>9. IInv' /\ Within(c)
    BY <2>2, <2>3, <2>4, <2>5, <2>7, <2>8, CallWithin
  <2> QED BY <2>2, <2>4, <2>6, <2>9
<1> QED BY <1>1, <1>2

\* stop(): the run is marked as stopping.
LEMMA StopBodyStep ==
    ASSUME IInv, op # "none", NEW c \in Controllers, on = c, pc \in {"stop", "stopWait"},
           ctl[c].done, ctl[c].state = "FAILED" \/ ctl[c].task \notin {"none", "done"},
           NEW s \in {"FAILED", "STOPPING"}, s = "FAILED" => ctl[c].state = "FAILED",
           ctl' = [ctl EXCEPT ![c] = Stopping(ctl[c], s)],
           pc' = "stopSample",
           UNCHANGED <<current, started, disk, archive, last, late, op, on>>
    PROVE  IInv' /\ Within(c) /\ ctl'[c].frozen = ctl[c].frozen
<1> USE ControllerFacts
<1> DEFINE x == Stopping(ctl[c], s)
<1>1. s \in RunStates
  BY DEF RunStates, Terminal
<1>2. /\ x \in Fields /\ x.frozen = ctl[c].frozen /\ x.state = s /\ x.run = ctl[c].run
      /\ x.task = "done" /\ x.fin = ctl[c].fin /\ x.done = ctl[c].done
      /\ x.finisher = ctl[c].finisher /\ x.terminal = ctl[c].terminal
  BY <1>1, StoppingFields
<1>3. /\ ctl[c].fin = "idle" /\ ctl[c].run # 0 /\ ctl[c].finisher # "task"
      /\ ctl[c].terminal = None /\ (ctl[c].done <=> TRUE)
      /\ ctl[c].frozen # None => ctl[c].frozen.run = ctl[c].run
      /\ ctl[c].state = "FAILED" => ctl[c].frozen # None
  BY DEF FieldsOf, Terminal
<1>4. ctl' = [ctl EXCEPT ![c] = x] /\ ctl'[c] = x
  OBVIOUS
<1> HIDE DEF x
<1>5. FieldsOf(c)'
  BY <1>2, <1>3, <1>4 DEF FieldsOf, Terminal
<1>6. DiskOf(c)'
  BY <1>2, <1>3, <1>4 DEF DiskOf
<1>7. IInv' /\ Within(c)
  <2>1. /\ pc # "dismantle" /\ pc' # "stopFinish"
        /\ pc' \in {"stop", "stopWait", "stopSample", "stopFinish",
                    "fail", "failWait", "failSample", "failFinish"}
    OBVIOUS
  <2>2. x \in Fields /\ x.run = ctl[c].run /\ x.run # 0 /\ x.task = "done" /\ x.fin = "idle"
    BY <1>2, <1>3
  <2>3. ctl[c].frozen # None => x.frozen # None /\ x.frozen.state = ctl[c].frozen.state
    BY <1>2
  <2> QED BY <1>3, <1>4, <1>5, <1>6, <2>1, <2>2, <2>3, CallWithin
<1> QED BY <1>2, <1>4, <1>7

\* stop() and fail(): after the sample the call enters _finish itself.
LEMMA SampleStep ==
    ASSUME IInv, op # "none", NEW c \in Controllers, on = c, NEW target \in Terminal,
           ctl[c].frozen = None, ctl' = [ctl EXCEPT ![c] = FinishFields(@, "caller", target)],
           \/ pc = "failSample" /\ Suspend("failFinish")
           \/ pc = "stopSample" /\ Suspend("stopFinish"),
           UNCHANGED <<current, started, disk, archive, last, late>>
    PROVE  IInv' /\ Within(c) /\ ctl'[c].frozen = ctl[c].frozen
<1> USE ControllerFacts, ResultFields
<1>1. /\ ctl[c].run # 0 /\ ctl[c].task = "done" /\ ctl[c].fin = "idle" /\ ctl[c].run \in Runs
      /\ ctl[c].failure \in Failures
  BY DEF IInv, CallInv, Fields
<1> DEFINE z == [run |-> ctl[c].run, state |-> target, failure |-> ctl[c].failure]
           x == FinishFields(ctl[c], "caller", target)
<1>2. z \in Results /\ z.run = ctl[c].run
  BY <1>1
<1>3. ctl' = [ctl EXCEPT ![c] = x]
  OBVIOUS
<1>4. /\ x.frozen = ctl[c].frozen /\ x.state = ctl[c].state
      /\ x.run = ctl[c].run /\ x.task = "done" /\ x.fin = "metrics" /\ x.done = FALSE
      /\ x.finisher = "caller" /\ x.terminal = z
  BY <1>1 DEF Fields, FinishFields
<1>5. x \in Fields
  BY <1>1, FinishingFields
<1> HIDE DEF x, z
<1>6. /\ ctl'[c] = x /\ pc \in {"failSample", "stopSample"} /\ pc' \in {"failFinish", "stopFinish"}
      /\ UNCHANGED <<op, on>>
  BY <1>3 DEF Suspend
<1>7. FieldsOf(c)'
  BY <1>1, <1>2, <1>4, <1>6 DEF FieldsOf
<1>8. DiskOf(c)'
  BY <1>1, <1>4, <1>6 DEF DiskOf
<1>9. IInv' /\ Within(c)
  BY <1>1, <1>3, <1>4, <1>6, <1>7, <1>8, <1>5, CallWithin
<1> QED BY <1>4, <1>6, <1>9

\* fail() gives up waiting and goes on to stop().
LEMMA FailWaitStep ==
    ASSUME IInv, op # "none", NEW c \in Controllers, on = c, pc = "failWait", ~ctl[c].done,
           ctl' = [ctl EXCEPT ![c].timedOut = TRUE], Suspend("stop"),
           UNCHANGED <<current, started, disk, archive, last, late>>
    PROVE  IInv' /\ Within(c) /\ ctl'[c].frozen = ctl[c].frozen
<1> USE ControllerFacts
<1> DEFINE x == [ctl[c] EXCEPT !.timedOut = TRUE]
<1>1. ctl' = [ctl EXCEPT ![c] = x] /\ pc' = "stop" /\ UNCHANGED <<op, on>>
  BY DEF Suspend
<1>2. /\ x \in Fields /\ x.frozen = ctl[c].frozen /\ x.state = ctl[c].state
      /\ x.run = ctl[c].run /\ x.task = ctl[c].task /\ x.fin = ctl[c].fin
      /\ x.done = ctl[c].done /\ x.finisher = ctl[c].finisher /\ x.terminal = ctl[c].terminal
  BY DEF Fields
<1> HIDE DEF x
<1>3. ctl'[c] = x
  BY <1>1
<1>4. FieldsOf(c)'
  BY <1>1, <1>2, <1>3 DEF FieldsOf
<1>5. DiskOf(c)'
  BY <1>2, <1>3 DEF DiskOf
<1>6. IInv' /\ Within(c)
  BY <1>1, <1>2, <1>3, <1>4, <1>5, CallWithin
<1> QED BY <1>2, <1>3, <1>6

\* Archive keeps what the archive promises, as long as the controllers keep
\* their runs and results or take a run the archive does not have.
LEMMA ArchiveKeepsInvariant ==
    ASSUME IInv, NEW c \in Controllers, Archive(c), ctl[c].run \notin Archived,
           resultFile' = resultFile, started' \in Nat, started <= started',
           \A d \in Controllers :
             \/ ctl'[d].run = ctl[d].run /\ ctl'[d].frozen = ctl[d].frozen
             \/ ctl'[d].run \notin Archived'
    PROVE  ArchiveInv'
<1>1. /\ Len(volatile') <= MaxVolatile
      /\ \A i, j \in DOMAIN volatile' : volatile'[i].run = volatile'[j].run => i = j
      /\ VolatileRuns' \cap evicted' = {}
      /\ Archived' \subseteq Archived \cup {ctl[c].run}
      /\ ctl[c].run \in Archived' => ctl[c].frozen # None /\ resultFile[ctl[c].run] = None
      /\ \A i \in DOMAIN volatile' :
           \/ \E j \in DOMAIN volatile : volatile'[i] = volatile[j]
           \/ volatile'[i] = ctl[c].frozen
  BY ArchiveEffect
<1>2. ArchiveInv /\ HolderOf(c) /\ FieldsOf(c) /\ ctl[c].run \in {0} \cup Runs
  BY ControllerFacts DEF IInv, Held
<1>3. \A r \in Archived : r \in Nat /\ r <= started' /\ resultFile[r] = None
  BY <1>2, RunNumbers, ResultFields DEF IInv, TypeOK, ArchiveInv, Archived, VolatileRuns
<1>4. ctl[c].run \in Nat /\ ctl[c].run <= started'
  BY <1>2, RunNumbers DEF HolderOf, IInv, TypeOK
<1>5. \A r \in Archived' : r <= started' /\ resultFile'[r] = None
  BY <1>1, <1>3, <1>4
<1>6. ASSUME NEW d \in Controllers
      PROVE  /\ ctl'[d].run \in Archived' => ctl'[d].frozen # None
             /\ \A i \in DOMAIN volatile' :
                  volatile'[i].run = ctl'[d].run => volatile'[i].state = ctl'[d].frozen.state
  <2>1. \A i \in DOMAIN volatile' : volatile'[i].run \in Archived'
    BY DEF Archived, VolatileRuns
  <2>2. CASE ctl'[d].run \notin Archived'
    BY <2>1, <2>2
  <2>3. CASE ctl'[d].run = ctl[d].run /\ ctl'[d].frozen = ctl[d].frozen
    <3>1. ctl[d].run = ctl[c].run /\ ctl[c].run # 0 => d = c
      BY <1>2 DEF HolderOf
    <3>2. 0 \notin Archived'
      <4>1. 0 \notin Archived
        BY RunNumbers, ResultFields DEF IInv, TypeOK, Archived, VolatileRuns
      <4> QED BY <1>1, <1>2, <4>1 DEF FieldsOf
    <3>3. ctl[d].run \in Archived' => ctl[d].frozen # None
      BY <1>1, <1>2, <3>1, <3>2 DEF ArchiveInv
    <3>4. ASSUME NEW i \in DOMAIN volatile', volatile'[i].run = ctl[d].run
          PROVE  volatile'[i].state = ctl[d].frozen.state
      <4>1. CASE \E j \in DOMAIN volatile : volatile'[i] = volatile[j]
        BY <1>2, <3>4, <4>1 DEF ArchiveInv
      <4>2. CASE volatile'[i] = ctl[c].frozen
        <5>1. ctl[c].run \in Archived' => ctl[c].frozen.run = ctl[c].run
          BY <1>1, <1>2 DEF FieldsOf
        <5>2. CASE ctl[c].frozen # None
          <6>1. ctl[d].run = ctl[c].run /\ ctl[c].run # 0
            BY <1>2, <3>4, <4>2, <5>2 DEF FieldsOf
          <6> QED BY <3>1, <4>2, <6>1
        <5>3. CASE ctl[c].frozen = None
          <6>1. UNCHANGED archive
            BY <5>3 DEF Archive
          <6> QED BY <1>2, <3>4, <6>1 DEF ArchiveInv
        <5> QED BY <5>2, <5>3
      <4> QED BY <1>1, <4>1, <4>2
    <3> QED BY <2>3, <3>3, <3>4
  <2> QED BY <2>2, <2>3
<1> QED BY <1>1, <1>5, <1>6 DEF ArchiveInv

\* The current controller's run, and a late one's, are not in the archive yet.
LEMMA NotArchived ==
    ASSUME IInv, NEW c \in Controllers, c \in late \/ (c = current /\ pc # "dismantle")
    PROVE  ctl[c].run \notin Archived
BY DEF IInv, Held, HolderOf

\* A call returns, or hands its teardown on: the run is recorded, or is left to
\* a late-finalization task.
LEMMA StopReturnsStep ==
    ASSUME IInv, op # "none", NEW c \in Controllers, on = c, pc # "dismantle",
           NEW ok \in BOOLEAN, StopReturns(c, ok),
           ctl' \in [Controllers -> Fields],
           \A d \in Controllers :
             /\ ctl'[d].state = ctl[d].state /\ ctl'[d].run = ctl[d].run
             /\ ctl'[d].frozen = ctl[d].frozen /\ ctl'[d].done = ctl[d].done
             /\ ctl'[d].task = ctl[d].task /\ ctl'[d].fin = ctl[d].fin
             /\ ctl'[d].finisher = ctl[d].finisher /\ ctl'[d].terminal = ctl[d].terminal,
           ok => ctl[c].run = 0 \/ ctl[c].frozen # None,
           ~ok => ctl[c].fin # "idle",
           UNCHANGED <<current, started, disk>>
    PROVE  IInv'
<1> USE DEF Suspend
<1>1. TypeOK /\ CallInv /\ FieldsOf(c) /\ HolderOf(c) /\ ctl[c].run \notin Archived /\ c # None
      /\ c = current
  BY NotArchived, TrafficRunAssumption DEF IInv, CallInv, Controlled, Held
<1>2. Summary(c) \in Summaries \cup {None}
  BY <1>1, FieldTypes, ResultFields DEF Summary, Summaries
<1>3. /\ volatile' \in Seq(Results) /\ evicted' \subseteq Runs /\ Archived \subseteq Archived'
      /\ Archived' \subseteq Archived \cup {ctl[c].run}
      /\ ArchiveInv'
  <2>1. CASE op # "stop" /\ ok
    <3>1. Archive(c) /\ started' \in Nat /\ started <= started'
      BY <1>1, <2>1 DEF StopReturns, TypeOK
    <3> QED BY <1>1, <3>1, ArchiveEffect, ArchiveKeepsInvariant
  <2>2. CASE ~(op # "stop" /\ ok)
    <3>1. UNCHANGED archive
      BY <2>2 DEF StopReturns
    <3>2. Archived' = Archived
      BY <3>1 DEF Archived, VolatileRuns
    <3> QED BY <1>1, <3>1, <3>2 DEF IInv, TypeOK, ArchiveInv, VolatileRuns
  <2> QED BY <2>1, <2>2
<1>4. CASE op = "stop"
  <2>1. /\ op' = "none" /\ on' = None /\ pc' = "idle"
        /\ UNCHANGED <<archive, last, late>>
    BY <1>4 DEF StopReturns
  <2>2. Archived' = Archived /\ VolatileRuns' = VolatileRuns
    BY <2>1 DEF Archived, VolatileRuns
  <2>3. TypeOK'
    BY <1>1, <2>1 DEF TypeOK
  <2>4. Controlled'
    <3> SUFFICES ASSUME NEW d \in Controllers PROVE FieldsOf(d)'
      BY DEF Controlled
    <3>1. ~(ctl[d].task = "done" /\ ctl[d].fin = "idle" /\ ctl[d].frozen = None)
      BY <1>1 DEF IInv, Controlled, FieldsOf
    <3> QED BY <3>1 DEF IInv, Controlled, FieldsOf
  <2>5. CallInv'
    BY <2>1 DEF CallInv
  <2>6. Held'
    <3> SUFFICES ASSUME NEW d \in Controllers PROVE HolderOf(d)'
      BY DEF Held
    <3> QED BY <1>1, <2>1, <2>2 DEF IInv, Held, HolderOf
  <2>7. OnDisk'
    <3> SUFFICES ASSUME NEW d \in Controllers PROVE DiskOf(d)'
      BY DEF OnDisk
    <3> QED BY DEF IInv, OnDisk, DiskOf
  <2>8. NoFuture' /\ NoRunLost'
    BY <1>1, <2>1, <2>2 DEF IInv, TypeOK, NoFuture, NoRunLost
  <2> QED BY <1>3, <2>3, <2>4, <2>5, <2>6, <2>7, <2>8 DEF IInv
<1>5. CASE op # "stop"
  <2>1. /\ last' = Summary(c) /\ pc' = "dismantle" /\ UNCHANGED <<op, on>>
        /\ ok => Archive(c) /\ late' = late
        /\ ~ok => late' = late \cup {c} /\ Archived' = Archived
    BY <1>5 DEF StopReturns, Archived, VolatileRuns
  <2>2. c \notin late
    BY <1>1 DEF HolderOf
  <2>3. TypeOK'
    BY <1>1, <1>2, <1>3, <2>1 DEF TypeOK
  <2>4. Controlled'
    <3> SUFFICES ASSUME NEW d \in Controllers PROVE FieldsOf(d)'
      BY DEF Controlled
    <3>1. ~(ctl[d].task = "done" /\ ctl[d].fin = "idle" /\ ctl[d].frozen = None)
      BY <1>1 DEF IInv, Controlled, FieldsOf
    <3> QED BY <3>1 DEF IInv, Controlled, FieldsOf
  <2>5. CallInv'
    <3>1. CASE ok
      <4>1. Recorded(c)'
        <5>1. ctl[c].frozen # None /\ resultFile[ctl[c].run] = None => ctl[c].run \in Archived'
          BY <1>1, <2>1, <3>1, ArchiveEffect
        <5> QED BY <3>1, <5>1 DEF Recorded
      <4>2. CallInv /\ on' = on /\ on = c
        BY <1>1, <2>1
      <4> QED BY <1>1, <1>5, <2>1, <4>1, <4>2 DEF CallInv
    <3>2. CASE ~ok
      BY <1>1, <1>5, <2>1, <3>2 DEF CallInv
    <3> QED BY <3>1, <3>2
  <2>6. Held'
    <3> SUFFICES ASSUME NEW d \in Controllers PROVE HolderOf(d)'
      BY DEF Held
    <3>1. HolderOf(d) /\ ctl[d].run \in {0} \cup Runs /\ 0 \notin Archived
      BY <1>1, RunNumbers, FieldTypes, ResultFields
         DEF IInv, TypeOK, Held, Archived, VolatileRuns
    <3>2. d \in late => d # c /\ ctl[d].run # ctl[c].run
      BY <2>2, <3>1 DEF IInv, Held, HolderOf
    <3>3. d \in late => ctl[d].run \notin Archived'
      BY <1>3, <3>1, <3>2 DEF HolderOf
    <3>4. ~ok => ctl[c].run # 0 /\ ctl[c].run \notin Archived'
      BY <1>1, <2>1 DEF FieldsOf
    <3>5. d \in late' => /\ ctl[d].run # 0 /\ ctl[d].run \notin Archived'
                         /\ ctl[d].frozen # None \/ ctl[d].fin # "idle"
      BY <2>1, <3>1, <3>3, <3>4 DEF HolderOf
    <3>6. d \notin late' /\ d # current => ctl[d].run = 0 \/ ctl[d].frozen # None
      BY <2>1, <3>1 DEF HolderOf
    <3> QED BY <2>1, <3>1, <3>5, <3>6 DEF HolderOf
  <2>7. OnDisk'
    <3> SUFFICES ASSUME NEW d \in Controllers PROVE DiskOf(d)'
      BY DEF OnDisk
    <3> QED BY DEF IInv, OnDisk, DiskOf
  <2>8. NoFuture'
    BY DEF IInv, NoFuture
  <2>9. NoRunLost'
    <3>1. late \subseteq late' /\ late \cup ({current} \ {None}) \subseteq Controllers
      BY <1>1, <2>1 DEF TypeOK
    <3> QED BY <1>3, <2>1, <3>1 DEF IInv, NoRunLost, Archived
  <2> QED BY <1>3, <2>3, <2>4, <2>5, <2>6, <2>7, <2>8, <2>9 DEF IInv
<1> QED BY <1>4, <1>5

\* The results of every step of the call in progress.
LEMMA CallStepKeeps ==
    ASSUME IInv, Call
    PROVE  /\ IInv'
           /\ on \in Controllers
           /\ \/ Within(on) /\ (ctl'[on].frozen = None <=> ctl[on].frozen = None)
              \/ \E ok \in BOOLEAN : StopReturns(on, ok) /\ ctl' = ctl /\ pc # "dismantle"
<1> USE DEF Suspend
<1>1. PICK c \in Controllers : on = c
  BY DEF IInv, TypeOK, CallInv, Call
<1>2. CallStep(c) /\ op # "none" /\ UNCHANGED <<current, started, disk>> /\ FieldsOf(c)
  BY <1>1, ControllerFacts DEF Call
<1> HIDE DEF disk, archive
<1>3. ASSUME UNCHANGED <<archive, last, late, ctl>>, pc # "dismantle", UNCHANGED <<op, on>>,
             pc' \in {"stop", "stopWait", "failWait"},
             pc \in {"stopSample", "failSample"} => ctl[c].frozen # None
      PROVE  IInv' /\ Within(c) /\ (ctl'[c].frozen = None <=> ctl[c].frozen = None)
  BY <1>1, <1>2, <1>3, CallMoves
<1>4. ASSUME pc # "dismantle", NEW ok \in BOOLEAN, StopReturns(c, ok), UNCHANGED ctl,
             ok => ctl[c].run = 0 \/ ctl[c].frozen # None,
             ~ok => ctl[c].fin # "idle"
      PROVE  IInv' /\ StopReturns(c, ok) /\ ctl' = ctl /\ pc # "dismantle"
  <2>1. ctl' \in [Controllers -> Fields]
    BY <1>4 DEF IInv, TypeOK
  <2> QED BY <1>1, <1>2, <1>4, <2>1, StopReturnsStep
<1>5. ASSUME pc \in {"stop", "stopWait"}, ctl[c].done, StopBody(c)
      PROVE  \/ IInv' /\ Within(c) /\ (ctl'[c].frozen = None <=> ctl[c].frozen = None)
             \/ IInv' /\ StopReturns(c, TRUE) /\ ctl' = ctl /\ pc # "dismantle"
  <2>1. CASE ctl[c].state # "FAILED" /\ ctl[c].task \in {"none", "done"}
    <3>1. StopReturns(c, TRUE) /\ UNCHANGED ctl
      BY <1>5, <2>1 DEF StopBody
    <3>2. ctl[c].run = 0 \/ ctl[c].frozen # None
      BY <1>2, <1>5, <2>1 DEF FieldsOf
    <3> QED BY <1>4, <1>5, <3>1, <3>2
  <2>2. CASE ctl[c].state = "FAILED" \/ ctl[c].task \notin {"none", "done"}
    <3> DEFINE s == IF ctl[c].state = "FAILED" THEN ctl[c].state ELSE "STOPPING"
    <3>1. ctl' = [ctl EXCEPT ![c] = Stopping(ctl[c], s)]
      BY <1>5, <2>2 DEF StopBody, Stopping
    <3>2. s \in {"FAILED", "STOPPING"} /\ (s = "FAILED" => ctl[c].state = "FAILED")
      OBVIOUS
    <3>3. pc' = "stopSample" /\ UNCHANGED <<op, on, archive, last, late>>
      BY <1>5, <2>2 DEF StopBody
    <3> HIDE DEF s
    <3> QED BY <1>1, <1>2, <1>5, <2>2, <3>1, <3>2, <3>3, StopBodyStep
  <2> QED BY <2>1, <2>2
<1>6. CASE pc = "fail"
  <2>1. FailEntry(c) /\ UNCHANGED <<archive, last, late>>
    BY <1>2, <1>6 DEF CallStep
  <2>2. CASE ctl[c].done
    BY <1>1, <1>2, <1>6, <2>1, <2>2, FailBodyStep DEF FailEntry
  <2>3. CASE ~ctl[c].done
    BY <1>1, <1>3, <1>6, <2>1, <2>3 DEF FailEntry
  <2> QED BY <1>1, <2>2, <2>3
<1>7. CASE pc = "failWait"
  BY <1>1, <1>2, <1>7, FailBodyStep DEF CallStep
<1>8. CASE pc = "failSample"
  <2>1. CASE ctl[c].frozen = None
    <3>1. /\ ctl' = [ctl EXCEPT ![c] = FinishFields(@, "caller", "FAILED")]
          /\ Suspend("failFinish") /\ UNCHANGED <<archive, last, late>>
      BY <1>2, <1>8, <2>1 DEF CallStep
    <3>2. "FAILED" \in Terminal
      BY DEF Terminal
    <3> QED BY <1>1, <1>2, <1>8, <2>1, <3>1, <3>2, SampleStep
  <2>2. CASE ctl[c].frozen # None
    BY <1>1, <1>2, <1>3, <1>8, <2>2 DEF CallStep
  <2> QED BY <2>1, <2>2
<1>9. CASE pc = "failFinish"
  BY <1>1, <1>2, <1>3, <1>9 DEF CallStep
<1>10. CASE pc = "stop"
  <2>1. StopEntry(c)
    BY <1>2, <1>10 DEF CallStep
  <2>2. CASE ctl[c].frozen # None
    BY <1>1, <1>4, <1>10, <2>1, <2>2 DEF StopEntry
  <2>3. CASE ctl[c].frozen = None /\ ctl[c].done
    BY <1>1, <1>5, <1>10, <2>1, <2>3 DEF StopEntry
  <2>4. CASE ctl[c].frozen = None /\ ~ctl[c].done /\ ctl[c].timedOut
    <3>1. StopReturns(c, FALSE) /\ UNCHANGED ctl
      BY <2>1, <2>4 DEF StopEntry
    <3>2. ctl[c].fin # "idle"
      BY <1>2, <2>4 DEF FieldsOf
    <3> QED BY <1>1, <1>4, <1>10, <3>1, <3>2
  <2>5. CASE ctl[c].frozen = None /\ ~ctl[c].done /\ ~ctl[c].timedOut
    BY <1>1, <1>3, <1>10, <2>1, <2>5 DEF StopEntry
  <2> QED BY <2>2, <2>3, <2>4, <2>5
<1>11. CASE pc = "stopWait"
  BY <1>1, <1>2, <1>5, <1>11 DEF CallStep
<1>12. CASE pc = "stopSample"
  <2>1. CASE ctl[c].frozen = None
    <3> DEFINE target == IF ctl[c].state = "FAILED" THEN "FAILED" ELSE "CANCELLED"
    <3>1. /\ ctl' = [ctl EXCEPT ![c] = FinishFields(@, "caller", target)]
          /\ Suspend("stopFinish") /\ UNCHANGED <<archive, last, late>>
      BY <1>2, <1>12, <2>1 DEF CallStep
    <3>2. target \in Terminal
      BY DEF Terminal
    <3> HIDE DEF target
    <3> QED BY <1>1, <1>2, <1>12, <2>1, <3>1, <3>2, SampleStep
  <2>2. CASE ctl[c].frozen # None
    BY <1>1, <1>2, <1>4, <1>12, <2>2 DEF CallStep
  <2> QED BY <2>1, <2>2
<1>13. CASE pc = "stopFinish"
  <2>1. ctl[c].done /\ StopReturns(c, TRUE) /\ UNCHANGED ctl
    BY <1>2, <1>13 DEF CallStep
  <2>2. ctl[c].frozen # None
    BY <1>1, <1>2, <1>13, <2>1 DEF FieldsOf, IInv, CallInv
  <2> QED BY <1>1, <1>4, <1>13, <2>1, <2>2
<1> QED BY <1>2, <1>6, <1>7, <1>8, <1>9, <1>10, <1>11, <1>12, <1>13 DEF CallStep

\* The wait for another _finish runs out.
LEMMA WaitTimesOutStep ==
    ASSUME IInv, WaitTimesOut
    PROVE  /\ IInv'
           /\ on \in Controllers
           /\ \/ Within(on) /\ (ctl'[on].frozen = None <=> ctl[on].frozen = None)
              \/ StopReturns(on, FALSE) /\ pc # "dismantle"
           /\ \A d \in Controllers : ctl'[d].run = ctl[d].run /\ ctl'[d].frozen = ctl[d].frozen
                                     /\ ctl'[d].state = ctl[d].state
<1> HIDE DEF disk, archive
<1>1. PICK c \in Controllers : on = c
  BY DEF IInv, TypeOK, CallInv, WaitTimesOut
<1>2. /\ op # "none" /\ ~ctl[c].done /\ ctl' = [ctl EXCEPT ![c].timedOut = TRUE]
      /\ UNCHANGED <<current, started, disk>> /\ ctl[c].fin # "idle"
  BY <1>1, ControllerFacts DEF WaitTimesOut, IInv, CallInv, FieldsOf
<1> DEFINE x == [ctl[c] EXCEPT !.timedOut = TRUE]
<1>3. /\ x \in Fields /\ x.frozen = ctl[c].frozen /\ x.state = ctl[c].state
      /\ x.run = ctl[c].run /\ x.task = ctl[c].task /\ x.fin = ctl[c].fin
      /\ x.done = ctl[c].done /\ x.finisher = ctl[c].finisher /\ x.terminal = ctl[c].terminal
  BY ControllerFacts DEF Fields
<1>4. ctl' = [ctl EXCEPT ![c] = x] /\ ctl \in [Controllers -> Fields]
  BY <1>2, ControllerFacts
<1> HIDE DEF x
<1>5. /\ ctl' \in [Controllers -> Fields]
      /\ \A d \in Controllers :
           /\ ctl'[d].state = ctl[d].state /\ ctl'[d].run = ctl[d].run
           /\ ctl'[d].frozen = ctl[d].frozen /\ ctl'[d].done = ctl[d].done
           /\ ctl'[d].task = ctl[d].task /\ ctl'[d].fin = ctl[d].fin
           /\ ctl'[d].finisher = ctl[d].finisher /\ ctl'[d].terminal = ctl[d].terminal
  BY <1>3, <1>4
<1>6. CASE pc = "failWait"
  <2>1. Suspend("stop") /\ UNCHANGED <<archive, last, late>>
    BY <1>6 DEF WaitTimesOut
  <2> QED BY <1>1, <1>2, <1>5, <1>6, <2>1, FailWaitStep
<1>7. CASE pc = "stopWait"
  <2>1. StopReturns(c, FALSE)
    BY <1>1, <1>7 DEF WaitTimesOut
  <2> QED BY <1>1, <1>2, <1>5, <1>7, <2>1, StopReturnsStep
<1> QED BY <1>6, <1>7 DEF WaitTimesOut

\* A call starts on the current controller.
LEMMA BeginCallStep ==
    ASSUME IInv, NEW kind \in {"stop", "teardown", "failure"}, BeginCall(kind)
    PROVE  IInv'
<1>1. /\ UNCHANGED <<ctl, current, started, disk, archive, last, late>>
      /\ op = "none" /\ op' \in {"stop", "teardown", "failure"} /\ on' = current
      /\ pc' \in {"stop", "fail"} /\ current # None
  BY DEF BeginCall
<1>2. pc = "idle" /\ on = None /\ current \in Controllers
  BY <1>1 DEF IInv, CallInv, TypeOK
<1>3. TypeOK'
  BY <1>1, <1>2 DEF IInv, TypeOK
<1>4. Controlled'
  <2> SUFFICES ASSUME NEW d \in Controllers PROVE FieldsOf(d)'
    BY DEF Controlled
  <2> QED BY <1>1, <1>2 DEF IInv, Controlled, FieldsOf
<1>5. CallInv'
  BY <1>1, <1>2 DEF CallInv
<1>6. Archived' = Archived /\ VolatileRuns' = VolatileRuns
  BY <1>1 DEF Archived, VolatileRuns
<1>7. Held'
  <2> SUFFICES ASSUME NEW d \in Controllers PROVE HolderOf(d)'
    BY DEF Held
  <2> QED BY <1>1, <1>2, <1>6 DEF IInv, Held, HolderOf
<1>8. OnDisk' /\ NoFuture'
  BY <1>1 DEF IInv, OnDisk, DiskOf, NoFuture
<1>9. ArchiveInv' /\ NoRunLost'
  BY <1>1, <1>6 DEF IInv, ArchiveInv, NoRunLost
<1> QED BY <1>3, <1>4, <1>5, <1>7, <1>8, <1>9 DEF IInv

\* The controller goes away: its run is recorded, or a late task still has it.
LEMMA DismantledStep ==
    ASSUME IInv, Dismantled
    PROVE  IInv'
<1>1. /\ UNCHANGED <<ctl, started, disk, archive, last, late>> /\ pc = "dismantle"
      /\ current' = None /\ op' = "none" /\ on' = None /\ pc' = "idle"
  BY DEF Dismantled
<1>2. /\ on = current /\ current \in Controllers /\ None \notin Controllers
      /\ current \in late \/ Recorded(current)
  BY <1>1, TrafficRunAssumption DEF IInv, CallInv, TypeOK
<1>3. TypeOK'
  BY <1>1 DEF IInv, TypeOK
<1>4. Controlled'
  <2> SUFFICES ASSUME NEW d \in Controllers PROVE FieldsOf(d)'
    BY DEF Controlled
  <2> QED BY <1>1 DEF IInv, Controlled, FieldsOf
<1>5. CallInv'
  BY <1>1 DEF CallInv
<1>6. Archived' = Archived /\ VolatileRuns' = VolatileRuns
  BY <1>1 DEF Archived, VolatileRuns
<1>7. Held'
  <2> SUFFICES ASSUME NEW d \in Controllers PROVE HolderOf(d)'
    BY DEF Held
  <2>1. HolderOf(d) /\ (d = current /\ d \notin late => ctl[d].run = 0 \/ ctl[d].frozen # None)
    BY <1>2 DEF IInv, Held, Recorded
  <2> QED BY <1>1, <1>2, <1>6, <2>1 DEF HolderOf
<1>8. OnDisk' /\ NoFuture'
  BY <1>1 DEF IInv, OnDisk, DiskOf, NoFuture
<1>9. ArchiveInv'
  BY <1>1, <1>6 DEF IInv, ArchiveInv
<1>10. NoRunLost'
  <2>1. ASSUME NEW r \in 1 .. started
        PROVE  \/ resultFile[r] # None
               \/ r \in VolatileRuns \cup evicted
               \/ \E c \in late : ctl[c].run = r
    <3>1. r # 0
      OBVIOUS
    <3> QED BY <1>2, <2>1, <3>1 DEF IInv, NoRunLost, Recorded, Archived
  <2> QED BY <1>1, <1>6, <2>1 DEF IInv, NoRunLost
<1> QED BY <1>3, <1>4, <1>5, <1>7, <1>8, <1>9, <1>10 DEF IInv

\* A new controller takes the place of one whose run is recorded.
LEMMA BuildControllerStep ==
    ASSUME IInv, NEW c \in Controllers, BuildController(c)
    PROVE  IInv' /\ (ctl[c].run = 0 \/ ctl[c].frozen # None) /\ ctl'[c].run = 0
           /\ (\A d \in Controllers : d # c => ctl'[d] = ctl[d])
           /\ (ctl[c].run # 0 => resultFile[ctl[c].run] # None \/ ctl[c].run \in Archived)
<1>1. /\ UNCHANGED <<caller, started, disk, archive, last, late>>
      /\ op = "none" /\ current = None /\ current' = c /\ c \notin late
      /\ ctl' = [ctl EXCEPT ![c] = NewController]
  BY DEF BuildController
<1>2. pc = "idle" /\ on = None /\ None \notin Controllers
  BY <1>1, TrafficRunAssumption DEF IInv, CallInv
<1>3. NewController \in Fields
  BY DEF NewController, Fields, RunStates, Failures
<1>4. /\ ctl'[c] = NewController /\ ctl' \in [Controllers -> Fields]
      /\ \A d \in Controllers : d # c => ctl'[d] = ctl[d]
  BY <1>1, <1>3 DEF IInv, TypeOK
<1>5. /\ ctl'[c].run = 0 /\ ctl'[c].frozen = None /\ ctl'[c].fin = "idle"
      /\ ctl'[c].task = "none" /\ ctl'[c].done = TRUE /\ ctl'[c].terminal = None
      /\ ctl'[c].finisher = "none" /\ ctl'[c].state = "IDLE"
  BY <1>4 DEF NewController
<1>6. TypeOK'
  BY <1>1, <1>4 DEF IInv, TypeOK
<1>7. Controlled'
  <2> SUFFICES ASSUME NEW d \in Controllers PROVE FieldsOf(d)'
    BY DEF Controlled
  <2>1. CASE d = c
    BY <1>5, <2>1 DEF FieldsOf, Terminal
  <2>2. CASE d # c
    BY <1>1, <1>4, <2>2 DEF IInv, Controlled, FieldsOf
  <2> QED BY <2>1, <2>2
<1>8. CallInv'
  BY <1>1, <1>2 DEF IInv, CallInv
<1>9. Archived' = Archived /\ VolatileRuns' = VolatileRuns /\ 0 \notin Archived
  BY <1>1, RunNumbers, ResultFields DEF IInv, TypeOK, Archived, VolatileRuns
<1>10. Held'
  <2> SUFFICES ASSUME NEW d \in Controllers PROVE HolderOf(d)'
    BY DEF Held
  <2>1. CASE d = c
    BY <1>1, <1>4, <1>5, <1>9, <2>1, RunNumbers DEF IInv, TypeOK, HolderOf
  <2>2. CASE d # c
    BY <1>1, <1>2, <1>4, <1>5, <1>9, <2>2 DEF IInv, Held, HolderOf
  <2> QED BY <2>1, <2>2
<1>11. OnDisk'
  <2> SUFFICES ASSUME NEW d \in Controllers PROVE DiskOf(d)'
    BY DEF OnDisk
  <2> QED BY <1>1, <1>4, <1>5 DEF IInv, OnDisk, DiskOf
<1>12. ArchiveInv'
  <2>1. \A i \in DOMAIN volatile : volatile[i].run # 0
    BY <1>9 DEF Archived, VolatileRuns
  <2> QED BY <1>1, <1>4, <1>5, <1>9, <2>1 DEF IInv, ArchiveInv
<1>13. NoFuture'
  BY <1>1 DEF IInv, NoFuture
<1>14. NoRunLost'
  <2>1. late \subseteq Controllers
    BY DEF IInv, TypeOK
  <2>2. ASSUME NEW r \in 1 .. started
        PROVE  \/ resultFile[r] # None
               \/ r \in VolatileRuns \cup evicted
               \/ \E d \in late : ctl'[d].run = r
    BY <1>1, <1>4, <2>1, <2>2 DEF IInv, NoRunLost
  <2> QED BY <1>1, <1>9, <2>2 DEF IInv, NoRunLost
<1>15. ctl[c].run = 0 \/ ctl[c].frozen # None
  BY <1>1, <1>2 DEF IInv, Held, HolderOf
<1>16. ctl[c].run # 0 => resultFile[ctl[c].run] # None \/ ctl[c].run \in Archived
  <2>1. ctl[c].run # 0 => ctl[c].run \in 1 .. started
    BY ControllerFacts, RunNumbers DEF IInv, TypeOK, Held, HolderOf
  <2>2. \A d \in late : d \in Controllers /\ (ctl[d].run = ctl[c].run => ctl[c].run = 0)
    BY <1>1 DEF IInv, TypeOK, Held, HolderOf
  <2> QED BY <1>1, <2>1, <2>2 DEF IInv, NoRunLost, Archived
<1> QED BY <1>4, <1>5, <1>6, <1>7, <1>8, <1>10, <1>11, <1>12, <1>13, <1>14, <1>15,
           <1>16 DEF IInv

\* The late run is frozen by now: it goes to the disk's or the archive's keeping.
LEMMA SettleLateStep ==
    ASSUME IInv, NEW c \in Controllers, SettleLate(c)
    PROVE  IInv' /\ ctl[c].run \notin Archived
<1>1. /\ c \in late /\ ctl[c].done /\ Archive(c) /\ late' = late \ {c}
      /\ UNCHANGED <<ctl, current, caller, started, disk>>
      /\ last' \in {Summary(c), last}
  BY DEF SettleLate
<1>2. TypeOK /\ CallInv /\ FieldsOf(c) /\ HolderOf(c) /\ ctl[c].run \notin Archived
  BY <1>1, NotArchived DEF IInv, Controlled, Held
<1>3. ctl[c].frozen # None /\ ctl[c].run # 0
  BY <1>1, <1>2 DEF FieldsOf, HolderOf
<1>4. Summary(c) \in Summaries \cup {None}
  BY <1>2, FieldTypes, ResultFields DEF Summary, Summaries
<1>5. /\ volatile' \in Seq(Results) /\ evicted' \subseteq Runs /\ Archived \subseteq Archived'
      /\ Archived' \subseteq Archived \cup {ctl[c].run}
      /\ resultFile[ctl[c].run] = None => ctl[c].run \in Archived'
  BY <1>1, <1>2, <1>3, ArchiveEffect
<1>6. ArchiveInv'
  <2>1. started \in Nat /\ started' = started /\ started <= started' /\ started' \in Nat
    BY <1>1, <1>2 DEF TypeOK
  <2> QED BY <1>1, <1>2, <2>1, ArchiveKeepsInvariant
<1>7. TypeOK'
  BY <1>1, <1>2, <1>4, <1>5 DEF TypeOK
<1>8. Controlled'
  <2> SUFFICES ASSUME NEW d \in Controllers PROVE FieldsOf(d)'
    BY DEF Controlled
  <2> QED BY <1>1 DEF IInv, Controlled, FieldsOf
<1>9. CallInv'
  <2>1. Recorded(c)'
    BY <1>1, <1>3, <1>5 DEF Recorded
  <2>2. on # c /\ Recorded(on) => Recorded(on)'
    BY <1>1, <1>5 DEF Recorded
  <2>3. on = c => Recorded(on)'
    BY <1>1, <2>1 DEF Recorded
  <2>4. pc = "dismantle" => on \in late' \/ Recorded(on)'
    BY <1>1, <1>2, <2>2, <2>3 DEF CallInv
  <2> QED BY <1>1, <1>2, <2>4 DEF CallInv
<1>10. Held'
  <2> SUFFICES ASSUME NEW d \in Controllers PROVE HolderOf(d)'
    BY DEF Held
  <2>1. HolderOf(d) /\ (ctl[d].run = ctl[c].run => d = c)
    BY <1>3 DEF IInv, Held, HolderOf
  <2>2. d # c /\ ctl[d].run \notin Archived => ctl[d].run \notin Archived'
    BY <1>5, <2>1
  <2>3. d = c => d \notin late' /\ (d = current => pc = "dismantle")
    BY <1>1, <1>2 DEF HolderOf
  <2> QED BY <1>1, <1>3, <2>1, <2>2, <2>3 DEF HolderOf
<1>11. OnDisk' /\ NoFuture'
  BY <1>1 DEF IInv, OnDisk, DiskOf, NoFuture
<1>12. NoRunLost'
  <2>1. ASSUME NEW r \in 1 .. started
        PROVE  \/ resultFile[r] # None
               \/ r \in Archived'
               \/ \E d \in (late \ {c}) \cup ({current} \ {None}) : ctl[d].run = r
    BY <1>5, <2>1 DEF IInv, NoRunLost, Archived
  <2> QED BY <1>1, <2>1 DEF IInv, NoRunLost, Archived
<1> QED BY <1>2, <1>6, <1>7, <1>8, <1>9, <1>10, <1>11, <1>12 DEF IInv

\* A new run: the old one of this controller is on disk or in the archive now.
LEMMA StartTrafficStep ==
    ASSUME IInv, StartTraffic
    PROVE  /\ IInv'
           /\ current \in Controllers /\ ctl[current].run \notin Archived
           /\ ctl[current].run = 0 \/ ctl[current].frozen # None
           /\ started + 1 \in Runs /\ ctl'[current].run = started + 1
           /\ \A d \in Controllers : d # current => ctl'[d] = ctl[d]
<1>1. PICK c \in Controllers : current = c
  BY DEF IInv, TypeOK, StartTraffic
<1> DEFINE x == [ctl[c] EXCEPT
             !.state = "RUNNING", !.run = started + 1, !.failure = "none",
             !.frozen = None, !.timedOut = FALSE, !.task = "generating"]
<1>2. /\ op = "none" /\ started < MaxRuns /\ ctl[c].state \notin {"RUNNING", "STOPPING"}
      /\ ctl[c].task \in {"none", "done"} /\ Archive(c) /\ started' = started + 1
      /\ ctl' = [ctl EXCEPT ![c] = x]
      /\ UNCHANGED <<current, caller, disk, last, late>>
  BY <1>1 DEF StartTraffic
<1>3. pc = "idle" /\ on = None
  BY <1>2 DEF IInv, CallInv
<1>4. TypeOK /\ CallInv /\ FieldsOf(c) /\ HolderOf(c) /\ ctl[c].run \notin Archived
      /\ ctl \in [Controllers -> Fields] /\ ctl[c] \in Fields /\ c \notin late
  BY <1>1, <1>3, NotArchived, ControllerFacts DEF IInv, Controlled, Held, HolderOf
<1>5. /\ ctl[c].run = 0 \/ ctl[c].frozen # None
      /\ ctl[c].fin = "idle"
  <2>1. ctl[c].run = 0 \/ ctl[c].frozen # None
    <3>1. ctl[c].state \in Terminal \cup {"IDLE"}
      BY <1>2, <1>4 DEF Fields, RunStates
    <3> QED BY <1>4, <3>1 DEF FieldsOf
  <2> QED BY <1>4, <2>1 DEF FieldsOf
<1>6. started + 1 \in Runs /\ started \in Nat /\ started + 1 \in 0 .. MaxRuns
  BY <1>2, <1>4, RunNumbers DEF TypeOK
<1>7. /\ x.state = "RUNNING" /\ x.run = started + 1 /\ x.frozen = None
      /\ x.task = "generating" /\ x.fin = ctl[c].fin /\ x.done = ctl[c].done
      /\ x.finisher = ctl[c].finisher /\ x.terminal = ctl[c].terminal
  BY <1>4 DEF Fields
<1>8. x \in Fields
  <2>1. "RUNNING" \in RunStates /\ "none" \in Failures
    BY DEF RunStates, Failures
  <2> QED BY <1>4, <1>6, <2>1 DEF Fields
<1> HIDE DEF x
<1>9. /\ ctl'[c] = x /\ ctl' \in [Controllers -> Fields]
      /\ \A d \in Controllers : d # c => ctl'[d] = ctl[d]
  BY <1>2, <1>4, <1>8
<1>10. /\ volatile' \in Seq(Results) /\ evicted' \subseteq Runs /\ Archived \subseteq Archived'
       /\ Archived' \subseteq Archived \cup {ctl[c].run}
       /\ ctl[c].frozen # None /\ resultFile[ctl[c].run] = None => ctl[c].run \in Archived'
  BY <1>2, <1>4, ArchiveEffect
<1>11. /\ \A d \in Controllers : ctl[d].run \in Nat /\ ctl[d].run <= started
       /\ \A r \in Archived : r \in Nat /\ r <= started
       /\ 0 \notin Archived
  BY RunNumbers, FieldTypes, ResultFields
     DEF IInv, TypeOK, Held, HolderOf, ArchiveInv, Archived, VolatileRuns
<1>12. started + 1 \notin Archived' /\ \A d \in Controllers : ctl[d].run # started + 1
  BY <1>4, <1>6, <1>10, <1>11
<1>13. ArchiveInv'
  <2>1. started' \in Nat /\ started <= started' /\ resultFile' = resultFile
    BY <1>2, <1>6
  <2>2. \A d \in Controllers :
          \/ ctl'[d].run = ctl[d].run /\ ctl'[d].frozen = ctl[d].frozen
          \/ ctl'[d].run \notin Archived'
    BY <1>7, <1>9, <1>12
  <2> QED BY <1>2, <1>4, <2>1, <2>2, ArchiveKeepsInvariant
<1>14. TypeOK'
  BY <1>2, <1>4, <1>6, <1>9, <1>10 DEF TypeOK
<1>15. Controlled'
  <2> SUFFICES ASSUME NEW d \in Controllers PROVE FieldsOf(d)'
    BY DEF Controlled
  <2>1. CASE d = c
    BY <1>2, <1>4, <1>5, <1>6, <1>7, <1>9, <2>1, RunNumbers DEF FieldsOf, Terminal
  <2>2. CASE d # c
    BY <1>2, <1>9, <2>2 DEF IInv, Controlled, FieldsOf
  <2> QED BY <2>1, <2>2
<1>16. CallInv'
  BY <1>2, <1>3, <1>4 DEF CallInv
<1>17. Held'
  <2> SUFFICES ASSUME NEW d \in Controllers PROVE HolderOf(d)'
    BY DEF Held
  <2>1. CASE d = c
    <3>1. started + 1 <= started'
      BY <1>2, <1>6
    <3> QED BY <1>1, <1>2, <1>4, <1>7, <1>9, <1>12, <2>1, <3>1 DEF HolderOf
  <2>2. CASE d # c
    <3>1. HolderOf(d) /\ ctl'[d] = ctl[d] /\ (ctl[d].run # 0 => ctl[d].run # ctl[c].run)
      BY <1>9, <2>2 DEF IInv, Held, HolderOf
    <3>2. ctl[d].run <= started'
      BY <1>2, <1>6, <1>11
    <3>3. \A e \in Controllers : ctl'[e].run = ctl[d].run /\ ctl[d].run # 0 => d = e
      BY <1>7, <1>9, <1>12, <3>1 DEF HolderOf
    <3>4. ctl[d].run \notin Archived /\ ctl[d].run # 0 => ctl[d].run \notin Archived'
      BY <1>10, <3>1
    <3> QED BY <1>1, <1>2, <1>3, <2>2, <3>1, <3>2, <3>3, <3>4 DEF HolderOf
  <2> QED BY <2>1, <2>2
<1>18. OnDisk'
  <2> SUFFICES ASSUME NEW d \in Controllers PROVE DiskOf(d)'
    BY DEF OnDisk
  <2>1. CASE d = c
    <3>1. resultFile[started + 1] = None /\ summaryFile[started + 1] = None
      BY <1>6 DEF IInv, NoFuture
    <3> QED BY <1>2, <1>5, <1>7, <1>9, <2>1, <3>1 DEF DiskOf
  <2>2. CASE d # c
    BY <1>2, <1>9, <2>2 DEF IInv, OnDisk, DiskOf
  <2> QED BY <2>1, <2>2
<1>19. NoFuture'
  <2>1. \A r \in Runs : r > started' => r > started
    BY <1>2, <1>6, RunNumbers
  <2> QED BY <1>2, <2>1 DEF IInv, NoFuture
<1>20. NoRunLost'
  <2>1. c # None /\ late \subseteq Controllers
    BY <1>4, TrafficRunAssumption DEF TypeOK
  <2>2. ASSUME NEW r \in 1 .. started
        PROVE  \/ resultFile[r] # None
               \/ r \in Archived'
               \/ \E d \in late : ctl'[d].run = r
    <3>1. r # 0
      OBVIOUS
    <3> QED BY <1>1, <1>4, <1>5, <1>9, <1>10, <2>1, <2>2, <3>1 DEF IInv, NoRunLost,
               Archived
  <2>3. \A r \in 1 .. started' : r \in 1 .. started \/ r = started + 1
    BY <1>2, <1>6
  <2>4. c \in late' \cup ({current'} \ {None}) /\ ctl'[c].run = started + 1
    BY <1>1, <1>2, <1>7, <1>9, <2>1
  <2> QED BY <1>2, <2>2, <2>3, <2>4 DEF IInv, NoRunLost, Archived
<1>21. IInv'
  BY <1>13, <1>14, <1>15, <1>16, <1>17, <1>18, <1>19, <1>20 DEF IInv
<1> QED BY <1>1, <1>4, <1>5, <1>6, <1>7, <1>9, <1>21

\* The invariant holds before the first run.
LEMMA InvariantInit == Init => IInv
<1> SUFFICES ASSUME Init PROVE IInv
  OBVIOUS
<1>1. NewController \in Fields
  BY DEF NewController, Fields, RunStates, Failures
<1>2. /\ \A c \in Controllers : ctl[c] = NewController
      /\ VolatileRuns = {} /\ Archived = {} /\ volatile = <<>> /\ evicted = {}
  BY DEF Init, VolatileRuns, Archived
<1>3. TypeOK
  BY <1>1, TrafficRunAssumption DEF Init, TypeOK
<1>4. Controlled /\ CallInv /\ Held /\ OnDisk /\ NoFuture
  BY <1>2 DEF Init, NewController, Controlled, FieldsOf, Terminal, CallInv, Held,
     HolderOf,
              OnDisk, DiskOf, NoFuture
<1>5. ArchiveInv /\ NoRunLost
  BY <1>2, TrafficRunAssumption DEF Init, ArchiveInv, NoRunLost
<1> QED BY <1>3, <1>4, <1>5 DEF IInv

\* Every step keeps the invariant.
LEMMA InvariantStep == IInv /\ [Next]_vars => IInv'
<1> SUFFICES ASSUME IInv, [Next]_vars PROVE IInv'
  OBVIOUS
<1>1. CASE UNCHANGED vars
  BY <1>1 DEF vars, IInv, TypeOK, Controlled, FieldsOf, CallInv, Recorded, Held,
     HolderOf,
              OnDisk, DiskOf, ArchiveInv, Archived, VolatileRuns, NoFuture, NoRunLost
<1>2. CASE StartTraffic
  BY <1>2, StartTrafficStep
<1>3. CASE \E kind \in {"stop", "teardown", "failure"} : BeginCall(kind)
  BY <1>3, BeginCallStep
<1>4. CASE CallerStep
  BY <1>4, CallStepKeeps, WaitTimesOutStep, DismantledStep DEF CallerStep
<1>5. ASSUME NEW c \in Controllers, RunTask(c)
      PROVE  IInv'
  BY <1>5, TaskMovesStep, RunEndsStep DEF RunTask
<1>6. ASSUME NEW c \in Controllers, Finishing(c)
      PROVE  IInv'
  BY <1>6, MetricsComputedStep, RenameStep, PersistFailsStep, FreezeStep DEF Finishing
<1>7. ASSUME NEW c \in Controllers, BuildController(c) \/ SettleLate(c)
      PROVE  IInv'
  BY <1>7, BuildControllerStep, SettleLateStep
<1> QED BY <1>1, <1>2, <1>3, <1>4, <1>5, <1>6, <1>7 DEF Next

\* The inductive invariant holds in every reachable state, for any controllers,
\* any number of runs and any size of the archive.
THEOREM RunInvariant == Spec => []IInv
<1>1. Init => IInv
  BY InvariantInit
<1>2. IInv /\ [Next]_vars => IInv'
  BY InvariantStep
<1> QED BY <1>1, <1>2, PTL DEF Spec

\* Every field of the controllers, the disk and the archive keeps its kind.
THEOREM TrafficTypes == Spec => []TypeOK
BY RunInvariant, PTL DEF IInv

\* No run is ever lost, and no summary is on disk without its result
\* (_freeze_and_persist, _archive_unpersisted_traffic_result and the
\* late-finalization task of SimulatorService).
THEOREM NoRunIsLost == Spec => []NoRunLost
BY RunInvariant, PTL DEF IInv

-----------------------------------------------------------------------------
(* The refinement.  Where a run's outcome comes from: the controller that     *)
(* holds it, then the disk, then the archive.  What the archive has, the      *)
(* others say too.                                                            *)

OutcomeFacts(r) ==
    /\ r > started => RunOutcome(r) = "none"
    /\ r <= started /\ r \in evicted => RunOutcome(r) = "forgotten"
    /\ r <= started /\ r \notin evicted =>
         /\ \A c \in Holding : ctl[c].run = r =>
              /\ ctl[c].frozen # None => RunOutcome(r) = ctl[c].frozen.state
              /\ ctl[c].frozen = None => RunOutcome(r) = "active"
         /\ \A i \in DOMAIN volatile : volatile[i].run = r => RunOutcome(r) = volatile[i].state
         /\ (\A c \in Holding : ctl[c].run # r) =>
              /\ resultFile[r] # None => RunOutcome(r) = resultFile[r].state
              /\ resultFile[r] = None => r \in VolatileRuns

\* The only element of a set is the one that is chosen.
LEMMA ChooseOnly ==
    ASSUME NEW S, NEW x \in S, \A y \in S : y = x
    PROVE  (CHOOSE y \in S : TRUE) = x
<1>1. \E y : y \in S /\ TRUE
  OBVIOUS
<1>2. (CHOOSE y \in S : TRUE) \in S
  BY <1>1, Zenon
<1> QED BY <1>2

\* A controller that holds no run any more has recorded its last one.
LEMMA HoldingFacts ==
    ASSUME IInv
    PROVE  /\ Holding \subseteq Controllers
           /\ current \in Controllers => current \in Holding
           /\ late \subseteq Holding
           /\ \A c \in Controllers \ Holding : ctl[c].run = 0 \/ ctl[c].frozen # None
BY TrafficRunAssumption DEF IInv, TypeOK, Held, HolderOf, Holding

\* The invariant determines the outcome of every run.
LEMMA OutcomeIs == IInv => \A r \in Runs : OutcomeFacts(r)
<1> SUFFICES ASSUME IInv, NEW r \in Runs PROVE OutcomeFacts(r)
  OBVIOUS
<1> DEFINE holders == {c \in Holding : ctl[c].run = r}
           live(c) == IF ctl[c].frozen # None THEN ctl[c].frozen.state ELSE ctl[c].state
           archived == {i \in DOMAIN volatile : volatile[i].run = r}
           first == CHOOSE c \in holders : TRUE
           entry == CHOOSE i \in archived : TRUE
<1>1. RunOutcome(r) =
        IF r > started THEN "none"
        ELSE IF r \in evicted THEN "forgotten"
        ELSE IF holders # {} THEN
            IF live(first) \in Terminal THEN live(first) ELSE "active"
        ELSE IF resultFile[r] # None THEN resultFile[r].state
        ELSE IF archived # {} THEN volatile[entry].state
        ELSE "active"
  BY DEF RunOutcome
<1>2. ASSUME NEW c \in Holding, ctl[c].run = r
      PROVE  first = c
  <2>1. c \in holders /\ \A d \in holders : d = c
    BY <1>2, RunNumbers, HoldingFacts DEF IInv, Held, HolderOf
  <2> HIDE DEF holders
  <2> QED BY <2>1, ChooseOnly
<1>3. ASSUME NEW i \in DOMAIN volatile, volatile[i].run = r
      PROVE  entry = i
  <2>1. i \in archived /\ \A j \in archived : j = i
    BY <1>3 DEF IInv, ArchiveInv
  <2> HIDE DEF archived
  <2> QED BY <2>1, ChooseOnly
<1> HIDE DEF first, entry
<1>4. r \in Nat /\ started \in Nat /\ r # 0
  BY RunNumbers DEF IInv, TypeOK
<1>5. ASSUME r <= started, r \notin evicted, NEW c \in Holding, ctl[c].run = r
      PROVE  /\ ctl[c].frozen # None => RunOutcome(r) = ctl[c].frozen.state
             /\ ctl[c].frozen = None => RunOutcome(r) = "active"
  <2>1. RunOutcome(r) = IF live(c) \in Terminal THEN live(c) ELSE "active"
    BY <1>1, <1>2, <1>4, <1>5
  <2>2. c \in Controllers
    BY HoldingFacts
  <2>3. ctl[c].frozen # None => ctl[c].frozen.state \in Terminal
    BY <2>2, ControllerFacts, ResultFields
  <2>4. ctl[c].frozen = None => ctl[c].state \notin Terminal
    BY <2>2 DEF IInv, Controlled, FieldsOf
  <2> QED BY <2>1, <2>3, <2>4
<1>6. ASSUME r <= started, r \notin evicted, NEW i \in DOMAIN volatile, volatile[i].run = r
      PROVE  RunOutcome(r) = volatile[i].state
  <2>1. CASE \E c \in Holding : ctl[c].run = r
    <3>1. PICK c \in Holding : ctl[c].run = r
      BY <2>1
    <3>2. ctl[c].frozen # None /\ volatile[i].state = ctl[c].frozen.state
      BY <1>6, <3>1, HoldingFacts DEF IInv, ArchiveInv, Archived, VolatileRuns
    <3> QED BY <1>5, <1>6, <3>1, <3>2
  <2>2. CASE \A c \in Holding : ctl[c].run # r
    <3>1. resultFile[r] = None
      BY <1>6 DEF IInv, ArchiveInv, Archived, VolatileRuns
    <3> QED BY <1>1, <1>3, <1>4, <1>6, <2>2, <3>1
  <2> QED BY <2>1, <2>2
<1>7. ASSUME r <= started, r \notin evicted, \A c \in Holding : ctl[c].run # r
      PROVE  /\ resultFile[r] # None => RunOutcome(r) = resultFile[r].state
             /\ resultFile[r] = None => r \in VolatileRuns
  <2>1. resultFile[r] # None => RunOutcome(r) = resultFile[r].state
    BY <1>1, <1>4, <1>7
  <2>2. resultFile[r] = None => r \in VolatileRuns
    <3>1. r \in 1 .. started
      BY <1>4, <1>7
    <3> QED BY <1>7, <3>1 DEF IInv, NoRunLost, Holding
  <2> QED BY <2>1, <2>2
<1>8. /\ r > started => RunOutcome(r) = "none"
      /\ r <= started /\ r \in evicted => RunOutcome(r) = "forgotten"
  BY <1>1, <1>4
<1> QED BY <1>5, <1>6, <1>7, <1>8 DEF OutcomeFacts

\* What a step leaves alone of run r: its controller keeps it and its result, or
\* lets go of it once it has one; the archive and the disk keep what they have.
Keeps(r) ==
    /\ started' \in Nat /\ started <= started'
    /\ evicted \subseteq evicted' /\ Archived \subseteq Archived'
    /\ \A i \in DOMAIN volatile' : volatile'[i].run = r =>
         \/ \E j \in DOMAIN volatile : volatile'[i] = volatile[j]
         \/ \E c \in Holding : ctl[c].run = r /\ ctl[c].frozen # None /\ volatile'[i] = ctl[c].frozen
    /\ \/ resultFile'[r] = resultFile[r]
       \/ \E d \in Holding : d \in Holding' /\ ctl[d].run = r /\ ctl'[d].run = r
                             /\ ctl[d].frozen = None
    /\ \A d \in Holding' : ctl'[d].run = r =>
         /\ d \in Holding /\ ctl[d].run = r
         /\ ctl[d].frozen = None => ctl'[d].frozen = None
         /\ ctl[d].frozen # None =>
              ctl'[d].frozen # None /\ ctl'[d].frozen.state = ctl[d].frozen.state
    /\ \A d \in Holding : ctl[d].run = r /\ (d \in Holding' => ctl'[d].run # r) =>
         ctl[d].frozen # None

\* It does so after a step, too.
LEMMA OutcomeAfter == IInv' => (\A r \in Runs : OutcomeFacts(r))'
BY OutcomeIs, PTL

\* The runs whose outcome is what the disk says after a step, and had one before.
Reread == {r \in Runs : /\ r <= started /\ r \notin evicted' /\ RunOutcome(r) \in Terminal
                        /\ resultFile[r] # None /\ RunOutcome(r)' = resultFile[r].state}

\* A step that keeps what the outcome of a run is read from keeps the outcome,
\* or leaves it to the run's file.
LEMMA OutcomeKept ==
    ASSUME IInv, IInv', NEW r \in Runs, r <= started, r \notin evicted', Keeps(r)
    PROVE  /\ RunOutcome(r)' = RunOutcome(r) \/ r \in Reread
           /\ RunOutcome(r) \in Terminal => resultFile'[r] = resultFile[r]
<1>1. OutcomeFacts(r) /\ OutcomeFacts(r)'
  BY OutcomeIs, OutcomeAfter
<1>2. r \in Nat /\ started \in Nat /\ started' \in Nat /\ r <= started' /\ r \notin evicted
  BY RunNumbers DEF IInv, TypeOK, Keeps
<1>3. ASSUME \E i \in DOMAIN volatile' : volatile'[i].run = r
      PROVE  RunOutcome(r)' = RunOutcome(r)
  <2>1. PICK i \in DOMAIN volatile' : volatile'[i].run = r
    BY <1>3
  <2>2. RunOutcome(r)' = volatile'[i].state
    BY <1>1, <1>2, <2>1 DEF OutcomeFacts
  <2>3. CASE \E j \in DOMAIN volatile : volatile'[i] = volatile[j]
    <3>1. PICK j \in DOMAIN volatile : volatile'[i] = volatile[j]
      BY <2>3
    <3>2. RunOutcome(r) = volatile[j].state
      BY <1>1, <1>2, <2>1, <3>1 DEF OutcomeFacts
    <3> QED BY <2>2, <3>1, <3>2
  <2>4. CASE \E c \in Holding :
               ctl[c].run = r /\ ctl[c].frozen # None /\ volatile'[i] = ctl[c].frozen
    <3>1. PICK c \in Holding :
             ctl[c].run = r /\ ctl[c].frozen # None /\ volatile'[i] = ctl[c].frozen
      BY <2>4
    <3>2. RunOutcome(r) = ctl[c].frozen.state
      BY <1>1, <1>2, <3>1 DEF OutcomeFacts
    <3> QED BY <2>2, <3>1, <3>2
  <2> QED BY <2>1, <2>3, <2>4 DEF Keeps
<1>4. ASSUME NEW d \in Holding', ctl'[d].run = r
      PROVE  RunOutcome(r)' = RunOutcome(r)
  <2>1. d \in Holding /\ ctl[d].run = r
    BY <1>4 DEF Keeps
  <2>2. CASE ctl[d].frozen = None
    <3>1. ctl'[d].frozen = None
      BY <1>4, <2>2 DEF Keeps
    <3>2. RunOutcome(r) = "active"
      BY <1>1, <1>2, <2>1, <2>2 DEF OutcomeFacts
    <3>3. RunOutcome(r)' = "active"
      BY <1>1, <1>2, <1>4, <3>1 DEF OutcomeFacts
    <3> QED BY <3>2, <3>3
  <2>3. CASE ctl[d].frozen # None
    <3>1. ctl'[d].frozen # None /\ ctl'[d].frozen.state = ctl[d].frozen.state
      BY <1>4, <2>3 DEF Keeps
    <3>2. RunOutcome(r) = ctl[d].frozen.state
      BY <1>1, <1>2, <2>1, <2>3 DEF OutcomeFacts
    <3>3. RunOutcome(r)' = ctl'[d].frozen.state
      BY <1>1, <1>2, <1>4, <3>1 DEF OutcomeFacts
    <3> QED BY <3>1, <3>2, <3>3
  <2> QED BY <2>2, <2>3
<1>5. ASSUME \A i \in DOMAIN volatile' : volatile'[i].run # r,
             \A d \in Holding' : ctl'[d].run # r
      PROVE  RunOutcome(r)' = RunOutcome(r) \/ r \in Reread
  <2>1. r \notin VolatileRuns'
    BY <1>5 DEF VolatileRuns
  <2>2. resultFile'[r] # None /\ RunOutcome(r)' = resultFile'[r].state
    BY <1>1, <1>2, <1>5, <2>1 DEF OutcomeFacts
  <2>3. /\ resultFile'[r] = resultFile[r]
        /\ \A d \in Holding : ctl[d].run = r => ctl[d].frozen # None
    BY <1>5 DEF Keeps
  <2>4. CASE \A d \in Holding : ctl[d].run # r
    BY <1>1, <1>2, <2>2, <2>3, <2>4 DEF OutcomeFacts
  <2>5. CASE \E d \in Holding : ctl[d].run = r
    <3>1. PICK d \in Holding : ctl[d].run = r
      BY <2>5
    <3>2. ctl[d].frozen # None /\ RunOutcome(r) = ctl[d].frozen.state
      BY <1>1, <1>2, <2>3, <3>1 DEF OutcomeFacts
    <3>3. RunOutcome(r) \in Terminal
      BY <3>2, HoldingFacts, ControllerFacts, ResultFields
    <3> QED BY <2>2, <2>3, <3>3 DEF Reread
  <2> QED BY <2>4, <2>5
<1>6. RunOutcome(r) \in Terminal => resultFile'[r] = resultFile[r]
  <2>1. "active" \notin Terminal
    BY DEF Terminal
  <2> QED BY <1>1, <1>2, <2>1 DEF OutcomeFacts, Keeps
<1> QED BY <1>3, <1>4, <1>5, <1>6

\* What a step that keeps every run does to the promise: new runs become active,
\* and of the old ones those without a file may be forgotten, those with one be
\* read from it.
LEMMA PromiseStep ==
    ASSUME IInv, IInv', started <= started', evicted \subseteq evicted',
           \A r \in Runs : r <= started => Keeps(r),
           \A r \in evicted' \ evicted :
             r <= started /\ RunOutcome(r) \in Terminal /\ resultFile[r] = None,
           \A r \in Runs : r > started => resultFile'[r] = resultFile[r],
           \A r \in Runs : r > started /\ r <= started' => RunOutcome(r)' = "active"
    PROVE  /\ FilesOfRuns' = FilesOfRuns
           /\ evicted' \ evicted \in SUBSET Promise!Unsaved
           /\ Reread \in SUBSET (Promise!Settled \ Promise!Unsaved)
           /\ \A r \in Runs :
                OutcomeOfRuns'[r] = IF r \in evicted' \ evicted THEN "forgotten"
                                    ELSE IF r > started /\ r <= started' THEN "active"
                                    ELSE IF r \in Reread THEN FilesOfRuns[r]
                                    ELSE OutcomeOfRuns[r]
<1>1. /\ \A r \in Runs : OutcomeOfRuns[r] = RunOutcome(r) /\ OutcomeOfRuns'[r] = RunOutcome(r)'
      /\ "active" \notin Terminal /\ "none" \notin Terminal /\ "forgotten" \notin Terminal
  BY DEF OutcomeOfRuns, Terminal
<1>2. /\ evicted' \subseteq Runs /\ started \in Nat /\ started' \in Nat
      /\ \A r \in evicted : r <= started
      /\ \A r \in evicted' : r <= started' /\ resultFile'[r] = None
  BY DEF IInv, TypeOK, ArchiveInv, Archived
<1>3. \A r \in Runs :
        /\ FilesOfRuns[r] = IF RunOutcome(r) \in Terminal /\ resultFile[r] # None
                            THEN resultFile[r].state ELSE "none"
        /\ FilesOfRuns'[r] = IF RunOutcome(r)' \in Terminal /\ resultFile'[r] # None
                             THEN resultFile'[r].state ELSE "none"
        /\ resultFile[r] # None => resultFile[r].state \in Terminal
  BY ResultFields DEF FilesOfRuns, IInv, TypeOK
<1>4. ASSUME NEW r \in Runs
      PROVE  /\ OutcomeOfRuns'[r] = IF r \in evicted' \ evicted THEN "forgotten"
                                    ELSE IF r > started /\ r <= started' THEN "active"
                                    ELSE IF r \in Reread THEN FilesOfRuns[r]
                                    ELSE OutcomeOfRuns[r]
             /\ FilesOfRuns'[r] = FilesOfRuns[r]
  <2>1. r \in Nat /\ OutcomeFacts(r) /\ OutcomeFacts(r)'
    BY RunNumbers, OutcomeIs, OutcomeAfter
  <2>2. CASE r > started'
    <3>1. RunOutcome(r) = "none" /\ RunOutcome(r)' = "none"
      BY <1>2, <2>1, <2>2 DEF OutcomeFacts
    <3>2. r \notin evicted' /\ ~(r <= started') /\ r \notin Reread
      BY <1>2, <2>1, <2>2 DEF Reread
    <3> QED BY <1>1, <1>3, <3>1, <3>2
  <2>3. CASE r > started /\ r <= started'
    <3>1. RunOutcome(r) = "none" /\ RunOutcome(r)' = "active"
      BY <1>2, <2>1, <2>3 DEF OutcomeFacts
    <3>2. r \notin evicted' \ evicted
      BY <1>2, <2>1, <2>3
    <3> QED BY <1>1, <1>3, <2>3, <3>1, <3>2
  <2>4. CASE r <= started /\ r \in evicted'
    <3>1. RunOutcome(r)' = "forgotten"
      BY <1>2, <2>1, <2>4 DEF OutcomeFacts
    <3>2. r \in evicted => RunOutcome(r) = "forgotten"
      BY <2>1, <2>4 DEF OutcomeFacts
    <3>3. FilesOfRuns[r] = "none" /\ FilesOfRuns'[r] = "none"
      BY <1>1, <1>3, <2>4, <3>1, <3>2
    <3>4. ~(r > started) /\ r \notin Reread
      BY <1>2, <2>1, <2>4 DEF Reread
    <3> QED BY <1>1, <2>4, <3>1, <3>2, <3>3, <3>4
  <2>5. CASE r <= started /\ r \notin evicted'
    <3>1. /\ RunOutcome(r)' = RunOutcome(r) \/ r \in Reread
          /\ RunOutcome(r) \in Terminal => resultFile'[r] = resultFile[r]
      BY <2>5, OutcomeKept
    <3>2. ~(r > started)
      BY <1>2, <2>1, <2>5
    <3>3. CASE r \in Reread
      <4>1. /\ RunOutcome(r) \in Terminal /\ resultFile[r] # None
            /\ RunOutcome(r)' = resultFile[r].state
        BY <3>3 DEF Reread
      <4> QED BY <1>1, <1>3, <2>5, <3>1, <3>2, <3>3, <4>1
    <3>4. CASE r \notin Reread
      BY <1>1, <1>3, <2>5, <3>1, <3>2, <3>4
    <3> QED BY <3>3, <3>4
  <2> QED BY <1>2, <2>1, <2>2, <2>3, <2>4, <2>5
<1>5. FilesOfRuns' = FilesOfRuns
  <2>1. /\ FilesOfRuns = [r \in Runs |-> FilesOfRuns[r]]
        /\ FilesOfRuns' = [r \in Runs |-> FilesOfRuns'[r]]
    BY DEF FilesOfRuns
  <2> QED BY <1>4, <2>1
<1>6. evicted' \ evicted \in SUBSET Promise!Unsaved
  BY <1>1, <1>2, <1>3 DEF Promise!Unsaved, Promise!Settled
<1>7. Reread \in SUBSET (Promise!Settled \ Promise!Unsaved)
  <2> SUFFICES ASSUME NEW r \in Reread PROVE r \in Promise!Settled \ Promise!Unsaved
    OBVIOUS
  <2>1. r \in Runs /\ RunOutcome(r) \in Terminal /\ resultFile[r] # None
    BY DEF Reread
  <2> QED BY <1>1, <1>3, <2>1 DEF Promise!Unsaved, Promise!Settled
<1> QED BY <1>4, <1>5, <1>6, <1>7

\* No run begins: at most, results are left to the disk.
LEMMA ForgetStep ==
    ASSUME IInv, IInv', started' = started, evicted \subseteq evicted',
           \A r \in Runs : r <= started => Keeps(r),
           \A r \in Runs : r > started => resultFile'[r] = resultFile[r],
           \A r \in evicted' \ evicted :
             r <= started /\ RunOutcome(r) \in Terminal /\ resultFile[r] = None
    PROVE  Promise!Next
<1>1. started \in Nat /\ \A r \in Runs : r \in Nat
  BY RunNumbers DEF IInv, TypeOK
<1>2. \A r \in Runs : ~(r > started /\ r <= started')
  BY <1>1
<1>3. /\ FilesOfRuns' = FilesOfRuns
      /\ evicted' \ evicted \in SUBSET Promise!Unsaved
      /\ Reread \in SUBSET (Promise!Settled \ Promise!Unsaved)
      /\ \A r \in Runs :
           OutcomeOfRuns'[r] = IF r \in evicted' \ evicted THEN "forgotten"
                               ELSE IF r \in Reread THEN FilesOfRuns[r] ELSE OutcomeOfRuns[r]
  BY <1>1, <1>2, PromiseStep
<1>4. OutcomeOfRuns' = Promise!LeftToDisk(evicted' \ evicted, Reread)
  <2>1. OutcomeOfRuns' = [r \in Runs |-> OutcomeOfRuns'[r]]
    BY DEF OutcomeOfRuns
  <2> QED BY <1>3, <2>1 DEF Promise!LeftToDisk
<1> QED BY <1>3, <1>4 DEF Promise!Next, Promise!Forget

\* Steps within a controller that freeze nothing.
LEMMA WithinForgets ==
    ASSUME IInv, IInv', NEW c \in Controllers, Within(c),
           ctl'[c].frozen = None <=> ctl[c].frozen = None
    PROVE  Promise!Next
<1>1. started \in Nat /\ started' = started /\ evicted' = evicted /\ volatile' = volatile
      /\ Archived' = Archived /\ Holding' = Holding
  BY DEF IInv, TypeOK, Within, Archived, VolatileRuns, Holding
<1>2. \A d \in Controllers :
        /\ ctl'[d].run = ctl[d].run
        /\ ctl[d].frozen = None => ctl'[d].frozen = None
        /\ ctl[d].frozen # None =>
             ctl'[d].frozen # None /\ ctl'[d].frozen.state = ctl[d].frozen.state
  BY DEF Within
<1>3. ASSUME NEW r \in Runs
      PROVE  Keeps(r)
  <2>1. \/ resultFile'[r] = resultFile[r]
        \/ c \in Holding /\ ctl[c].run = r /\ ctl'[c].run = r /\ ctl[c].frozen = None
    <3>1. r # 0
      BY RunNumbers
    <3> QED BY <1>2, <3>1, HoldingFacts DEF Within
  <2> QED BY <1>1, <1>2, <2>1, HoldingFacts DEF Keeps
<1>4. \A r \in Runs : r > started => resultFile'[r] = resultFile[r]
  <2>1. ctl[c].run \in Nat /\ ctl[c].run <= started /\ \A r \in Runs : r \in Nat
    BY RunNumbers, ControllerFacts DEF IInv, Held, HolderOf
  <2>2. \A r \in Runs : r > started => r # ctl[c].run
    BY <1>1, <2>1
  <2> QED BY <2>2 DEF Within
<1> QED BY <1>1, <1>3, <1>4, ForgetStep

\* Steps that may archive a run, and leave runs, results and disk alone.
LEMMA EvictedWere ==
    ASSUME IInv, NEW c \in Holding, Archive(c), ctl[c].run \notin Archived
    PROVE  \A r \in evicted' \ evicted :
             r <= started /\ RunOutcome(r) \in Terminal /\ resultFile[r] = None
<1> SUFFICES ASSUME NEW r \in evicted' \ evicted
             PROVE  r <= started /\ RunOutcome(r) \in Terminal /\ resultFile[r] = None
  OBVIOUS
<1>1. c \in Controllers
  BY HoldingFacts
<1>2. /\ r \in Runs /\ r \in Archived \cup {ctl[c].run}
      /\ ctl[c].run \in Archived' => ctl[c].frozen # None /\ resultFile[ctl[c].run] = None
      /\ r \in Archived'
  BY <1>1, ArchiveEffect DEF Archived
<1>3. OutcomeFacts(r)
  BY <1>2, OutcomeIs
<1>4. CASE r \in Archived
  <2>1. PICK i \in DOMAIN volatile : volatile[i].run = r
    BY <1>4 DEF Archived, VolatileRuns
  <2>2. r <= started /\ resultFile[r] = None
    BY <1>4 DEF IInv, ArchiveInv
  <2>3. volatile[i].state \in Terminal
    BY <2>1, ResultFields DEF IInv, TypeOK
  <2> QED BY <1>3, <2>1, <2>2, <2>3 DEF OutcomeFacts
<1>5. CASE r = ctl[c].run
  <2>1. ctl[c].frozen # None /\ resultFile[r] = None /\ r <= started
    BY <1>1, <1>2, <1>5 DEF IInv, Held, HolderOf
  <2>2. ctl[c].frozen.state \in Terminal
    BY <1>1, <2>1, ControllerFacts, ResultFields
  <2> QED BY <1>3, <1>5, <2>1, <2>2 DEF OutcomeFacts
<1> QED BY <1>2, <1>4, <1>5

\* Archiving a run keeps what the outcome of every run is read from.
LEMMA ArchiveForgets ==
    ASSUME IInv, IInv', NEW c \in Holding, Archive(c), ctl[c].run \notin Archived,
           started' \in Nat, started <= started', resultFile' = resultFile, NEW r \in Runs,
           \A d \in Holding' : ctl'[d].run = r =>
             d \in Holding /\ ctl[d].run = r /\ ctl'[d].frozen = ctl[d].frozen,
           \A d \in Holding : ctl[d].run = r /\ (d \in Holding' => ctl'[d].run # r) =>
             ctl[d].frozen # None
    PROVE  Keeps(r)
<1>1. c \in Controllers
  BY HoldingFacts
<1>2. evicted \subseteq evicted' /\ Archived \subseteq Archived'
  BY <1>1, ArchiveEffect
<1>3. ASSUME NEW i \in DOMAIN volatile', volatile'[i].run = r
      PROVE  \/ \E j \in DOMAIN volatile : volatile'[i] = volatile[j]
             \/ \E d \in Holding :
                  ctl[d].run = r /\ ctl[d].frozen # None /\ volatile'[i] = ctl[d].frozen
  <2>1. CASE ctl[c].frozen = None
    BY <1>3, <2>1 DEF Archive
  <2>2. CASE ctl[c].frozen # None
    <3>1. ctl[c].frozen.run = ctl[c].run
      BY <1>1, <2>2, ControllerFacts DEF FieldsOf
    <3> QED BY <1>1, <1>3, <2>2, <3>1, ArchiveEffect
  <2> QED BY <2>1, <2>2
<1> QED BY <1>2, <1>3 DEF Keeps

\* Steps that leave runs, results and disk alone, and may archive one run or let
\* a controller go whose run has its result.
LEMMA QuietForgets ==
    ASSUME IInv, IInv', UNCHANGED <<started, resultFile>>, NEW c \in Holding,
           UNCHANGED archive \/ (Archive(c) /\ ctl[c].run \notin Archived),
           \A d \in Controllers : ctl'[d].run = ctl[d].run /\ ctl'[d].frozen = ctl[d].frozen,
           Holding' \subseteq Holding,
           \A d \in Holding \ Holding' : ctl[d].run = 0 \/ ctl[d].frozen # None
    PROVE  Promise!Next
<1>1. started \in Nat /\ started' \in Nat /\ started <= started' /\ 0 \notin Runs
  BY RunNumbers DEF IInv, TypeOK
<1>2. CASE UNCHANGED archive
  <2>1. Archived' = Archived /\ evicted' = evicted /\ volatile' = volatile
    BY <1>2 DEF Archived, VolatileRuns
  <2>2. \A r \in Runs : Keeps(r)
    BY <1>1, <2>1, HoldingFacts DEF Keeps
  <2> QED BY <2>1, <2>2, ForgetStep
<1>3. CASE Archive(c) /\ ctl[c].run \notin Archived
  <2>1. evicted \subseteq evicted'
    BY <1>3, HoldingFacts, ArchiveEffect
  <2>2. \A r \in Runs : Keeps(r)
    BY <1>1, <1>3, HoldingFacts, ArchiveForgets
  <2> QED BY <1>3, <2>1, <2>2, ForgetStep, EvictedWere
<1> QED BY <1>2, <1>3

\* Freezing a result gives the run its outcome, and nothing else changes.
LEMMA FreezeEnds ==
    ASSUME IInv, IInv', NEW c \in Controllers, Freeze(c)
    PROVE  Promise!Next
<1>1. PICK k \in Runs : k = ctl[c].run
  BY FreezeStep
<1>2. /\ Within(c) /\ UNCHANGED disk /\ ctl[c].run = k /\ ctl[c].frozen = None
      /\ ctl'[c].frozen = ctl[c].terminal /\ ctl[c].terminal \in Results
      /\ ctl'[c].run = k /\ ctl[c].fin = "freeze"
  BY <1>1, FreezeStep DEF Within, Freeze
<1>3. /\ started \in Nat /\ started' = started /\ evicted' = evicted /\ volatile' = volatile
      /\ Archived' = Archived /\ resultFile' = resultFile /\ Holding' = Holding
      /\ \A d \in Controllers : d # c => ctl'[d] = ctl[d]
  BY <1>2 DEF IInv, TypeOK, Within, Archived, VolatileRuns, Holding
<1>4. /\ k \in Nat /\ k # 0 /\ k <= started /\ k \notin evicted
      /\ \A d \in Controllers : d # c => ctl[d].run # k
  BY <1>2, RunNumbers DEF IInv, Held, HolderOf, ArchiveInv, Archived
<1>5. /\ \A r \in Runs : OutcomeOfRuns[r] = RunOutcome(r) /\ OutcomeOfRuns'[r] = RunOutcome(r)'
      /\ "active" \notin Terminal /\ ctl[c].terminal.state \in Terminal /\ None \notin Results
  BY <1>2, ResultFields DEF OutcomeOfRuns, Terminal
<1>6. OutcomeOfRuns[k] = "active" /\ OutcomeOfRuns'[k] = ctl[c].terminal.state
  <2>1. OutcomeFacts(k) /\ OutcomeFacts(k)' /\ c \in Holding
    BY <1>2, <1>4, OutcomeIs, OutcomeAfter, HoldingFacts
  <2>2. RunOutcome(k) = "active"
    BY <1>2, <1>4, <2>1 DEF OutcomeFacts
  <2>3. RunOutcome(k)' = ctl'[c].frozen.state
    BY <1>2, <1>3, <1>4, <1>5, <2>1 DEF OutcomeFacts
  <2> QED BY <1>2, <1>5, <2>2, <2>3
<1>7. ASSUME NEW r \in Runs, r # k
      PROVE  OutcomeOfRuns'[r] = OutcomeOfRuns[r]
  <2>1. \A d \in Holding : (ctl'[d].run = r \/ ctl[d].run = r) => ctl'[d] = ctl[d]
    BY <1>2, <1>3, <1>7, HoldingFacts
  <2>2. {d \in Holding' : ctl'[d].run = r} = {d \in Holding : ctl[d].run = r}
    BY <1>3, <2>1
  <2>3. r \in Nat /\ OutcomeFacts(r) /\ OutcomeFacts(r)'
    BY RunNumbers, OutcomeIs, OutcomeAfter
  <2>4. CASE r > started
    BY <1>3, <1>5, <2>3, <2>4 DEF OutcomeFacts
  <2>5. CASE r <= started /\ r \in evicted
    BY <1>3, <1>5, <2>3, <2>5 DEF OutcomeFacts
  <2>6. CASE r <= started /\ r \notin evicted /\ \E d \in Holding : ctl[d].run = r
    <3>1. PICK d \in Holding : ctl[d].run = r
      BY <2>6
    <3>2. ctl'[d] = ctl[d] /\ d \in Holding'
      BY <1>3, <2>1, <3>1
    <3> QED BY <1>3, <1>5, <2>3, <2>6, <3>1, <3>2 DEF OutcomeFacts
  <2>7. CASE r <= started /\ r \notin evicted /\ \A d \in Holding : ctl[d].run # r
    <3>1. \A d \in Holding' : ctl'[d].run # r
      BY <2>2, <2>7
    <3>2. CASE resultFile[r] # None
      BY <1>3, <1>5, <2>3, <2>7, <3>1, <3>2 DEF OutcomeFacts
    <3>3. CASE resultFile[r] = None
      <4>1. PICK i \in DOMAIN volatile : volatile[i].run = r
        BY <2>3, <2>7, <3>3 DEF OutcomeFacts, VolatileRuns
      <4> QED BY <1>3, <1>5, <2>3, <2>7, <4>1 DEF OutcomeFacts
    <3> QED BY <3>2, <3>3
  <2> QED BY <1>3, <2>3, <2>4, <2>5, <2>6, <2>7
<1>8. /\ FilesOfRuns'[k] \in Promise!Written(ctl[c].terminal.state)
      /\ \A r \in Runs : r # k => FilesOfRuns'[r] = FilesOfRuns[r]
  <2>1. /\ DiskOf(c) /\ k # 0
        /\ resultFile[k] # None => resultFile[k].state \in Terminal
    BY <1>4, ControllerFacts, ResultFields
  <2>2. /\ FilesOfRuns'[k] = IF resultFile[k] # None THEN resultFile[k].state ELSE "none"
        /\ \A r \in Runs : r # k => FilesOfRuns'[r] = FilesOfRuns[r]
    BY <1>3, <1>5, <1>6, <1>7 DEF FilesOfRuns
  <2>3. \/ resultFile[k] = None
        \/ resultFile[k] = ctl[c].terminal
        \/ ctl[c].terminal.state = "FAILED"
    BY <1>2, <2>1 DEF DiskOf
  <2> QED BY <2>1, <2>2, <2>3 DEF Promise!Written
<1>9. /\ OutcomeOfRuns' = [OutcomeOfRuns EXCEPT ![k] = ctl[c].terminal.state]
      /\ FilesOfRuns' = [FilesOfRuns EXCEPT ![k] = FilesOfRuns'[k]]
  <2>1. /\ OutcomeOfRuns = [r \in Runs |-> OutcomeOfRuns[r]]
        /\ OutcomeOfRuns' = [r \in Runs |-> OutcomeOfRuns'[r]]
    BY DEF OutcomeOfRuns
  <2>2. /\ FilesOfRuns = [r \in Runs |-> FilesOfRuns[r]]
        /\ FilesOfRuns' = [r \in Runs |-> FilesOfRuns'[r]]
    BY DEF FilesOfRuns
  <2>3. OutcomeOfRuns' = [OutcomeOfRuns EXCEPT ![k] = ctl[c].terminal.state]
    BY <1>6, <1>7, <2>1
  <2>4. FilesOfRuns' = [FilesOfRuns EXCEPT ![k] = FilesOfRuns'[k]]
    BY <1>8, <2>2
  <2> QED BY <2>3, <2>4
<1>10. Promise!End(k)
  BY <1>5, <1>6, <1>8, <1>9 DEF Promise!End
<1> QED BY <1>10 DEF Promise!Next

\* Starting a run begins it; its predecessor is left to the disk or the archive,
\* where its result may push out another.
LEMMA StartBegins ==
    ASSUME IInv, IInv', StartTraffic
    PROVE  Promise!Next
<1>1. PICK c \in Controllers : current = c
  BY StartTrafficStep
<1>2. PICK k \in Runs : k = started + 1
  BY StartTrafficStep
<1>3. /\ ctl[c].run \notin Archived /\ (ctl[c].run = 0 \/ ctl[c].frozen # None)
      /\ ctl'[c].run = k
      /\ \A d \in Controllers : d # c => ctl'[d] = ctl[d]
      /\ c \in Holding
  BY <1>1, <1>2, StartTrafficStep, HoldingFacts
<1>4. /\ Archive(c) /\ started' = k /\ resultFile' = resultFile /\ ctl'[c].frozen = None
      /\ Holding' = Holding
  <2>1. /\ Archive(c) /\ started' = k /\ resultFile' = resultFile /\ Holding' = Holding
        /\ ctl' = [ctl EXCEPT ![c] = [ctl[c] EXCEPT
             !.state = "RUNNING", !.run = started + 1, !.failure = "none",
             !.frozen = None, !.timedOut = FALSE, !.task = "generating"]]
    BY <1>1, <1>2 DEF StartTraffic, Holding
  <2> QED BY <2>1, ControllerFacts DEF Fields
<1>5. /\ k = started + 1 /\ started \in Nat /\ started' \in Nat /\ started <= started'
      /\ \A r \in Runs : r \in Nat /\ r # 0
  BY <1>2, <1>4, RunNumbers DEF IInv, TypeOK
<1>6. evicted \subseteq evicted' /\ Archived' \subseteq Archived \cup {ctl[c].run}
  BY <1>3, <1>4, ArchiveEffect
<1>7. \A r \in Runs : r <= started => Keeps(r)
  <2> SUFFICES ASSUME NEW r \in Runs, r <= started PROVE Keeps(r)
    OBVIOUS
  <2>1. k # r /\ r # 0
    BY <1>5
  <2>2. /\ \A d \in Holding' : ctl'[d].run = r =>
             d \in Holding /\ ctl[d].run = r /\ ctl'[d].frozen = ctl[d].frozen
        /\ \A d \in Holding : ctl[d].run = r /\ (d \in Holding' => ctl'[d].run # r) =>
             ctl[d].frozen # None
    BY <1>3, <1>4, <2>1, HoldingFacts
  <2> QED BY <1>3, <1>4, <1>5, <2>2, ArchiveForgets
<1>8. \A r \in Runs : r > started /\ r <= started' => r = k
  BY <1>4, <1>5
<1>9. RunOutcome(k)' = "active"
  <2>1. OutcomeFacts(k)' /\ c \in Holding'
    BY <1>3, <1>4, OutcomeAfter
  <2>2. k \notin evicted'
    <3>1. \A r \in Archived \cup {ctl[c].run} : r \in Nat /\ r <= started
      BY RunNumbers, ControllerFacts, ResultFields
         DEF IInv, TypeOK, Held, HolderOf, ArchiveInv, Archived, VolatileRuns
    <3> QED BY <1>5, <1>6, <3>1 DEF Archived
  <2>3. k <= started'
    BY <1>4, <1>5
  <2> QED BY <1>3, <1>4, <2>1, <2>2, <2>3 DEF OutcomeFacts
<1>10. /\ FilesOfRuns' = FilesOfRuns
       /\ evicted' \ evicted \in SUBSET Promise!Unsaved
       /\ Reread \in SUBSET (Promise!Settled \ Promise!Unsaved)
       /\ \A r \in Runs :
            OutcomeOfRuns'[r] = IF r \in evicted' \ evicted THEN "forgotten"
                                ELSE IF r > started /\ r <= started' THEN "active"
                                ELSE IF r \in Reread THEN FilesOfRuns[r]
                                ELSE OutcomeOfRuns[r]
  BY <1>3, <1>4, <1>5, <1>6, <1>7, <1>8, <1>9, EvictedWere, PromiseStep
<1>11. OutcomeOfRuns[k] = "none"
  <2>1. OutcomeFacts(k) /\ k > started
    BY <1>3, <1>5, OutcomeIs
  <2> QED BY <1>3, <2>1 DEF OutcomeFacts, OutcomeOfRuns
<1>12. OutcomeOfRuns' = [Promise!LeftToDisk(evicted' \ evicted, Reread) EXCEPT ![k] = "active"]
  <2>1. OutcomeOfRuns' = [r \in Runs |-> OutcomeOfRuns'[r]]
    BY DEF OutcomeOfRuns
  <2>2. OutcomeOfRuns'[k] = "active"
    BY <1>3, <1>9 DEF OutcomeOfRuns
  <2>3. \A r \in Runs : r # k =>
          OutcomeOfRuns'[r] = IF r \in evicted' \ evicted THEN "forgotten"
                              ELSE IF r \in Reread THEN FilesOfRuns[r] ELSE OutcomeOfRuns[r]
    BY <1>8, <1>10
  <2> QED BY <1>3, <2>1, <2>2, <2>3 DEF Promise!LeftToDisk
<1>13. Promise!Begin(k)
  BY <1>10, <1>11, <1>12 DEF Promise!Begin
<1> QED BY <1>3, <1>13 DEF Promise!Next

\* A new controller holds no run yet.
LEMMA BuildForgets ==
    ASSUME IInv, IInv', NEW c \in Controllers, BuildController(c)
    PROVE  Promise!Next
<1>1. /\ UNCHANGED <<started, resultFile, volatile, evicted>>
      /\ Archived' = Archived /\ started \in Nat
      /\ c \notin Holding /\ Holding' = Holding \cup {c}
  BY TrafficRunAssumption DEF BuildController, IInv, TypeOK, Archived, VolatileRuns, Holding
<1>2. /\ ctl'[c].run = 0
      /\ \A d \in Controllers : d # c => ctl'[d] = ctl[d]
  BY BuildControllerStep
<1>3. ASSUME NEW r \in Runs PROVE Keeps(r)
  <2>1. r # 0
    BY RunNumbers
  <2> QED BY <1>1, <1>2, <2>1, HoldingFacts DEF Keeps
<1> QED BY <1>1, <1>3, ForgetStep

\* A controller that is taken down, or whose late run is settled, leaves its
\* result to the disk and the archive.
LEMMA LettingGoForgets ==
    ASSUME IInv, IInv', Dismantled \/ \E c \in Controllers : SettleLate(c)
    PROVE  Promise!Next
<1>1. CASE Dismantled
  <2>1. /\ UNCHANGED <<ctl, started, resultFile, archive, late>>
        /\ current' = None /\ pc = "dismantle" /\ current \in Controllers
        /\ current \in late \/ ctl[current].run = 0 \/ ctl[current].frozen # None
    BY <1>1, TrafficRunAssumption DEF Dismantled, IInv, CallInv, TypeOK, Recorded
  <2>2. /\ current \in Holding /\ Holding' \subseteq Holding
        /\ \A d \in Holding \ Holding' : ctl[d].run = 0 \/ ctl[d].frozen # None
    BY <2>1, HoldingFacts DEF Holding
  <2> QED BY <2>1, <2>2, QuietForgets
<1>2. ASSUME NEW c \in Controllers, SettleLate(c)
      PROVE  Promise!Next
  <2>1. /\ Archive(c) /\ UNCHANGED <<ctl, started, resultFile, current>>
        /\ c \in late /\ late' = late \ {c} /\ ctl[c].done
    BY <1>2 DEF SettleLate
  <2>2. ctl[c].run \notin Archived /\ ctl[c].frozen # None
    BY <1>2, <2>1, SettleLateStep, ControllerFacts DEF IInv, Held, HolderOf, FieldsOf
  <2>3. /\ c \in Holding /\ Holding' \subseteq Holding
        /\ \A d \in Holding \ Holding' : d = c
    BY <2>1 DEF Holding
  <2> QED BY <2>1, <2>2, <2>3, QuietForgets
<1> QED BY <1>1, <1>2

\* Every step of the controllers is a step of the contract, or none.
LEMMA ContractStep ==
    ASSUME IInv, [Next]_vars
    PROVE  [Promise!Next]_(Promise!contract)
<1>1. IInv'
  BY InvariantStep
<1>2. CASE UNCHANGED vars
  BY <1>2 DEF vars, Promise!contract, OutcomeOfRuns, FilesOfRuns, RunOutcome, Holding
<1>3. CASE StartTraffic
  BY <1>1, <1>3, StartBegins
<1>4. CASE \E kind \in {"stop", "teardown", "failure"} : BeginCall(kind)
  BY <1>4 DEF BeginCall, Promise!contract, OutcomeOfRuns, FilesOfRuns, RunOutcome, Holding
<1>5. CASE Dismantled
  BY <1>1, <1>5, LettingGoForgets
<1>6. ASSUME NEW c \in Controllers, NEW ok \in BOOLEAN, on = c, StopReturns(c, ok), pc # "dismantle",
             op # "none", UNCHANGED <<started, resultFile, current>>,
             \A d \in Controllers : ctl'[d].run = ctl[d].run /\ ctl'[d].frozen = ctl[d].frozen
      PROVE  Promise!Next
  <2>1. UNCHANGED archive \/ Archive(c)
    BY <1>6 DEF StopReturns
  <2>2. /\ ctl[c].run \notin Archived /\ c = current /\ c # None
    BY <1>6, NotArchived, TrafficRunAssumption DEF IInv, CallInv
  <2>3. late' \subseteq late \cup {c} /\ late \subseteq late'
    BY <1>6 DEF StopReturns
  <2>4. c \in Holding /\ Holding' = Holding
    BY <1>6, <2>2, <2>3 DEF Holding
  <2> QED BY <1>1, <1>6, <2>1, <2>2, <2>4, QuietForgets
<1>7. CASE Call
  <2>1. op # "none" /\ UNCHANGED <<started, resultFile, current>>
    BY <1>7 DEF Call
  <2> QED BY <1>1, <1>6, <1>7, <2>1, CallStepKeeps, WithinForgets
<1>8. CASE WaitTimesOut
  <2>1. op # "none" /\ UNCHANGED <<started, resultFile, current>>
    BY <1>8 DEF WaitTimesOut, IInv, CallInv
  <2> QED BY <1>1, <1>6, <1>8, <2>1, WaitTimesOutStep, WithinForgets
<1>9. ASSUME NEW c \in Controllers, RunTask(c)
      PROVE  Promise!Next
  BY <1>1, <1>9, TaskMovesStep, RunEndsStep, WithinForgets DEF RunTask
<1>10. ASSUME NEW c \in Controllers, Finishing(c)
       PROVE  Promise!Next
  BY <1>1, <1>10, MetricsComputedStep, RenameStep, PersistFailsStep, WithinForgets,
     FreezeEnds
     DEF Finishing
<1>11. ASSUME NEW c \in Controllers, BuildController(c)
       PROVE  Promise!Next
  BY <1>1, <1>11, BuildForgets
<1>12. ASSUME NEW c \in Controllers, SettleLate(c)
       PROVE  Promise!Next
  BY <1>1, <1>12, LettingGoForgets
<1> QED BY <1>2, <1>3, <1>4, <1>5, <1>7, <1>8, <1>9, <1>10, <1>11, <1>12 DEF Next,
           CallerStep

\* Controllers, disk and archive implement the contract of a run (RunContract):
\* one outcome for each run, kept by its file and its archived copy, and only an
\* unsaved one forgotten, whatever stops, failures, timeouts and write errors
\* overlap _finish; but a FAILED run may become what a file its failed write left
\* behind says.
THEOREM RunsKeepTheContract == Spec => ImplementsContract
<1>1. Init => Promise!Init
  <2> SUFFICES ASSUME Init PROVE Promise!Init
    OBVIOUS
  <2>1. \A r \in Runs : RunOutcome(r) = "none"
    <3>1. \A r \in Runs : OutcomeFacts(r) /\ r \in Nat /\ r # 0
      BY InvariantInit, OutcomeIs, RunNumbers
    <3> QED BY <3>1 DEF Init, OutcomeFacts
  <2> QED BY <2>1 DEF Promise!Init, OutcomeOfRuns, FilesOfRuns, Terminal
<1>2. IInv /\ [Next]_vars => [Promise!Next]_(Promise!contract)
  BY ContractStep
<1> QED BY <1>1, <1>2, RunInvariant, PTL DEF Spec, ImplementsContract, Promise!Spec

=============================================================================

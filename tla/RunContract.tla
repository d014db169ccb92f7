---------------------------- MODULE RunContract ----------------------------
(***************************************************************************)
(* What a user of the API is promised of traffic runs, whatever stops,      *)
(* failures, teardowns and write errors do to them: a run that was started  *)
(* reaches one outcome and keeps it; a result that reached the disk is      *)
(* never given up, and says the same; one that did not may be forgotten,    *)
(* but only once it has an outcome.  Only a run that FAILED may change its  *)
(* outcome, once, to that of a file its failed write left behind.           *)
(* TrafficRun implements this specification.                                *)
(***************************************************************************)
EXTENDS Naturals

CONSTANTS Runs, Outcomes

VARIABLES
    outcome,   \* outcome[r]: "none", "active", one of Outcomes or "forgotten"
    file       \* file[r]: the outcome in the result on disk, or "none"

contract == <<outcome, file>>

Settled == {r \in Runs : outcome[r] \in Outcomes}
Unsaved == {r \in Settled : file[r] = "none"}

Init ==
    /\ outcome = [r \in Runs |-> "none"]
    /\ file = [r \in Runs |-> "none"]

\* Results without a file may be given up, others be read from their file.
LeftToDisk(forgotten, reread) ==
    [r \in Runs |-> IF r \in forgotten THEN "forgotten"
                    ELSE IF r \in reread THEN file[r] ELSE outcome[r]]

\* A new run; the results that make room for it are left to the disk.
Begin(r) ==
    /\ outcome[r] = "none"
    /\ \E forgotten \in SUBSET Unsaved, reread \in SUBSET (Settled \ Unsaved) :
         outcome' = [LeftToDisk(forgotten, reread) EXCEPT ![r] = "active"]
    /\ UNCHANGED file

\* The outcomes a file beside outcome o may show: the write of a run that FAILED
\* may have left any.
Written(o) == {"none", o} \cup (IF o = "FAILED" THEN Outcomes ELSE {})

\* The run gets its outcome; its file is as it will be for good.
End(r) ==
    /\ outcome[r] = "active"
    /\ \E o \in Outcomes :
         /\ outcome' = [outcome EXCEPT ![r] = o]
         /\ \E f \in Written(o) : file' = [file EXCEPT ![r] = f]

Forget ==
    /\ \E forgotten \in SUBSET Unsaved, reread \in SUBSET (Settled \ Unsaved) :
         outcome' = LeftToDisk(forgotten, reread)
    /\ UNCHANGED file

Next == Forget \/ \E r \in Runs : Begin(r) \/ End(r)

Spec == Init /\ [][Next]_contract

\* Every run that begins ends.
Ends == \A r \in Runs : (outcome[r] = "active") ~> (outcome[r] # "active")
=============================================================================

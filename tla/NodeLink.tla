------------------------------ MODULE NodeLink ------------------------------
(***************************************************************************)
(* What a gateway promises the service about its daemon: an alarm is raised *)
(* only for a daemon that is gone, nobody stops watching an open link       *)
(* without raising it, only a new attempt clears it, and a closed link has  *)
(* neither a daemon nor a watcher.  Gateway implements this specification.  *)
(***************************************************************************)
VARIABLES
    phase,      \* "closed", "opening", "open" or "closing"
    attached,   \* a daemon is at the other end
    watched,    \* a task would notice its loss
    alarm       \* the loss was signalled

link == <<phase, attached, watched, alarm>>

Init == phase = "closed" /\ ~attached /\ ~watched /\ ~alarm

\* An alarm of the time before is cleared.
BeginOpening ==
    /\ phase = "closed" /\ ~attached /\ ~watched
    /\ phase' = "opening" /\ alarm' = FALSE
    /\ UNCHANGED <<attached, watched>>

Attach ==
    /\ phase = "opening" /\ ~attached /\ ~watched
    /\ attached' = TRUE /\ watched' = TRUE
    /\ UNCHANGED <<phase, alarm>>

\* The attempt is discarded after an alarm, and another one begins.
Retry ==
    /\ phase = "opening" /\ ~attached /\ alarm
    /\ watched' = FALSE /\ alarm' = FALSE
    /\ UNCHANGED <<phase, attached>>

Opened ==
    /\ phase = "opening" /\ (watched \/ alarm)
    /\ phase' = "open"
    /\ UNCHANGED <<attached, watched, alarm>>

Detach ==
    /\ attached
    /\ attached' = FALSE
    /\ UNCHANGED <<phase, watched, alarm>>

\* The loss is signalled, by the watcher or by someone else who met it.
Alarm ==
    /\ phase \in {"opening", "open"} /\ ~attached
    /\ alarm' = TRUE
    /\ watched' => watched
    /\ UNCHANGED <<phase, attached>>

BeginClosing ==
    /\ phase' = "closing" /\ attached' = FALSE
    /\ UNCHANGED <<watched, alarm>>

\* While the link closes nobody has to be told.
Unwatch ==
    /\ phase = "closing"
    /\ watched' = FALSE
    /\ UNCHANGED <<phase, attached, alarm>>

Closed ==
    /\ phase = "closing" /\ ~attached
    /\ phase' = "closed" /\ watched' = FALSE
    /\ UNCHANGED <<attached, alarm>>

Next ==
    \/ BeginOpening \/ Attach \/ Retry \/ Opened \/ Detach \/ Alarm
    \/ BeginClosing \/ Unwatch \/ Closed

Spec == Init /\ [][Next]_link

\* An open link that has lost its daemon raises the alarm or is closed.
LossIsNoticed == (phase = "open" /\ ~attached) ~> (alarm \/ phase # "open")
=============================================================================

----------------------------- MODULE Configure -----------------------------
(***************************************************************************)
(* configure_and_verify_node (backend/app/runtime/configure.py): one node   *)
(* is given its owner, radio, role and channel settings in one settings     *)
(* transaction, through a session of the official client, and a second      *)
(* session reads them back and asks for a reboot.  The daemon may refuse a  *)
(* write, not answer, or reboot at any moment, and the client reconnects by *)
(* itself.                                                                  *)
(*                                                                          *)
(* The daemon, as the code uses it: a write inside a transaction changes    *)
(* its memory only, a commit or a write without a transaction saves; a      *)
(* reboot goes back to what is saved and forgets the transaction.           *)
(***************************************************************************)
EXTENDS Naturals, Sequences

VARIABLES
    at,        \* where the call is: a message, "connect", "verify", ... , "idle" at first
    cache,     \* the settings the session read when it was opened
    memory,    \* the daemon's effective settings
    disk,      \* its saved settings
    open,      \* it has an open transaction
    sending    \* the message is on its way and unanswered

node == <<at, cache, memory, disk, open, sending>>

Settings == {"owner", "lora", "device", "channel"}
Messages == <<"begin", "owner", "lora", "device", "channel", "commit">>
Requested == [s \in Settings |-> "requested"]

ConfigureInit ==
    /\ at = "idle" /\ sending = FALSE
    /\ cache = Requested /\ memory = Requested /\ disk = Requested /\ open = FALSE

\* The call begins with a daemon that has any settings.
BeginCall ==
    /\ at = "idle"
    /\ disk' \in [Settings -> {"other", "requested"}]
    /\ memory' = disk'
    /\ at' = "connect"
    /\ UNCHANGED <<cache, open, sending>>

-----------------------------------------------------------------------------
(* The daemon *)

\* It handles the message that is on its way.
Handle(message) ==
    \/ message = "begin" /\ open' = TRUE /\ UNCHANGED <<memory, disk>>
    \/ message = "commit" /\ open' = FALSE /\ disk' = memory /\ UNCHANGED memory
    \/ /\ message \in Settings
       /\ memory' = [memory EXCEPT ![message] = "requested"]
       /\ disk' = IF open THEN disk ELSE memory'
       /\ UNCHANGED open

\* It reboots; what it had not answered stays unanswered.
Reboot ==
    /\ at # "idle"
    /\ memory' = disk /\ open' = FALSE
    /\ UNCHANGED <<at, cache, disk, sending>>

-----------------------------------------------------------------------------
(* The call *)

\* _connect: tried again until it succeeds or the deadline passes (Raises).
Connect ==
    /\ at = "connect"
    /\ cache' = memory
    /\ at' = Head(Messages)
    /\ UNCHANGED <<memory, disk, open, sending>>

IsMessage(m) == \E i \in DOMAIN Messages : Messages[i] = m

\* The message after m.  The role is written only if the session saw another one.
After(m) ==
    LET i == CHOOSE j \in DOMAIN Messages : Messages[j] = m
    IN  IF m = "commit" THEN "read"
        ELSE IF m = "lora" /\ cache["device"] = "requested" THEN "channel"
        ELSE Messages[i + 1]

Send ==
    /\ IsMessage(at) /\ ~sending
    /\ sending' = TRUE
    /\ UNCHANGED <<at, cache, memory, disk, open>>

\* _send_admin_and_wait: the daemon handles the message and its answer arrives.
Answered ==
    /\ sending
    /\ Handle(at)
    /\ sending' = FALSE /\ at' = After(at)
    /\ UNCHANGED cache

\* The daemon handles the message and its answer is lost, or it never gets it; or
\* it refuses; or the deadline passes in _connect; or the session has read too
\* little to compare.  The call raises.
Raises ==
    /\ \/ sending /\ Handle(at)
       \/ IsMessage(at) /\ UNCHANGED <<memory, disk, open>>
       \/ at \in {"connect", "read", "verify"} /\ UNCHANGED <<memory, disk, open>>
    /\ at' = "raised" /\ sending' = FALSE
    /\ UNCHANGED cache

\* Mutant: what the first session knows is compared.
ReadCached ==
    /\ at = "read"
    /\ cache' = Requested
    /\ at' = "verify"
    /\ UNCHANGED <<memory, disk, open, sending>>

\* A fresh session reads the settings again.
Read ==
    /\ at = "read"
    /\ cache' = memory
    /\ at' = "verify"
    /\ UNCHANGED <<memory, disk, open, sending>>

\* _verify; with reboot_after_apply the daemon is told to reboot.
Verify ==
    /\ at = "verify"
    /\ at' = IF cache = Requested THEN "verified" ELSE "raised"
    /\ UNCHANGED <<cache, memory, disk, open, sending>>

ConfigureNext ==
    \/ BeginCall \/ Reboot
    \/ Connect \/ Send \/ Answered \/ Raises \/ Read \/ Verify

ConfigureSpec == ConfigureInit /\ [][ConfigureNext]_node

-----------------------------------------------------------------------------
\* A node that is reported as verified has all the requested settings and will
\* still have them after any reboot, although the transaction, the session's view
\* and the daemon's memory can each be lost or stale on the way.
VerifiedIsApplied == at = "verified" => memory = Requested /\ disk = Requested
=============================================================================

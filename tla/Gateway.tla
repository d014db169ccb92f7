------------------------------ MODULE Gateway ------------------------------
(***************************************************************************)
(* NodeGateway (backend/app/gateway/node_gateway.py): the owner of a node's *)
(* only connection to its daemon.  start and stop run under the gateway's   *)
(* lock; the daemon reader, the daemon writer and one handler per client    *)
(* run beside them.  An action is the code between two suspensions of its   *)
(* task.  The daemon and the clients are the environment.                   *)
(***************************************************************************)
EXTENDS Naturals, Sequences, FiniteSets, SequencesExt

CONSTANTS
    Clients,      \* public and internal client connections
    Internal,     \* those that use the control listener
    QueueSize,    \* queue_size of the three queues
    NoClient,     \* _client_writer is None
    MaxStarts,    \* bound: calls of start
    MaxDaemons,   \* bound: connections to a daemon
    MaxFrames     \* bound: frames queued in a behaviour

ASSUME GatewayAssumption ==
    /\ Internal \subseteq Clients /\ NoClient \notin Clients
    /\ QueueSize \in Nat \ {0}
    /\ {MaxStarts, MaxDaemons, MaxFrames} \subseteq Nat

VARIABLES
    state,      \* GatewayState
    failed,     \* the event "failed" is set
    enabled,    \* public_clients_enabled
    call,       \* the call that holds the lock: "none", "start", "stop"
    pc,         \* where the call is suspended
    link,       \* the daemon connection: "none", "up", "eof"
    asked,      \* the readiness request was written on this connection
    waiter,     \* the readiness future: "none", "waiting", "done", "error"
    reader, writer,  \* the daemon tasks: "none", "running", "ended"
    listening,  \* the listeners that accept: subset of {"control", "public"}
    session,    \* session[c]: "away", "open", "closing" (its writer is closed
                \* or its tasks are cancelled)
    client,     \* whose writer _client_writer is
    toDaemon,   \* _downstream_writes: the source of each frame
    toClient,   \* _external_writes: the client each frame was queued for
    rfFrames,   \* length of rf_frames
    misdelivered,  \* a frame was written to another client
    starts, daemons, frames  \* what the bounds count

control == <<call, pc>>
daemon == <<link, asked, reader, writer>>
people == <<session, client, toClient, misdelivered>>
bounds == <<starts, daemons, frames>>
vars == <<state, failed, enabled, control, daemon, waiter, listening, people,
          toDaemon, rfFrames, bounds>>

States == {"STOPPED", "CONNECTING", "RUNNING", "FAILED", "STOPPING"}

Init ==
    /\ state = "STOPPED" /\ failed = FALSE /\ enabled = FALSE
    /\ call = "none" /\ pc = "idle"
    /\ link = "none" /\ asked = FALSE /\ waiter = "none"
    /\ reader = "none" /\ writer = "none"
    /\ listening = {}
    /\ session = [c \in Clients |-> "away"] /\ client = NoClient
    /\ toDaemon = <<>> /\ toClient = <<>> /\ rfFrames = 0
    /\ misdelivered = FALSE
    /\ starts = 0 /\ daemons = 0 /\ frames = 0

-----------------------------------------------------------------------------
(* start *)

\* _start_unlocked up to its first suspension.  SimulatorService starts a gateway
\* it has just built or just stopped.
Start ==
    /\ call = "none" /\ state = "STOPPED" /\ starts < MaxStarts
    /\ starts' = starts + 1
    /\ state' = "CONNECTING" /\ failed' = FALSE
    /\ call' = "start" /\ pc' = "connect"
    /\ UNCHANGED <<enabled, daemon, waiter, listening, people, toDaemon, rfFrames,
                   daemons, frames>>

\* _establish_ready_downstream: connected, tasks spawned, readiness requested.
\* Refused connections are retried and change nothing.  A session that a stop has
\* ended is ready to run its finally block, and does so before the connection,
\* which takes a turn of the event loop, is up.
Connected ==
    /\ \A c \in Clients : session[c] # "closing"
    /\ pc = "connect" /\ daemons < MaxDaemons /\ Len(toDaemon) < QueueSize
    /\ daemons' = daemons + 1
    /\ link' = "up" /\ asked' = FALSE
    /\ reader' = "running" /\ writer' = "running"
    /\ waiter' = "waiting"
    /\ toDaemon' = Append(toDaemon, "readiness")
    /\ pc' = "handshake"
    /\ UNCHANGED <<state, failed, enabled, call, listening, people, rfFrames,
                   starts, frames>>

\* The daemon went away during the handshake: the attempt is discarded.
RetryHandshake ==
    /\ pc = "handshake" /\ waiter = "error"
    /\ state' = "CONNECTING" /\ failed' = FALSE
    /\ link' = "none" /\ asked' = FALSE
    /\ reader' = "none" /\ writer' = "none" /\ waiter' = "none"
    /\ toDaemon' = <<>>
    /\ pc' = "connect"
    /\ UNCHANGED <<enabled, call, listening, people, rfFrames, bounds>>

Ready ==
    /\ pc = "handshake" /\ waiter = "done"
    /\ waiter' = "none"
    /\ pc' = "control"
    /\ UNCHANGED <<state, failed, enabled, call, daemon, listening, people, toDaemon,
                   rfFrames, bounds>>

ControlListening ==
    /\ pc = "control"
    /\ listening' = listening \cup {"control"}
    /\ pc' = "public"
    /\ UNCHANGED <<state, failed, enabled, call, daemon, waiter, people, toDaemon,
                   rfFrames, bounds>>

\* Mutant: the failure signal is cleared once the gateway runs.
PublicListeningClears ==
    /\ pc = "public"
    /\ listening' = listening \cup {"public"}
    /\ state' = "RUNNING" /\ failed' = FALSE
    /\ call' = "none" /\ pc' = "idle"
    /\ UNCHANGED <<enabled, daemon, waiter, people, toDaemon, rfFrames, bounds>>

\* The state becomes RUNNING whatever it was.
PublicListening ==
    /\ pc = "public"
    /\ listening' = listening \cup {"public"}
    /\ state' = "RUNNING"
    /\ call' = "none" /\ pc' = "idle"
    /\ UNCHANGED <<failed, enabled, daemon, waiter, people, toDaemon, rfFrames, bounds>>

\* A client whose writer is closed, or whose tasks are cancelled, is leaving.
Leaving(c) ==
    IF c = NoClient THEN session ELSE [session EXCEPT ![c] = "closing"]

\* _close_transports up to its first suspension.
CloseBegins ==
    /\ session' = Leaving(client)
    /\ link' = IF link = "up" THEN "eof" ELSE link
    /\ listening' = {}
    /\ pc' = "closing"

\* Mutant: the startup timeout does not cover the handshake.
StartFailsConnecting ==
    /\ call = "start" /\ pc \in {"connect", "control", "public"}
    /\ state' = "FAILED"
    /\ CloseBegins
    /\ UNCHANGED <<failed, enabled, call, asked, reader, writer, waiter, client, toClient,
                   misdelivered, toDaemon, rfFrames, bounds>>

\* The startup timeout, a listener that cannot be started, or cancellation.
StartFails ==
    /\ call = "start" /\ pc \in {"connect", "handshake", "control", "public"}
    /\ state' = "FAILED"
    /\ CloseBegins
    /\ UNCHANGED <<failed, enabled, call, asked, reader, writer, waiter, client, toClient,
                   misdelivered, toDaemon, rfFrames, bounds>>

-----------------------------------------------------------------------------
(* stop, and the end of a failed start *)

Stop ==
    /\ call = "none" /\ starts > 0
    /\ call' = "stop"
    /\ state' = IF state = "STOPPED" THEN state ELSE "STOPPING"
    /\ CloseBegins
    /\ UNCHANGED <<failed, enabled, asked, reader, writer, waiter, client, toClient,
                   misdelivered, toDaemon, rfFrames, bounds>>

\* Mutant: the client slot is not cleared.
ClosedForgetsClient ==
    /\ pc = "closing"
    /\ link' = "none" /\ asked' = FALSE /\ waiter' = "none"
    /\ pc' = "cancelling"
    /\ UNCHANGED <<state, failed, enabled, call, reader, writer, listening, people, toDaemon,
                   rfFrames, bounds>>

\* The bounded waits of _close_transports are over.
Closed ==
    /\ pc = "closing"
    /\ link' = "none" /\ asked' = FALSE /\ client' = NoClient
    /\ waiter' = "none"
    /\ pc' = "cancelling"
    /\ UNCHANGED <<state, failed, enabled, call, reader, writer, listening, session, toClient,
                   misdelivered, toDaemon, rfFrames, bounds>>

\* _cancel_tasks; a stop then reports STOPPED (a stop of a stopped gateway only
\* closes transports, and has no tasks).
Cancelled ==
    /\ pc = "cancelling"
    /\ reader' = "none" /\ writer' = "none"
    /\ session' = [c \in Clients |-> IF session[c] = "open" THEN "closing" ELSE session[c]]
    /\ state' = IF call = "stop" THEN "STOPPED" ELSE state
    /\ call' = "none" /\ pc' = "idle"
    /\ UNCHANGED <<failed, enabled, link, asked, waiter, listening, client, toClient,
                   misdelivered, toDaemon, rfFrames, bounds>>

-----------------------------------------------------------------------------
(* The daemon tasks *)

\* _fail
Fail ==
    IF state \in {"STOPPING", "STOPPED", "FAILED"} THEN UNCHANGED <<state, failed, waiter, session>>
    ELSE /\ state' = "FAILED" /\ failed' = TRUE
         /\ waiter' = IF waiter = "waiting" THEN "error" ELSE waiter
         /\ session' = Leaving(client)

\* The daemon exits or reboots.
DaemonGone ==
    /\ link = "up"
    /\ link' = "eof"
    /\ UNCHANGED <<state, failed, enabled, control, asked, reader, writer, waiter, listening,
                   people, toDaemon, rfFrames, bounds>>

\* _downstream_reader_loop at the end of the stream.
ReaderSeesEOF ==
    /\ reader = "running" /\ link = "eof"
    /\ reader' = "ended"
    /\ Fail
    /\ UNCHANGED <<enabled, control, link, asked, writer, listening, client, toClient,
                   misdelivered, toDaemon, rfFrames, bounds>>

\* _downstream_writer_loop: a frame is written, or the write fails.
WriterStep ==
    /\ writer = "running" /\ toDaemon # <<>>
    /\ toDaemon' = Tail(toDaemon)
    /\ \/ /\ link = "up"
          /\ asked' = (asked \/ Head(toDaemon) = "readiness")
          /\ UNCHANGED <<state, failed, waiter, session, writer>>
       \/ /\ link = "eof"
          /\ Fail
          /\ writer' = "ended"
          /\ UNCHANGED asked
    /\ UNCHANGED <<enabled, control, link, reader, listening, client, toClient, misdelivered,
                   rfFrames, bounds>>

\* _handle_downstream_frame: an RF frame goes to the controller or is dropped; the
\* answer to the readiness request resolves the future; every other frame goes to
\* the client, if there is one and there is room.
DaemonFrame ==
    /\ reader = "running" /\ link = "up" /\ frames < MaxFrames
    /\ frames' = frames + 1
    /\ \/ /\ rfFrames' = IF rfFrames < QueueSize THEN rfFrames + 1 ELSE rfFrames
          /\ UNCHANGED <<waiter, toClient>>
       \/ /\ waiter' = IF asked /\ waiter = "waiting" THEN "done" ELSE waiter
          /\ toClient' = IF client # NoClient /\ Len(toClient) < QueueSize
                         THEN Append(toClient, client) ELSE toClient
          /\ UNCHANGED rfFrames
    /\ UNCHANGED <<state, failed, enabled, control, daemon, listening, session, client,
                   misdelivered, toDaemon, starts, daemons>>

\* The medium takes a frame.
RFTaken ==
    /\ rfFrames > 0
    /\ rfFrames' = rfFrames - 1
    /\ UNCHANGED <<state, failed, enabled, control, daemon, waiter, listening, people,
                   toDaemon, bounds>>

\* send_to_radio: refused unless RUNNING and with room in the queue.
SendToRadio ==
    /\ state = "RUNNING" /\ Len(toDaemon) < QueueSize /\ frames < MaxFrames
    /\ frames' = frames + 1
    /\ toDaemon' = Append(toDaemon, "controller")
    /\ UNCHANGED <<state, failed, enabled, control, daemon, waiter, listening, people,
                   rfFrames, starts, daemons>>

\* enable_public_clients
EnablePublic ==
    /\ ~enabled /\ state \notin {"STOPPED", "STOPPING"}
    /\ enabled' = TRUE
    /\ UNCHANGED <<state, failed, control, daemon, waiter, listening, people, toDaemon,
                   rfFrames, bounds>>

-----------------------------------------------------------------------------
(* Clients *)

Door(c) == IF c \in Internal THEN "control" ELSE "public"

\* Mutant: a second client takes the slot over.
AdmitSecond(c) ==
    /\ session[c] = "away" /\ Door(c) \in listening
    /\ (c \notin Internal => enabled)
    /\ session' = [session EXCEPT ![c] = "open"]
    /\ client' = c
    /\ UNCHANGED <<state, failed, enabled, control, daemon, waiter, listening, toClient,
                   misdelivered, toDaemon, rfFrames, bounds>>

\* _handle_client: the client gets the slot.  A public client before admission is
\* enabled, and any client while the slot is taken, is closed and changes nothing.
Admit(c) ==
    /\ session[c] = "away" /\ Door(c) \in listening
    /\ (c \notin Internal => enabled) /\ client = NoClient
    /\ session' = [session EXCEPT ![c] = "open"]
    /\ client' = c
    /\ UNCHANGED <<state, failed, enabled, control, daemon, waiter, listening, toClient,
                   misdelivered, toDaemon, rfFrames, bounds>>

\* _external_reader_loop
ClientSends(c) ==
    /\ session[c] = "open" /\ Len(toDaemon) < QueueSize /\ frames < MaxFrames
    /\ frames' = frames + 1
    /\ toDaemon' = Append(toDaemon, "external")
    /\ UNCHANGED <<state, failed, enabled, control, daemon, waiter, listening, people,
                   rfFrames, starts, daemons>>

\* _external_writer_loop
ClientGets(c) ==
    /\ session[c] = "open" /\ toClient # <<>>
    /\ misdelivered' = (misdelivered \/ Head(toClient) # c)
    /\ toClient' = Tail(toClient)
    /\ UNCHANGED <<state, failed, enabled, control, daemon, waiter, listening, session, client,
                   toDaemon, rfFrames, bounds>>

ClientLeaves(c) ==
    /\ session[c] = "open"
    /\ session' = [session EXCEPT ![c] = "closing"]
    /\ UNCHANGED <<state, failed, enabled, control, daemon, waiter, listening, client, toClient,
                   misdelivered, toDaemon, rfFrames, bounds>>

\* The finally block of _handle_client.
SessionEnds(c) ==
    /\ session[c] = "closing"
    /\ session' = [session EXCEPT ![c] = "away"]
    /\ client' = IF client = c THEN NoClient ELSE client
    /\ toClient' = <<>>
    /\ UNCHANGED <<state, failed, enabled, control, daemon, waiter, listening,
                   misdelivered, toDaemon, rfFrames, bounds>>

-----------------------------------------------------------------------------
CallStep ==
    \/ Connected \/ RetryHandshake \/ Ready \/ ControlListening \/ PublicListening
    \/ StartFails \/ Closed \/ Cancelled

Next ==
    \/ Start \/ Stop \/ CallStep
    \/ DaemonGone \/ ReaderSeesEOF \/ WriterStep \/ DaemonFrame
    \/ RFTaken \/ SendToRadio \/ EnablePublic
    \/ \E c \in Clients :
          Admit(c) \/ ClientSends(c) \/ ClientGets(c) \/ ClientLeaves(c) \/ SessionEnds(c)

Spec == Init /\ [][Next]_vars

\* A call runs on (every wait of start and stop has a deadline), and so do the
\* daemon tasks and the end of a session.
FairSpec ==
    /\ Spec
    /\ WF_vars(CallStep) /\ WF_vars(ReaderSeesEOF) /\ WF_vars(WriterStep)
    /\ \A c \in Clients : WF_vars(SessionEnds(c))

-----------------------------------------------------------------------------
(* Properties *)

\* Every variable holds a value of its kind; the gateway's queues keep their limits.
TypeOK ==
    /\ state \in States
    /\ failed \in BOOLEAN /\ enabled \in BOOLEAN /\ asked \in BOOLEAN /\ misdelivered \in BOOLEAN
    /\ call \in {"none", "start", "stop"}
    /\ pc \in {"idle", "connect", "handshake", "control", "public", "closing", "cancelling"}
    /\ link \in {"none", "up", "eof"} /\ waiter \in {"none", "waiting", "done", "error"}
    /\ reader \in {"none", "running", "ended"} /\ writer \in {"none", "running", "ended"}
    /\ listening \subseteq {"control", "public"}
    /\ session \in [Clients -> {"away", "open", "closing"}]
    /\ client \in Clients \cup {NoClient}
    /\ Len(toDaemon) <= QueueSize /\ Len(toClient) <= QueueSize /\ rfFrames <= QueueSize

\* One client at a time has a live session, and it holds the slot: neither a
\* second connection nor a stop or failure in the middle of a session leaves
\* two writers on one daemon stream.  A client is only sent frames that were
\* queued for it: one that takes the slot after another gets none of the
\* other's frames.
OneClient ==
    /\ Cardinality({c \in Clients : session[c] = "open"}) <= 1
    /\ (call = "none") => \A c \in Clients : session[c] = "open" => client = c
    /\ ~misdelivered

\* A stopped gateway holds nothing: no connection, listener, task or client,
\* however start, stop, failure, cancellation and clients interleaved.
StoppedIsReleased ==
    (state = "STOPPED" /\ call = "none") =>
        /\ link = "none" /\ listening = {} /\ waiter = "none"
        /\ reader = "none" /\ writer = "none" /\ client = NoClient
        /\ \A c \in Clients : session[c] # "open"

\* The gateway as SimulatorService and the settings transaction see it: what it
\* says of the call in progress, the daemon, the reader and the event "failed".
LinkPhase ==
    IF pc \in {"closing", "cancelling"} THEN "closing"
    ELSE IF call = "start" THEN "opening"
    ELSE IF reader = "none" THEN "closed"
    ELSE "open"

Link == INSTANCE NodeLink WITH
    phase <- LinkPhase, attached <- (link = "up"), watched <- (reader = "running"),
    alarm <- failed

\* The gateway implements the abstract link: the event "failed" is set only for
\* a daemon that is gone, the reader of a running gateway never ends without
\* setting it, and reaching RUNNING does not clear it (_fail,
\* _downstream_reader_loop, _establish_ready_downstream).
ImplementsLink == Link!Spec

\* Nothing hangs: every start and every stop returns, although the daemon may
\* never answer, and a running gateway that has lost its daemon says so.
GatewayProgress ==
    /\ (call # "none") ~> (call = "none")
    /\ Link!LossIsNoticed
=============================================================================

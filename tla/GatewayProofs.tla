---------------------------- MODULE GatewayProofs ----------------------------
(***************************************************************************)
(* Theorems about Gateway, for any clients, any queue size and any bounds:  *)
(* who can have a session, what a stop releases, and that the gateway       *)
(* implements NodeLink.  The inductive invariant ties the place of start    *)
(* and stop to the gateway's state, to its tasks and to its listeners, and  *)
(* the frames queued for a client to the client that holds the slot.        *)
(*                                                                          *)
(* And about Framing, the parser of the daemon's bytes: however they are    *)
(* cut into reads, it returns what one pass over all of them returns.       *)
(***************************************************************************)
EXTENDS Gateway, Framing, FiniteSetTheorems, SequenceTheorems,
        WellFoundedInduction, TLAPS

StartPcs == {"connect", "handshake", "control", "public"}
ClosingPcs == {"closing", "cancelling"}
Sources == {"readiness", "controller", "external"}

\* The queues are sequences, and the counters numbers.
Queues ==
    /\ toDaemon \in Seq(Sources) /\ toClient \in Seq(Clients)
    /\ rfFrames \in Nat
    /\ starts \in Nat /\ daemons \in Nat /\ frames \in Nat

\* What the state can be at each place of a call.
Places ==
    /\ pc = "idle" <=> call = "none"
    /\ pc \in StartPcs => call = "start" /\ state \in {"CONNECTING", "FAILED"}
    /\ pc = "connect" => state = "CONNECTING"
    /\ pc \in ClosingPcs /\ call = "start" => state = "FAILED"
    /\ pc \in ClosingPcs /\ call = "stop" => state \in {"STOPPING", "STOPPED"}
    /\ pc = "idle" => state \in {"STOPPED", "RUNNING", "FAILED"}

\* The daemon connection and its two tasks.
Attachment ==
    /\ reader = "none" <=> writer = "none"
    /\ pc = "connect" => link = "none" /\ reader = "none"
    /\ pc \in StartPcs \ {"connect"} => reader # "none"
    /\ pc \in ClosingPcs => link # "up"
    /\ pc = "cancelling" => link = "none"
    /\ pc = "idle" /\ reader = "none" => link = "none"
    /\ pc = "idle" /\ state = "STOPPED" => reader = "none"
    /\ state = "RUNNING" => reader # "none"
    /\ waiter # "none" => pc \in {"handshake", "closing"}

\* Outside a shutdown, who fails has met a daemon that is gone, and said so.
Signalled ==
    /\ pc \notin ClosingPcs /\ reader # "none" /\ (reader = "ended" \/ state = "FAILED") =>
         failed /\ link # "up"
    /\ pc = "handshake" /\ waiter = "error" => failed /\ link # "up"

\* The listeners accept only on a link that is ready.
Doors ==
    /\ pc \in {"connect", "handshake", "control"} \cup ClosingPcs => listening = {}
    /\ reader = "none" => listening = {}
    /\ pc = "public" => "control" \in listening

\* A client with a session holds the slot; one that is leaving has left it only
\* if nobody can take it before it is gone.
SessionOf(c) ==
    /\ session[c] = "open" => client = c /\ pc \notin ClosingPcs
    /\ session[c] = "closing" => client = c \/ listening = {}
    /\ pc \in {"handshake", "control"} => session[c] = "away"
    /\ client = c => pc \notin {"connect", "handshake", "control", "cancelling"}
    /\ client = c => session[c] # "away" /\ (reader = "none" => pc = "closing")
    /\ reader = "none" => session[c] # "open"

\* Frames wait for the client that holds the slot, or for one that is leaving.
Waiting ==
    /\ \A i \in 1 .. Len(toClient) : client # NoClient => toClient[i] = client
    /\ client = NoClient /\ toClient # <<>> => \E c \in Clients : session[c] = "closing"
    /\ ~misdelivered

Sessions == \A c \in Clients : SessionOf(c)

IInv ==
    /\ TypeOK
    /\ Queues
    /\ Places
    /\ Attachment
    /\ Signalled
    /\ Doors
    /\ Sessions
    /\ Waiting

-----------------------------------------------------------------------------
(* Proofs.  One lemma per action, one step per group of parts of IInv.       *)

USE GatewayAssumption
USE DEF control, daemon, people, bounds, States, StartPcs, ClosingPcs, Sources,
        Queues, Places, Attachment, Signalled, Doors, Leaving, Fail, CloseBegins

\* The begin of start preserves the inductive invariant.
LEMMA StartInv ==
    ASSUME IInv, Start
    PROVE  IInv'
<1>1. TypeOK'
  BY DEF IInv, TypeOK, Start
<1>2. Queues'
  BY DEF IInv, TypeOK, Start
<1>3. (Places /\ Attachment /\ Signalled /\ Doors)'
  BY DEF IInv, TypeOK, Sessions, SessionOf, Start
<1>4. ASSUME NEW c \in Clients PROVE SessionOf(c)'
  BY DEF IInv, TypeOK, Sessions, SessionOf, Start
<1>5. Waiting'
  BY DEF IInv, TypeOK, Sessions, SessionOf, Waiting, Start
<1> QED BY <1>1, <1>2, <1>3, <1>4, <1>5 DEF IInv, Sessions

\* A new daemon connection preserves it.
LEMMA ConnectedInv ==
    ASSUME IInv, Connected
    PROVE  IInv'
<1>1. Len(toDaemon') = Len(toDaemon) + 1 /\ toDaemon' \in Seq(Sources)
  BY DEF IInv, Connected
<1>2. (failed \in BOOLEAN /\ enabled \in BOOLEAN /\ asked \in BOOLEAN
       /\ misdelivered \in BOOLEAN)'
  BY DEF IInv, TypeOK, Connected
<1>3. (Len(toDaemon) <= QueueSize /\ Len(toClient) <= QueueSize /\ rfFrames <= QueueSize)'
  BY <1>1 DEF IInv, TypeOK, Connected
<1>4. TypeOK'
  BY <1>2, <1>3 DEF IInv, TypeOK, Connected
<1>5. Queues'
  BY DEF IInv, TypeOK, Connected
<1>6. (Places /\ Attachment /\ Signalled /\ Doors)'
  BY DEF IInv, TypeOK, Sessions, SessionOf, Connected
<1>7. ASSUME NEW c \in Clients PROVE SessionOf(c)'
  BY DEF IInv, TypeOK, Sessions, SessionOf, Connected
<1>8. Waiting'
  BY DEF IInv, TypeOK, Sessions, SessionOf, Waiting, Connected
<1> QED BY <1>4, <1>5, <1>6, <1>7, <1>8 DEF IInv, Sessions

\* A discarded handshake preserves it.
LEMMA RetryHandshakeInv ==
    ASSUME IInv, RetryHandshake
    PROVE  IInv'
<1>1. Len(toDaemon') = 0
  BY DEF RetryHandshake
<1>2. (failed \in BOOLEAN /\ enabled \in BOOLEAN /\ asked \in BOOLEAN
       /\ misdelivered \in BOOLEAN)'
  BY DEF IInv, TypeOK, RetryHandshake
<1>3. (Len(toDaemon) <= QueueSize /\ Len(toClient) <= QueueSize /\ rfFrames <= QueueSize)'
  BY <1>1 DEF IInv, TypeOK, RetryHandshake
<1>4. TypeOK'
  BY <1>2, <1>3 DEF IInv, TypeOK, RetryHandshake
<1>5. Queues'
  BY DEF IInv, TypeOK, RetryHandshake
<1>6. (Places /\ Attachment /\ Signalled /\ Doors)'
  BY DEF IInv, TypeOK, Sessions, SessionOf, RetryHandshake
<1>7. ASSUME NEW c \in Clients PROVE SessionOf(c)'
  BY DEF IInv, TypeOK, Sessions, SessionOf, RetryHandshake
<1>8. Waiting'
  BY DEF IInv, TypeOK, Sessions, SessionOf, Waiting, RetryHandshake
<1> QED BY <1>4, <1>5, <1>6, <1>7, <1>8 DEF IInv, Sessions

\* An answered handshake preserves it.
LEMMA ReadyInv ==
    ASSUME IInv, Ready
    PROVE  IInv'
<1>1. TypeOK'
  BY DEF IInv, TypeOK, Ready
<1>2. Queues'
  BY DEF IInv, TypeOK, Ready
<1>3. (Places /\ Attachment /\ Signalled /\ Doors)'
  BY DEF IInv, TypeOK, Sessions, SessionOf, Ready
<1>4. ASSUME NEW c \in Clients PROVE SessionOf(c)'
  BY DEF IInv, TypeOK, Sessions, SessionOf, Ready
<1>5. Waiting'
  BY DEF IInv, TypeOK, Sessions, SessionOf, Waiting, Ready
<1> QED BY <1>1, <1>2, <1>3, <1>4, <1>5 DEF IInv, Sessions

\* Opening the control listener preserves it.
LEMMA ControlListeningInv ==
    ASSUME IInv, ControlListening
    PROVE  IInv'
<1>1. TypeOK'
  BY DEF IInv, TypeOK, ControlListening
<1>2. Queues'
  BY DEF IInv, TypeOK, ControlListening
<1>3. (Places /\ Attachment /\ Signalled /\ Doors)'
  BY DEF IInv, TypeOK, Sessions, SessionOf, ControlListening
<1>4. ASSUME NEW c \in Clients PROVE SessionOf(c)'
  BY DEF IInv, TypeOK, Sessions, SessionOf, ControlListening
<1>5. Waiting'
  BY DEF IInv, TypeOK, Sessions, SessionOf, Waiting, ControlListening
<1> QED BY <1>1, <1>2, <1>3, <1>4, <1>5 DEF IInv, Sessions

\* Reaching RUNNING preserves it.
LEMMA PublicListeningInv ==
    ASSUME IInv, PublicListening
    PROVE  IInv'
<1>1. TypeOK'
  BY DEF IInv, TypeOK, PublicListening
<1>2. Queues'
  BY DEF IInv, TypeOK, PublicListening
<1>3. (Places /\ Attachment /\ Signalled /\ Doors)'
  BY DEF IInv, TypeOK, Sessions, SessionOf, PublicListening
<1>4. ASSUME NEW c \in Clients PROVE SessionOf(c)'
  BY DEF IInv, TypeOK, Sessions, SessionOf, PublicListening
<1>5. Waiting'
  BY DEF IInv, TypeOK, Sessions, SessionOf, Waiting, PublicListening
<1> QED BY <1>1, <1>2, <1>3, <1>4, <1>5 DEF IInv, Sessions

\* A failing start preserves it.
LEMMA StartFailsInv ==
    ASSUME IInv, StartFails
    PROVE  IInv'
<1>1. TypeOK'
  BY DEF IInv, TypeOK, StartFails
<1>2. Queues'
  BY DEF IInv, TypeOK, StartFails
<1>3. (Places /\ Attachment /\ Signalled /\ Doors)'
  BY DEF IInv, TypeOK, Sessions, SessionOf, StartFails
<1>4. ASSUME NEW c \in Clients PROVE SessionOf(c)'
  BY DEF IInv, TypeOK, Sessions, SessionOf, StartFails
<1>5. Waiting'
  BY DEF IInv, TypeOK, Sessions, SessionOf, Waiting, StartFails
<1> QED BY <1>1, <1>2, <1>3, <1>4, <1>5 DEF IInv, Sessions

\* The begin of stop preserves it.
LEMMA StopInv ==
    ASSUME IInv, Stop
    PROVE  IInv'
<1>1. TypeOK'
  BY DEF IInv, TypeOK, Stop
<1>2. Queues'
  BY DEF IInv, TypeOK, Stop
<1>3. (Places /\ Attachment /\ Signalled /\ Doors)'
  BY DEF IInv, TypeOK, Sessions, SessionOf, Stop
<1>4. ASSUME NEW c \in Clients PROVE SessionOf(c)'
  BY DEF IInv, TypeOK, Sessions, SessionOf, Stop
<1>5. Waiting'
  BY DEF IInv, TypeOK, Sessions, SessionOf, Waiting, Stop
<1> QED BY <1>1, <1>2, <1>3, <1>4, <1>5 DEF IInv, Sessions

\* The end of _close_transports preserves it.
LEMMA ClosedInv ==
    ASSUME IInv, Closed
    PROVE  IInv'
<1>1. TypeOK'
  BY DEF IInv, TypeOK, Closed
<1>2. Queues'
  BY DEF IInv, TypeOK, Closed
<1>3. (Places /\ Attachment /\ Signalled /\ Doors)'
  BY DEF IInv, TypeOK, Sessions, SessionOf, Closed
<1>4. ASSUME NEW c \in Clients PROVE SessionOf(c)'
  BY DEF IInv, TypeOK, Sessions, SessionOf, Closed
<1>5. Waiting'
  BY DEF IInv, TypeOK, Sessions, SessionOf, Waiting, Closed
<1> QED BY <1>1, <1>2, <1>3, <1>4, <1>5 DEF IInv, Sessions

\* The end of _cancel_tasks preserves it.
LEMMA CancelledInv ==
    ASSUME IInv, Cancelled
    PROVE  IInv'
<1>1. TypeOK'
  BY DEF IInv, TypeOK, Cancelled
<1>2. Queues'
  BY DEF IInv, TypeOK, Cancelled
<1>3. (Places /\ Attachment /\ Signalled /\ Doors)'
  BY DEF IInv, TypeOK, Sessions, SessionOf, Cancelled
<1>4. ASSUME NEW c \in Clients PROVE SessionOf(c)'
  BY DEF IInv, TypeOK, Sessions, SessionOf, Cancelled
<1>5. Waiting'
  BY DEF IInv, TypeOK, Sessions, SessionOf, Waiting, Cancelled
<1> QED BY <1>1, <1>2, <1>3, <1>4, <1>5 DEF IInv, Sessions

\* The loss of the daemon preserves it.
LEMMA DaemonGoneInv ==
    ASSUME IInv, DaemonGone
    PROVE  IInv'
<1>1. TypeOK'
  BY DEF IInv, TypeOK, DaemonGone
<1>2. Queues'
  BY DEF IInv, TypeOK, DaemonGone
<1>3. (Places /\ Attachment /\ Signalled /\ Doors)'
  BY DEF IInv, TypeOK, Sessions, SessionOf, DaemonGone
<1>4. ASSUME NEW c \in Clients PROVE SessionOf(c)'
  BY DEF IInv, TypeOK, Sessions, SessionOf, DaemonGone
<1>5. Waiting'
  BY DEF IInv, TypeOK, Sessions, SessionOf, Waiting, DaemonGone
<1> QED BY <1>1, <1>2, <1>3, <1>4, <1>5 DEF IInv, Sessions

\* The end of the reader preserves it.
LEMMA ReaderSeesEOFInv ==
    ASSUME IInv, ReaderSeesEOF
    PROVE  IInv'
<1>1. (failed \in BOOLEAN /\ enabled \in BOOLEAN /\ asked \in BOOLEAN
       /\ misdelivered \in BOOLEAN)'
  BY DEF IInv, TypeOK, ReaderSeesEOF
<1>2. (Len(toDaemon) <= QueueSize /\ Len(toClient) <= QueueSize /\ rfFrames <= QueueSize)'
  BY DEF IInv, TypeOK, ReaderSeesEOF
<1>3. TypeOK'
  BY <1>1, <1>2 DEF IInv, TypeOK, ReaderSeesEOF
<1>4. Queues'
  BY DEF IInv, TypeOK, ReaderSeesEOF
<1>5. (Places /\ Attachment /\ Signalled /\ Doors)'
  BY DEF IInv, TypeOK, Sessions, SessionOf, ReaderSeesEOF
<1>6. ASSUME NEW c \in Clients PROVE SessionOf(c)'
  BY DEF IInv, TypeOK, Sessions, SessionOf, ReaderSeesEOF
<1>7. Waiting'
  BY DEF IInv, TypeOK, Sessions, SessionOf, Waiting, ReaderSeesEOF
<1> QED BY <1>3, <1>4, <1>5, <1>6, <1>7 DEF IInv, Sessions

\* A write to the daemon, or its failure, preserves it.
LEMMA WriterStepInv ==
    ASSUME IInv, WriterStep
    PROVE  IInv'
<1>1. Len(toDaemon') <= Len(toDaemon) /\ Len(toDaemon') \in Nat /\ Len(toDaemon) \in Nat
  BY DEF IInv, WriterStep
<1>2. (failed \in BOOLEAN /\ enabled \in BOOLEAN /\ asked \in BOOLEAN
       /\ misdelivered \in BOOLEAN)'
  BY DEF IInv, TypeOK, WriterStep
<1>3. (Len(toDaemon) <= QueueSize /\ Len(toClient) <= QueueSize /\ rfFrames <= QueueSize)'
  BY <1>1 DEF IInv, TypeOK, WriterStep
<1>4. TypeOK'
  BY <1>2, <1>3 DEF IInv, TypeOK, WriterStep
<1>5. Queues'
  BY DEF IInv, TypeOK, WriterStep
<1>6. (Places /\ Attachment /\ Signalled /\ Doors)'
  BY DEF IInv, TypeOK, Sessions, SessionOf, WriterStep
<1>7. ASSUME NEW c \in Clients PROVE SessionOf(c)'
  BY DEF IInv, TypeOK, Sessions, SessionOf, WriterStep
<1>8. Waiting'
  BY DEF IInv, TypeOK, Sessions, SessionOf, Waiting, WriterStep
<1> QED BY <1>4, <1>5, <1>6, <1>7, <1>8 DEF IInv, Sessions

\* A frame of the daemon preserves it.
LEMMA DaemonFrameInv ==
    ASSUME IInv, DaemonFrame
    PROVE  IInv'
<1>1. \/ toClient' = toClient
      \/ client \in Clients /\ toClient' = Append(toClient, client)
  BY DEF IInv, TypeOK, DaemonFrame
<1>2. toClient' \in Seq(Clients)
  BY <1>1, SMTT(20) DEF IInv
<1>3. TypeOK'
  BY DEF IInv, TypeOK, DaemonFrame
<1>4. Queues'
  BY <1>2 DEF IInv, TypeOK, DaemonFrame
<1>5. (Places /\ Attachment /\ Signalled /\ Doors)'
  BY DEF IInv, TypeOK, Sessions, SessionOf, DaemonFrame
<1>6. ASSUME NEW c \in Clients PROVE SessionOf(c)'
  BY DEF IInv, TypeOK, Sessions, SessionOf, DaemonFrame
<1>7. Waiting'
  <2>1. CASE toClient' = toClient
    BY <2>1 DEF IInv, Waiting, DaemonFrame
  <2>2. CASE client \in Clients /\ toClient' = Append(toClient, client)
    <3>1. \A i \in 1 .. Len(toClient') : toClient'[i] = client
      BY <2>2 DEF IInv, Waiting
    <3> QED BY <2>2, <3>1 DEF IInv, Waiting, DaemonFrame
  <2> QED BY <1>1, <2>1, <2>2
<1> QED BY <1>3, <1>4, <1>5, <1>6, <1>7 DEF IInv, Sessions

\* A frame taken by the medium preserves it.
LEMMA RFTakenInv ==
    ASSUME IInv, RFTaken
    PROVE  IInv'
<1>1. TypeOK'
  BY DEF IInv, TypeOK, RFTaken
<1>2. Queues'
  BY DEF IInv, TypeOK, RFTaken
<1>3. (Places /\ Attachment /\ Signalled /\ Doors)'
  BY DEF IInv, TypeOK, Sessions, SessionOf, RFTaken
<1>4. ASSUME NEW c \in Clients PROVE SessionOf(c)'
  BY DEF IInv, TypeOK, Sessions, SessionOf, RFTaken
<1>5. Waiting'
  BY DEF IInv, TypeOK, Sessions, SessionOf, Waiting, RFTaken
<1> QED BY <1>1, <1>2, <1>3, <1>4, <1>5 DEF IInv, Sessions

\* A frame of the controller preserves it.
LEMMA SendToRadioInv ==
    ASSUME IInv, SendToRadio
    PROVE  IInv'
<1>1. TypeOK'
  BY DEF IInv, TypeOK, SendToRadio
<1>2. Queues'
  BY DEF IInv, TypeOK, SendToRadio
<1>3. (Places /\ Attachment /\ Signalled /\ Doors)'
  BY DEF IInv, TypeOK, Sessions, SessionOf, SendToRadio
<1>4. ASSUME NEW c \in Clients PROVE SessionOf(c)'
  BY DEF IInv, TypeOK, Sessions, SessionOf, SendToRadio
<1>5. Waiting'
  BY DEF IInv, TypeOK, Sessions, SessionOf, Waiting, SendToRadio
<1> QED BY <1>1, <1>2, <1>3, <1>4, <1>5 DEF IInv, Sessions

\* Admitting public clients preserves it.
LEMMA EnablePublicInv ==
    ASSUME IInv, EnablePublic
    PROVE  IInv'
<1>1. TypeOK'
  BY DEF IInv, TypeOK, EnablePublic
<1>2. Queues'
  BY DEF IInv, TypeOK, EnablePublic
<1>3. (Places /\ Attachment /\ Signalled /\ Doors)'
  BY DEF IInv, TypeOK, Sessions, SessionOf, EnablePublic
<1>4. ASSUME NEW c \in Clients PROVE SessionOf(c)'
  BY DEF IInv, TypeOK, Sessions, SessionOf, EnablePublic
<1>5. Waiting'
  BY DEF IInv, TypeOK, Sessions, SessionOf, Waiting, EnablePublic
<1> QED BY <1>1, <1>2, <1>3, <1>4, <1>5 DEF IInv, Sessions

\* A client that gets the slot preserves it: no frame waits for another.
LEMMA AdmitInv ==
    ASSUME IInv, NEW c \in Clients, Admit(c)
    PROVE  IInv'
<1>1. TypeOK'
  BY DEF IInv, TypeOK, Admit, Door
<1>2. Queues'
  BY DEF IInv, TypeOK, Admit, Door
<1>3. (Places /\ Attachment /\ Signalled /\ Doors)'
  BY DEF IInv, TypeOK, Sessions, SessionOf, Admit, Door
<1>4. ASSUME NEW d \in Clients PROVE SessionOf(d)'
  BY DEF IInv, TypeOK, Sessions, SessionOf, Admit, Door
<1>5. Waiting'
  BY DEF IInv, TypeOK, Sessions, SessionOf, Waiting, Admit, Door
<1> QED BY <1>1, <1>2, <1>3, <1>4, <1>5 DEF IInv, Sessions

\* A frame of the client preserves it.
LEMMA ClientSendsInv ==
    ASSUME IInv, NEW c \in Clients, ClientSends(c)
    PROVE  IInv'
<1>1. TypeOK'
  BY DEF IInv, TypeOK, ClientSends
<1>2. Queues'
  BY DEF IInv, TypeOK, ClientSends
<1>3. (Places /\ Attachment /\ Signalled /\ Doors)'
  BY DEF IInv, TypeOK, Sessions, SessionOf, ClientSends
<1>4. ASSUME NEW d \in Clients PROVE SessionOf(d)'
  BY DEF IInv, TypeOK, Sessions, SessionOf, ClientSends
<1>5. Waiting'
  BY DEF IInv, TypeOK, Sessions, SessionOf, Waiting, ClientSends
<1> QED BY <1>1, <1>2, <1>3, <1>4, <1>5 DEF IInv, Sessions

\* A frame written to a client preserves it: it was queued for that client.
LEMMA ClientGetsInv ==
    ASSUME IInv, NEW c \in Clients, ClientGets(c)
    PROVE  IInv'
<1>1. TypeOK'
  BY DEF IInv, TypeOK, ClientGets
<1>2. Queues'
  BY DEF IInv, TypeOK, ClientGets
<1>3. (Places /\ Attachment /\ Signalled /\ Doors)'
  BY DEF IInv, TypeOK, Sessions, SessionOf, ClientGets
<1>4. ASSUME NEW d \in Clients PROVE SessionOf(d)'
  BY DEF IInv, TypeOK, Sessions, SessionOf, ClientGets
<1>5. Waiting'
  BY DEF IInv, TypeOK, Sessions, SessionOf, Waiting, ClientGets
<1> QED BY <1>1, <1>2, <1>3, <1>4, <1>5 DEF IInv, Sessions

\* A client that leaves preserves it.
LEMMA ClientLeavesInv ==
    ASSUME IInv, NEW c \in Clients, ClientLeaves(c)
    PROVE  IInv'
<1>1. TypeOK'
  BY DEF IInv, TypeOK, ClientLeaves
<1>2. Queues'
  BY DEF IInv, TypeOK, ClientLeaves
<1>3. (Places /\ Attachment /\ Signalled /\ Doors)'
  BY DEF IInv, TypeOK, Sessions, SessionOf, ClientLeaves
<1>4. ASSUME NEW d \in Clients PROVE SessionOf(d)'
  BY DEF IInv, TypeOK, Sessions, SessionOf, ClientLeaves
<1>5. Waiting'
  BY DEF IInv, TypeOK, Sessions, SessionOf, Waiting, ClientLeaves
<1> QED BY <1>1, <1>2, <1>3, <1>4, <1>5 DEF IInv, Sessions

\* The end of a session preserves it.
LEMMA SessionEndsInv ==
    ASSUME IInv, NEW c \in Clients, SessionEnds(c)
    PROVE  IInv'
<1>1. TypeOK'
  BY DEF IInv, TypeOK, SessionEnds
<1>2. Queues'
  BY DEF IInv, TypeOK, SessionEnds
<1>3. (Places /\ Attachment /\ Signalled /\ Doors)'
  BY DEF IInv, TypeOK, Sessions, SessionOf, SessionEnds
<1>4. ASSUME NEW d \in Clients PROVE SessionOf(d)'
  BY DEF IInv, TypeOK, Sessions, SessionOf, SessionEnds
<1>5. Waiting'
  BY DEF IInv, TypeOK, Sessions, SessionOf, Waiting, SessionEnds
<1> QED BY <1>1, <1>2, <1>3, <1>4, <1>5 DEF IInv, Sessions

\* The inductive invariant holds in every reachable state of the gateway.
THEOREM GatewayInvariant == Spec => []IInv
<1>1. Init => IInv
  <2> SUFFICES ASSUME Init PROVE IInv
    OBVIOUS
  <2>1. TypeOK
    <3>1. Len(toDaemon) = 0 /\ Len(toClient) = 0 /\ rfFrames = 0
      BY DEF Init
    <3>2. session \in [Clients -> {"away", "open", "closing"}]
      BY DEF Init
    <3>3. failed \in BOOLEAN /\ enabled \in BOOLEAN /\ asked \in BOOLEAN
          /\ misdelivered \in BOOLEAN
      BY DEF Init
    <3>4. Len(toDaemon) <= QueueSize /\ Len(toClient) <= QueueSize /\ rfFrames <= QueueSize
      BY <3>1
    <3> QED BY <3>2, <3>3, <3>4 DEF Init, TypeOK
  <2>2. Queues
    BY DEF Init
  <2>3. Places /\ Attachment /\ Signalled /\ Doors
    BY DEF Init
  <2>4. Sessions /\ Waiting
    BY DEF Init, Sessions, SessionOf, Waiting
  <2> QED BY <2>1, <2>2, <2>3, <2>4 DEF IInv
<1>2. IInv /\ [Next]_vars => IInv'
  <2> SUFFICES ASSUME IInv, [Next]_vars PROVE IInv'
    OBVIOUS
  <2>1. CASE UNCHANGED vars
    BY <2>1 DEF vars, IInv, TypeOK, Sessions, SessionOf, Waiting
  <2>2. CASE Next
    BY <2>2, StartInv, ConnectedInv, RetryHandshakeInv, ReadyInv, ControlListeningInv,
       PublicListeningInv, StartFailsInv, StopInv, ClosedInv, CancelledInv, DaemonGoneInv,
       ReaderSeesEOFInv, WriterStepInv, DaemonFrameInv, RFTakenInv, SendToRadioInv,
       EnablePublicInv, AdmitInv, ClientSendsInv, ClientGetsInv, ClientLeavesInv,
       SessionEndsInv DEF Next, CallStep
  <2> QED BY <2>1, <2>2
<1> QED BY <1>1, <1>2, PTL DEF Spec

\* Every variable keeps its type and every queue its limit.
THEOREM GatewayTypes == Spec => []TypeOK
<1>1. IInv => TypeOK
  BY DEF IInv
<1> QED BY <1>1, GatewayInvariant, PTL

\* At most one client has a session, it holds the slot, and no client is sent a
\* frame that was queued for another (_handle_client, _external_writer_loop).
THEOREM OneClientAtATime == Spec => []OneClient
<1>1. ASSUME IInv PROVE Cardinality({c \in Clients : session[c] = "open"}) <= 1
  <2> DEFINE S == {c \in Clients : session[c] = "open"}
  <2>1. \A c, d \in S : c = d
    BY <1>1 DEF IInv, Sessions, SessionOf
  <2>2. CASE S = {}
    BY <2>2, FS_EmptySet
  <2>3. ASSUME NEW c \in S PROVE Cardinality(S) = 1
    <3>1. S = {c}
      BY <2>1
    <3> QED BY <3>1, FS_Singleton
  <2> QED BY <2>2, <2>3
<1>2. IInv => OneClient
  BY <1>1 DEF IInv, Sessions, SessionOf, Waiting, OneClient
<1> QED BY <1>2, GatewayInvariant, PTL

\* A stopped gateway holds no connection, listener, task or client (stop,
\* _close_transports, _cancel_tasks).
THEOREM StopReleases == Spec => []StoppedIsReleased
<1>1. IInv => StoppedIsReleased
  BY DEF IInv, TypeOK, Sessions, SessionOf, StoppedIsReleased
<1> QED BY <1>1, GatewayInvariant, PTL

\* A step of the gateway is a step of the abstract link, or leaves it alone.
LEMMA LinkStep ==
    ASSUME IInv, [Next]_vars
    PROVE  [Link!Next]_(Link!link)
<1> USE DEF LinkPhase, Link!link, IInv
<1>1. CASE Start
  BY <1>1 DEF Start, TypeOK, Link!Next, Link!BeginOpening
<1>2. CASE Connected
  BY <1>2 DEF Connected, TypeOK, Link!Next, Link!Attach
<1>3. CASE RetryHandshake
  BY <1>3 DEF RetryHandshake, TypeOK, Link!Next, Link!Retry
<1>4. CASE Ready \/ ControlListening
  BY <1>4 DEF Ready, ControlListening
<1>5. CASE PublicListening
  BY <1>5 DEF PublicListening, TypeOK, Link!Next, Link!Opened
<1>6. CASE StartFails \/ Stop
  BY <1>6 DEF StartFails, Stop, TypeOK, Link!Next, Link!BeginClosing
<1>7. CASE Closed
  BY <1>7 DEF Closed
<1>8. CASE Cancelled
  BY <1>8 DEF Cancelled, TypeOK, Link!Next, Link!Closed
<1>9. CASE DaemonGone
  BY <1>9 DEF DaemonGone, Link!Next, Link!Detach
<1>10. CASE ReaderSeesEOF
  BY <1>10 DEF ReaderSeesEOF, TypeOK, Link!Next, Link!Alarm, Link!Unwatch
<1>11. CASE WriterStep
  BY <1>11 DEF WriterStep, TypeOK, Link!Next, Link!Alarm
<1>12. CASE DaemonFrame \/ RFTaken \/ SendToRadio \/ EnablePublic
  BY <1>12 DEF DaemonFrame, RFTaken, SendToRadio, EnablePublic
<1>13. ASSUME NEW c \in Clients,
              \/ Admit(c) \/ ClientSends(c) \/ ClientGets(c)
              \/ ClientLeaves(c) \/ SessionEnds(c)
       PROVE  UNCHANGED Link!link
  BY <1>13 DEF Admit, ClientSends, ClientGets, ClientLeaves, SessionEnds
<1>14. CASE UNCHANGED vars
  BY <1>14 DEF vars
<1> QED BY <1>1, <1>2, <1>3, <1>4, <1>5, <1>6, <1>7, <1>8, <1>9, <1>10, <1>11, <1>12,
           <1>13, <1>14 DEF Next, CallStep

\* The gateway implements the abstract link: an alarm is raised only for a daemon
\* that is gone, no reader of a running gateway ends without it, and only a new
\* attempt clears it.
THEOREM GatewayImplementsLink == Spec => ImplementsLink
<1>1. Init => Link!Init
  BY DEF Init, Link!Init, LinkPhase
<1>2. IInv /\ [Next]_vars => [Link!Next]_(Link!link)
  BY LinkStep
<1> QED BY <1>1, <1>2, GatewayInvariant, PTL DEF Spec, ImplementsLink, Link!Spec

-----------------------------------------------------------------------------
(* The frame parser. The reference is one pass over all the bytes: Parse     *)
(* gives its result from every place of the stream.                          *)

HIDE GatewayAssumption

\* A set of numbers that is not empty has a least member: the form in which
\* these proofs use induction over the numbers.
LEMMA LeastNumber ==
    ASSUME NEW K \in SUBSET Nat, K # {}
    PROVE  \E m \in K : \A k \in K : m <= k
<1> DEFINE R == OpToRel(<, Nat)
<1>1. IsWellFoundedOn(R, Nat)
  BY NatLessThanWellFounded
<1> HIDE DEF R
<1>2. PICK m \in K : \A k \in K : ~(<<k, m>> \in R)
  BY <1>1, WFMin
<1>3. \A k \in K : ~(k < m)
  BY <1>2 DEF R, OpToRel
<1> QED
  BY <1>3

\* Min is the least member of a set of numbers.
LEMMA MinOf ==
    ASSUME NEW K \in SUBSET Nat, K # {}
    PROVE  Min(K) \in K /\ \A k \in K : Min(K) <= k
<1>1. \E m \in K : \A k \in K : m <= k
  BY LeastNumber
<1> QED
  BY <1>1 DEF Min

\* What a pass over a stream returns.
Results == [frames : Seq(Seq(ByteValues)), skipped : Nat, oversized : Nat, rest : Seq(ByteValues)]

\* The size in a header is a number.
LEMMA SizeIsNumber ==
    ASSUME NEW bytes \in Seq(ByteValues), NEW i \in 1 .. Len(bytes), Len(bytes) - i + 1 >= HeaderSize
    PROVE  PayloadSize(bytes, i) \in Nat
<1>1. Len(bytes) \in Nat /\ i + 2 \in 1 .. Len(bytes) /\ i + 3 \in 1 .. Len(bytes)
  BY LenProperties DEF HeaderSize
<1>2. bytes[i + 2] \in 0 .. 255 /\ bytes[i + 3] \in 0 .. 255
  BY <1>1, ElementOfSeq, FramingAssumption
<1>3. PICK a \in 0 .. 255, b \in 0 .. 255 : a = bytes[i + 2] /\ b = bytes[i + 3]
  BY <1>2
<1>4. a * 256 + b \in Nat
  OBVIOUS
<1> QED
  BY <1>3, <1>4 DEF PayloadSize

\* A frame is there with all its bytes.
LEMMA KindFacts ==
    ASSUME NEW bytes \in Seq(ByteValues), NEW i \in 1 .. Len(bytes)
    PROVE  /\ Kind(bytes, i) \in {"noise", "open", "oversized", "frame"}
           /\ Kind(bytes, i) = "frame" =>
                /\ PayloadSize(bytes, i) \in Nat
                /\ Len(bytes) - i + 1 >= HeaderSize + PayloadSize(bytes, i)
<1>1. Len(bytes) \in Nat
  BY LenProperties
<1>2. Kind(bytes, i) \in {"noise", "open", "oversized", "frame"}
  BY DEF Kind
<1>3. ASSUME Kind(bytes, i) = "frame"
      PROVE  /\ Len(bytes) - i + 1 >= HeaderSize
             /\ ~(Len(bytes) - i + 1 < HeaderSize + PayloadSize(bytes, i))
  BY <1>1, <1>3 DEF Kind, HeaderSize
<1>4. ASSUME Kind(bytes, i) = "frame"
      PROVE  PayloadSize(bytes, i) \in Nat
  BY <1>3, <1>4, SizeIsNumber
<1> QED
  BY <1>1, <1>2, <1>3, <1>4 DEF HeaderSize

\* Only later positions matter.
LEMMA OutcomeIsLocal ==
    ASSUME NEW bytes \in Seq(ByteValues), NEW i \in 1 .. Len(bytes) + 1, NEW g, NEW h,
           \A j \in i + 1 .. Len(bytes) + 1 : g[j] = h[j]
    PROVE  Outcome(bytes, g, i) = Outcome(bytes, h, i)
<1>1. Len(bytes) \in Nat
  BY LenProperties
<1>2. CASE i > Len(bytes)
  BY <1>2 DEF Outcome
<1>3. CASE i <= Len(bytes)
  <2>1. i \in 1 .. Len(bytes) /\ i + 1 \in i + 1 .. Len(bytes) + 1
    BY <1>1, <1>3
  <2>2. g[i + 1] = h[i + 1]
    BY <2>1
  <2>3. ASSUME Kind(bytes, i) = "frame"
        PROVE  LET z == i + (HeaderSize + PayloadSize(bytes, i)) IN g[z] = h[z]
    <3>1. i + (HeaderSize + PayloadSize(bytes, i)) \in i + 1 .. Len(bytes) + 1
      BY <1>1, <2>1, <2>3, KindFacts DEF HeaderSize
    <3> QED
      BY <3>1
  <2>4. Kind(bytes, i) \in {"noise", "open", "oversized", "frame"}
    BY <2>1, KindFacts
  <2> QED
    BY <1>1, <1>3, <2>2, <2>3, <2>4 DEF Outcome
<1> QED
  BY <1>1, <1>2, <1>3

\* g holds what a pass returns from every place of bytes, from m on.
PassTable(g, bytes, m) == g = [i \in m .. Len(bytes) + 1 |-> Outcome(bytes, g, i)]

\* There is such a table.
LEMMA PassExists ==
    ASSUME NEW bytes \in Seq(ByteValues)
    PROVE  \E g : PassTable(g, bytes, 1)
<1> DEFINE L == Len(bytes)
           K == {d \in 0 .. L : ~\E g : PassTable(g, bytes, L + 1 - d)}
<1>1. L \in Nat
  BY LenProperties
<1>2. K \in SUBSET Nat
  BY <1>1
<1>3. SUFFICES ASSUME K # {}
               PROVE  FALSE
  <2>1. L \in 0 .. L /\ L + 1 - L = 1
    BY <1>1
  <2> QED
    BY <1>3, <2>1
<1>4. PICK d \in K : \A e \in K : d <= e
  <2> HIDE DEF K
  <2> QED
    BY <1>2, <1>3, LeastNumber
<1>5. /\ d \in 0 .. L /\ ~\E g : PassTable(g, bytes, L + 1 - d)
      /\ d # 0 => \E g : PassTable(g, bytes, L + 1 - (d - 1))
  <2>1. d # 0 => d - 1 \in 0 .. L /\ d - 1 \notin K
    BY <1>1, <1>4
  <2> QED
    BY <1>4, <2>1
<1> HIDE DEF K
<1>6. CASE d = 0
  <2> DEFINE g == [i \in L + 1 .. L + 1 |-> Rest(<<>>)]
  <2>1. ASSUME NEW i \in L + 1 .. L + 1
        PROVE  Outcome(bytes, g, i) = Rest(<<>>)
    BY <1>1 DEF Outcome
  <2>2. g = [i \in L + 1 .. L + 1 |-> Outcome(bytes, g, i)]
    BY <2>1
  <2>3. L + 1 - d = L + 1
    BY <1>1, <1>6
  <2> HIDE DEF g
  <2> QED
    BY <1>5, <2>2, <2>3 DEF PassTable
<1>7. CASE d # 0
  <2>1. PICK g, m : m = L + 1 - d /\ PassTable(g, bytes, m + 1)
    <3>1. L + 1 - (d - 1) = (L + 1 - d) + 1
      BY <1>1, <1>5
    <3> QED
      BY <1>5, <1>7, <3>1
  <2>2. m \in 1 .. L
    BY <1>1, <1>5, <1>7, <2>1
  <2>3. \A i \in m + 1 .. L + 1 : g[i] = Outcome(bytes, g, i)
    BY <2>1 DEF PassTable
  <2> DEFINE c == [i \in m .. L + 1 |-> Outcome(bytes, g, i)]
             e == [i \in m .. L + 1 |-> Outcome(bytes, c, i)]
  <2>4. ASSUME NEW i \in m .. L + 1
        PROVE  c[i] = e[i]
    <3>1. \A j \in i + 1 .. L + 1 : j \in m + 1 .. L + 1 /\ j \in m .. L + 1
      BY <1>1, <2>2
    <3>2. \A j \in i + 1 .. L + 1 : g[j] = c[j]
      BY <2>3, <3>1
    <3>3. i \in 1 .. L + 1
      BY <1>1, <2>2
    <3>4. Outcome(bytes, g, i) = Outcome(bytes, c, i)
      <4> HIDE DEF c
      <4> QED
        BY <3>2, <3>3, OutcomeIsLocal
    <3> QED
      BY <3>4
  <2>5. c = e
    BY <2>4
  <2>6. PassTable(c, bytes, m)
    <3> HIDE DEF c
    <3> QED
      BY <2>5 DEF PassTable
  <2> QED
    BY <1>5, <2>1, <2>6
<1> QED
  BY <1>6, <1>7

\* Parse is one.
LEMMA ParseUnfolds ==
    ASSUME NEW bytes \in Seq(ByteValues)
    PROVE  \A i \in 1 .. Len(bytes) + 1 : Parse(bytes)[i] = Outcome(bytes, Parse(bytes), i)
<1> DEFINE g == CHOOSE t : PassTable(t, bytes, 1)
<1>1. Parse(bytes) = g
  BY DEF Parse, PassTable
<1>2. PassTable(g, bytes, 1)
  BY PassExists
<1> HIDE DEF g
<1>3. \A i \in 1 .. Len(bytes) + 1 : g[i] = Outcome(bytes, g, i)
  BY <1>2 DEF PassTable
<1> QED
  BY <1>1, <1>3

\* A piece of a sequence.
LEMMA PieceOf ==
    ASSUME NEW s \in Seq(ByteValues), NEW a \in 1 .. Len(s) + 1, NEW b \in 0 .. Len(s), a <= b + 1
    PROVE  /\ SubSeq(s, a, b) \in Seq(ByteValues) /\ Len(SubSeq(s, a, b)) = b - a + 1
           /\ \A i \in 1 .. b - a + 1 : SubSeq(s, a, b)[i] = s[a + i - 1]
<1>1. Len(s) \in Nat /\ \A i \in a .. b : s[i] \in ByteValues
  BY LenProperties, ElementOfSeq
<1>2. a \in Int /\ b \in Int
  BY <1>1
<1>3. /\ SubSeq(s, a, b) \in Seq(ByteValues)
      /\ Len(SubSeq(s, a, b)) = IF a <= b THEN b - a + 1 ELSE 0
      /\ \A i \in 1 .. b - a + 1 : SubSeq(s, a, b)[i] = s[a + i - 1]
  BY <1>1, <1>2, SubSeqProperties
<1> QED
  BY <1>2, <1>3

\* What is left over is a result.
LEMMA RestFits == \A bytes \in Seq(ByteValues) : Rest(bytes) \in Results
  BY DEF Rest, Results

\* So is what precedes one.
LEMMA PrecededFits ==
    ASSUME NEW found \in Seq(Seq(ByteValues)), NEW skip \in Nat, NEW refused \in Nat,
           NEW r \in Results
    PROVE  Preceded(found, skip, refused, r) \in Results
<1>1. /\ r.frames \in Seq(Seq(ByteValues)) /\ r.skipped \in Nat /\ r.oversized \in Nat
      /\ r.rest \in Seq(ByteValues)
  BY DEF Results
<1>2. found \o r.frames \in Seq(Seq(ByteValues))
  BY <1>1, ConcatProperties
<1> QED
  BY <1>1, <1>2 DEF Preceded, Results

\* The result of a pass, by what lies at its place.
LEMMA OutcomeCases ==
    ASSUME NEW bytes \in Seq(ByteValues), NEW i \in 1 .. Len(bytes), NEW from
    PROVE  /\ Kind(bytes, i) = "noise" =>
                Outcome(bytes, from, i) = Preceded(<<>>, 1, 0, from[i + 1])
           /\ Kind(bytes, i) = "oversized" =>
                Outcome(bytes, from, i) = Preceded(<<>>, 1, 1, from[i + 1])
           /\ Kind(bytes, i) = "open" =>
                Outcome(bytes, from, i) = Rest(SubSeq(bytes, i, Len(bytes)))
           /\ Kind(bytes, i) = "frame" =>
                LET size == HeaderSize + PayloadSize(bytes, i)
                IN  Outcome(bytes, from, i) =
                      Preceded(<<SubSeq(bytes, i, i + size - 1)>>, 0, 0, from[i + size])
<1>1. Len(bytes) \in Nat /\ ~(i > Len(bytes))
  BY LenProperties
<1> QED
  BY <1>1 DEF Outcome

\* A pass returns results.
LEMMA ParseTypes ==
    ASSUME NEW bytes \in Seq(ByteValues)
    PROVE  \A i \in 1 .. Len(bytes) + 1 : Parse(bytes)[i] \in Results
<1> DEFINE L == Len(bytes)
           P == Parse(bytes)
           K == {d \in 0 .. L : P[L + 1 - d] \notin Results}
<1>1. L \in Nat /\ \A i \in 1 .. L + 1 : P[i] = Outcome(bytes, P, i)
  BY LenProperties, ParseUnfolds
<1> HIDE DEF P
<1>2. K \in SUBSET Nat
  BY <1>1
<1>3. SUFFICES ASSUME K # {}
               PROVE  FALSE
  <2>1. ASSUME NEW i \in 1 .. L + 1
        PROVE  P[i] \in Results
    <3>1. L + 1 - i \in 0 .. L /\ L + 1 - (L + 1 - i) = i
      BY <1>1
    <3> QED
      BY <1>3, <3>1
  <2> QED
    BY <2>1 DEF P
<1>4. PICK d \in K : \A e \in K : d <= e
  <2> HIDE DEF K
  <2> QED
    BY <1>2, <1>3, LeastNumber
<1>5. PICK i \in 1 .. L + 1 : i = L + 1 - d /\ P[i] \notin Results
  BY <1>1, <1>4
<1>6. \A j \in i + 1 .. L + 1 : P[j] \in Results
  <2>1. ASSUME NEW j \in i + 1 .. L + 1
        PROVE  P[j] \in Results
    <3>1. L + 1 - j \in 0 .. L /\ L + 1 - (L + 1 - j) = j /\ ~(d <= L + 1 - j)
      BY <1>1, <1>4, <1>5
    <3> QED
      BY <1>4, <3>1
  <2> QED
    BY <2>1
<1> HIDE DEF K
<1>7. P[i] = Outcome(bytes, P, i)
  BY <1>1
<1>8. CASE i > L
  <2>1. P[i] = Rest(<<>>)
    BY <1>7, <1>8 DEF Outcome
  <2>2. <<>> \in Seq(ByteValues)
    OBVIOUS
  <2> QED
    BY <1>5, <2>1, <2>2, RestFits
<1>9. CASE i <= L
  <2>1. i \in 1 .. L /\ i + 1 \in i + 1 .. L + 1
    BY <1>1, <1>9
  <2>2. P[i + 1] \in Results /\ <<>> \in Seq(Seq(ByteValues))
    BY <1>6, <2>1
  <2>3. Kind(bytes, i) \in {"noise", "open", "oversized", "frame"}
    BY <2>1, KindFacts
  <2>4. CASE Kind(bytes, i) = "noise"
    <3>1. P[i] = Preceded(<<>>, 1, 0, P[i + 1])
      BY <1>7, <2>1, <2>4, OutcomeCases
    <3> QED
      BY <1>5, <2>2, <3>1, PrecededFits
  <2>5. CASE Kind(bytes, i) = "oversized"
    <3>1. P[i] = Preceded(<<>>, 1, 1, P[i + 1])
      BY <1>7, <2>1, <2>5, OutcomeCases
    <3> QED
      BY <1>5, <2>2, <3>1, PrecededFits
  <2>6. CASE Kind(bytes, i) = "open"
    <3>1. P[i] = Rest(SubSeq(bytes, i, L))
      BY <1>7, <2>1, <2>6, OutcomeCases
    <3>2. SubSeq(bytes, i, L) \in Seq(ByteValues)
      BY <1>1, <2>1, PieceOf
    <3> QED
      BY <1>5, <3>1, <3>2, RestFits
  <2>7. CASE Kind(bytes, i) = "frame"
    <3>1. PICK z : z = HeaderSize + PayloadSize(bytes, i)
      OBVIOUS
    <3>2. z \in Nat /\ i + z \in i + 1 .. L + 1 /\ i + z - 1 \in 0 .. L
      BY <1>1, <2>1, <2>7, <3>1, KindFacts DEF HeaderSize
    <3>3. PICK t, f : t = P[i + z] /\ t \in Results /\ f = SubSeq(bytes, i, i + z - 1)
      BY <1>6, <3>2
    <3>4. P[i] = Preceded(<<f>>, 0, 0, t)
      BY <1>7, <2>1, <2>7, <3>1, <3>3, OutcomeCases
    <3>5. f \in Seq(ByteValues)
      BY <2>1, <3>2, <3>3, PieceOf
    <3>6. <<f>> \in Seq(Seq(ByteValues))
      BY <3>5
    <3> QED
      BY <1>5, <3>3, <3>4, <3>6, PrecededFits
  <2> QED
    BY <2>3, <2>4, <2>5, <2>6, <2>7
<1> QED
  BY <1>1, <1>8, <1>9

\* Parse, by what lies at its place.
LEMMA ParseSteps ==
    ASSUME NEW bytes \in Seq(ByteValues), NEW i \in 1 .. Len(bytes)
    PROVE  /\ Kind(bytes, i) = "noise" =>
                Parse(bytes)[i] = Preceded(<<>>, 1, 0, Parse(bytes)[i + 1])
           /\ Kind(bytes, i) = "oversized" =>
                Parse(bytes)[i] = Preceded(<<>>, 1, 1, Parse(bytes)[i + 1])
           /\ Kind(bytes, i) = "open" =>
                Parse(bytes)[i] = Rest(SubSeq(bytes, i, Len(bytes)))
           /\ Kind(bytes, i) = "frame" =>
                LET size == HeaderSize + PayloadSize(bytes, i)
                IN  Parse(bytes)[i] =
                      Preceded(<<SubSeq(bytes, i, i + size - 1)>>, 0, 0, Parse(bytes)[i + size])
<1>1. Parse(bytes)[i] = Outcome(bytes, Parse(bytes), i)
  BY LenProperties, ParseUnfolds
<1> QED
  BY <1>1, OutcomeCases

\* At the end of the stream nothing is left.
LEMMA ParseEnds ==
    ASSUME NEW bytes \in Seq(ByteValues)
    PROVE  Parse(bytes)[Len(bytes) + 1] = Rest(<<>>)
<1>1. Len(bytes) \in Nat
  BY LenProperties
<1>2. Parse(bytes)[Len(bytes) + 1] = Outcome(bytes, Parse(bytes), Len(bytes) + 1)
  BY <1>1, ParseUnfolds
<1> QED
  BY <1>1, <1>2 DEF Outcome

\* Joining sequences of frames is associative.
LEMMA FramesRegrouped ==
    ASSUME NEW f \in Seq(Seq(ByteValues)), NEW g \in Seq(Seq(ByteValues)),
           NEW h \in Seq(Seq(ByteValues))
    PROVE  f \o (g \o h) = (f \o g) \o h
OBVIOUS

\* Two pieces of a pass are one.
LEMMA PrecededTwice ==
    ASSUME NEW f \in Seq(Seq(ByteValues)), NEW s \in Nat, NEW o \in Nat,
           NEW g \in Seq(Seq(ByteValues)), NEW t \in Nat, NEW u \in Nat, NEW r \in Results
    PROVE  Preceded(f, s, o, Preceded(g, t, u, r)) = Preceded(f \o g, s + t, o + u, r)
<1>1. /\ r.frames \in Seq(Seq(ByteValues)) /\ r.skipped \in Nat /\ r.oversized \in Nat
  BY DEF Results
<1>2. f \o (g \o r.frames) = (f \o g) \o r.frames
  BY <1>1, FramesRegrouped
<1>3. s + (t + r.skipped) = (s + t) + r.skipped /\ o + (u + r.oversized) = (o + u) + r.oversized
  BY <1>1
<1> QED
  BY <1>2, <1>3 DEF Preceded

\* The same, as a formula.
LEMMA PrecededBoth ==
    \A f, g \in Seq(Seq(ByteValues)) : \A s, t, o, u \in Nat : \A r \in Results :
        Preceded(f, s, o, Preceded(g, t, u, r)) = Preceded(f \o g, s + t, o + u, r)
  BY PrecededTwice

\* An empty piece changes nothing.
LEMMA PrecededNothing == ASSUME NEW r \in Results PROVE Preceded(<<>>, 0, 0, r) = r
<1>1. /\ r = [frames |-> r.frames, skipped |-> r.skipped, oversized |-> r.oversized, rest |-> r.rest]
      /\ r.frames \in Seq(Seq(ByteValues)) /\ r.skipped \in Nat /\ r.oversized \in Nat
  BY DEF Results
<1>2. <<>> \o r.frames = r.frames /\ 0 + r.skipped = r.skipped /\ 0 + r.oversized = r.oversized
  BY <1>1, ConcatEmptySeq
<1> QED
  BY <1>1, <1>2 DEF Preceded

\* A run of noise.
LEMMA NoiseRun ==
    ASSUME NEW bytes \in Seq(ByteValues), NEW b \in 0 .. Len(bytes), NEW a \in 0 .. b,
           \A i \in a + 1 .. b : Kind(bytes, i) = "noise"
    PROVE  Parse(bytes)[a + 1] = Preceded(<<>>, b - a, 0, Parse(bytes)[b + 1])
<1> DEFINE P == Parse(bytes)
           K == {d \in 0 .. b - a : P[b - d + 1] # Preceded(<<>>, d, 0, P[b + 1])}
<1>1. /\ Len(bytes) \in Nat /\ a \in Nat /\ b \in Nat /\ b - a \in Nat
      /\ \A i \in 1 .. Len(bytes) + 1 : P[i] \in Results
  BY LenProperties, ParseTypes
<1>2. \A i \in 1 .. Len(bytes) : Kind(bytes, i) = "noise" => P[i] = Preceded(<<>>, 1, 0, P[i + 1])
  BY ParseSteps
<1> HIDE DEF P
<1>3. PICK r : r = P[b + 1] /\ r \in Results
  BY <1>1
<1>4. K \in SUBSET Nat
  BY <1>1
<1>5. SUFFICES ASSUME K # {}
               PROVE  FALSE
  <2>1. b - a \in 0 .. b - a /\ b - (b - a) + 1 = a + 1
    BY <1>1
  <2>2. P[a + 1] = Preceded(<<>>, b - a, 0, P[b + 1])
    BY <1>5, <2>1
  <2> QED
    BY <2>2 DEF P
<1>6. PICK d \in K : \A e \in K : d <= e
  <2> HIDE DEF K
  <2> QED
    BY <1>4, <1>5, LeastNumber
<1>7. d \in 0 .. b - a /\ P[b - d + 1] # Preceded(<<>>, d, 0, r)
  BY <1>3, <1>6
<1>8. d # 0
  <2>1. b - 0 + 1 = b + 1
    BY <1>1
  <2> QED
    BY <1>3, <1>7, <2>1, PrecededNothing
<1>9. P[b - (d - 1) + 1] = Preceded(<<>>, d - 1, 0, r)
  <2>1. d - 1 \in 0 .. b - a /\ ~(d <= d - 1)
    BY <1>1, <1>7, <1>8
  <2> QED
    BY <1>3, <1>6, <2>1
<1> HIDE DEF K
<1>10. PICK i \in 1 .. Len(bytes) : /\ i = b - d + 1 /\ i \in a + 1 .. b
                                    /\ i + 1 = b - (d - 1) + 1
  BY <1>1, <1>7, <1>8
<1>11. P[i] = Preceded(<<>>, 1, 0, Preceded(<<>>, d - 1, 0, r))
  BY <1>2, <1>9, <1>10
<1>12. Preceded(<<>>, 1, 0, Preceded(<<>>, d - 1, 0, r)) = Preceded(<<>>, d, 0, r)
  <2>1. /\ <<>> \in Seq(Seq(ByteValues)) /\ d - 1 \in Nat /\ 1 \in Nat /\ 0 \in Nat
    BY <1>1, <1>7, <1>8
  <2>2. Preceded(<<>>, 1, 0, Preceded(<<>>, d - 1, 0, r)) = Preceded(<<>> \o <<>>, 1 + (d - 1), 0 + 0, r)
    <3>1. PICK c \in Nat, e \in Seq(Seq(ByteValues)) : c = d - 1 /\ e = <<>>
      BY <2>1
    <3>2. Preceded(e, 1, 0, Preceded(e, c, 0, r)) = Preceded(e \o e, 1 + c, 0 + 0, r)
      BY <1>3, <2>1, PrecededTwice
    <3> QED
      BY <3>1, <3>2, Zenon
  <2>3. <<>> \o <<>> = <<>> /\ 1 + (d - 1) = d /\ 0 + 0 = 0
    BY <1>1, <1>7, <2>1, ConcatEmptySeq
  <2> QED
    BY <2>2, <2>3
<1> QED
  BY <1>7, <1>10, <1>11, <1>12

\* What begins at position i when the first n bytes are there.
KindIn(s, n, i) ==
    IF s[i] # Magic1 \/ (n - i + 1 > 1 /\ s[i + 1] # Magic2) THEN "noise"
    ELSE IF n - i + 1 < HeaderSize THEN "open"
    ELSE IF PayloadSize(s, i) > MaxPayload THEN "oversized"
    ELSE IF n - i + 1 < HeaderSize + PayloadSize(s, i) THEN "open"
    ELSE "frame"

\* What lies at a place of a piece is what lies there in the stream.
LEMMA KindOfPiece ==
    ASSUME NEW s \in Seq(ByteValues), NEW a \in 1 .. Len(s), NEW b \in a .. Len(s),
           NEW i \in 1 .. b - a + 1
    PROVE  /\ Kind(SubSeq(s, a, b), i) = KindIn(s, b, a + i - 1)
           /\ i + 3 <= b - a + 1 =>
                PayloadSize(SubSeq(s, a, b), i) = PayloadSize(s, a + i - 1)
<1>1. PICK t, n : t = SubSeq(s, a, b) /\ n = b - a + 1
  OBVIOUS
<1>2. Len(s) \in Nat /\ b \in 0 .. Len(s) /\ a \in 1 .. Len(s) + 1 /\ a <= b + 1 /\ n \in Nat
  BY <1>1, LenProperties
<1>3. Len(t) = n /\ \A j \in 1 .. n : t[j] = s[a + j - 1]
  BY <1>1, <1>2, PieceOf
<1>4. PICK k : k = a + i - 1
  OBVIOUS
<1>5. k \in Nat /\ n - i + 1 = b - k + 1 /\ i \in 1 .. n /\ b \in Nat
  BY <1>1, <1>2, <1>4
<1>6. t[i] = s[k]
  BY <1>3, <1>4, <1>5
<1>7. n - i + 1 > 1 => t[i + 1] = s[k + 1]
  <2>1. n - i + 1 > 1 => i + 1 \in 1 .. n /\ a + (i + 1) - 1 = k + 1
    BY <1>2, <1>4, <1>5
  <2> QED
    BY <1>3, <2>1
<1>8. i + 3 <= n => PayloadSize(t, i) = PayloadSize(s, k)
  <2>1. i + 3 <= n => /\ i + 2 \in 1 .. n /\ a + (i + 2) - 1 = k + 2
                      /\ i + 3 \in 1 .. n /\ a + (i + 3) - 1 = k + 3
    BY <1>2, <1>4, <1>5
  <2> QED
    BY <1>3, <2>1 DEF PayloadSize
<1>9. ~(n - i + 1 < HeaderSize) => i + 3 <= n
  BY <1>2, <1>5 DEF HeaderSize
<1>10. Kind(t, i) = KindIn(s, b, k)
  <2>1. Len(t) - i + 1 = n - i + 1
    BY <1>3
  <2> DEFINE z == PayloadSize(t, i)
             y == PayloadSize(s, k)
  <2>2. i + 3 <= n => z = y
    BY <1>8
  <2> HIDE DEF z, y
  <2> QED
    BY <1>5, <1>6, <1>7, <1>9, <2>1, <2>2 DEF Kind, KindIn, z, y
<1> QED
  BY <1>1, <1>4, <1>8, <1>10

\* The same for all the bytes so far.
LEMMA KindOfPrefix ==
    ASSUME NEW s \in Seq(ByteValues), NEW n \in 1 .. Len(s), NEW i \in 1 .. n
    PROVE  Kind(SubSeq(s, 1, n), i) = KindIn(s, n, i)
<1>1. Len(s) \in Nat
  BY LenProperties
<1>2. 1 \in 1 .. Len(s) /\ n \in 1 .. Len(s) /\ i \in 1 .. n - 1 + 1 /\ 1 + i - 1 = i
  BY <1>1
<1> QED
  BY <1>2, KindOfPiece

-----------------------------------------------------------------------------
\* The first p bytes are dealt with: the buffer is the rest of what has arrived, and
\* however much more arrives, one pass over it all is what was found and a pass from there.
ReadTo(p) ==
    /\ buffer = SubSeq(stream, p + 1, arrived)
    /\ \A n \in arrived .. Len(stream) :
         LET pass == Parse(SubSeq(stream, 1, n))
         IN  pass[1] = Preceded(returned, discarded, oversized, pass[p + 1])

\* The types of the parser's state.
ParserTypes ==
    /\ stream \in Seq(ByteValues) /\ arrived \in 0 .. Len(stream)
    /\ returned \in Seq(Seq(ByteValues)) /\ discarded \in Nat /\ oversized \in Nat
    /\ busy \in BOOLEAN

\* An idle parser has nothing that is known to be noise or a frame.
KeepsOpenOnly == ~busy => buffer = <<>> \/ Kind(buffer, 1) = "open"

\* Before the first bytes the parser has returned nothing.
FreshParser == arrived = 0 => returned = <<>> /\ discarded = 0 /\ oversized = 0 /\ busy = FALSE

\* The inductive invariant of the parser.
ParserInv ==
    ParserTypes /\ KeepsOpenOnly /\ FreshParser /\ \E p \in 0 .. arrived : ReadTo(p)

\* The buffer is a piece of the stream.
LEMMA BufferIs ==
    ASSUME ParserTypes, NEW p \in 0 .. arrived, ReadTo(p)
    PROVE  /\ stream \in Seq(ByteValues) /\ Len(stream) \in Nat /\ arrived \in Nat /\ p \in Nat
           /\ arrived <= Len(stream)
           /\ buffer \in Seq(ByteValues) /\ Len(buffer) = arrived - p
           /\ \A j \in 1 .. arrived - p : buffer[j] = stream[p + j]
<1>1. /\ stream \in Seq(ByteValues) /\ Len(stream) \in Nat /\ arrived \in Nat /\ p \in Nat
      /\ arrived \in 0 .. Len(stream)
  BY LenProperties DEF ParserTypes
<1>2. /\ buffer \in Seq(ByteValues) /\ Len(buffer) = arrived - (p + 1) + 1
      /\ \A j \in 1 .. arrived - (p + 1) + 1 : buffer[j] = stream[p + 1 + j - 1]
  BY <1>1, PieceOf DEF ReadTo
<1>3. arrived - (p + 1) + 1 = arrived - p /\ \A j \in 1 .. arrived - p : p + 1 + j - 1 = p + j
  BY <1>1
<1> QED
  BY <1>1, <1>2, <1>3

\* A piece of a piece.
LEMMA PieceOfPiece ==
    ASSUME NEW s \in Seq(ByteValues), NEW c \in 0 .. Len(s), NEW q \in 0 .. c,
           NEW t, t = SubSeq(s, q + 1, c),
           NEW a \in 1 .. c - q + 1, NEW b \in 0 .. c - q, a <= b + 1
    PROVE  SubSeq(t, a, b) = SubSeq(s, q + a, q + b)
<1>1. Len(s) \in Nat /\ c \in Nat /\ q \in Nat
  BY LenProperties
<1>2. /\ q + 1 \in 1 .. Len(s) + 1 /\ q + 1 <= c + 1 /\ c - (q + 1) + 1 = c - q
  BY <1>1
<1>3. /\ t \in Seq(ByteValues) /\ Len(t) = c - q
      /\ \A i \in 1 .. c - q : t[i] = s[q + 1 + i - 1]
  BY <1>2, PieceOf
<1>4. PICK u, v, n : u = SubSeq(t, a, b) /\ v = SubSeq(s, q + a, q + b) /\ n = b - a + 1
  OBVIOUS
<1>5. u \in Seq(ByteValues) /\ Len(u) = n /\ \A i \in 1 .. n : u[i] = t[a + i - 1]
  BY <1>3, <1>4, PieceOf
<1>6. /\ q + a \in 1 .. Len(s) + 1 /\ q + b \in 0 .. Len(s) /\ q + a <= (q + b) + 1
      /\ (q + b) - (q + a) + 1 = n /\ n \in Nat
  BY <1>1, <1>4
<1>7. v \in Seq(ByteValues) /\ Len(v) = n /\ \A i \in 1 .. n : v[i] = s[q + a + i - 1]
  BY <1>4, <1>6, PieceOf
<1>8. ASSUME NEW i \in 1 .. n
      PROVE  u[i] = v[i]
  <2>1. a + i - 1 \in 1 .. c - q /\ q + 1 + (a + i - 1) - 1 = q + a + i - 1
    BY <1>1, <1>4
  <2> QED
    BY <1>3, <1>5, <1>7, <2>1
<1>9. u = v
  BY <1>5, <1>6, <1>7, <1>8, SeqEqual
<1> QED
  BY <1>4, <1>9

\* A piece of the buffer is a piece of the stream.
LEMMA PieceOfBuffer ==
    ASSUME ParserTypes, NEW p \in 0 .. arrived, ReadTo(p),
           NEW a \in 1 .. arrived - p + 1, NEW b \in 0 .. arrived - p, a <= b + 1
    PROVE  SubSeq(buffer, a, b) = SubSeq(stream, p + a, p + b)
<1>1. /\ stream \in Seq(ByteValues) /\ Len(stream) \in Nat /\ arrived \in Nat /\ p \in Nat
      /\ arrived <= Len(stream)
  BY BufferIs
<1>2. arrived \in 0 .. Len(stream) /\ buffer = SubSeq(stream, p + 1, arrived)
  BY <1>1 DEF ReadTo
<1>3. PICK c, s : c = arrived /\ s = buffer
  OBVIOUS
<1>4. /\ c \in 0 .. Len(stream) /\ p \in 0 .. c /\ s = SubSeq(stream, p + 1, c)
      /\ a \in 1 .. c - p + 1 /\ b \in 0 .. c - p
  BY <1>2, <1>3
<1>5. SubSeq(s, a, b) = SubSeq(stream, p + a, p + b)
  BY <1>1, <1>4, PieceOfPiece
<1> QED
  BY <1>3, <1>5

\* A step that deals with more of the bytes as the pass does.
Moves(p, q, found, skip, refused) ==
    /\ stream' = stream /\ arrived' = arrived
    /\ returned' = returned \o found /\ discarded' = discarded + skip
    /\ oversized' = oversized + refused
    /\ buffer' = SubSeq(stream, q + 1, arrived)
    /\ \A n \in arrived .. Len(stream) :
         Parse(SubSeq(stream, 1, n))[p + 1] =
           Preceded(found, skip, refused, Parse(SubSeq(stream, 1, n))[q + 1])

\* Such a step brings the parser to q.
LEMMA MovesOn ==
    ASSUME ParserTypes, NEW p \in 0 .. arrived, ReadTo(p), NEW q \in p .. arrived,
           NEW found \in Seq(Seq(ByteValues)), NEW skip \in Nat, NEW refused \in Nat,
           Moves(p, q, found, skip, refused)
    PROVE  /\ ReadTo(q)'
           /\ returned' \in Seq(Seq(ByteValues)) /\ discarded' \in Nat /\ oversized' \in Nat
<1>1. /\ stream \in Seq(ByteValues) /\ Len(stream) \in Nat /\ arrived \in Nat /\ p \in Nat
      /\ arrived <= Len(stream)
  BY BufferIs
<1>2. returned \in Seq(Seq(ByteValues)) /\ discarded \in Nat /\ oversized \in Nat
  BY DEF ParserTypes
<1>3. returned \o found \in Seq(Seq(ByteValues))
  BY <1>2, ConcatProperties
<1>4. ASSUME NEW n \in arrived .. Len(stream)
      PROVE  LET pass == Parse(SubSeq(stream, 1, n))
             IN  pass[1] = Preceded(returned \o found, discarded + skip, oversized + refused, pass[q + 1])
  <2>1. PICK pass : pass = Parse(SubSeq(stream, 1, n))
    OBVIOUS
  <2>2. pass[q + 1] \in Results
    <3>1. /\ 1 \in 1 .. Len(stream) + 1 /\ n \in 0 .. Len(stream) /\ 1 <= n + 1 /\ n - 1 + 1 = n
      BY <1>1
    <3>2. SubSeq(stream, 1, n) \in Seq(ByteValues) /\ Len(SubSeq(stream, 1, n)) = n
      BY <1>1, <3>1, PieceOf
    <3>3. q + 1 \in 1 .. n + 1
      BY <1>1
    <3> QED
      BY <2>1, <3>2, <3>3, ParseTypes
  <2>3. /\ pass[1] = Preceded(returned, discarded, oversized, pass[p + 1])
        /\ pass[p + 1] = Preceded(found, skip, refused, pass[q + 1])
    BY <2>1 DEF ReadTo, Moves
  <2>4. pass[1] = Preceded(returned \o found, discarded + skip, oversized + refused, pass[q + 1])
    <3>1. PICK r \in Results : r = pass[q + 1]
      BY <2>2
    <3>2. Preceded(returned, discarded, oversized, Preceded(found, skip, refused, r)) =
            Preceded(returned \o found, discarded + skip, oversized + refused, r)
      <4>1. PICK f \in Seq(Seq(ByteValues)), d \in Nat, o \in Nat :
               f = returned /\ d = discarded /\ o = oversized
        BY <1>2
      <4>2. Preceded(f, d, o, Preceded(found, skip, refused, r)) = Preceded(f \o found, d + skip, o + refused, r)
        BY PrecededBoth
      <4> QED
        BY <4>1, <4>2, Zenon
    <3> QED
      BY <2>3, <3>1, <3>2, Zenon
  <2> QED
    BY <2>1, <2>4
<1>5. ReadTo(q)'
  BY <1>4 DEF ReadTo, Moves
<1> QED
  BY <1>2, <1>3, <1>5 DEF Moves

\* A magic that is complete in the buffer.
LEMMA MagicIs ==
    ASSUME ParserTypes, NEW p \in 0 .. arrived, ReadTo(p), NEW j \in 1 .. arrived - p
    PROVE  j \in MagicPositions <=>
             j < arrived - p /\ stream[p + j] = Magic1 /\ stream[p + j + 1] = Magic2
<1>1. /\ arrived \in Nat /\ p \in Nat /\ buffer \in Seq(ByteValues) /\ Len(buffer) = arrived - p
      /\ \A i \in 1 .. arrived - p : buffer[i] = stream[p + i]
  BY BufferIs
<1>2. DOMAIN buffer = 1 .. arrived - p
  BY <1>1, LenProperties
<1>3. j < arrived - p => buffer[j + 1] = stream[p + j + 1]
  <2>1. j < arrived - p => j + 1 \in 1 .. arrived - p /\ p + (j + 1) = p + j + 1
    BY <1>1
  <2> QED
    BY <1>1, <2>1
<1> QED
  BY <1>1, <1>2, <1>3 DEF MagicPositions, IsMagic

\* Before the first magic there is noise, whatever follows.
LEMMA NoiseBefore ==
    ASSUME ParserTypes, NEW p \in 0 .. arrived, ReadTo(p), NEW q \in p .. arrived,
           \A j \in 1 .. q - p : j \notin MagicPositions,
           q = arrived /\ q # p => stream[q] # Magic1,
           NEW n \in arrived .. Len(stream)
    PROVE  Parse(SubSeq(stream, 1, n))[p + 1] =
             Preceded(<<>>, q - p, 0, Parse(SubSeq(stream, 1, n))[q + 1])
<1>1. /\ stream \in Seq(ByteValues) /\ Len(stream) \in Nat /\ arrived \in Nat /\ p \in Nat
      /\ arrived <= Len(stream)
  BY BufferIs
<1>2. PICK bytes : bytes = SubSeq(stream, 1, n)
  OBVIOUS
<1>3. bytes \in Seq(ByteValues) /\ Len(bytes) = n
  <2>1. /\ 1 \in 1 .. Len(stream) + 1 /\ n \in 0 .. Len(stream) /\ 1 <= n + 1 /\ n - 1 + 1 = n
    BY <1>1
  <2> QED
    BY <1>1, <1>2, <2>1, PieceOf
<1>4. ASSUME NEW i \in p + 1 .. q
      PROVE  Kind(bytes, i) = "noise"
  <2>1. n \in 1 .. Len(stream) /\ i \in 1 .. n /\ i - p \in 1 .. q - p /\ i - p \in 1 .. arrived - p
        /\ p + (i - p) = i
    BY <1>1
  <2>2. ~(i - p < arrived - p /\ stream[i] = Magic1 /\ stream[i + 1] = Magic2)
    BY <2>1, MagicIs
  <2>3. i = arrived => stream[i] # Magic1
    BY <1>1, <2>1
  <2>4. stream[i] # Magic1 \/ (n - i + 1 > 1 /\ stream[i + 1] # Magic2)
    BY <1>1, <2>1, <2>2, <2>3
  <2>5. Kind(bytes, i) = KindIn(stream, n, i)
    BY <1>1, <1>2, <2>1, KindOfPrefix
  <2> QED
    BY <2>4, <2>5 DEF KindIn
<1>5. q \in 0 .. Len(bytes) /\ p \in 0 .. q
  BY <1>1, <1>3
<1>6. Parse(bytes)[p + 1] = Preceded(<<>>, q - p, 0, Parse(bytes)[q + 1])
  BY <1>3, <1>4, <1>5, NoiseRun
<1> QED
  BY <1>2, <1>6

\* Nothing precedes the whole pass.
LEMMA WholePass ==
    ASSUME NEW s \in Seq(ByteValues), NEW n \in 0 .. Len(s)
    PROVE  Parse(SubSeq(s, 1, n))[1] = Preceded(<<>>, 0, 0, Parse(SubSeq(s, 1, n))[1])
<1>1. Len(s) \in Nat
  BY LenProperties
<1>2. 1 \in 1 .. Len(s) + 1 /\ 1 <= n + 1 /\ n - 1 + 1 = n /\ 1 \in 1 .. n + 1
  BY <1>1
<1>3. SubSeq(s, 1, n) \in Seq(ByteValues) /\ Len(SubSeq(s, 1, n)) = n
  BY <1>1, <1>2, PieceOf
<1>4. Parse(SubSeq(s, 1, n))[1] \in Results
  BY <1>2, <1>3, ParseTypes
<1> QED
  BY <1>4, PrecededNothing

\* A parser that has seen nothing is at the start.
LEMMA FromTheStart ==
    /\ ParserTypes /\ arrived = 0 /\ buffer = <<>>
    /\ returned = <<>> /\ discarded = 0 /\ oversized = 0
    => ReadTo(0)
<1> SUFFICES ASSUME ParserTypes, arrived = 0, buffer = <<>>,
                    returned = <<>>, discarded = 0, oversized = 0
             PROVE  ReadTo(0)
  OBVIOUS
<1>1. stream \in Seq(ByteValues) /\ Len(stream) \in Nat
  BY LenProperties DEF ParserTypes
<1>2. \A n \in 0 .. Len(stream) :
         Parse(SubSeq(stream, 1, n))[1] = Preceded(<<>>, 0, 0, Parse(SubSeq(stream, 1, n))[1])
  BY <1>1, WholePass
<1>3. SubSeq(stream, 0 + 1, 0) = <<>> /\ 0 + 1 = 1
  BY SubSeqEmpty
<1> QED
  BY <1>2, <1>3 DEF ReadTo

\* The same, of the next state.
LEMMA FromTheStartNext ==
    (/\ ParserTypes /\ arrived = 0 /\ buffer = <<>>
     /\ returned = <<>> /\ discarded = 0 /\ oversized = 0
     => ReadTo(0))'
  BY FromTheStart, PTL

\* The invariant holds of a new parser.
LEMMA ParserStarts == FrameInit => ParserInv
<1> SUFFICES ASSUME FrameInit
             PROVE  ParserInv
  OBVIOUS
<1>1. /\ stream = <<>> /\ arrived = 0 /\ buffer = <<>> /\ returned = <<>> /\ discarded = 0
      /\ oversized = 0 /\ busy = FALSE
  BY DEF FrameInit
<1>2. ParserTypes /\ KeepsOpenOnly /\ FreshParser
  <2>1. <<>> \in Seq(ByteValues) /\ <<>> \in Seq(Seq(ByteValues)) /\ 0 \in 0 .. Len(<<>>)
    OBVIOUS
  <2> QED
    BY <1>1, <2>1 DEF ParserTypes, KeepsOpenOnly, FreshParser
<1>3. ReadTo(0)
  BY <1>1, <1>2, FromTheStart
<1> QED
  BY <1>1, <1>2, <1>3 DEF ParserInv

\* It does not depend on what the stream will be.
LEMMA ChooseStreamInv == ParserInv /\ ChooseStream => ParserInv'
<1> SUFFICES ASSUME ParserInv, ChooseStream
             PROVE  ParserInv'
  OBVIOUS
<1>1. /\ stream = <<>> /\ stream' \in [1 .. StreamLength -> ByteValues]
      /\ UNCHANGED <<arrived, buffer, returned, discarded, oversized, busy>>
  BY DEF ChooseStream
<1>2. ParserTypes /\ KeepsOpenOnly /\ FreshParser
  BY DEF ParserInv
<1>3. arrived = 0
  BY <1>1, <1>2 DEF ParserTypes
<1>4. returned = <<>> /\ discarded = 0 /\ oversized = 0 /\ busy = FALSE
  BY <1>2, <1>3 DEF FreshParser
<1>5. buffer = <<>>
  <2>1. PICK p \in 0 .. arrived : ReadTo(p)
    BY DEF ParserInv
  <2>2. buffer \in Seq(ByteValues) /\ Len(buffer) = 0
    BY <1>2, <1>3, <2>1, BufferIs
  <2> QED
    BY <2>2, EmptySeq
<1>6. stream' \in Seq(ByteValues) /\ Len(stream') \in Nat
  <2>1. StreamLength \in Nat
    BY FramingAssumption
  <2>2. stream' \in Seq(ByteValues)
    BY <1>1, <2>1
  <2> QED
    BY <2>2, LenProperties
<1>7. ParserTypes' /\ KeepsOpenOnly' /\ FreshParser'
  BY <1>1, <1>2, <1>3, <1>4, <1>5, <1>6 DEF ParserTypes, KeepsOpenOnly, FreshParser
<1>8. ReadTo(0)'
  BY <1>1, <1>3, <1>4, <1>5, <1>6, <1>7, FromTheStartNext
<1>9. 0 \in 0 .. arrived'
  BY <1>1, <1>3
<1> QED
  BY <1>7, <1>8, <1>9 DEF ParserInv

\* More bytes only lengthen the buffer.
LEMMA FeedInv == ParserInv /\ Feed => ParserInv'
<1> SUFFICES ASSUME ParserInv, Feed
             PROVE  ParserInv'
  OBVIOUS
<1>1. PICK upto \in arrived + 1 .. Len(stream) :
         /\ arrived' = upto /\ buffer' = buffer \o SubSeq(stream, arrived + 1, upto)
         /\ busy' = TRUE /\ UNCHANGED <<stream, returned, discarded, oversized>>
  BY DEF Feed
<1>2. PICK p \in 0 .. arrived : ReadTo(p)
  BY DEF ParserInv
<1>3. ParserTypes
  BY DEF ParserInv
<1>4. /\ stream \in Seq(ByteValues) /\ Len(stream) \in Nat /\ arrived \in Nat /\ p \in Nat
      /\ arrived <= Len(stream) /\ buffer \in Seq(ByteValues) /\ Len(buffer) = arrived - p
      /\ \A j \in 1 .. arrived - p : buffer[j] = stream[p + j]
  BY <1>2, <1>3, BufferIs
<1>5. buffer' = SubSeq(stream, p + 1, upto)
  <2>1. PICK t, u, n, m : /\ t = SubSeq(stream, arrived + 1, upto) /\ u = SubSeq(stream, p + 1, upto)
                          /\ n = arrived - p /\ m = upto - arrived
    OBVIOUS
  <2>2. /\ n \in Nat /\ m \in Nat /\ upto - p = n + m /\ upto \in 0 .. Len(stream)
        /\ upto - (arrived + 1) + 1 = m /\ upto - (p + 1) + 1 = n + m
        /\ arrived + 1 \in 1 .. Len(stream) + 1 /\ p + 1 \in 1 .. Len(stream) + 1
        /\ arrived + 1 <= upto + 1 /\ p + 1 <= upto + 1
    BY <1>4, <2>1
  <2>3. t \in Seq(ByteValues) /\ Len(t) = m /\ \A i \in 1 .. m : t[i] = stream[arrived + 1 + i - 1]
    BY <1>4, <2>1, <2>2, PieceOf
  <2>4. /\ u \in Seq(ByteValues) /\ Len(u) = n + m
        /\ \A i \in 1 .. n + m : u[i] = stream[p + 1 + i - 1]
    BY <1>4, <2>1, <2>2, PieceOf
  <2>5. /\ buffer \o t \in Seq(ByteValues) /\ Len(buffer \o t) = n + m
        /\ \A i \in 1 .. n + m : (buffer \o t)[i] = IF i <= n THEN buffer[i] ELSE t[i - n]
    <3>1. PICK b \in Seq(ByteValues) : b = buffer
      BY <1>4
    <3>2. /\ b \o t \in Seq(ByteValues) /\ Len(b \o t) = Len(b) + Len(t)
          /\ \A i \in 1 .. Len(b) + Len(t) : (b \o t)[i] = IF i <= Len(b) THEN b[i] ELSE t[i - Len(b)]
      BY <2>3, ConcatProperties
    <3>3. Len(b) = n /\ Len(t) = m
      BY <1>4, <2>1, <2>3, <3>1
    <3> QED
      BY <3>1, <3>2, <3>3
  <2>6. ASSUME NEW i \in 1 .. n + m
        PROVE  (buffer \o t)[i] = u[i]
    <3>1. u[i] = stream[p + i]
      <4>1. p + 1 + i - 1 = p + i
        BY <1>4
      <4> QED
        BY <2>4, <4>1
    <3>2. CASE i <= n
      <4>1. i \in 1 .. arrived - p
        BY <2>1, <2>2, <3>2
      <4> QED
        BY <1>4, <2>5, <3>1, <3>2, <4>1
    <3>3. CASE ~(i <= n)
      <4>1. i - n \in 1 .. m /\ arrived + 1 + (i - n) - 1 = p + i
        BY <1>4, <2>1, <2>2, <3>3
      <4> QED
        BY <2>3, <2>5, <3>1, <3>3, <4>1
    <3> QED
      BY <3>2, <3>3
  <2>7. buffer \o t = u
    BY <2>4, <2>5, <2>6, SeqEqual
  <2> QED
    BY <1>1, <2>1, <2>7
<1>6. ReadTo(p)'
  <2>1. \A n \in upto .. Len(stream) : n \in arrived .. Len(stream)
    BY <1>4
  <2> QED
    BY <1>1, <1>2, <1>5, <2>1 DEF ReadTo
<1>7. ParserTypes' /\ KeepsOpenOnly' /\ FreshParser' /\ p \in 0 .. arrived'
  <2>1. arrived' \in 0 .. Len(stream) /\ arrived' # 0 /\ p \in 0 .. arrived'
    BY <1>1, <1>4
  <2> QED
    BY <1>1, <1>3, <2>1 DEF ParserTypes, KeepsOpenOnly, FreshParser
<1> QED
  BY <1>6, <1>7 DEF ParserInv

\* A buffer without a magic pair is noise, but for a last byte that may begin
\* one.
LEMMA NoMagicInv == ParserInv /\ NoMagic => ParserInv'
<1> SUFFICES ASSUME ParserInv, NoMagic
             PROVE  ParserInv'
  OBVIOUS
<1>1. /\ busy /\ MagicPositions = {}
      /\ buffer' = IF buffer # <<>> /\ Last(buffer) = Magic1 THEN <<Magic1>> ELSE <<>>
      /\ discarded' = discarded + Len(buffer) - Len(buffer')
      /\ busy' = FALSE /\ UNCHANGED <<stream, arrived, returned, oversized>>
  BY DEF NoMagic
<1>2. PICK p \in 0 .. arrived : ReadTo(p)
  BY DEF ParserInv
<1>3. ParserTypes
  BY DEF ParserInv
<1>4. /\ stream \in Seq(ByteValues) /\ Len(stream) \in Nat /\ arrived \in Nat /\ p \in Nat
      /\ arrived <= Len(stream) /\ buffer \in Seq(ByteValues) /\ Len(buffer) = arrived - p
      /\ \A j \in 1 .. arrived - p : buffer[j] = stream[p + j]
      /\ returned \in Seq(Seq(ByteValues)) /\ discarded \in Nat /\ oversized \in Nat
  BY <1>2, <1>3, BufferIs DEF ParserTypes
<1>5. buffer # <<>> => arrived - p > 0 /\ Last(buffer) = stream[arrived]
  <2>1. buffer # <<>> => Len(buffer) # 0
    BY <1>4, EmptySeq
  <2>2. arrived - p > 0 => arrived - p \in 1 .. arrived - p /\ p + (arrived - p) = arrived
    BY <1>4
  <2> QED
    BY <1>4, <2>1, <2>2 DEF Last
<1>6. PICK q \in p .. arrived :
         /\ buffer' = SubSeq(stream, q + 1, arrived) /\ Len(buffer') = arrived - q
         /\ q = arrived /\ q # p => stream[q] # Magic1
         /\ buffer' = <<>> \/ Kind(buffer', 1) = "open"
  <2>1. CASE buffer # <<>> /\ Last(buffer) = Magic1
    <3>1. arrived \in 1 .. Len(stream) /\ stream[arrived] = Magic1 /\ buffer' = <<Magic1>>
      BY <1>1, <1>4, <1>5, <2>1
    <3>2. PICK u : u = SubSeq(stream, arrived, arrived)
      OBVIOUS
    <3>3. u \in Seq(ByteValues) /\ Len(u) = 1 /\ u[1] = stream[arrived]
      <4>1. /\ arrived \in 1 .. Len(stream) + 1 /\ arrived \in 0 .. Len(stream)
            /\ arrived <= arrived + 1 /\ arrived - arrived + 1 = 1 /\ 1 \in 1 .. 1
            /\ arrived + 1 - 1 = arrived
        BY <1>4, <3>1
      <4> QED
        BY <1>4, <3>2, <4>1, PieceOf
    <3>4. u = <<Magic1>>
      BY <3>1, <3>3
    <3>5. Kind(<<Magic1>>, 1) = "open"
      BY DEF Kind, HeaderSize
    <3>6. /\ arrived - 1 \in p .. arrived /\ (arrived - 1) + 1 = arrived
          /\ arrived - (arrived - 1) = 1 /\ arrived - 1 # arrived
      BY <1>4, <1>5, <2>1
    <3>7. Len(buffer') = 1
      BY <3>1
    <3> QED
      BY <3>1, <3>2, <3>4, <3>5, <3>6, <3>7
  <2>2. CASE ~(buffer # <<>> /\ Last(buffer) = Magic1)
    <3>1. buffer' = <<>> /\ Len(buffer') = 0
      BY <1>1, <2>2
    <3>2. SubSeq(stream, arrived + 1, arrived) = <<>>
      BY <1>4, SubSeqEmpty
    <3>3. arrived \in p .. arrived /\ arrived - arrived = 0
      BY <1>4
    <3>4. arrived # p => stream[arrived] # Magic1
      <4>1. arrived # p => buffer # <<>>
        BY <1>4
      <4> QED
        BY <1>5, <2>2, <4>1
    <3> QED
      BY <3>1, <3>2, <3>3, <3>4
  <2> QED
    BY <2>1, <2>2
<1>7. discarded' = discarded + (q - p) /\ q - p \in Nat
  BY <1>1, <1>4, <1>6
<1>8. ReadTo(q)' /\ discarded' \in Nat
  <2>1. /\ <<>> \in Seq(Seq(ByteValues)) /\ 0 \in Nat
        /\ returned' = returned \o <<>> /\ oversized' = oversized + 0
    BY <1>1, <1>4, ConcatEmptySeq
  <2>2. ASSUME NEW n \in arrived .. Len(stream)
        PROVE  Parse(SubSeq(stream, 1, n))[p + 1] =
                 Preceded(<<>>, q - p, 0, Parse(SubSeq(stream, 1, n))[q + 1])
    BY <1>1, <1>2, <1>3, <1>6, NoiseBefore
  <2>3. Moves(p, q, <<>>, q - p, 0)
    BY <1>1, <1>6, <1>7, <2>1, <2>2 DEF Moves
  <2> QED
    BY <1>2, <1>3, <1>7, <2>1, <2>3, MovesOn
<1>9. ParserTypes' /\ KeepsOpenOnly' /\ FreshParser' /\ q \in 0 .. arrived'
  <2>1. arrived' # 0 /\ q \in 0 .. arrived'
    BY <1>1, <1>4 DEF ParserInv, FreshParser
  <2>2. ParserTypes'
    BY <1>1, <1>3, <1>8 DEF ParserTypes
  <2>3. KeepsOpenOnly'
    BY <1>6 DEF KeepsOpenOnly
  <2> QED
    BY <2>1, <2>2, <2>3 DEF FreshParser
<1> QED
  BY <1>8, <1>9 DEF ParserInv

\* The buffer from the first magic on.
LEMMA ScanFacts ==
    ASSUME ParserTypes, NEW p \in 0 .. arrived, ReadTo(p), MagicPositions # {},
           NEW rest, rest = SubSeq(buffer, Min(MagicPositions), Len(buffer))
    PROVE  \E q \in p .. arrived :
             /\ rest = SubSeq(stream, q + 1, arrived) /\ rest \in Seq(ByteValues)
             /\ Len(rest) = arrived - q /\ Len(rest) >= 2
             /\ discarded + Len(buffer) - Len(rest) = discarded + (q - p)
             /\ stream[q + 1] = Magic1 /\ stream[q + 2] = Magic2
             /\ \A n \in arrived .. Len(stream) :
                  Parse(SubSeq(stream, 1, n))[p + 1] =
                    Preceded(<<>>, q - p, 0, Parse(SubSeq(stream, 1, n))[q + 1])
<1>1. /\ stream \in Seq(ByteValues) /\ Len(stream) \in Nat /\ arrived \in Nat /\ p \in Nat
      /\ arrived <= Len(stream) /\ buffer \in Seq(ByteValues) /\ Len(buffer) = arrived - p
  BY BufferIs
<1>2. PICK m : m = Min(MagicPositions) /\ m \in MagicPositions /\ \A j \in MagicPositions : m <= j
  <2>1. MagicPositions \in SUBSET Nat
    BY <1>1, LenProperties DEF MagicPositions
  <2> QED
    BY <2>1, MinOf
<1>3. m \in 1 .. arrived - p
  BY <1>1, <1>2, LenProperties DEF MagicPositions
<1>4. m < arrived - p /\ stream[p + m] = Magic1 /\ stream[p + m + 1] = Magic2
  BY <1>2, <1>3, MagicIs
<1>5. PICK q : q = p + m - 1
  OBVIOUS
<1>6. /\ q \in p .. arrived /\ q # arrived /\ q + 1 = p + m /\ q + 2 = p + m + 1
      /\ p + (arrived - p) = arrived /\ arrived - p <= arrived - p + 1
      /\ arrived - p \in 0 .. arrived - p /\ m \in 1 .. arrived - p + 1
      /\ m <= (arrived - p) + 1
      /\ arrived - q >= 2 /\ (arrived - p) - (arrived - q) = q - p /\ q - p = m - 1
      /\ arrived - (q + 1) + 1 = arrived - q /\ q + 1 \in 1 .. Len(stream) + 1
      /\ arrived \in 0 .. Len(stream) /\ q + 1 <= arrived + 1
  BY <1>1, <1>3, <1>4, <1>5
<1>7. rest = SubSeq(stream, q + 1, arrived)
  <2>1. SubSeq(buffer, m, arrived - p) = SubSeq(stream, p + m, p + (arrived - p))
    BY <1>6, PieceOfBuffer
  <2> QED
    BY <1>1, <1>2, <1>6, <2>1
<1>8. rest \in Seq(ByteValues) /\ Len(rest) = arrived - q
  BY <1>1, <1>6, <1>7, PieceOf
<1>9. \A j \in 1 .. q - p : j \notin MagicPositions
  <2>1. \A j \in 1 .. q - p : ~(m <= j)
    BY <1>1, <1>3, <1>6
  <2> QED
    BY <1>2, <2>1
<1>10. ASSUME NEW n \in arrived .. Len(stream)
       PROVE  Parse(SubSeq(stream, 1, n))[p + 1] =
                Preceded(<<>>, q - p, 0, Parse(SubSeq(stream, 1, n))[q + 1])
  BY <1>6, <1>9, NoiseBefore
<1>11. /\ Len(rest) >= 2
       /\ discarded + Len(buffer) - Len(rest) = discarded + (q - p)
       /\ stream[q + 1] = Magic1 /\ stream[q + 2] = Magic2
  <2>1. Len(rest) >= 2
    BY <1>6, <1>8
  <2>2. discarded + Len(buffer) - Len(rest) = discarded + (q - p)
    <3>1. discarded \in Nat /\ q \in Nat
      BY <1>1, <1>6 DEF ParserTypes
    <3>2. discarded + (arrived - p) - (arrived - q) = discarded + (q - p)
      BY <1>1, <3>1
    <3> QED
      BY <1>1, <1>8, <3>2
  <2>3. stream[q + 1] = Magic1 /\ stream[q + 2] = Magic2
    BY <1>4, <1>6
  <2> QED
    BY <2>1, <2>2, <2>3
<1>12. q \in p .. arrived
  BY <1>6
<1> QED
  BY <1>7, <1>8, <1>10, <1>11, <1>12

\* What the header of the rest says of the stream.
LEMMA RestKind ==
    ASSUME NEW s \in Seq(ByteValues), NEW c \in 0 .. Len(s), NEW q \in 0 .. c - 2,
           NEW rest, rest = SubSeq(s, q + 1, c), s[q + 1] = Magic1, s[q + 2] = Magic2
    PROVE  /\ Kind(rest, 1) = KindIn(s, c, q + 1)
           /\ c - q >= HeaderSize => /\ PayloadSize(rest, 1) = PayloadSize(s, q + 1)
                                     /\ PayloadSize(s, q + 1) \in Nat
           /\ \A n \in c .. Len(s) : Kind(SubSeq(s, 1, n), q + 1) = KindIn(s, n, q + 1)
<1>1. Len(s) \in Nat /\ c \in Nat /\ q \in Nat /\ q <= c - 2
  BY LenProperties
<1>2. /\ q + 1 \in 1 .. Len(s) /\ c \in q + 1 .. Len(s) /\ 1 \in 1 .. c - (q + 1) + 1
      /\ (q + 1) + 1 - 1 = q + 1
  BY <1>1
<1>3. /\ Kind(rest, 1) = KindIn(s, c, q + 1)
      /\ 1 + 3 <= c - (q + 1) + 1 => PayloadSize(rest, 1) = PayloadSize(s, q + 1)
  BY <1>2, KindOfPiece
<1>4. c - q >= HeaderSize => 1 + 3 <= c - (q + 1) + 1 /\ Len(s) - (q + 1) + 1 >= HeaderSize
  BY <1>1 DEF HeaderSize
<1>5. c - q >= HeaderSize => PayloadSize(s, q + 1) \in Nat
  BY <1>2, <1>4, SizeIsNumber
<1>6. ASSUME NEW n \in c .. Len(s)
      PROVE  Kind(SubSeq(s, 1, n), q + 1) = KindIn(s, n, q + 1)
  <2>1. n \in 1 .. Len(s) /\ q + 1 \in 1 .. n
    BY <1>1
  <2> QED
    BY <2>1, KindOfPrefix
<1> QED
  BY <1>3, <1>4, <1>5, <1>6

\* A frame of which bytes are missing waits at the start of the buffer.
LEMMA IncompleteInv ==
    ASSUME ParserTypes, NEW p \in 0 .. arrived, ReadTo(p), MagicPositions # {}, arrived # 0,
           NEW rest, rest = SubSeq(buffer, Min(MagicPositions), Len(buffer)), Incomplete(rest)
    PROVE  ParserInv'
<1>1. PICK q \in p .. arrived :
         /\ rest = SubSeq(stream, q + 1, arrived) /\ rest \in Seq(ByteValues)
         /\ Len(rest) = arrived - q /\ Len(rest) >= 2
         /\ discarded + Len(buffer) - Len(rest) = discarded + (q - p)
         /\ stream[q + 1] = Magic1 /\ stream[q + 2] = Magic2
         /\ \A n \in arrived .. Len(stream) :
              Parse(SubSeq(stream, 1, n))[p + 1] =
                Preceded(<<>>, q - p, 0, Parse(SubSeq(stream, 1, n))[q + 1])
  BY ScanFacts
<1>2. /\ stream \in Seq(ByteValues) /\ Len(stream) \in Nat /\ arrived \in Nat /\ p \in Nat
      /\ arrived <= Len(stream) /\ q \in 0 .. arrived - 2 /\ q - p \in Nat
      /\ returned \in Seq(Seq(ByteValues)) /\ discarded \in Nat /\ oversized \in Nat
  <2>1. /\ stream \in Seq(ByteValues) /\ Len(stream) \in Nat /\ arrived \in Nat /\ p \in Nat
        /\ arrived <= Len(stream)
    BY BufferIs
  <2> QED
    BY <1>1, <2>1 DEF ParserTypes
<1>3. /\ buffer' = rest /\ discarded' = discarded + Len(buffer) - Len(rest) /\ busy' = FALSE
      /\ UNCHANGED <<stream, arrived, returned, oversized>>
  BY DEF Incomplete
<1>4. ReadTo(q)' /\ discarded' \in Nat
  <2>1. /\ <<>> \in Seq(Seq(ByteValues)) /\ 0 \in Nat
        /\ returned' = returned \o <<>> /\ oversized' = oversized + 0
    BY <1>2, <1>3, ConcatEmptySeq
  <2>2. Moves(p, q, <<>>, q - p, 0)
    BY <1>1, <1>3, <2>1 DEF Moves
  <2> QED
    BY <1>2, <2>1, <2>2, MovesOn
<1>5. Kind(rest, 1) = "open"
  <2>1. /\ Kind(rest, 1) = KindIn(stream, arrived, q + 1)
        /\ arrived - q >= HeaderSize => /\ PayloadSize(rest, 1) = PayloadSize(stream, q + 1)
                                        /\ PayloadSize(stream, q + 1) \in Nat
    <3>1. arrived \in 0 .. Len(stream)
      BY <1>2
    <3> QED
      BY <1>1, <1>2, <3>1, RestKind
  <2>2. \/ arrived - q < HeaderSize
        \/ /\ arrived - q >= HeaderSize /\ ~(PayloadSize(stream, q + 1) > MaxPayload)
           /\ arrived - q < HeaderSize + PayloadSize(stream, q + 1)
    BY <1>1, <1>2, <2>1, FramingAssumption DEF Incomplete
  <2>3. arrived - (q + 1) + 1 = arrived - q /\ q + 1 + 1 = q + 2
    BY <1>2
  <2> QED
    BY <1>1, <2>1, <2>2, <2>3 DEF KindIn
<1>6. q \in 0 .. arrived' /\ arrived' # 0
  BY <1>2, <1>3
<1>7. ParserTypes' /\ KeepsOpenOnly' /\ FreshParser'
  BY <1>3, <1>4, <1>5, <1>6 DEF ParserTypes, KeepsOpenOnly, FreshParser
<1> QED
  BY <1>4, <1>6, <1>7 DEF ParserInv

\* The noise before a frame, and the frame.
LEMMA PrecededSkip ==
    ASSUME NEW d \in Nat, NEW r \in Results
    PROVE  /\ Preceded(<<>>, d, 0, Preceded(<<>>, 1, 1, r)) = Preceded(<<>>, d + 1, 1, r)
           /\ \A f \in Seq(Seq(ByteValues)) : Preceded(<<>>, d, 0, Preceded(f, 0, 0, r)) = Preceded(f, d, 0, r)
<1>1. PICK e \in Seq(Seq(ByteValues)), a \in Nat, b \in Nat : e = <<>> /\ a = 0 /\ b = 1
  <2>1. <<>> \in Seq(Seq(ByteValues)) /\ 0 \in Nat /\ 1 \in Nat
    OBVIOUS
  <2> QED
    BY <2>1
<1>2. /\ e \o e = e /\ a + b = b /\ d + a = d /\ a + a = a
      /\ \A f \in Seq(Seq(ByteValues)) : e \o f = f
  BY <1>1, ConcatEmptySeq
<1>3. Preceded(e, d, a, Preceded(e, b, b, r)) = Preceded(e \o e, d + b, a + b, r)
  BY PrecededBoth
<1>4. \A f \in Seq(Seq(ByteValues)) :
         Preceded(e, d, a, Preceded(f, a, a, r)) = Preceded(e \o f, d + a, a + a, r)
  BY PrecededBoth
<1>5. Preceded(e, d, a, Preceded(e, b, b, r)) = Preceded(e, d + b, b, r)
  BY <1>2, <1>3
<1>6. \A f \in Seq(Seq(ByteValues)) : Preceded(e, d, a, Preceded(f, a, a, r)) = Preceded(f, d, a, r)
  BY <1>2, <1>4
<1> QED
  BY <1>1, <1>5, <1>6, Zenon

\* The tail of a piece is the next piece.
LEMMA TailOfPiece ==
    ASSUME NEW s \in Seq(ByteValues), NEW c \in 0 .. Len(s), NEW k \in 1 .. c
    PROVE  Tail(SubSeq(s, k, c)) = SubSeq(s, k + 1, c)
<1>1. PICK t, u, n : t = SubSeq(s, k, c) /\ u = SubSeq(s, k + 1, c) /\ n = c - k
  OBVIOUS
<1>2. /\ Len(s) \in Nat /\ n \in Nat /\ c - k + 1 = n + 1 /\ c - (k + 1) + 1 = n
      /\ k \in 1 .. Len(s) + 1 /\ k + 1 \in 1 .. Len(s) + 1 /\ k <= c + 1 /\ k + 1 <= c + 1
  BY <1>1, LenProperties
<1>3. t \in Seq(ByteValues) /\ Len(t) = n + 1 /\ \A i \in 1 .. n + 1 : t[i] = s[k + i - 1]
  BY <1>1, <1>2, PieceOf
<1>4. u \in Seq(ByteValues) /\ Len(u) = n /\ \A i \in 1 .. n : u[i] = s[k + 1 + i - 1]
  BY <1>1, <1>2, PieceOf
<1>5. /\ Tail(t) \in Seq(ByteValues) /\ Len(Tail(t)) = n
      /\ \A i \in 1 .. n : Tail(t)[i] = t[i + 1]
  <2>1. t # <<>>
    BY <1>2, <1>3
  <2>2. /\ Tail(t) \in Seq(ByteValues) /\ Len(Tail(t)) = Len(t) - 1
        /\ \A i \in 1 .. Len(Tail(t)) : Tail(t)[i] = t[i + 1]
    BY <1>3, <2>1, HeadTailProperties
  <2> QED
    BY <1>2, <1>3, <2>2
<1>6. ASSUME NEW i \in 1 .. n
      PROVE  Tail(t)[i] = u[i]
  <2>1. i + 1 \in 1 .. n + 1 /\ k + (i + 1) - 1 = k + 1 + i - 1
    BY <1>2
  <2> QED
    BY <1>3, <1>4, <1>5, <2>1
<1>7. Tail(t) = u
  BY <1>4, <1>5, <1>6, SeqEqual
<1> QED
  BY <1>1, <1>7

\* A header with too large a size loses its first byte.
LEMMA OversizedInv ==
    ASSUME ParserTypes, NEW p \in 0 .. arrived, ReadTo(p), MagicPositions # {}, arrived # 0, busy,
           NEW rest, rest = SubSeq(buffer, Min(MagicPositions), Len(buffer)), Oversized(rest)
    PROVE  ParserInv'
<1>1. PICK q \in p .. arrived :
         /\ rest = SubSeq(stream, q + 1, arrived) /\ rest \in Seq(ByteValues)
         /\ Len(rest) = arrived - q /\ Len(rest) >= 2
         /\ discarded + Len(buffer) - Len(rest) = discarded + (q - p)
         /\ stream[q + 1] = Magic1 /\ stream[q + 2] = Magic2
         /\ \A n \in arrived .. Len(stream) :
              Parse(SubSeq(stream, 1, n))[p + 1] =
                Preceded(<<>>, q - p, 0, Parse(SubSeq(stream, 1, n))[q + 1])
  BY ScanFacts
<1>2. /\ stream \in Seq(ByteValues) /\ Len(stream) \in Nat /\ arrived \in Nat /\ p \in Nat
      /\ arrived <= Len(stream) /\ q \in 0 .. arrived - 2 /\ q - p \in Nat
      /\ returned \in Seq(Seq(ByteValues)) /\ discarded \in Nat /\ oversized \in Nat
  <2>1. /\ stream \in Seq(ByteValues) /\ Len(stream) \in Nat /\ arrived \in Nat /\ p \in Nat
        /\ arrived <= Len(stream)
    BY BufferIs
  <2> QED
    BY <1>1, <2>1 DEF ParserTypes
<1>3. /\ Len(rest) >= HeaderSize /\ PayloadSize(rest, 1) > MaxPayload
      /\ buffer' = Tail(rest) /\ discarded' = discarded + Len(buffer) - Len(rest) + 1
      /\ oversized' = oversized + 1
      /\ UNCHANGED <<stream, arrived, returned, busy>>
  BY DEF Oversized
<1>4. ASSUME NEW n \in arrived .. Len(stream)
      PROVE  Parse(SubSeq(stream, 1, n))[p + 1] =
               Preceded(<<>>, q - p + 1, 1, Parse(SubSeq(stream, 1, n))[q + 2])
  <2>1. PICK bytes : bytes = SubSeq(stream, 1, n)
    OBVIOUS
  <2>2. /\ bytes \in Seq(ByteValues) /\ Len(bytes) = n /\ q + 1 \in 1 .. n /\ q + 1 + 1 = q + 2
        /\ q + 2 \in 1 .. n + 1
    <3>1. /\ 1 \in 1 .. Len(stream) + 1 /\ n \in 0 .. Len(stream) /\ 1 <= n + 1 /\ n - 1 + 1 = n
          /\ q + 1 \in 1 .. n /\ q + 1 + 1 = q + 2 /\ q + 2 \in 1 .. n + 1
      BY <1>2
    <3> QED
      BY <1>2, <2>1, <3>1, PieceOf
  <2>3. /\ Kind(bytes, q + 1) = KindIn(stream, n, q + 1)
        /\ PayloadSize(stream, q + 1) > MaxPayload
    <3>1. arrived \in 0 .. Len(stream)
      BY <1>2
    <3>2. /\ arrived - q >= HeaderSize => PayloadSize(rest, 1) = PayloadSize(stream, q + 1)
          /\ \A k \in arrived .. Len(stream) :
               Kind(SubSeq(stream, 1, k), q + 1) = KindIn(stream, k, q + 1)
      BY <1>1, <1>2, <3>1, RestKind
    <3> QED
      BY <1>1, <1>3, <2>1, <3>2
  <2>4. Kind(bytes, q + 1) = "oversized"
    <3>1. n - (q + 1) + 1 >= HeaderSize /\ ~(n - (q + 1) + 1 < HeaderSize)
      BY <1>1, <1>2, <1>3 DEF HeaderSize
    <3> QED
      BY <1>1, <2>2, <2>3, <3>1 DEF KindIn
  <2>5. PICK r \in Results : r = Parse(bytes)[q + 2]
    BY <2>2, ParseTypes
  <2>6. Parse(bytes)[q + 1] = Preceded(<<>>, 1, 1, r)
    BY <2>2, <2>4, <2>5, ParseSteps
  <2>7. Parse(bytes)[p + 1] = Preceded(<<>>, q - p, 0, Parse(bytes)[q + 1])
    BY <1>1, <2>1
  <2>8. Preceded(<<>>, q - p, 0, Preceded(<<>>, 1, 1, r)) = Preceded(<<>>, q - p + 1, 1, r)
    BY <1>2, PrecededSkip
  <2> QED
    BY <2>1, <2>5, <2>6, <2>7, <2>8, Zenon
<1>5. buffer' = SubSeq(stream, (q + 1) + 1, arrived)
  <2>1. PICK c \in Nat, k \in Nat : c = arrived /\ k = q + 1
    BY <1>2
  <2>2. k \in 1 .. c /\ c \in 0 .. Len(stream)
    BY <1>2, <2>1
  <2>3. Tail(SubSeq(stream, k, c)) = SubSeq(stream, k + 1, c)
    BY <1>2, <2>2, TailOfPiece
  <2> QED
    BY <1>1, <1>3, <2>1, <2>3
<1>6. PICK k \in p .. arrived : k = q + 1 /\ k + 1 = q + 2 /\ k \in 0 .. arrived
  BY <1>2
<1>7. ReadTo(k)' /\ discarded' \in Nat /\ oversized' \in Nat
  <2>1. /\ <<>> \in Seq(Seq(ByteValues)) /\ 1 \in Nat /\ q - p + 1 \in Nat
        /\ returned' = returned \o <<>>
    BY <1>2, <1>3, ConcatEmptySeq
  <2>2. discarded' = discarded + (q - p + 1)
    <3>1. PICK x : x = discarded + Len(buffer) - Len(rest)
      OBVIOUS
    <3>2. x = discarded + (q - p)
      BY <1>1, <3>1
    <3>3. discarded' = x + 1
      BY <1>3, <3>1
    <3> QED
      BY <1>2, <3>2, <3>3
  <2>3. Moves(p, k, <<>>, q - p + 1, 1)
    BY <1>3, <1>4, <1>5, <1>6, <2>1, <2>2 DEF Moves
  <2> QED
    BY <1>6, <2>1, <2>3, MovesOn
<1>8. ParserTypes' /\ KeepsOpenOnly' /\ FreshParser'
  BY <1>3, <1>7 DEF ParserTypes, KeepsOpenOnly, FreshParser
<1> QED
  BY <1>3, <1>6, <1>7, <1>8 DEF ParserInv

\* A frame that is there is returned.
LEMMA CompleteInv ==
    ASSUME ParserTypes, NEW p \in 0 .. arrived, ReadTo(p), MagicPositions # {}, arrived # 0, busy,
           NEW rest, rest = SubSeq(buffer, Min(MagicPositions), Len(buffer)), Complete(rest)
    PROVE  ParserInv'
<1>1. PICK q \in p .. arrived :
         /\ rest = SubSeq(stream, q + 1, arrived) /\ rest \in Seq(ByteValues)
         /\ Len(rest) = arrived - q /\ Len(rest) >= 2
         /\ discarded + Len(buffer) - Len(rest) = discarded + (q - p)
         /\ stream[q + 1] = Magic1 /\ stream[q + 2] = Magic2
         /\ \A n \in arrived .. Len(stream) :
              Parse(SubSeq(stream, 1, n))[p + 1] =
                Preceded(<<>>, q - p, 0, Parse(SubSeq(stream, 1, n))[q + 1])
  BY ScanFacts
<1>2. /\ stream \in Seq(ByteValues) /\ Len(stream) \in Nat /\ arrived \in Nat /\ p \in Nat
      /\ arrived <= Len(stream) /\ q \in 0 .. arrived - 2 /\ q - p \in Nat
      /\ returned \in Seq(Seq(ByteValues)) /\ discarded \in Nat /\ oversized \in Nat
  <2>1. /\ stream \in Seq(ByteValues) /\ Len(stream) \in Nat /\ arrived \in Nat /\ p \in Nat
        /\ arrived <= Len(stream)
    BY BufferIs
  <2> QED
    BY <1>1, <2>1 DEF ParserTypes
<1>3. /\ Len(rest) >= HeaderSize /\ PayloadSize(rest, 1) <= MaxPayload
      /\ Len(rest) >= HeaderSize + PayloadSize(rest, 1)
      /\ returned' = Append(returned, SubSeq(rest, 1, HeaderSize + PayloadSize(rest, 1)))
      /\ buffer' = SubSeq(rest, HeaderSize + PayloadSize(rest, 1) + 1, Len(rest))
      /\ discarded' = discarded + Len(buffer) - Len(rest)
      /\ UNCHANGED <<stream, arrived, oversized, busy>>
  BY DEF Complete
<1>4. arrived \in 0 .. Len(stream)
  BY <1>2
<1>5. /\ PayloadSize(rest, 1) = PayloadSize(stream, q + 1) /\ PayloadSize(stream, q + 1) \in Nat
      /\ \A k \in arrived .. Len(stream) :
           Kind(SubSeq(stream, 1, k), q + 1) = KindIn(stream, k, q + 1)
  BY <1>1, <1>2, <1>3, <1>4, RestKind
<1>6. PICK z \in Nat : z = HeaderSize + PayloadSize(stream, q + 1) /\ z >= 4
  BY <1>5 DEF HeaderSize
<1>7. /\ arrived - q >= z /\ returned' = Append(returned, SubSeq(rest, 1, z))
      /\ buffer' = SubSeq(rest, z + 1, arrived - q)
  BY <1>1, <1>3, <1>5, <1>6
<1>8. /\ q \in Nat /\ arrived \in Nat /\ Len(stream) \in Nat /\ z >= 4 /\ p <= q /\ p \in Nat
      /\ q + z <= arrived /\ arrived <= Len(stream)
  <2>1. q \in Nat /\ arrived \in Nat /\ Len(stream) \in Nat /\ p \in Nat /\ arrived <= Len(stream)
    BY <1>2
  <2>2. p <= q
    BY <2>1
  <2>3. arrived - q >= z /\ z >= 4
    BY <1>6, <1>7
  <2> QED
    BY <2>1, <2>2, <2>3
<1>9. PICK f : f = SubSeq(stream, q + 1, q + z)
  OBVIOUS
<1>10. /\ SubSeq(rest, 1, z) = f /\ f \in Seq(ByteValues)
       /\ SubSeq(rest, z + 1, arrived - q) = SubSeq(stream, (q + z) + 1, arrived)
  <2>1. PICK c \in Nat : c = arrived
    BY <1>2
  <2>2. /\ c \in 0 .. Len(stream) /\ q \in 0 .. c /\ 1 \in 1 .. c - q + 1 /\ z \in 0 .. c - q
        /\ z + 1 \in 1 .. c - q + 1 /\ c - q \in 0 .. c - q /\ 1 <= z + 1 /\ z + 1 <= c - q + 1
        /\ q + (z + 1) = (q + z) + 1 /\ q + (c - q) = c
        /\ q + 1 \in 1 .. Len(stream) + 1 /\ q + z \in 0 .. Len(stream) /\ q + 1 <= q + z + 1
    BY <1>8, <2>1
  <2>3. rest = SubSeq(stream, q + 1, c)
    BY <1>1, <2>1
  <2>4. SubSeq(rest, 1, z) = SubSeq(stream, q + 1, q + z)
    BY <1>2, <2>2, <2>3, PieceOfPiece
  <2>5. SubSeq(rest, z + 1, c - q) = SubSeq(stream, q + (z + 1), q + (c - q))
    BY <1>2, <2>2, <2>3, PieceOfPiece
  <2>6. f \in Seq(ByteValues)
    BY <1>2, <1>9, <2>2, PieceOf
  <2> QED
    BY <1>9, <2>1, <2>2, <2>4, <2>5, <2>6
<1>11. ASSUME NEW n \in arrived .. Len(stream)
       PROVE  Parse(SubSeq(stream, 1, n))[p + 1] =
                Preceded(<<f>>, q - p, 0, Parse(SubSeq(stream, 1, n))[q + z + 1])
  <2>1. PICK bytes : bytes = SubSeq(stream, 1, n)
    OBVIOUS
  <2>2. /\ 1 \in 1 .. Len(stream) + 1 /\ n \in 0 .. Len(stream) /\ 1 <= n + 1 /\ n - 1 + 1 = n
        /\ q + 1 \in 1 .. n /\ (q + 1) + z = q + z + 1 /\ q + z + 1 \in 1 .. n + 1
        /\ (q + 1) + z - 1 = q + z /\ n - (q + 1) + 1 >= z /\ q + 1 + 1 = q + 2
        /\ q + 1 <= q + z + 1 /\ q + z \in 0 .. n /\ q + 1 \in 1 .. n + 1
        /\ 1 + (q + 1) - 1 = q + 1
    BY <1>8
  <2>3. bytes \in Seq(ByteValues) /\ Len(bytes) = n
    BY <1>2, <2>1, <2>2, PieceOf
  <2>4. Kind(bytes, q + 1) = "frame"
    <3>1. Kind(bytes, q + 1) = KindIn(stream, n, q + 1)
      BY <1>5, <2>1
    <3>2. ~(PayloadSize(stream, q + 1) > MaxPayload)
      BY <1>3, <1>5, FramingAssumption
    <3>3. ~(n - (q + 1) + 1 < HeaderSize) /\ ~(n - (q + 1) + 1 < z)
      BY <1>8 DEF HeaderSize
    <3> QED
      BY <1>1, <1>6, <2>2, <3>1, <3>2, <3>3 DEF KindIn
  <2>5. SubSeq(bytes, q + 1, q + z) = f /\ PayloadSize(bytes, q + 1) = PayloadSize(stream, q + 1)
    <3>1. 0 + (q + 1) = q + 1 /\ 0 + (q + z) = q + z /\ 0 \in 0 .. n /\ 0 + 1 = 1 /\ n - 0 = n
          /\ q + 1 \in 1 .. n - 0 + 1 /\ q + z \in 0 .. n - 0
      BY <1>2, <2>2
    <3>2. bytes = SubSeq(stream, 0 + 1, n)
      BY <2>1, <3>1
    <3>3. SubSeq(bytes, q + 1, q + z) = SubSeq(stream, 0 + (q + 1), 0 + (q + z))
      BY <1>2, <2>2, <3>1, <3>2, PieceOfPiece
    <3>4. (q + 1) + 3 <= n - 1 + 1 /\ 1 \in 1 .. Len(stream) /\ n \in 1 .. Len(stream)
          /\ q + 1 \in 1 .. n - 1 + 1
      BY <1>8
    <3>5. PayloadSize(bytes, q + 1) = PayloadSize(stream, 1 + (q + 1) - 1)
      BY <1>2, <2>1, <3>4, KindOfPiece
    <3> QED
      BY <1>9, <2>2, <3>1, <3>3, <3>5
  <2>6. PICK r \in Results : r = Parse(bytes)[q + z + 1]
    BY <2>2, <2>3, ParseTypes
  <2>7. Parse(bytes)[q + 1] = Preceded(<<f>>, 0, 0, r)
    <3>1. LET size == HeaderSize + PayloadSize(bytes, q + 1)
          IN  Parse(bytes)[q + 1] =
                Preceded(<<SubSeq(bytes, q + 1, (q + 1) + size - 1)>>, 0, 0, Parse(bytes)[(q + 1) + size])
      BY <2>2, <2>3, <2>4, ParseSteps
    <3>2. Parse(bytes)[q + 1] =
            Preceded(<<SubSeq(bytes, q + 1, (q + 1) + z - 1)>>, 0, 0, Parse(bytes)[(q + 1) + z])
      BY <1>6, <2>5, <3>1, Zenon
    <3> QED
      BY <2>2, <2>5, <2>6, <3>2
  <2>8. Parse(bytes)[p + 1] = Preceded(<<>>, q - p, 0, Parse(bytes)[q + 1])
    BY <1>1, <2>1
  <2>9. Preceded(<<>>, q - p, 0, Preceded(<<f>>, 0, 0, r)) = Preceded(<<f>>, q - p, 0, r)
    <3>1. <<f>> \in Seq(Seq(ByteValues))
      BY <1>10
    <3>2. PICK h \in Seq(Seq(ByteValues)) : h = <<f>>
      BY <3>1
    <3>3. Preceded(<<>>, q - p, 0, Preceded(h, 0, 0, r)) = Preceded(h, q - p, 0, r)
      BY <1>2, PrecededSkip
    <3> QED
      BY <3>2, <3>3, Zenon
  <2> QED
    BY <2>1, <2>6, <2>7, <2>8, <2>9, Zenon
<1>12. PICK k \in p .. arrived : k = q + z /\ k + 1 = q + z + 1 /\ k \in 0 .. arrived
  BY <1>8
<1>13. ReadTo(k)' /\ discarded' \in Nat /\ returned' \in Seq(Seq(ByteValues))
  <2>1. /\ <<f>> \in Seq(Seq(ByteValues)) /\ 0 \in Nat /\ oversized' = oversized + 0
        /\ returned' = returned \o <<f>>
    <3>1. <<f>> \in Seq(Seq(ByteValues)) /\ 0 \in Nat /\ oversized' = oversized + 0
      BY <1>2, <1>3, <1>10
    <3>2. Append(returned, f) = returned \o <<f>>
      BY <1>2, <1>10, AppendIsConcat
    <3> QED
      BY <1>7, <1>10, <3>1, <3>2
  <2>2. discarded' = discarded + (q - p)
    BY <1>1, <1>3
  <2>3. buffer' = SubSeq(stream, k + 1, arrived)
    BY <1>7, <1>10, <1>12
  <2>4. Moves(p, k, <<f>>, q - p, 0)
    BY <1>3, <1>11, <1>12, <2>1, <2>2, <2>3 DEF Moves
  <2> QED
    BY <1>2, <1>12, <2>1, <2>4, MovesOn
<1>14. ParserTypes' /\ KeepsOpenOnly' /\ FreshParser'
  BY <1>3, <1>13 DEF ParserTypes, KeepsOpenOnly, FreshParser
<1> QED
  BY <1>3, <1>12, <1>13, <1>14 DEF ParserInv

\* A parser that waits for bytes has returned what the pass over all of them
\* returns, and keeps what the pass leaves over.
LEMMA IdleMatches == ParserInv => FramesMatchReference
<1> SUFFICES ASSUME ParserInv, ~busy
             PROVE  [frames |-> returned, skipped |-> discarded, oversized |-> oversized,
                     rest |-> buffer] = Reference(SubSeq(stream, 1, arrived))
  BY DEF FramesMatchReference
<1>1. PICK p \in 0 .. arrived : ReadTo(p)
  BY DEF ParserInv
<1>2. ParserTypes /\ (buffer = <<>> \/ Kind(buffer, 1) = "open")
  BY DEF ParserInv, KeepsOpenOnly
<1>3. /\ stream \in Seq(ByteValues) /\ Len(stream) \in Nat /\ arrived \in Nat /\ p \in Nat
      /\ arrived <= Len(stream) /\ buffer \in Seq(ByteValues) /\ Len(buffer) = arrived - p
      /\ returned \in Seq(Seq(ByteValues)) /\ discarded \in Nat /\ oversized \in Nat
  BY <1>1, <1>2, BufferIs DEF ParserTypes
<1>4. PICK c, bytes : c = arrived /\ c \in Nat /\ bytes = SubSeq(stream, 1, c)
  BY <1>3
<1>5. /\ 1 \in 1 .. Len(stream) + 1 /\ c \in 0 .. Len(stream) /\ 1 <= c + 1 /\ c - 1 + 1 = c
      /\ c \in arrived .. Len(stream) /\ p \in 0 .. c
  BY <1>3, <1>4
<1>6. bytes \in Seq(ByteValues) /\ Len(bytes) = c
  BY <1>3, <1>4, <1>5, PieceOf
<1>7. Parse(bytes)[1] = Preceded(returned, discarded, oversized, Parse(bytes)[p + 1])
  BY <1>1, <1>4, <1>5 DEF ReadTo
<1>8. Parse(bytes)[p + 1] = Rest(buffer)
  <2>1. CASE buffer = <<>>
    <3>1. p + 1 = Len(bytes) + 1
      BY <1>3, <1>4, <1>6, <2>1
    <3> QED
      BY <1>6, <2>1, <3>1, ParseEnds
  <2>2. CASE buffer # <<>> /\ Kind(buffer, 1) = "open"
    <3>1. c - p # 0
      BY <1>3, <1>4, <2>2, EmptySeq
    <3>2. /\ p + 1 \in 1 .. Len(stream) /\ c \in p + 1 .. Len(stream) /\ 1 \in 1 .. c - (p + 1) + 1
          /\ (p + 1) + 1 - 1 = p + 1 /\ c \in 1 .. Len(stream) /\ p + 1 \in 1 .. c
      BY <1>3, <1>5, <3>1
    <3>3. buffer = SubSeq(stream, p + 1, c)
      BY <1>1, <1>4 DEF ReadTo
    <3>4. Kind(buffer, 1) = KindIn(stream, c, p + 1)
      BY <1>3, <3>2, <3>3, KindOfPiece
    <3>5. Kind(bytes, p + 1) = KindIn(stream, c, p + 1)
      BY <1>3, <1>4, <3>2, KindOfPrefix
    <3>6. Parse(bytes)[p + 1] = Rest(SubSeq(bytes, p + 1, Len(bytes)))
      BY <1>6, <2>2, <3>2, <3>4, <3>5, ParseSteps
    <3>7. SubSeq(bytes, p + 1, c) = SubSeq(stream, p + 1, c)
      <4>1. /\ 0 + 1 = 1 /\ 0 \in 0 .. c /\ p + 1 \in 1 .. c - 0 + 1 /\ c \in 0 .. c - 0
            /\ p + 1 <= c + 1 /\ 0 + (p + 1) = p + 1 /\ 0 + c = c
        BY <1>3, <1>5, <3>2
      <4>2. SubSeq(bytes, p + 1, c) = SubSeq(stream, 0 + (p + 1), 0 + c)
        BY <1>3, <1>4, <1>5, <4>1, PieceOfPiece
      <4> QED
        BY <4>1, <4>2
    <3> QED
      BY <1>6, <3>3, <3>6, <3>7
  <2> QED
    BY <1>2, <2>1, <2>2
<1>9. Preceded(returned, discarded, oversized, Rest(buffer)) =
         [frames |-> returned, skipped |-> discarded, oversized |-> oversized, rest |-> buffer]
  <2>1. returned \o <<>> = returned /\ discarded + 0 = discarded /\ oversized + 0 = oversized
    BY <1>3, ConcatEmptySeq
  <2> QED
    BY <2>1 DEF Preceded, Rest
<1> QED
  BY <1>4, <1>7, <1>8, <1>9 DEF Reference

\* However the bytes of a connection are cut into reads, FrameParser.feed has
\* returned the frames, counted the discarded bytes and the oversized headers, and
\* kept the rest, that one pass over all the bytes returns: for any stream, any
\* payload limit and any cutting.
THEOREM FramesAreCutExactly == FrameSpec => []FramesMatchReference
<1>1. FrameInit => ParserInv
  BY ParserStarts
<1>2. ParserInv /\ [FrameNext]_parser => ParserInv'
  <2> SUFFICES ASSUME ParserInv, [FrameNext]_parser
               PROVE  ParserInv'
    OBVIOUS
  <2>1. CASE ChooseStream
    BY <2>1, ChooseStreamInv
  <2>2. CASE Feed
    BY <2>2, FeedInv
  <2>3. CASE NoMagic
    BY <2>3, NoMagicInv
  <2>4. CASE Scan
    <3>1. PICK p \in 0 .. arrived : ReadTo(p)
      BY DEF ParserInv
    <3>2. PICK rest : rest = SubSeq(buffer, Min(MagicPositions), Len(buffer))
      OBVIOUS
    <3>3. busy /\ MagicPositions # {} /\ (Incomplete(rest) \/ Oversized(rest) \/ Complete(rest))
      BY <2>4, <3>2 DEF Scan
    <3>4. ParserTypes /\ arrived # 0
      BY <3>3 DEF ParserInv, FreshParser
    <3> QED
      BY <3>1, <3>2, <3>3, <3>4, IncompleteInv, OversizedInv, CompleteInv
  <2>5. CASE UNCHANGED parser
    BY <2>5 DEF parser, ParserInv, ParserTypes, KeepsOpenOnly, FreshParser, ReadTo
  <2> QED
    BY <2>1, <2>2, <2>3, <2>4, <2>5 DEF FrameNext
<1>3. ParserInv => FramesMatchReference
  BY IdleMatches
<1> QED
  BY <1>1, <1>2, <1>3, PTL DEF FrameSpec
=============================================================================

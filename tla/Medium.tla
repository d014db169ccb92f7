------------------------------- MODULE Medium -------------------------------
(***************************************************************************)
(* DirectedMedium (backend/app/simulator/medium.py): one worker per node    *)
(* takes the RF frames its firmware emits and injects each into the         *)
(* gateways of the receivers that the directed links allow, while links are *)
(* edited, gateways fail and the simulator stops.                           *)
(***************************************************************************)
EXTENDS Naturals, Sequences, FiniteSets

CONSTANTS
    Nodes,
    Presets,     \* topologies apply_links may install: sets of enabled links
    RFSize,      \* NodeGateway.rf_frames maxsize
    WriteSize,   \* NodeGateway._downstream_writes maxsize
    MaxFrames,   \* bound: frames the firmware emits
    MaxEdits     \* bound: edits of the link map

Pairs == {p \in Nodes \X Nodes : p[1] # p[2]}

ASSUME MediumAssumption ==
    /\ \A T \in Presets : T \subseteq Pairs
    /\ {RFSize, WriteSize} \subseteq Nat \ {0}
    /\ {MaxFrames, MaxEdits} \subseteq Nat

VARIABLES
    life,       \* SimulatorService.state; "UP" is WARMING_UP or RUNNING
    links,      \* the enabled links of DirectedMedium._links
    maps,       \* history: every link map that was in force
    gateway,    \* gateway[n]: state of its NodeGateway
    rf,         \* rf[n]: rf_frames
    worker,     \* worker[n]: the task of _supervised_node_loop
    tasks,      \* injections that have not run: frame and receiver
    outcome,    \* outcome[f][r]: what became of frame f at receiver r
    sender,     \* sender[f]: the transmitter of each emitted frame
    arrived,    \* arrived[r]: frames put into r's _downstream_writes, in order
    written,    \* written[r]: how many of them the writer has sent on
    overflow,   \* a frame was lost to a full rf_frames while UP
    edits

env == <<gateway, written, overflow>>
vars == <<life, links, maps, rf, worker, tasks, outcome, sender, arrived, edits, env>>

Init ==
    /\ life = "STARTING"
    /\ links \in Presets /\ maps = {links}
    /\ gateway = [n \in Nodes |-> "RUNNING"]
    /\ rf = [n \in Nodes |-> <<>>]
    /\ worker = [n \in Nodes |-> "none"]
    /\ tasks = {}
    /\ outcome = <<>> /\ sender = <<>>
    /\ arrived = [n \in Nodes |-> <<>>]
    /\ written = [n \in Nodes |-> 0]
    /\ overflow = FALSE
    /\ edits = 0

TasksOf(n) == {t \in tasks : sender[t.frame] = n}
Row(T, n) == {r \in Nodes : <<n, r>> \in T}

\* _schedule_runtime_failure, for failures it acts upon.
Report == life' = IF life = "UP" THEN "FAILED" ELSE life

-----------------------------------------------------------------------------
(* Firmware and gateways *)

\* _handle_downstream_frame: a simulated RF frame is queued, or lost to a full
\* queue, which fails the simulator once it is UP.
Emit(n) ==
    /\ gateway[n] = "RUNNING" /\ Len(sender) < MaxFrames
    /\ sender' = Append(sender, n)
    /\ outcome' = Append(outcome, [r \in Nodes |-> "none"])
    /\ \/ /\ Len(rf[n]) < RFSize
          /\ rf' = [rf EXCEPT ![n] = Append(@, Len(sender'))]
          /\ UNCHANGED <<life, overflow>>
       \/ /\ Len(rf[n]) = RFSize
          /\ overflow' = (overflow \/ life = "UP")
          /\ Report
          /\ UNCHANGED rf
    /\ UNCHANGED <<links, maps, gateway, worker, tasks, arrived, written, edits>>

\* _downstream_writer_loop sends one frame on to the daemon.
Write(r) ==
    /\ gateway[r] = "RUNNING" /\ written[r] < Len(arrived[r])
    /\ written' = [written EXCEPT ![r] = @ + 1]
    /\ UNCHANGED <<life, links, maps, gateway, rf, worker, tasks, outcome, sender, arrived,
                   overflow, edits>>

\* NodeGateway._fail; nothing is reported while the simulator is STARTING.
GatewayFails(n) ==
    /\ gateway[n] = "RUNNING"
    /\ gateway' = [gateway EXCEPT ![n] = "FAILED"]
    /\ Report
    /\ UNCHANGED <<links, maps, rf, worker, tasks, outcome, sender, arrived, written,
                   overflow, edits>>

-----------------------------------------------------------------------------
(* The medium *)

\* DirectedMedium.start, and WARMING_UP without a suspension in between.
StartMedium ==
    /\ life = "STARTING"
    /\ life' = "UP"
    /\ worker' = [n \in Nodes |-> "get"]
    /\ UNCHANGED <<links, maps, rf, tasks, outcome, sender, arrived, edits, env>>

\* Mutant: the worker takes a frame before the injections of the last are over.
TransmitEarly(n) ==
    /\ worker[n] \in {"get", "sending"} /\ rf[n] # <<>>
    /\ LET f == Head(rf[n])
           enabled == Row(links, n)
       IN  /\ tasks' = tasks \cup {[frame |-> f, to |-> r] : r \in enabled}
           /\ outcome' = [outcome EXCEPT ![f] =
                [r \in Nodes |-> IF r \in enabled THEN "pending"
                                 ELSE IF r = n THEN "none" ELSE "dropped"]]
    /\ rf' = [rf EXCEPT ![n] = Tail(@)]
    /\ worker' = [worker EXCEPT ![n] = "sending"]
    /\ UNCHANGED <<life, links, maps, sender, arrived, edits, env>>

\* _node_loop and transmit up to its gather: the outgoing links are read once, a
\* disabled one drops the frame, an enabled one gets an injection task.
Transmit(n) ==
    /\ worker[n] = "get" /\ rf[n] # <<>>
    /\ LET f == Head(rf[n])
           enabled == Row(links, n)
       IN  /\ tasks' = tasks \cup {[frame |-> f, to |-> r] : r \in enabled}
           /\ outcome' = [outcome EXCEPT ![f] =
                [r \in Nodes |-> IF r \in enabled THEN "pending"
                                 ELSE IF r = n THEN "none" ELSE "dropped"]]
    /\ rf' = [rf EXCEPT ![n] = Tail(@)]
    /\ worker' = [worker EXCEPT ![n] = "sending"]
    /\ UNCHANGED <<life, links, maps, sender, arrived, edits, env>>

\* send_to_radio raises: the gateway is not RUNNING or its queue is full.
Refuses(r) ==
    \/ gateway[r] # "RUNNING"
    \/ Len(arrived[r]) - written[r] = WriteSize

\* Mutant: the link is looked up again when the frame is injected.
InjectLate(t) ==
    /\ tasks' = tasks \ {t}
    /\ LET on == <<sender[t.frame], t.to>> \in links
           how == IF ~on THEN "dropped" ELSE IF Refuses(t.to) THEN "failed" ELSE "injected"
       IN  /\ outcome' = [outcome EXCEPT ![t.frame][t.to] = how]
           /\ arrived' = IF how = "injected"
                         THEN [arrived EXCEPT ![t.to] = Append(@, t.frame)] ELSE arrived
    /\ UNCHANGED <<life, links, maps, rf, worker, sender, edits, env>>

\* _inject: RX_INJECTED once the receiver's gateway has taken the frame.
Inject(t) ==
    /\ tasks' = tasks \ {t}
    /\ \/ /\ ~Refuses(t.to)
          /\ outcome' = [outcome EXCEPT ![t.frame][t.to] = "injected"]
          /\ arrived' = [arrived EXCEPT ![t.to] = Append(@, t.frame)]
       \/ /\ Refuses(t.to)
          /\ outcome' = [outcome EXCEPT ![t.frame][t.to] = "failed"]
          /\ UNCHANGED arrived
    /\ UNCHANGED <<life, links, maps, rf, worker, sender, edits, env>>

\* The injections of n that raised and that its worker has not seen.
Failed(n) ==
    {f \in 1 .. Len(sender) : sender[f] = n /\ \E r \in Nodes : outcome[f][r] = "failed"}

\* Mutant: an injection that fails is logged and the worker goes on.
SentForgiving(n) ==
    /\ worker[n] = "sending" /\ TasksOf(n) = {}
    /\ worker' = [worker EXCEPT ![n] = "get"]
    /\ UNCHANGED <<life, links, maps, rf, tasks, outcome, sender, arrived, edits, env>>

\* gather returns, or raises and _supervised_node_loop reports the worker's end.
\* The injections were scheduled together and never suspend, so none outlives it.
Sent(n) ==
    /\ worker[n] = "sending" /\ TasksOf(n) = {}
    /\ \/ /\ Failed(n) = {}
          /\ worker' = [worker EXCEPT ![n] = "get"] /\ UNCHANGED life
       \/ /\ Failed(n) # {}
          /\ worker' = [worker EXCEPT ![n] = "dead"] /\ Report
    /\ UNCHANGED <<links, maps, rf, tasks, outcome, sender, arrived, edits, env>>

\* apply_links and update_link: the map is replaced as a whole.
Install(T) ==
    /\ life = "UP" /\ edits < MaxEdits /\ T # links
    /\ edits' = edits + 1
    /\ links' = T /\ maps' = maps \cup {T}
    /\ UNCHANGED <<life, rf, worker, tasks, outcome, sender, arrived, env>>

ApplyLinks == \E T \in Presets : Install(T)
UpdateLink == \E p \in Pairs : Install(IF p \in links THEN links \ {p} ELSE links \cup {p})

\* Mutant: the workers are cancelled but their injections are not.
StopMediumAlone ==
    /\ life \in {"FAILED", "STOPPING"}
    /\ life' = "STOPPED"
    /\ worker' = [n \in Nodes |-> "none"]
    /\ UNCHANGED <<links, maps, rf, tasks, outcome, sender, arrived, edits, env>>

StopRequested ==
    /\ life = "UP" /\ life' = "STOPPING"
    /\ UNCHANGED <<links, maps, rf, worker, tasks, outcome, sender, arrived, edits, env>>

\* DirectedMedium.stop during cleanup: cancelling a worker cancels the
\* injections it gathers before they run.
StopMedium ==
    /\ life \in {"FAILED", "STOPPING"}
    /\ life' = "STOPPED"
    /\ worker' = [n \in Nodes |-> "none"]
    /\ tasks' = {}
    /\ outcome' = [f \in DOMAIN outcome |-> [r \in Nodes |->
            IF outcome[f][r] = "pending" THEN "cancelled" ELSE outcome[f][r]]]
    /\ UNCHANGED <<links, maps, rf, sender, arrived, edits, env>>

-----------------------------------------------------------------------------
Next ==
    \/ \E n \in Nodes : Emit(n) \/ Write(n) \/ GatewayFails(n) \/ Transmit(n) \/ Sent(n)
    \/ \E t \in tasks : Inject(t)
    \/ ApplyLinks \/ UpdateLink
    \/ StartMedium \/ StopRequested \/ StopMedium

Spec == Init /\ [][Next]_vars

-----------------------------------------------------------------------------
(* Properties *)

Frames == 1 .. Len(sender)
Outcomes == {"none", "pending", "injected", "failed", "dropped", "cancelled"}

\* Every variable holds a value of its kind, and both queues of a gateway keep
\* their limits.
TypeOK ==
    /\ life \in {"STARTING", "UP", "FAILED", "STOPPING", "STOPPED"}
    /\ links \in maps /\ maps \subseteq SUBSET Pairs
    /\ gateway \in [Nodes -> {"RUNNING", "FAILED"}]
    /\ worker \in [Nodes -> {"none", "get", "sending", "dead"}]
    /\ sender \in Seq(Nodes)
    /\ outcome \in Seq([Nodes -> Outcomes]) /\ Len(outcome) = Len(sender)
    /\ tasks \subseteq [frame : Frames, to : Nodes]
    /\ rf \in [Nodes -> Seq(Nat)] /\ \A n \in Nodes : Len(rf[n]) <= RFSize
    /\ arrived \in [Nodes -> Seq(Nat)] /\ written \in [Nodes -> Nat]
    /\ \A n \in Nodes : Len(arrived[n]) - written[n] \in 0 .. WriteSize
    /\ overflow \in BOOLEAN /\ edits \in Nat

Settled(f) == \A r \in Nodes \ {sender[f]} :
                 outcome[f][r] \in {"injected", "dropped"}

\* architecture.md: a frame "takes one atomic snapshot of the transmitter's
\* outgoing links".  The receivers of a frame that is through are exactly a row of
\* one link map that was in force, however the edits fall between its injections.
FanOutIsOneTopology ==
    \A f \in Frames : Settled(f) =>
        \E T \in maps : Row(T, sender[f]) = {r \in Nodes : outcome[f][r] = "injected"}

\* A receiver gets the frames of one transmitter in the order they were emitted,
\* and none twice, whatever other transmitters do.
FramesInOrder ==
    \A r \in Nodes : \A i, j \in 1 .. Len(arrived[r]) :
        (i < j /\ sender[arrived[r][i]] = sender[arrived[r][j]])
            => arrived[r][i] < arrived[r][j]

\* Overload cannot pass for a property of the mesh: while the simulator is UP no
\* frame was lost to a full queue, and a frame that a gateway refused is one its
\* worker is about to report.
LossIsFailure ==
    life = "UP" => /\ ~overflow
                   /\ \A n \in Nodes : Failed(n) # {} => worker[n] = "sending"

\* Once the medium is stopped nothing is injected: the gateways and daemons that
\* cleanup takes down next get no frame from it.
QuietAfterStop == [][life = "STOPPED" => UNCHANGED arrived]_vars
=============================================================================

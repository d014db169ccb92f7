------------------------------ MODULE Startup ------------------------------
(***************************************************************************)
(* SimulatorService.start between the first gateway and RUNNING             *)
(* (backend/app/simulator/service.py): every node is configured by a worker *)
(* thread, reboots, and is restarted and verified in at most three rounds;  *)
(* then the medium starts and the nodes warm up.  Gateways lose their       *)
(* daemon and processes exit at any moment.  A node's gateway is reduced to *)
(* its state and its event "failed" (module Gateway has the rest).          *)
(***************************************************************************)
EXTENDS Naturals, FiniteSets

CONSTANTS
    Nodes,
    Rounds,      \* restart rounds of _configure_nodes, 3 in the code
    MaxLosses    \* bound: daemon connections lost, intended reboots included

ASSUME StartupAssumption == Rounds \in Nat \ {0} /\ MaxLosses \in Nat

VARIABLES
    life,      \* SimulatorService.state
    stage,     \* where start() is
    round,     \* _attempt
    pending,   \* nodes still to verify
    task,      \* task[n]: the node's task in this stage
    gateway,   \* gateway[n]: its state
    signal,    \* signal[n]: its event "failed" is set
    verified,  \* nodes whose verification counts
    unstable,  \* history: nodes that lost their daemon in this round before it let them go
    losses

work == <<pending, task>>
nodes == <<gateway, signal>>
vars == <<life, stage, round, work, nodes, verified, unstable, losses>>

Stages == {"configure", "reboot", "stop", "start", "verify", "warmup", "done", "cleanup"}

Init ==
    /\ life = "STARTING" /\ stage = "configure" /\ round = 1
    /\ pending = Nodes
    /\ task = [n \in Nodes |-> "thread"]
    /\ gateway = [n \in Nodes |-> "RUNNING"]
    /\ signal = [n \in Nodes |-> FALSE]
    /\ verified = {} /\ unstable = {}
    /\ losses = 0

\* A task that is not over; "thread" is a call in a worker thread.
Busy(n) == task[n] \in {"thread", "waiting"}
Begin(S, how) == [n \in Nodes |-> IF n \in S THEN how ELSE "none"]

-----------------------------------------------------------------------------
(* The environment *)

\* The daemon of n reboots or goes away.  A failure is acted upon only in
\* WARMING_UP and RUNNING (_on_gateway_event).
GatewayLost(n) ==
    /\ gateway[n] = "RUNNING" /\ losses < MaxLosses
    /\ losses' = losses + 1
    /\ gateway' = [gateway EXCEPT ![n] = "FAILED"]
    /\ signal' = [signal EXCEPT ![n] = TRUE]
    /\ unstable' = IF \/ stage = "start" /\ task[n] = "ok"
                      \/ stage = "verify" /\ Busy(n)
                   THEN unstable \cup {n} ELSE unstable
    /\ life' = IF life \in {"WARMING_UP", "RUNNING"} THEN "FAILED" ELSE life
    /\ UNCHANGED <<stage, round, work, verified>>

\* _on_process_failure: start() finds out at its next check.
ProcessExits ==
    /\ life \in {"STARTING", "WARMING_UP"} /\ stage # "cleanup"
    /\ life' = "FAILED"
    /\ UNCHANGED <<stage, round, work, nodes, verified, unstable, losses>>

-----------------------------------------------------------------------------
(* Tasks of the nodes *)

\* The thread of configure() is done, or the official client raises.
Configured(n) ==
    /\ stage = "configure" /\ task[n] = "thread"
    /\ \E r \in {"ok", "error"} : task' = [task EXCEPT ![n] = r]
    /\ UNCHANGED <<life, stage, round, pending, nodes, verified, unstable, losses>>

\* Mutant: the wait for the reboot has no deadline.
RebootAwaitedForever(n) ==
    /\ stage = "reboot" /\ task[n] = "waiting" /\ signal[n]
    /\ task' = [task EXCEPT ![n] = "ok"]
    /\ UNCHANGED <<life, stage, round, pending, nodes, verified, unstable, losses>>

\* wait_for_reboot: the gateway loses the rebooting daemon, or twelve seconds pass.
RebootAwaited(n) ==
    /\ stage = "reboot" /\ task[n] = "waiting"
    /\ task' = [task EXCEPT ![n] = IF signal[n] THEN "ok" ELSE "error"]
    /\ UNCHANGED <<life, stage, round, pending, nodes, verified, unstable, losses>>

GatewayStopped(n) ==
    /\ stage = "stop" /\ task[n] = "waiting"
    /\ gateway' = [gateway EXCEPT ![n] = "STOPPED"]
    /\ task' = [task EXCEPT ![n] = "ok"]
    /\ UNCHANGED <<life, stage, round, pending, signal, verified, unstable, losses>>

\* NodeGateway.start clears the event first.
GatewayStarted(n) ==
    /\ stage = "start" /\ task[n] = "waiting"
    /\ signal' = [signal EXCEPT ![n] = FALSE]
    /\ \/ /\ gateway' = [gateway EXCEPT ![n] = "RUNNING"]
          /\ task' = [task EXCEPT ![n] = "ok"]
       \/ /\ gateway' = [gateway EXCEPT ![n] = "FAILED"]
          /\ task' = [task EXCEPT ![n] = "error"]
    /\ UNCHANGED <<life, stage, round, pending, verified, unstable, losses>>

\* verify_restarted: verify_node in its thread, over the gateway's control port.
VerifyRead(n) ==
    /\ stage = "verify" /\ task[n] = "thread"
    /\ \E r \in {"waiting", "error"} : task' = [task EXCEPT ![n] = r]
    /\ UNCHANGED <<life, stage, round, pending, nodes, verified, unstable, losses>>

\* Mutant: the window after the verification is not watched.
VerifyWatchedBlindly(n) ==
    /\ stage = "verify" /\ task[n] = "waiting"
    /\ task' = [task EXCEPT ![n] = "ok"]
    /\ UNCHANGED <<life, stage, round, pending, nodes, verified, unstable, losses>>

\* verify_restarted: eleven seconds without a failure, or another restart.
VerifyWatched(n) ==
    /\ stage = "verify" /\ task[n] = "waiting"
    /\ task' = [task EXCEPT ![n] = IF signal[n] THEN "lost" ELSE "ok"]
    /\ UNCHANGED <<life, stage, round, pending, nodes, verified, unstable, losses>>

-----------------------------------------------------------------------------
(* start() and _configure_nodes *)

\* Mutant: the first error ends the stage.
SettledAtFirstError ==
    \/ \A n \in Nodes : ~Busy(n)
    \/ \E n \in Nodes : task[n] = "error"

\* settle_node_tasks: all siblings are over, after an error too.
Settled == \A n \in Nodes : ~Busy(n)

Raised == \E n \in Nodes : task[n] = "error"

\* start()'s except clause; nothing is cancelled from outside.
StartupFails ==
    /\ stage' = "cleanup" /\ life' = "FAILED"
    /\ UNCHANGED <<round, work, verified, unstable>>

\* The round's restart of the pending gateways.
BeginRound(S) ==
    /\ stage' = "stop"
    /\ pending' = S
    /\ task' = Begin(S, "waiting")
    /\ unstable' = unstable \ S

\* The end of a round: verified, another round, or out of rounds.  The medium
\* and the traffic controller are built on the way to WARMING_UP.
EndRound ==
    LET again == {n \in pending : task[n] = "lost"}
        good == verified \cup {n \in pending : task[n] = "ok"}
    IN  \/ /\ again # {} /\ round < Rounds
           /\ verified' = good /\ round' = round + 1
           /\ BeginRound(again) /\ UNCHANGED life
        \/ again # {} /\ round = Rounds /\ StartupFails
        \/ /\ again = {} /\ life = "FAILED" /\ StartupFails
        \/ /\ again = {} /\ life # "FAILED"
           /\ verified' = good
           /\ stage' = "warmup" /\ life' = "WARMING_UP"
           /\ task' = Begin(Nodes, "thread") /\ pending' = {}
           /\ UNCHANGED <<round, unstable>>

\* The stage is settled and start() goes on.
NextStage ==
    /\ stage \in {"configure", "reboot", "stop", "start", "verify"} /\ Settled
    /\ \/ Raised /\ StartupFails
       \/ /\ ~Raised /\ stage = "configure"
          /\ stage' = "reboot" /\ task' = Begin(Nodes, "waiting")
          /\ UNCHANGED <<life, round, pending, verified, unstable>>
       \/ /\ ~Raised /\ stage = "reboot"
          /\ BeginRound(Nodes)
          /\ UNCHANGED <<life, round, verified>>
       \/ /\ ~Raised /\ stage = "stop"
          /\ stage' = "start" /\ task' = Begin(pending, "waiting")
          /\ UNCHANGED <<life, round, pending, verified, unstable>>
       \/ /\ ~Raised /\ stage = "start"
          /\ stage' = "verify" /\ task' = Begin(pending, "thread")
          /\ UNCHANGED <<life, round, pending, verified, unstable>>
       \/ ~Raised /\ stage = "verify" /\ EndRound
    /\ UNCHANGED <<nodes, losses>>

\* request_once of _warm_up_nodes: best effort, an error is only logged.
WarmedUp(n) ==
    /\ stage = "warmup" /\ task[n] = "thread"
    /\ task' = [task EXCEPT ![n] = "ok"]
    /\ UNCHANGED <<life, stage, round, pending, nodes, verified, unstable, losses>>

\* After the warm-up: public clients are admitted unless a gateway is stopped.
EnterRunning ==
    /\ stage = "warmup" /\ Settled
    /\ \/ life = "FAILED" /\ StartupFails
       \/ /\ life # "FAILED" /\ \A n \in Nodes : gateway[n] # "STOPPED"
          /\ stage' = "done" /\ life' = "RUNNING"
          /\ UNCHANGED <<round, work, verified, unstable>>
    /\ UNCHANGED <<nodes, losses>>

-----------------------------------------------------------------------------
NodeStep(n) ==
    \/ Configured(n) \/ RebootAwaited(n) \/ GatewayStopped(n) \/ GatewayStarted(n)
    \/ VerifyRead(n) \/ VerifyWatched(n) \/ WarmedUp(n)

Next ==
    \/ \E n \in Nodes : GatewayLost(n) \/ NodeStep(n)
    \/ ProcessExits
    \/ NextStage \/ EnterRunning

Spec == Init /\ [][Next]_vars

\* Every wait and every client call has a deadline, so tasks end and start()
\* goes on; losses and exits are not obliged to happen.
FairSpec ==
    /\ Spec
    /\ \A n \in Nodes : WF_vars(NodeStep(n))
    /\ WF_vars(NextStage) /\ WF_vars(EnterRunning)

-----------------------------------------------------------------------------
(* Properties *)

\* Every variable holds a value of its kind, and no round beyond the last begins.
TypeOK ==
    /\ life \in {"STARTING", "WARMING_UP", "RUNNING", "FAILED"}
    /\ stage \in Stages /\ round \in 1 .. Rounds
    /\ pending \subseteq Nodes /\ verified \subseteq Nodes /\ unstable \subseteq Nodes
    /\ task \in [Nodes -> {"none", "thread", "waiting", "ok", "error", "lost"}]
    /\ gateway \in [Nodes -> {"RUNNING", "FAILED", "STOPPED"}]
    /\ signal \in [Nodes -> BOOLEAN]

\* Restarts go by what happened, not by stale signals: no node warms up before
\* every node was verified on a connection that outlived its watch window, and a
\* node goes through another round only because of a loss in this one, never
\* because of the signal of its intended reboot.
RestartsMatchLosses ==
    /\ stage \in {"warmup", "done"} => verified = Nodes
    /\ verified \cap unstable = {}
    /\ \A n \in Nodes : task[n] = "lost" => n \in unstable

\* Cleanup closes gateways and processes only when no worker thread uses them
\* any more: threads cannot be cancelled.
NoThreadAtCleanup == stage = "cleanup" => \A n \in Nodes : task[n] # "thread"

\* start() ends.
StartupEnds == <>(stage \in {"done", "cleanup"})

=============================================================================

---------------------------- MODULE RunEvidence ----------------------------
(***************************************************************************)
(* What a traffic run keeps beside its messages: the receptions the native  *)
(* firmware failed, and the history of the links.                           *)
(*                                                                          *)
(* SimulatorService._sample_local_stats asks every node for its counters    *)
(* before a run and at its end, _on_from_radio takes the answers and the    *)
(* reports the firmware sends unasked (backend/app/simulator/service.py),   *)
(* and TrafficController adds up what the counters grew                     *)
(* (backend/app/traffic/controller.py).  update_links and apply_topology    *)
(* edit the links and the run records each change.                          *)
(*                                                                          *)
(* num_packets_rx_bad stands for num_rx_dupe too: both are counted alike.   *)
(***************************************************************************)
EXTENDS Integers, Sequences, FiniteSets, FiniteSetsExt, SequencesExt, Topology

CONSTANTS
    NodeSeq,       \* the nodes in the scenario's order
    Counted,       \* the nodes whose counters the model follows
    MaxChanges,    \* MAX_TOPOLOGY_CHANGES_PER_RUN
    MaxWire,       \* bound: telemetry packets on the way from one node
    MaxBad,        \* bound: receptions a node fails
    MaxRequests,   \* bound: requests sent to a node
    MaxEdits       \* bound: edits of the link map

ASSUME RunEvidenceAssumption ==
    /\ NodeSeq \in Seq(Range(NodeSeq)) /\ IsInjective(NodeSeq)
    /\ Counted # {} /\ Counted \subseteq Range(NodeSeq)
    /\ {MaxChanges, MaxWire, MaxBad, MaxRequests, MaxEdits} \subseteq Nat

VARIABLES
    bad,       \* bad[n]: the firmware's counter
    asked,     \* asked[n]: ids of the requests the firmware has and may answer
    wire,      \* wire[n]: telemetry on the way, with the request it answers or 0
    metrics,   \* metrics[n]: node_metrics[n].rx_bad
    response,  \* response[n]: _local_stats_response_ids[n], 0 before the first
    notified,  \* nodes whose waiter was notified and has not run since
    sampler,   \* who samples: "none", "start", "task" or "stop"
    pc,        \* pc[n]: "idle", "send" (or asleep before it), "wait" or "done"
    expected,  \* expected[n]: expected_packet_ids
    sample,    \* sample[n]: what sample_node(n) returned
    expired,   \* the deadline of the sampling has passed
    packetId,  \* packetId[n]: _control_packet_id, as far as node n has seen it
    phase,     \* TrafficController._phase
    latest,    \* latest[n]: _latest_failed_receptions[n]
    failed,    \* _failed_receptions
    missing,   \* missing_local_stats_nodes
    links,     \* the enabled links of the scenario and of the medium
    snapshot,  \* scenario_snapshot
    changes,   \* topology_changes
    editing,   \* <<map>> while an edit waits to apply a link map, or <<>>
    locked,    \* a start, a stop or an edit holds the topology lock
    floor,     \* history: floor[n] is the counter when the sampling began
    base,      \* history: base[n] is the first total the run knows of
    edits

firmware == <<bad, asked, wire>>
view == <<metrics, response>>
sampling == <<notified, sampler, pc, expected, sample, expired, packetId, floor>>
account == <<latest, failed, missing, base>>
topology == <<links, snapshot, changes, editing, edits>>
evidenceVars == <<firmware, view, sampling, phase, account, topology, locked>>

Unknown == -1
NoValue == [n \in Counted |-> Unknown]
Accepts == phase \in {"GENERATING", "DRAINING"}

EvidenceInit ==
    /\ bad = [n \in Counted |-> 0]
    /\ asked = [n \in Counted |-> {}]
    /\ wire = [n \in Counted |-> <<>>]
    /\ metrics = [n \in Counted |-> 0] /\ response = [n \in Counted |-> 0]
    /\ notified = {} /\ sampler = "none"
    /\ pc = [n \in Counted |-> "idle"]
    /\ expected = [n \in Counted |-> {}]
    /\ sample = NoValue /\ floor = NoValue
    /\ expired = FALSE /\ packetId = [n \in Counted |-> 0]
    /\ phase = "TERMINAL"
    /\ latest = NoValue /\ base = NoValue /\ failed = 0 /\ missing = {}
    /\ \E preset \in {"full-mesh", "line"} : links = GenerateLinks(NodeSeq, preset)
    /\ snapshot = {} /\ changes = <<>> /\ editing = <<>> /\ edits = 0
    /\ locked = FALSE

-----------------------------------------------------------------------------
(* The firmware *)

\* A reception fails.
Collide(n) ==
    /\ bad[n] < MaxBad
    /\ bad' = [bad EXCEPT ![n] = @ + 1]
    /\ UNCHANGED <<asked, wire, view, sampling, phase, account, topology, locked>>

\* It reports its statistics unasked, or answers a request.
Telemetry(n, id) ==
    /\ Len(wire[n]) < MaxWire
    /\ wire' = [wire EXCEPT ![n] = Append(@, [id |-> id, total |-> bad[n]])]
    /\ asked' = [asked EXCEPT ![n] = @ \ {id}]
    /\ UNCHANGED <<bad, view, sampling, phase, account, topology, locked>>

-----------------------------------------------------------------------------
(* The run's account *)

\* Mutant: a total below the last one counts in full, as after a restart.
AddedRestarting(previous, total) ==
    IF previous = Unknown THEN 0
    ELSE IF total >= previous THEN total - previous ELSE total

\* What a total adds to the failed receptions.
Added(previous, total) == IF previous = Unknown THEN 0 ELSE Max({0, total - previous})

\* record_failed_receptions: the first total of a node only starts its count.
Record(n, total) ==
    /\ latest' = [latest EXCEPT ![n] = total]
    /\ base' = [base EXCEPT ![n] = IF latest[n] = Unknown THEN total ELSE @]
    /\ failed' = failed + Added(latest[n], total)

\* _on_from_radio for local statistics: the view and the run's account, then
\* the answered request; everybody who waits on the condition is notified.
Receive(n) ==
    /\ wire[n] # <<>>
    /\ LET m == Head(wire[n])
       IN  /\ metrics' = [metrics EXCEPT ![n] = m.total]
           /\ response' = [response EXCEPT ![n] = m.id]
           /\ IF Accepts THEN Record(n, m.total)
              ELSE UNCHANGED <<latest, base, failed>>
    /\ notified' = {k \in Counted : pc[k] = "wait"}
    /\ wire' = [wire EXCEPT ![n] = Tail(@)]
    /\ UNCHANGED <<bad, asked, sampler, pc, expected, sample, expired, packetId,
                   floor, phase, missing, topology, locked>>

-----------------------------------------------------------------------------
(* _sample_local_stats *)

BeginSampling(who) ==
    /\ sampler' = who
    /\ pc' = [n \in Counted |-> "send"]
    /\ expected' = [n \in Counted |-> {}]
    /\ sample' = NoValue
    /\ expired' = FALSE
    /\ notified' = {}
    /\ floor' = bad

\* Mutant: any answer of the node will do.
ArrivedAny(n, ids) == response[n] # 0

\* response_arrived
Arrived(n, ids) == response[n] \in ids

\* sample_node(n) returns the value, or None.
Return(n, value) ==
    /\ pc' = [pc EXCEPT ![n] = "done"]
    /\ sample' = [sample EXCEPT ![n] = value]

\* sample_node: a request goes to the gateway's queue.  An answer to an earlier
\* request may be there already.  When the gateway refuses it, sample_node sleeps
\* and comes back here with nothing changed.
Ask(n) ==
    /\ pc[n] = "send" /\ ~expired
    /\ packetId[n] < MaxRequests
    /\ packetId' = [packetId EXCEPT ![n] = @ + 1]
    /\ asked' = [asked EXCEPT ![n] = @ \cup {packetId'[n]}]
    /\ expected' = [expected EXCEPT ![n] = @ \cup {packetId'[n]}]
    /\ IF Arrived(n, expected'[n]) THEN Return(n, metrics[n])
       ELSE pc' = [pc EXCEPT ![n] = "wait"] /\ UNCHANGED sample
    /\ UNCHANGED <<bad, wire, view, notified, sampler, expired, floor,
                   phase, account, topology, locked>>

\* The waiter runs again after a notification.  What it looks at is the last
\* answer only: one that came in between has replaced the one it waits for.
WakeUp(n) ==
    /\ n \in notified /\ pc[n] = "wait"
    /\ notified' = notified \ {n}
    /\ IF Arrived(n, expected[n]) THEN Return(n, metrics[n]) ELSE UNCHANGED <<pc, sample>>
    /\ UNCHANGED <<firmware, view, sampler, expected, expired, packetId, floor,
                   phase, account, topology, locked>>

\* No answer within local_stats_retry_seconds: ask again.
Retry(n) ==
    /\ pc[n] = "wait"
    /\ pc' = [pc EXCEPT ![n] = "send"]
    /\ notified' = notified \ {n}
    /\ UNCHANGED <<firmware, view, sampler, expected, sample, expired, packetId, floor,
                   phase, account, topology, locked>>

\* The deadline that all nodes share passes.
Expire ==
    /\ sampler # "none" /\ ~expired
    /\ expired' = TRUE
    /\ UNCHANGED <<firmware, view, notified, sampler, pc, expected, sample, packetId,
                   floor, phase, account, topology, locked>>

\* Mutant: the deadline is looked at before a request only.
GiveUpSending(n) ==
    /\ expired /\ pc[n] = "send"
    /\ Return(n, Unknown)
    /\ UNCHANGED <<firmware, view, notified, sampler, expected, expired, packetId, floor,
                   phase, account, topology, locked>>

\* sample_node(n) finds the deadline passed.
GiveUp(n) ==
    /\ expired /\ pc[n] \in {"send", "wait"}
    /\ Return(n, Unknown)
    /\ UNCHANGED <<firmware, view, notified, sampler, expected, expired, packetId, floor,
                   phase, account, topology, locked>>

-----------------------------------------------------------------------------
(* The run *)

Sampled == {n \in Counted : sample[n] # Unknown}
AllReturned == \A n \in Counted : pc[n] = "done"

EndSampling ==
    /\ sampler' = "none"
    /\ pc' = [n \in Counted |-> "idle"]
    /\ notified' = {}
    /\ expected' = [n \in Counted |-> {}]
    /\ expired' = FALSE
    /\ UNCHANGED <<sample, packetId, floor>>

\* start_traffic: under the topology lock the counters are sampled ...
StartTraffic ==
    /\ ~locked /\ phase = "TERMINAL"
    /\ locked' = TRUE
    /\ BeginSampling("start")
    /\ UNCHANGED <<firmware, view, packetId, phase, account, topology>>

\* ... and the run starts from them and from the links of this moment.
RunStarts ==
    /\ sampler = "start" /\ AllReturned
    /\ phase' = "GENERATING"
    /\ latest' = sample /\ base' = sample /\ failed' = 0
    /\ missing' = Counted \ Sampled
    /\ snapshot' = links /\ changes' = <<>>
    /\ EndSampling
    /\ locked' = FALSE
    /\ UNCHANGED <<firmware, view, links, editing, edits>>

\* The last message has been submitted.
RunDrains ==
    /\ phase = "GENERATING" /\ sampler = "none"
    /\ phase' = "DRAINING"
    /\ UNCHANGED <<firmware, view, sampling, account, topology, locked>>

\* The run's task samples when the traffic has settled, without the lock.
RunSettles ==
    /\ phase = "DRAINING" /\ sampler = "none"
    /\ BeginSampling("task")
    /\ UNCHANGED <<firmware, view, packetId, phase, account, topology, locked>>

\* stop and fail: the task is cancelled, its sampling with it, and the command
\* samples itself.
StopTraffic ==
    /\ ~locked /\ Accepts
    /\ locked' = TRUE
    /\ BeginSampling("stop")
    /\ UNCHANGED <<firmware, view, packetId, phase, account, topology>>

\* _sample_final_failed_receptions, and _finish up to its first suspension.
SampleFinal ==
    /\ sampler \in {"task", "stop"} /\ AllReturned
    /\ LET known == {n \in Sampled : latest[n] # Unknown}
       IN  /\ latest' = [n \in Counted |-> IF n \in known THEN sample[n] ELSE latest[n]]
           /\ failed' = failed + SumFunction([n \in Counted |->
                            IF n \in known THEN Added(latest[n], sample[n]) ELSE 0])
           /\ missing' = missing \cup (Counted \ known)
    /\ phase' = "FINALIZING"
    /\ EndSampling
    /\ UNCHANGED <<firmware, view, base, topology, locked>>

\* The result is frozen; a stop returns.  The accumulators, which nothing reads
\* between here and the reset at the next start, are reset here already.
Freeze ==
    /\ phase = "FINALIZING"
    /\ phase' = "TERMINAL"
    /\ locked' = (locked /\ editing # <<>>)
    /\ latest' = NoValue /\ failed' = 0 /\ missing' = {}
    /\ snapshot' = {} /\ changes' = <<>>
    /\ sample' = NoValue /\ floor' = NoValue /\ base' = NoValue
    /\ UNCHANGED <<firmware, view, notified, sampler, pc, expected, expired, packetId,
                   links, editing, edits>>

-----------------------------------------------------------------------------
(* update_links and apply_topology *)

\* Mutant: the history may be full already.
HasCapacityLate(count) == ~Accepts \/ Len(changes) <= MaxChanges

\* ensure_topology_change_capacity
HasCapacity(count) == ~Accepts \/ Len(changes) + count <= MaxChanges

\* _apply_runtime_scenario up to its suspension in the medium: the whole edit is
\* refused when the run cannot record all of it.
BeginEdit(after) ==
    /\ ~locked /\ edits < MaxEdits
    /\ HasCapacity(Cardinality(Changed(links, after)))
    /\ editing' = <<after>> /\ edits' = edits + 1
    /\ locked' = TRUE
    /\ UNCHANGED <<firmware, view, sampling, phase, account, links, snapshot, changes>>

\* record_topology_change for one changed link after the other, which refuses what
\* is beyond the bound.
Recorded(after) ==
    LET order == SetToSeq(Changed(links, after))
        entries == [i \in DOMAIN order |-> [pair |-> order[i], enabled |-> order[i] \in after]]
    IN  IF Accepts
        THEN SubSeq(changes \o entries, 1, Min({MaxChanges, Len(changes) + Len(entries)}))
        ELSE changes

\* The medium has applied the links; each changed one is recorded.
ApplyEdit ==
    /\ editing # <<>>
    /\ links' = Head(editing)
    /\ changes' = Recorded(Head(editing))
    /\ editing' = <<>> /\ locked' = FALSE
    /\ UNCHANGED <<firmware, view, sampling, phase, account, snapshot, edits>>

\* One link, or a preset.
Edits ==
    {Changed(links, {p}) : p \in DirectedPairs(Range(NodeSeq))}
        \cup {GenerateLinks(NodeSeq, preset) : preset \in PresetNames}

-----------------------------------------------------------------------------
EvidenceNext ==
    \/ \E n \in Counted :
         \/ Collide(n)
         \/ \E id \in asked[n] \cup {0} : Telemetry(n, id)
         \/ Receive(n)
         \/ Ask(n) \/ WakeUp(n) \/ Retry(n) \/ GiveUp(n)
    \/ Expire
    \/ StartTraffic \/ RunStarts \/ RunDrains \/ RunSettles \/ StopTraffic
    \/ SampleFinal \/ Freeze
    \/ \E after \in Edits : BeginEdit(after)
    \/ ApplyEdit

EvidenceSpec == EvidenceInit /\ [][EvidenceNext]_evidenceVars

\* The deadline passes, tasks that can go on do, and the medium answers.
\* Nothing is assumed of the firmware or of the user.
Fairness ==
    /\ \A n \in Counted : WF_evidenceVars(GiveUp(n))
    /\ WF_evidenceVars(Expire)
    /\ WF_evidenceVars(RunStarts) /\ WF_evidenceVars(SampleFinal) /\ WF_evidenceVars(Freeze)
    /\ WF_evidenceVars(ApplyEdit)

EvidenceFairSpec == EvidenceSpec /\ Fairness

-----------------------------------------------------------------------------
(* Properties *)

\* What sample_node returns is no older than the sampling: reports sent unasked
\* and late answers of an earlier sampling do not pass for this one's.
SampleIsFresh == \A n \in Counted : sample[n] # Unknown => sample[n] >= floor[n]

Growth(n, upto) == IF base[n] = Unknown THEN 0 ELSE upto[n] - base[n]

\* The run's failed receptions are never more than the firmware failed since the
\* run's first totals, whatever order reports, answers and the final sample come
\* in; and a frozen result that calls itself complete (no node is missing)
\* contains everything up to a final sample of every node.
FailedReceptionsExact ==
    /\ failed <= SumFunction([n \in Counted |-> Growth(n, bad)])
    /\ phase = "FINALIZING" /\ missing = {} =>
         /\ \A n \in Counted : base[n] # Unknown /\ sample[n] # Unknown
         /\ failed >= SumFunction([n \in Counted |-> Growth(n, sample)])

\* The links that are enabled after all changes: the last change of a link decides.
Replayed ==
    {p \in DirectedPairs(Range(NodeSeq)) :
        LET of == {i \in DOMAIN changes : changes[i].pair = p}
        IN  IF of = {} THEN p \in snapshot ELSE changes[Max(of)].enabled}

\* While a run takes events its history leads from the snapshot to the links:
\* no edit slips in around the start, and one that does not fit into the bounded
\* history is not applied in part or unrecorded.
HistoryReplays == Accepts => Replayed = links

\* A sampling ends and the topology lock is given back, whether the firmware
\* answers or not: no start, stop or edit hangs on a silent node.
SamplingEnds == sampler # "none" \/ locked ~> sampler = "none" /\ ~locked
=============================================================================

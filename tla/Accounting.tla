----------------------------- MODULE Accounting -----------------------------
(***************************************************************************)
(* What a traffic run counts (backend/app/traffic/controller.py): messages  *)
(* are generated and handed to a gateway, and the firmware's reports about  *)
(* them (queue status, RF transmissions, received texts, acknowledgments,   *)
(* routing errors) arrive in any order, twice, late or never, while the run *)
(* generates, drains, is stopped and is finalized.  Reports carry a packet  *)
(* id, not a run: ids are quarantined between runs (_allocate_packet_id,    *)
(* _retire_packet_ids).                                                     *)
(*                                                                          *)
(* One source node is modelled: ids, pending submissions and quarantines    *)
(* are kept per source and never interact.                                  *)
(***************************************************************************)
EXTENDS Integers, Sequences, FiniteSets, FiniteSetsExt

CONSTANTS
    Receivers,     \* the nodes other than the source
    Ids,           \* packet ids
    Quarantine,    \* PACKET_ID_QUARANTINE_SECONDS
    Capacity,      \* MAX_QUARANTINED_PACKET_IDS_PER_SOURCE
    Lateness,      \* the firmware reports on a packet for this long
    MaxMessages,   \* bound: messages of all runs
    MaxRuns,       \* bound: runs
    MaxRF,         \* bound: RF transmissions counted in one run
    MaxTime        \* bound: time

ASSUME AccountingAssumption ==
    /\ IsFiniteSet(Receivers)
    /\ {Quarantine, Capacity, Lateness, MaxMessages, MaxRuns, MaxRF, MaxTime} \subseteq Nat
    /\ Lateness <= Quarantine

VARIABLES
    run,         \* number of the current run, 0 before the first
    kind,        \* request.kind of the run: "direct" or "broadcast"
    asked,       \* request.acknowledgment_requested
    step,        \* where the run is; see Accepts
    msgs,        \* current.generated_messages
    counts,      \* the running counters
    terminal,    \* _routing_terminal_sequences
    used,        \* _packet_ids_by_source, in the order of allocation
    quarantine,  \* _packet_id_quarantine, oldest first
    air,         \* packets the firmware was given
    result,      \* the terminal result of the current run
    now,
    earlier      \* messages of earlier runs, for the bound

ids == <<used, quarantine>>
vars == <<run, kind, asked, step, msgs, counts, terminal, ids, air, result, now, earlier>>

NoCounts == [generated |-> 0, submitted |-> 0, failed |-> 0, transmitted |-> 0,
             unique |-> 0, deliveries |-> 0, opportunities |-> 0, acks |-> 0, rf |-> 0]
NoResult == [run |-> 0]

Init ==
    /\ run = 0 /\ kind = "direct" /\ asked = TRUE /\ step = "idle"
    /\ msgs = <<>> /\ counts = NoCounts /\ terminal = {}
    /\ used = <<>> /\ quarantine = <<>>
    /\ air = {} /\ result = NoResult
    /\ now = 0 /\ earlier = 0

\* Mutant: events are accepted while the metrics are computed.
AcceptsWhileFinalizing == step \in {"generate", "drain", "sample", "metrics"}

\* _accepts_run_events: the phase is GENERATING ("generate", and "sample" of a
\* stopped run) or DRAINING ("drain", and "sample" of a drained one).
Accepts == step \in {"generate", "drain", "sample"}

Pending == {i \in DOMAIN msgs : msgs[i].pending}

-----------------------------------------------------------------------------
(* Packet ids *)

\* What is left of s when it is popped up to the first position in live.
Popped(s, live) == IF live = {} THEN <<>> ELSE SubSeq(s, Min(live), Len(s))

\* _purge_packet_id_quarantine: the expired front of the deque is popped.
Purged == Popped(quarantine, {k \in DOMAIN quarantine : quarantine[k].expiry > now})

QuarantinedIds(q) == {q[k].id : k \in DOMAIN q}
UsedIds == {used[k].id : k \in DOMAIN used}

\* Mutant: only the ids of the current run are avoided.
FreeIdsOfRun == Ids \ UsedIds

\* The ids _allocate_packet_id may draw.
FreeIds == Ids \ (UsedIds \cup QuarantinedIds(Purged))

\* _retire_packet_ids: what is left of the five minutes since allocation.  The
\* ids are in the order of a monotonic clock, so the unexpired ones come last.
Retained ==
    LET unexpired == Popped(used, {k \in DOMAIN used : used[k].at + Quarantine > now})
    IN  [k \in DOMAIN unexpired |->
            [expiry |-> unexpired[k].at + Quarantine, id |-> unexpired[k].id]]

-----------------------------------------------------------------------------
(* Start of a run *)

\* start: _reset_accumulators retires the ids and clears everything.
StartRun ==
    /\ step \in {"idle", "done"} /\ run < MaxRuns
    /\ LET q == Purged \o Retained
       IN  IF Len(q) > Capacity
           THEN /\ quarantine' = Purged
                /\ UNCHANGED <<run, kind, asked, step, msgs, counts, terminal>>
                /\ UNCHANGED <<used, result, earlier>>
           ELSE /\ quarantine' = q /\ used' = <<>>
                /\ run' = run + 1 /\ step' = "generate"
                /\ kind' \in {"direct", "broadcast"} /\ asked' \in BOOLEAN
                /\ earlier' = earlier + Len(msgs)
                /\ msgs' = <<>> /\ counts' = NoCounts /\ terminal' = {}
                /\ result' = NoResult
    /\ UNCHANGED <<air, now>>

-----------------------------------------------------------------------------
(* Submission *)

NewMessage(id, dest) ==
    [id |-> id, dest |-> dest, submitted |-> FALSE, error |-> FALSE,
     transmitted |-> FALSE, acked |-> FALSE, delivered |-> {}, pending |-> TRUE]

Dests == IF kind = "broadcast" THEN {"broadcast"} ELSE Receivers

\* The firmware's side of a packet handed over: what becomes of it, and how
\* long the firmware may speak of it.
Packet(id, fate) == [id |-> id, run |-> run, fate |-> fate, until |-> now + Lateness]

\* What the firmware may say of a packet, each report with its node.  A text
\* over the rate limit gets a zero queue status and a routing error; any other
\* packet is lost, is refused by the queue, or goes on air.
Says(fate) ==
    (IF fate = "refused" THEN {<<"refused", "source">>} ELSE {})
    \cup (IF fate \in {"limited", "aired"}
          THEN {<<"queued", "source">>, <<"limited", "source">>} ELSE {})
    \cup (IF fate = "aired"
          THEN {<<"rf", "source">>, <<"error", "source">>}
               \cup ({"text"} \X Receivers) \cup ({"ack"} \X (Receivers \cup {"source"}))
          ELSE {})

Fates == {"lost", "refused", "limited", "aired"}

\* _resolve_submission(source, generated, error)
Resolved(m, failed) ==
    IF m.submitted \/ m.error THEN m
    ELSE IF failed THEN [m EXCEPT !.error = TRUE] ELSE [m EXCEPT !.submitted = TRUE]

ResolvedCounts(c, m, failed) ==
    IF m.submitted \/ m.error THEN c
    ELSE IF failed THEN [c EXCEPT !.failed = @ + 1] ELSE [c EXCEPT !.submitted = @ + 1]

\* _submit: the gateway takes the packet, or refuses it (not running, or its
\* queue is full) and the submission has failed.
Submit ==
    /\ step = "generate" /\ earlier + Len(msgs) < MaxMessages
    /\ \E id \in FreeIds, dest \in Dests :
          LET m == NewMessage(id, dest)
              c == [counts EXCEPT !.generated = @ + 1,
                      !.opportunities = @ + IF kind = "broadcast"
                                            THEN Cardinality(Receivers) ELSE 1]
          IN  /\ used' = Append(used, [id |-> id, at |-> now])
              /\ \/ \E fate \in Fates :
                       /\ air' = air \cup {Packet(id, fate)}
                       /\ msgs' = Append(msgs, m)
                       /\ counts' = c
                 \/ /\ msgs' = Append(msgs, [Resolved(m, TRUE) EXCEPT !.pending = FALSE])
                    /\ counts' = ResolvedCounts(c, m, TRUE)
                    /\ UNCHANGED air
    /\ quarantine' = Purged
    /\ UNCHANGED <<run, kind, asked, step, terminal, result, now, earlier>>

-----------------------------------------------------------------------------
(* Reports: what each one does to the message it is about *)

Change(i, m, c) == msgs' = [msgs EXCEPT ![i] = m] /\ counts' = c

\* _record_queue_status: only a pending submission.
QueueStatus(i, failed) ==
    LET m == msgs[i]
    IN  IF ~m.pending THEN UNCHANGED <<msgs, counts>>
        ELSE Change(i, [Resolved(m, failed) EXCEPT !.pending = FALSE],
                    ResolvedCounts(counts, m, failed))

\* record_rf_transmission
RFTransmission(i) ==
    LET m == msgs[i]
    IN  IF ~m.submitted THEN UNCHANGED <<msgs, counts>>
        ELSE Change(i, [m EXCEPT !.transmitted = TRUE],
                    [counts EXCEPT !.transmitted = @ + IF m.transmitted THEN 0 ELSE 1,
                                   !.rf = @ + 1])

\* handle_from_radio, TEXT_MESSAGE_APP: the first copy at a node that counts.
Text(i, node) ==
    LET m == msgs[i]
    IN  IF m.submitted /\ (kind = "direct" => node = m.dest) /\ node \notin m.delivered
        THEN Change(i, [m EXCEPT !.delivered = @ \cup {node}],
                    [counts EXCEPT !.deliveries = @ + 1,
                                   !.unique = @ + IF m.delivered = {} THEN 1 ELSE 0])
        ELSE UNCHANGED <<msgs, counts>>

\* handle_from_radio, ROUTING_APP without an error, from the node "from".
Ack(i, from) ==
    LET m == msgs[i]
        counted == /\ m.transmitted
                   /\ IF kind = "direct" THEN from = m.dest ELSE from # "source"
    IN  IF counted /\ ~m.acked
        THEN Change(i, [m EXCEPT !.acked = TRUE], [counts EXCEPT !.acks = @ + 1])
        ELSE UNCHANGED <<msgs, counts>>

\* _record_pretransmission_rejection, without its early return.
Rejection(m, c) ==
    <<[m EXCEPT !.submitted = FALSE, !.error = TRUE, !.pending = FALSE],
      [c EXCEPT !.failed = @ + 1, !.submitted = @ - IF m.submitted THEN 1 ELSE 0]>>

\* Mutant: a rate-limit error takes back a submission that was transmitted.
LimitedAlways(i) ==
    LET m == msgs[i]
    IN  /\ IF m.error THEN UNCHANGED <<msgs, counts>>
           ELSE Change(i, Rejection(m, counts)[1], Rejection(m, counts)[2])
        /\ terminal' = terminal \cup {i}

\* handle_from_radio, ROUTING_APP with RATE_LIMIT_EXCEEDED: a rejection before
\* transmission, and a routing error in any case.
Limited(i) ==
    LET m == msgs[i]
    IN  /\ IF m.transmitted \/ m.error THEN UNCHANGED <<msgs, counts>>
           ELSE Change(i, Rejection(m, counts)[1], Rejection(m, counts)[2])
        /\ terminal' = terminal \cup {i}

\* Any other routing error counts for a transmitted message only.
RoutingError(i) ==
    /\ terminal' = IF msgs[i].transmitted THEN terminal \cup {i} ELSE terminal
    /\ UNCHANGED <<msgs, counts>>

\* A report arrives.  A text carries the run id and counts for its own run only;
\* everything else is found by packet id.
Hear(p, what, node) ==
    LET known == {i \in DOMAIN msgs : msgs[i].id = p.id}
    IN  IF ~Accepts \/ known = {} \/ (what = "text" /\ p.run # run)
        THEN UNCHANGED <<msgs, counts, terminal>>
        ELSE LET i == Min(known)
             IN  \/ what = "queued" /\ QueueStatus(i, FALSE) /\ UNCHANGED terminal
                 \/ what = "refused" /\ QueueStatus(i, TRUE) /\ UNCHANGED terminal
                 \/ what = "rf" /\ RFTransmission(i) /\ UNCHANGED terminal
                 \/ what = "text" /\ Text(i, node) /\ UNCHANGED terminal
                 \/ what = "ack" /\ Ack(i, node) /\ UNCHANGED terminal
                 \/ what = "limited" /\ Limited(i)
                 \/ what = "error" /\ RoutingError(i)

\* Reports come in any order, any number of times, or not at all.
Deliver ==
    /\ \E p \in air : \E r \in Says(p.fate) :
          /\ now < p.until
          /\ r[1] = "rf" => counts.rf < MaxRF
          /\ Hear(p, r[1], r[2])
    /\ UNCHANGED <<run, kind, asked, step, ids, air, result, now, earlier>>

-----------------------------------------------------------------------------
(* End of a run *)

\* _finalize_pending_submissions
FinalizePending ==
    /\ msgs' = [i \in DOMAIN msgs |->
                  IF i \in Pending THEN [Resolved(msgs[i], TRUE) EXCEPT !.pending = FALSE]
                  ELSE msgs[i]]
    /\ counts' = [counts EXCEPT !.failed =
                    @ + Cardinality({i \in Pending : ~msgs[i].submitted /\ ~msgs[i].error})]

GenerationEnds ==
    /\ step = "generate" /\ Len(msgs) > 0
    /\ step' = "drain"
    /\ UNCHANGED <<run, kind, asked, msgs, counts, terminal, ids, air, result, now, earlier>>

\* _unresolved_direct_messages: an acknowledgment is waited for if one is asked for.
Unresolved ==
    {i \in DOMAIN msgs : /\ ~msgs[i].error /\ i \notin terminal
                         /\ ~(msgs[i].submitted /\ msgs[i].dest \in msgs[i].delivered
                                /\ (asked => msgs[i].acked))}

\* _drain returns when nothing is open and the network is quiet.
DrainSettles ==
    /\ step = "drain" /\ Pending = {} /\ (kind = "direct" => Unresolved = {})
    /\ step' = "sample"
    /\ UNCHANGED <<run, kind, asked, msgs, counts, terminal, ids, air, result, now, earlier>>

\* _drain at its deadline, and stop() and fail() once the run task is cancelled.
DeadlineOrStop ==
    /\ step \in {"generate", "drain"}
    /\ FinalizePending
    /\ step' = "sample"
    /\ UNCHANGED <<run, kind, asked, terminal, ids, air, result, now, earlier>>

\* expected_acknowledgments: broadcasts, and texts that ask for none, expect none.
\* The firmware may acknowledge them all the same, and that is counted.
ExpectsAcks == kind = "direct" /\ asked

\* _finish: no report is accepted from here on; the metrics thread starts.
Finish ==
    /\ step = "sample"
    /\ FinalizePending
    /\ step' = "metrics"
    /\ result' = [run |-> run,
                  delivered |-> {i \in DOMAIN msgs' :
                     IF kind = "direct" THEN msgs'[i].dest \in msgs'[i].delivered
                     ELSE msgs'[i].delivered # {}},
                  acks |-> counts'.acks,
                  expected |-> IF ExpectsAcks THEN counts'.submitted ELSE 0]
    /\ UNCHANGED <<run, kind, asked, terminal, ids, air, now, earlier>>

\* The metrics thread is done: the terminal result takes the counters.
Freeze ==
    /\ step = "metrics"
    /\ step' = "done"
    /\ result' = [metrics |-> result, run |-> run, requested |-> counts.generated,
                  submitted |-> counts.submitted, failed |-> counts.failed,
                  transmitted |-> counts.transmitted, unique |-> counts.unique]
    /\ UNCHANGED <<run, kind, asked, msgs, counts, terminal, ids, air, now, earlier>>

Tick ==
    /\ now < MaxTime
    /\ now' = now + 1
    /\ UNCHANGED <<run, kind, asked, step, msgs, counts, terminal, ids, air, result, earlier>>

-----------------------------------------------------------------------------
Next ==
    \/ StartRun \/ Submit \/ Deliver
    \/ GenerationEnds \/ DrainSettles \/ DeadlineOrStop \/ Finish \/ Freeze
    \/ Tick

Spec == Init /\ [][Next]_vars

-----------------------------------------------------------------------------
(* Properties *)

Count(P(_)) == Cardinality({i \in DOMAIN msgs : P(i)})

\* The live counters are those of the records the final metrics are computed from.
CountersMatch ==
    /\ counts.submitted = Count(LAMBDA i : msgs[i].submitted)
    /\ counts.failed = Count(LAMBDA i : msgs[i].error)
    /\ counts.transmitted = Count(LAMBDA i : msgs[i].transmitted)
    /\ counts.transmitted <= counts.rf
    /\ counts.unique = Count(LAMBDA i : msgs[i].delivered # {})
    /\ counts.acks = Count(LAMBDA i : msgs[i].acked)
    /\ counts.deliveries =
          Cardinality({d \in (DOMAIN msgs) \X Receivers : d[2] \in msgs[d[1]].delivered})

\* Every generated message is submitted, failed or still pending, and only one
\* of them, whatever the order of queue status, rate-limit rejection, gateway
\* error and drain deadline; live summary and export cannot disagree; an
\* acknowledged message was transmitted, and a transmitted one stays submitted,
\* so that late reports never leave more acknowledgments than submissions.
Conserved ==
    /\ counts.generated = counts.submitted + counts.failed + Cardinality(Pending)
    /\ step = "done" => result.requested = result.submitted + result.failed
    /\ CountersMatch
    /\ \A i \in DOMAIN msgs :
         /\ msgs[i].acked => msgs[i].transmitted
         /\ msgs[i].transmitted => msgs[i].submitted /\ ~msgs[i].error

\* The metrics computed in the worker thread and the counters copied after it
\* describe the same moment: nothing that arrives in between is half counted.
\* Acknowledgments are expected of the submitted messages of a run that asks for
\* them and of no others, and no more are counted than messages were transmitted,
\* nor more transmitted than submitted: the success ratio, where there is one,
\* never exceeds one.
ResultConsistent ==
    step = "done" =>
        /\ result.unique = Cardinality(result.metrics.delivered)
        /\ result.metrics.expected = IF ExpectsAcks THEN result.submitted ELSE 0
        /\ result.metrics.acks <= result.transmitted
        /\ result.transmitted <= result.submitted

\* While the firmware may still speak of a packet of an earlier run, no message
\* of the current run has its id: a late report is never taken for one about
\* the current run, although it is found by packet id alone.
NoCrossRun ==
    \A p \in air : (now < p.until /\ p.run # run) =>
        \A i \in DOMAIN msgs : msgs[i].id # p.id
=============================================================================

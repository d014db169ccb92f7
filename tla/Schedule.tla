------------------------------ MODULE Schedule ------------------------------
(***************************************************************************)
(* The messages of a traffic run, in order (TrafficController._run in       *)
(* backend/app/traffic/controller.py): flows with their own rate, sources,  *)
(* timing and destinations are merged by due time.  Time is in ticks; an    *)
(* interval is a number of ticks that its flow's sources divide.  Lateness  *)
(* of the event loop delays a message and changes no order.                 *)
(***************************************************************************)
EXTENDS Naturals, Sequences, FiniteSets, FiniteSetsExt, SequencesExt

CONSTANTS
    RunNodes,    \* the nodes in the scenario's order
    Flows,       \* flows a request may have
    Durations,   \* duration_seconds, in ticks
    MaxFlows     \* bound: flows of a request

\* validate_request and _validate_request_nodes: the sources of a flow are
\* different nodes and a fixed destination is none of them.
ASSUME ScheduleAssumption ==
    /\ RunNodes \in Seq(Range(RunNodes)) /\ IsInjective(RunNodes) /\ Len(RunNodes) >= 2
    /\ Durations \subseteq Nat \ {0} /\ MaxFlows \in Nat
    /\ \A flow \in Flows :
         /\ flow.interval \in Nat \ {0}
         /\ flow.sources \in Seq(Range(RunNodes)) \ {<<>>} /\ IsInjective(flow.sources)
         /\ flow.fixed \in (Range(RunNodes) \ Range(flow.sources)) \cup {"round-robin"}
         /\ flow.timing \in {"aligned", "evenly-staggered", "deterministic-jitter"}

VARIABLES
    flows,     \* scheduling_flows(), <<>> before a run
    duration,
    offsets,   \* offsets[f][s]: source_offsets of the s-th source of flow f
    ticks,     \* next_tick: the sources <<f, s>> that are not done, with their tick
    robin,     \* round_robin
    sent       \* what was submitted, in order

schedule == <<flows, duration, offsets, ticks, robin, sent>>

\* _messages_per_source, rounded up.
MessagesPerFlow(flow) == Max({1, (duration + flow.interval - 1) \div flow.interval})

\* _source_offsets_for: the offsets that a flow can have.
SourceOffsets(flow) ==
    LET count == Len(flow.sources)
    IN  CASE flow.timing = "aligned" -> {[s \in 1 .. count |-> 0]}
          [] flow.timing = "evenly-staggered" ->
               {[s \in 1 .. count |-> ((s - 1) * flow.interval) \div count]}
          [] flow.timing = "deterministic-jitter" -> [1 .. count -> 0 .. flow.interval - 1]

\* _maximum_sequence, from which start() computes the room for the sequence.
MaximumSequence ==
    SumFunction([f \in DOMAIN flows |-> Len(flows[f].sources) * MessagesPerFlow(flows[f])])

ScheduleInit ==
    /\ flows = <<>> /\ duration = 0 /\ offsets = <<>>
    /\ ticks = <<>> /\ robin = <<>> /\ sent = <<>>

AllSources(request) == UNION {{f} \X (DOMAIN request[f].sources) : f \in DOMAIN request}

\* A request is accepted and _run sets up its tables.
BeginRun ==
    /\ flows = <<>>
    /\ flows' \in BoundedSeq(Flows, MaxFlows) \ {<<>>}
    /\ duration' \in Durations
    /\ offsets' \in {o \in [DOMAIN flows' -> UNION {SourceOffsets(flow) : flow \in Range(flows')}] :
                        \A f \in DOMAIN flows' : o[f] \in SourceOffsets(flows'[f])}
    /\ ticks' = [k \in AllSources(flows') |-> 0]
    /\ robin' = ticks'
    /\ UNCHANGED sent

DueAt(k, tick) == offsets[k[1]][k[2]] + tick * flows[k[1]].interval

\* Mutant: the source with the fewest messages is next.
BeforeByTick(k, l) ==
    \/ ticks[k] < ticks[l]
    \/ ticks[k] = ticks[l] /\ (k[1] < l[1] \/ (k[1] = l[1] /\ k[2] <= l[2]))

\* The key of min: the due time, then the place in the request.
Before(k, l) ==
    \/ DueAt(k, ticks[k]) < DueAt(l, ticks[l])
    \/ /\ DueAt(k, ticks[k]) = DueAt(l, ticks[l])
       /\ k[1] < l[1] \/ (k[1] = l[1] /\ k[2] <= l[2])

SourceOf(k) == flows[k[1]].sources[k[2]]

\* _choose_destination for direct messages.
Destination(k) ==
    LET candidates == RemoveAt(RunNodes, CHOOSE i \in DOMAIN RunNodes : RunNodes[i] = SourceOf(k))
    IN  IF flows[k[1]].fixed # "round-robin" THEN flows[k[1]].fixed
        ELSE candidates[(robin[k] % Len(candidates)) + 1]

\* One turn of _run's loop: the source that is due first.
Submit ==
    /\ DOMAIN ticks # {}
    /\ \E k \in DOMAIN ticks :
         /\ \A l \in DOMAIN ticks : Before(k, l)
         /\ sent' = Append(sent, [flow |-> k[1], source |-> SourceOf(k),
                                  due |-> DueAt(k, ticks[k]), to |-> Destination(k)])
         /\ robin' = IF flows[k[1]].fixed = "round-robin" THEN [robin EXCEPT ![k] = @ + 1]
                     ELSE robin
         /\ ticks' = IF ticks[k] + 1 = MessagesPerFlow(flows[k[1]])
                     THEN [l \in DOMAIN ticks \ {k} |-> ticks[l]]
                     ELSE [ticks EXCEPT ![k] = @ + 1]
    /\ UNCHANGED <<flows, duration, offsets>>

ScheduleNext == BeginRun \/ Submit

ScheduleSpec == ScheduleInit /\ [][ScheduleNext]_schedule

-----------------------------------------------------------------------------
\* How many messages of a source in a flow went to a node.
SentTo(f, source, to) ==
    Cardinality({i \in DOMAIN sent : sent[i].flow = f /\ sent[i].source = source /\ sent[i].to = to})

\* Messages leave in the order of their due times over all flows; a finished run
\* has sent exactly the number that start() made room for and admitted; and round
\* robin treats all other nodes alike, each source on its own.
ScheduleIsExact ==
    /\ \A i \in 1 .. Len(sent) - 1 : sent[i].due <= sent[i + 1].due
    /\ flows # <<>> =>
         /\ Len(sent) <= MaximumSequence
         /\ DOMAIN ticks = {} => Len(sent) = MaximumSequence
    /\ \A k \in AllSources(flows) : flows[k[1]].fixed = "round-robin" =>
         \A x, y \in Range(RunNodes) \ {SourceOf(k)} :
             SentTo(k[1], SourceOf(k), x) <= SentTo(k[1], SourceOf(k), y) + 1
=============================================================================

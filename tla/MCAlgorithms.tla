---------------------------- MODULE MCAlgorithms ----------------------------
(* The sequential parts, one of them in each behaviour, for TLC. *)
EXTENDS BoundedLog, Framing, Reachability, Schedule, Configure

CONSTANTS n1, n2, n3, n4

MCNodes == {n1, n2, n3, n4}
MCRunNodes == <<n1, n2, n3>>

MCFlow(sources, interval, timing, fixed) ==
    [sources |-> sources, interval |-> interval, timing |-> timing, fixed |-> fixed]

MCFlows ==
    {MCFlow(<<n1, n2>>, 4, "evenly-staggered", "round-robin"),
     MCFlow(<<n3>>, 3, "aligned", n1),
     MCFlow(<<n2, n1>>, 2, "deterministic-jitter", "round-robin"),
     MCFlow(<<n1, n2, n3>>, 6, "evenly-staggered", "round-robin")}

Init == LogInit /\ FrameInit /\ SearchInit /\ ScheduleInit /\ ConfigureInit

LogSteps == LogNext /\ UNCHANGED <<parser, search, schedule, node>>
ParserSteps == FrameNext /\ UNCHANGED <<log, search, schedule, node>>
SearchSteps == SearchNext /\ UNCHANGED <<log, parser, schedule, node>>
ScheduleSteps == ScheduleNext /\ UNCHANGED <<log, parser, search, node>>
ConfigureSteps == ConfigureNext /\ UNCHANGED <<log, parser, search, schedule>>

\* Only one of them leaves its initial state.
Next ==
    \/ FrameInit /\ SearchInit /\ ScheduleInit /\ ConfigureInit /\ LogSteps
    \/ LogInit /\ SearchInit /\ ScheduleInit /\ ConfigureInit /\ ParserSteps
    \/ LogInit /\ FrameInit /\ ScheduleInit /\ ConfigureInit /\ SearchSteps
    \/ LogInit /\ FrameInit /\ SearchInit /\ ConfigureInit /\ ScheduleSteps
    \/ LogInit /\ FrameInit /\ SearchInit /\ ScheduleInit /\ ConfigureSteps

Spec == Init /\ [][Next]_<<log, parser, search, schedule, node>>
=============================================================================

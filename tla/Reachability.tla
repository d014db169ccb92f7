---------------------------- MODULE Reachability ----------------------------
(***************************************************************************)
(* Scenario.reachable_pairs (backend/app/models/scenario.py): a search over *)
(* the enabled links from one node, within a hop limit; the warm-up waits   *)
(* for the pairs it returns.  The neighbours of a node are a Python set and *)
(* enter the queue in any order.                                            *)
(***************************************************************************)
EXTENDS Naturals, FiniteSets, SequencesExt, Topology

CONSTANTS
    GraphNodes,
    Source,      \* the node that the search starts from
    HopLimits    \* values of max_hops; one of at least the nodes stands for None

ASSUME ReachabilityAssumption ==
    IsFiniteSet(GraphNodes) /\ Source \in GraphNodes /\ HopLimits \subseteq Nat \ {0}

VARIABLES
    enabled,    \* the enabled links
    maxHops,    \* max_hops, 0 before a search
    pending,    \* the queue
    visited,
    reachable

search == <<enabled, maxHops, pending, visited, reachable>>

Adjacency(n) == {m \in GraphNodes : <<n, m>> \in enabled}

SearchInit ==
    /\ enabled = {} /\ maxHops = 0
    /\ pending = <<>> /\ visited = {} /\ reachable = {}

\* The nodes of a set with their hops, in any order.
Queued(S, hops) == {[i \in DOMAIN q |-> <<q[i], hops>>] : q \in SetToSeqs(S)}

\* A search begins with the neighbours of the source.  A link back to the source
\* changes nothing, since the source is visited.
BeginSearch ==
    /\ maxHops = 0
    /\ maxHops' \in HopLimits
    /\ enabled' \in SUBSET {p \in DirectedPairs(GraphNodes) : p[2] # Source}
    /\ pending' \in Queued({m \in GraphNodes : <<Source, m>> \in enabled'}, 1)
    /\ visited' = {Source}
    /\ UNCHANGED reachable

\* Mutant: the newest entry of the queue comes first.
VisitDeepest ==
    /\ pending # <<>>
    /\ LET target == Last(pending)[1]
           hops == Last(pending)[2]
           rest == Front(pending)
       IN  IF target \in visited THEN pending' = rest /\ UNCHANGED <<visited, reachable>>
           ELSE /\ visited' = visited \cup {target}
                /\ reachable' = reachable \cup {target}
                /\ IF hops < maxHops
                   THEN \E q \in Queued(Adjacency(target) \ visited', hops + 1) : pending' = rest \o q
                   ELSE pending' = rest
    /\ UNCHANGED <<enabled, maxHops>>

\* One turn of the loop.
Visit ==
    /\ pending # <<>>
    /\ LET target == Head(pending)[1]
           hops == Head(pending)[2]
           rest == Tail(pending)
       IN  IF target \in visited THEN pending' = rest /\ UNCHANGED <<visited, reachable>>
           ELSE /\ visited' = visited \cup {target}
                /\ reachable' = reachable \cup {target}
                /\ IF hops < maxHops
                   THEN \E q \in Queued(Adjacency(target) \ visited', hops + 1) : pending' = rest \o q
                   ELSE pending' = rest
    /\ UNCHANGED <<enabled, maxHops>>

SearchNext == BeginSearch \/ Visit

SearchSpec == SearchInit /\ [][SearchNext]_search

-----------------------------------------------------------------------------
\* The nodes at most k links away from the source.
Within(k) ==
    LET ball[i \in Nat] ==
            IF i = 0 THEN {Source}
            ELSE ball[i - 1] \cup UNION {Adjacency(n) : n \in ball[i - 1]}
    IN  ball[k]

\* A finished search has found exactly the other nodes within the hop limit,
\* whatever the order of the neighbours: a node met first on a long way is not
\* kept from passing a short one on.
ReachabilityExact ==
    maxHops # 0 /\ pending = <<>> => reachable = Within(maxHops) \ {Source}
=============================================================================

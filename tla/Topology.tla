------------------------------ MODULE Topology ------------------------------
(***************************************************************************)
(* Link maps and the deterministic topology presets                         *)
(* (backend/app/models/scenario.py).  A valid scenario has exactly one link *)
(* for every ordered pair of distinct nodes, so a link map is the set of    *)
(* the pairs whose link is enabled.  RSSI and SNR are left out.             *)
(***************************************************************************)
EXTENDS Integers, Sequences

PresetNames == {"full-mesh", "line", "star", "all-isolated"}

\* validate_graph: every pair of distinct nodes has one link, and no other.
DirectedPairs(ids) == {p \in ids \X ids : p[1] # p[2]}

\* generate_links: the links a preset enables.  The first node is the hub.
GenerateLinks(ids, preset) ==
    LET enabled(i, j) ==
            CASE preset = "full-mesh" -> TRUE
              [] preset = "line" -> i - j \in {-1, 1}
              [] preset = "star" -> 1 \in {i, j}
              [] preset = "all-isolated" -> FALSE
    IN  {<<ids[p[1]], ids[p[2]]>> :
            p \in {q \in DirectedPairs(DOMAIN ids) : enabled(q[1], q[2])}}

\* The pairs whose link differs between two link maps.
Changed(before, after) == (before \ after) \cup (after \ before)
=============================================================================

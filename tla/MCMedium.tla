----------------------------- MODULE MCMedium -----------------------------
(* Medium among three nodes, with three of the presets, for TLC. *)
EXTENDS Medium, Topology

CONSTANTS n1, n2, n3

MCNodes == {n1, n2, n3}
MCPresets == {GenerateLinks(<<n1, n2, n3>>, p) : p \in {"all-isolated", "full-mesh", "star"}}
=============================================================================

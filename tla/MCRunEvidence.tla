--------------------------- MODULE MCRunEvidence ---------------------------
(* RunEvidence with two nodes, for TLC. *)
EXTENDS RunEvidence

CONSTANTS n1, n2

MCNodeSeq == <<n1, n2>>
=============================================================================

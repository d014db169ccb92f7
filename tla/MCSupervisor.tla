---------------------------- MODULE MCSupervisor ----------------------------
(* Supervisor with two children, for TLC. *)
EXTENDS Supervisor

CONSTANTS n1, n2

MCNodeSeq == <<n1, n2>>
=============================================================================

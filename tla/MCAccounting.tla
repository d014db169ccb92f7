---------------------------- MODULE MCAccounting ----------------------------
(* Instances of Accounting for TLC: packet ids and receivers are symmetric.  *)
EXTENDS Accounting, TLC

Symmetry == Permutations(Ids) \cup Permutations(Receivers)
=============================================================================

---------------------------- MODULE MCSessionLog ----------------------------
(* Instances of SessionLog for TLC. *)
EXTENDS SessionLog, TLC

Symmetry == Permutations(Proc)
=============================================================================

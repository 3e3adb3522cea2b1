-------------------------- MODULE MCSourceRecovery --------------------------
(* Instances of SourceRecovery for TLC. *)
EXTENDS SourceRecovery, TLC

Symmetry == Permutations(Operation)
=============================================================================

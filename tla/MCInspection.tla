---------------------------- MODULE MCInspection ----------------------------
(* Instances of Inspection for TLC. *)
EXTENDS Inspection

\* A capture, an action and an assertion about what it did
ThreeSteps == <<"capture", "act", "assert">>
=============================================================================

----------------------------- MODULE DurableLog -----------------------------
(***************************************************************************)
(* What a session's event log promises its callers: one sequence of events *)
(* that only grows, whose acknowledged prefix survives every failure.  An  *)
(* event that was written but never acknowledged may stay or may vanish.   *)
(*                                                                         *)
(* SessionLog implements it with a file, a lock and a projection.          *)
(***************************************************************************)
EXTENDS Naturals, Sequences

CONSTANT Event

VARIABLES
  log,      \* the events that a reader of the log finds
  promised  \* how many of them are acknowledged

vars == <<log, promised>>

Init == log = <<>> /\ promised = 0

\* An event is written once, at the end.
Write(e) ==
  /\ \A i \in DOMAIN log : log[i].id # e.id
  /\ e.seq = Len(log) + 1
  /\ log' = Append(log, e)
  /\ UNCHANGED promised

\* Acknowledging an event promises it and everything before it.
Acknowledge ==
  /\ promised' \in promised + 1..Len(log)
  /\ UNCHANGED log

\* A power failure loses a suffix that nobody was promised.
Lose ==
  /\ \E n \in promised..Len(log) : log' = SubSeq(log, 1, n)
  /\ UNCHANGED promised

Next == (\E e \in Event : Write(e)) \/ Acknowledge \/ Lose

Spec == Init /\ [][Next]_vars
=============================================================================

---------------------------- MODULE MCController ----------------------------
(* Instances of Controller for TLC. *)
EXTENDS Controller

CONSTANTS task, dispose, diff, inspect, models

\* task     composed, asks twice
\* dispose  /dispose, prepares and asks once
\* diff     Ctrl+D
\* inspect  /inspect-app from the palette: awaits, then is active and asks
\* models   a provider picked in the palette
Kinds == [c \in Command |->
  CASE c = task -> "task"
    [] c = inspect -> "review"
    [] c = dispose -> "prompt"
    [] c = diff -> "quick"
    [] c = models -> "discovery"]

Requests == [c \in Command |->
  IF c = task THEN 2 ELSE IF c \in {dispose, inspect} THEN 1 ELSE 0]

\* What comes from outside the composer
Chosen == Command \ {task, dispose}
=============================================================================

---------------------------- MODULE MCAcceptance ----------------------------
(* A small application: its configuration, which is not in the index of Git, *)
(* the settings of its tests, which Git is told to ignore, and what is       *)
(* tracked: the application, the routes and a test.                          *)
EXTENDS Acceptance

Paths == <<".mavona.yml", ".rspec", "application", "routes", "test">>

Kinds == [f \in File |-> CASE f = ".mavona.yml" -> "config"
                           [] f = ".rspec" -> "helper"
                           [] OTHER -> f]

\* Nothing is configured at first.
Checkout == [f \in File |-> IF f = ".mavona.yml" THEN "absent" ELSE "v1"]

=============================================================================

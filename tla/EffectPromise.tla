--------------------------- MODULE EffectPromise ---------------------------
(***************************************************************************)
(* What Mavona promises about the effects it runs on one worktree, with no *)
(* processes, files or locks: an effect is exposed before it touches the   *)
(* worktree, nothing else is exposed until it has been settled (a durable  *)
(* result, or an explicit acknowledgement of the owning session), and an   *)
(* effect that was not settled is never forgotten. A result may be         *)
(* withdrawn as long as the effect is exposed.                             *)
(*                                                                         *)
(* EffectGuard implements it with session logs and a table of pending rows.*)
(***************************************************************************)
CONSTANT Effect

VARIABLES
  exposed,   \* effects that may be changing the worktree, or may have
  settled,   \* exposed effects whose result is accounted for
  touching   \* effects whose process is changing the worktree now

vars == <<exposed, settled, touching>>

Init ==
  /\ exposed = {}
  /\ settled = {}
  /\ touching = {}

Expose(e) ==
  /\ exposed = {}
  /\ exposed' = {e}
  /\ UNCHANGED <<settled, touching>>

Touch(e) ==
  /\ e \in exposed \ settled
  /\ touching' = touching \union {e}
  /\ UNCHANGED <<exposed, settled>>

Leave(e) ==
  /\ touching' = touching \ {e}
  /\ UNCHANGED <<exposed, settled>>

Settle(e) ==
  /\ e \in exposed
  /\ settled' = settled \union {e}
  /\ UNCHANGED <<exposed, touching>>

\* A result is withdrawn while the effect is still exposed.
Unsettle(e) ==
  /\ e \in settled
  /\ settled' = settled \ {e}
  /\ UNCHANGED <<exposed, touching>>

Clear(e) ==
  /\ e \in settled
  /\ exposed' = exposed \ {e}
  /\ settled' = settled \ {e}
  /\ UNCHANGED touching

Next ==
  \E e \in Effect :
    \/ Expose(e) \/ Touch(e) \/ Leave(e)
    \/ Settle(e) \/ Unsettle(e) \/ Clear(e)

Spec == Init /\ [][Next]_vars
=============================================================================

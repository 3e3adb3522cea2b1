--------------------------- MODULE SourceRecovery ---------------------------
(***************************************************************************)
(* The life of one retained deletion: a file that delete_file moved to     *)
(* .mavona/recovery can be restored to its path or, after a review,        *)
(* disposed of through a random staging path                               *)
(* (src/packages/tools/recovery.ts, disposal.ts; reconciliation in         *)
(* src/packages/sessions/reconciliation.ts).                               *)
(*                                                                         *)
(* What the session knows of the copy is replayed from its events by       *)
(* retainedDeletions.  Each event, each change of the pending row and each *)
(* file operation is a step, and the process may be killed between any     *)
(* two, or a step may throw, which the operations catch and record.        *)
(* An operation is named by its effect identity; so is the staging path of *)
(* a disposal.  Digests, modes and anchoring checks are abstracted to the  *)
(* possibility that an operation throws.                                   *)
(***************************************************************************)
EXTENDS Naturals, FiniteSets

CONSTANTS
  Operation,   \* effect identities; bounds the number of operations
  NoOperation,
  MaxKills     \* bound on killed processes

ASSUME NoOperationAssumption == NoOperation \notin Operation
ASSUME MaxKillsAssumption == MaxKills \in Nat
\* A random staging path is none of the other places of the bytes.
ASSUME PlaceAssumption == Operation \intersect {"recovery", "source", "removed"} = {}

VARIABLES
  at,         \* where the retained bytes are
  occupied,   \* the user has a file at the original path
  entry,      \* RetainedDeletion.state
  alternate,  \* RetainedDeletion.alternateRecoveryPath
  staged,     \* every staging path recorded in the log
  waiting,    \* the map "pending" of retainedDeletions: operations to reconcile
  effects,    \* SessionState.effects
  reconciled, \* SessionState.reconciledEffects
  row,        \* rows of the worktree's pending table
  pc, kind, op, from,  \* the process: stage, operation, its identity and source
  kills

vars == <<at, occupied, entry, alternate, staged, waiting, effects, reconciled,
          row, pc, kind, op, from, kills>>

Place == {"recovery", "source", "removed"} \union Operation

TypeOK ==
  /\ at \in Place
  /\ occupied \in BOOLEAN
  /\ entry \in {"retained", "restored", "disposed", "unknown"}
  /\ alternate \in Operation \union {NoOperation}
  /\ staged \in SUBSET Operation
  /\ waiting \in SUBSET Operation
  /\ effects \in [Operation -> {"absent", "unknown", "passed"}]
  /\ reconciled \in SUBSET Operation
  /\ row \in SUBSET Operation
  /\ pc \in {"idle", "announced", "intended", "guarded", "moved", "removed",
             "recorded", "completed", "cleared", "failed", "failRecorded",
             "failCompleted"}
  /\ kind \in {"restore", "dispose"}
  /\ op \in Operation \union {NoOperation}
  /\ from \in Place
  /\ kills \in 0..MaxKills

\* The completed deletion: its bytes are in the recovery directory.
Init ==
  /\ at = "recovery" /\ occupied = FALSE
  /\ entry = "retained" /\ alternate = NoOperation
  /\ staged = {} /\ waiting = {}
  /\ effects = [o \in Operation |-> "absent"]
  /\ reconciled = {} /\ row = {}
  /\ pc = "idle" /\ kind = "restore" /\ op = NoOperation /\ from = "recovery"
  /\ kills = 0

-----------------------------------------------------------------------------
MutationAllowed == \A o \in Operation : effects[o] = "unknown" => o \in reconciled

\* availableRecoveryPath: the recorded locations of which exactly one exists
Candidates == {"recovery"} \union ({alternate} \ {NoOperation})

Fresh(o) == effects[o] = "absent" /\ o \notin waiting

fileVars == <<at, occupied>>
logVars == <<entry, alternate, staged, waiting, effects, reconciled>>
opVars == <<kind, op, from>>

-----------------------------------------------------------------------------
(* restoreSource and disposeSource *)

\* A faulty variant: the staging path is not part of the event.
ForgetStaging(o, k) ==
  /\ UNCHANGED <<alternate, staged>>

\* retainedDeletions keeps the staging path of the last disposal.
RecordStaging(o, k) ==
  IF k = "dispose" THEN alternate' = o /\ staged' = staged \union {o}
                   ELSE UNCHANGED <<alternate, staged>>

\* The preview and its repetition under the lease succeed, and the operation is
\* announced: source.recovery.requested or source.disposal.requested.
Announce(o, k) ==
  /\ pc = "idle"
  /\ MutationAllowed
  /\ row = {}
  /\ entry = "retained"
  /\ at \in Candidates
  /\ Fresh(o)
  /\ RecordStaging(o, k)
  /\ entry' = "unknown"
  /\ waiting' = waiting \union {o}
  /\ pc' = "announced" /\ kind' = k /\ op' = o /\ from' = at
  /\ UNCHANGED <<fileVars, effects, reconciled, row, kills>>

\* effect.requested
Intend ==
  /\ pc = "announced"
  /\ effects' = [effects EXCEPT ![op] = "unknown"]
  /\ pc' = "intended"
  /\ UNCHANGED <<fileVars, entry, alternate, staged, waiting, reconciled, row,
                 opVars, kills>>

\* A faulty variant: the worktree is not told.
SkipRow ==
  /\ pc = "intended"
  /\ pc' = "guarded"
  /\ UNCHANGED <<fileVars, logVars, row, opVars, kills>>

\* WorktreeLease.beginEffect
Guard ==
  /\ pc = "intended"
  /\ row' = row \union {op}
  /\ pc' = "guarded"
  /\ UNCHANGED <<fileVars, logVars, opVars, kills>>

\* AnchoredFiles.move never replaces its target.
Move ==
  /\ pc = "guarded"
  /\ at = from
  /\ kind = "restore" => ~occupied
  /\ at' = IF kind = "restore" THEN "source" ELSE op
  /\ pc' = "moved"
  /\ UNCHANGED <<occupied, logVars, row, opVars, kills>>

\* AnchoredFiles.remove of the staged copy
Remove ==
  /\ pc = "moved"
  /\ kind = "dispose"
  /\ at' = "removed"
  /\ pc' = "removed"
  /\ UNCHANGED <<occupied, logVars, row, opVars, kills>>

\* A faulty variant: the result is written when the copy is staged.
RecordStaged ==
  /\ pc = "moved"
  /\ entry' = IF kind = "restore" THEN "restored" ELSE "disposed"
  /\ pc' = "recorded"
  /\ UNCHANGED <<fileVars, alternate, staged, waiting, effects, reconciled,
                 row, opVars, kills>>

\* A faulty variant: the state of the effect becomes the state of the entry.
RecordEffectState ==
  /\ pc = IF kind = "restore" THEN "moved" ELSE "removed"
  /\ entry' = "passed"
  /\ pc' = "recorded"
  /\ UNCHANGED <<fileVars, alternate, staged, waiting, effects, reconciled,
                 row, opVars, kills>>

\* source.recovery.completed or source.disposal.completed, passed
Record ==
  /\ pc = IF kind = "restore" THEN "moved" ELSE "removed"
  /\ entry' = IF kind = "restore" THEN "restored" ELSE "disposed"
  /\ pc' = "recorded"
  /\ UNCHANGED <<fileVars, alternate, staged, waiting, effects, reconciled,
                 row, opVars, kills>>

\* effect.completed, passed
Complete ==
  /\ pc = "recorded"
  /\ effects' = [effects EXCEPT ![op] = "passed"]
  /\ pc' = "completed"
  /\ UNCHANGED <<fileVars, entry, alternate, staged, waiting, reconciled, row,
                 opVars, kills>>

\* WorktreeLease.completeEffect
Clear ==
  /\ pc = "completed"
  /\ row' = row \ {op}
  /\ pc' = "cleared"
  /\ UNCHANGED <<fileVars, logVars, opVars, kills>>

\* A restoration records the new worktree state; the lease closes.
End ==
  /\ pc = "cleared"
  /\ pc' = "idle"
  /\ op' = NoOperation
  /\ UNCHANGED <<fileVars, logVars, row, kind, from, kills>>

\* A step after effect.requested throws: cancellation, a busy target, a changed
\* copy, a failed move or write; in a restoration also the last writes.
Throw ==
  /\ \/ pc \in {"intended", "guarded", "moved", "removed", "recorded", "completed"}
     \/ pc = "cleared" /\ kind = "restore"
  /\ pc' = "failed"
  /\ UNCHANGED <<fileVars, logVars, row, opVars, kills>>

\* A throw before effect.requested only closes the lease.
ThrowEarly ==
  /\ pc = "announced"
  /\ pc' = "idle"
  /\ op' = NoOperation
  /\ UNCHANGED <<fileVars, logVars, row, kind, from, kills>>

\* The catch: source.*.completed, unknown
RecordFailure ==
  /\ pc = "failed"
  /\ entry' = "unknown"
  /\ waiting' = waiting \union {op}
  /\ pc' = "failRecorded"
  /\ UNCHANGED <<fileVars, alternate, staged, effects, reconciled, row, opVars,
                 kills>>

\* effect.completed, unknown
CompleteFailure ==
  /\ pc = "failRecorded"
  /\ effects' = [effects EXCEPT ![op] = "unknown"]
  /\ pc' = "failCompleted"
  /\ UNCHANGED <<fileVars, entry, alternate, staged, waiting, reconciled, row,
                 opVars, kills>>

\* completeEffect keeps the row of an unknown result; the lease closes.
EndFailure ==
  /\ pc = "failCompleted"
  /\ pc' = "idle"
  /\ op' = NoOperation
  /\ UNCHANGED <<fileVars, logVars, row, kind, from, kills>>

-----------------------------------------------------------------------------
\* reconcileEffect: the effect must be in the session's log; retainedDeletions
\* makes an unknown entry available again.
Reconcile(o) ==
  /\ pc = "idle"
  /\ effects[o] # "absent"
  /\ reconciled' = reconciled \union {o}
  /\ entry' = IF o \in waiting /\ entry = "unknown" THEN "retained" ELSE entry
  /\ waiting' = waiting \ {o}
  /\ row' = row \ {o}
  /\ UNCHANGED <<fileVars, alternate, staged, effects, pc, opVars, kills>>

\* The process is killed and the session is opened again.
Kill ==
  /\ pc # "idle"
  /\ kills < MaxKills
  /\ kills' = kills + 1
  /\ pc' = "idle"
  /\ op' = NoOperation
  /\ UNCHANGED <<fileVars, logVars, row, kind, from>>

\* The user creates or removes a file at the original path.
UserEdits ==
  /\ at # "source"
  /\ occupied' = ~occupied
  /\ UNCHANGED <<at, logVars, row, pc, opVars, kills>>

-----------------------------------------------------------------------------
Step ==
  \/ Intend \/ Guard \/ Move \/ Remove \/ Record \/ Complete \/ Clear \/ End
  \/ Throw \/ ThrowEarly \/ RecordFailure \/ CompleteFailure \/ EndFailure

Next ==
  \/ \E o \in Operation, k \in {"restore", "dispose"} : Announce(o, k)
  \/ Step
  \/ \E o \in Operation : Reconcile(o)
  \/ Kill
  \/ UserEdits

Spec == Init /\ [][Next]_vars

-----------------------------------------------------------------------------
(* Properties *)

\* The bytes are never anywhere the log does not know: at the recovery path, at
\* the original path, removed, or at a staging path that a disposal recorded
\* before it moved them (disposal.ts, disposeSource).
BytesAreOnRecord == at \in {"recovery", "source", "removed"} \union staged

\* A copy that the log calls disposed is gone, and one it calls restored is at
\* its path, whatever was interrupted, reconciled and tried again
\* (recovery.ts, retainedDeletions).
TombstonesAreTrue ==
  /\ entry = "disposed" => at = "removed"
  /\ entry = "restored" => at = "source"

\* The bytes move only for an operation that is announced, intended and guarded
\* in the log and the worktree, while no other operation is unaccounted for
\* (recovery.ts, restoreSource; disposal.ts, disposeSource).
MovesAreGuarded ==
  [][at' # at =>
       /\ row = {op}
       /\ entry = "unknown"
       /\ \A o \in Operation \ {op} : effects[o] = "unknown" => o \in reconciled]_vars

-----------------------------------------------------------------------------
(* What the documents say and the code does not do *)

\* "Interrupted operations require inspection and reconciliation before a new
\* review", and "Interrupted operations record both possible paths": once no
\* operation runs, an unknown entry waits for an effect that reconcileEffect
\* accepts, or its bytes are at least at a path that the session would inspect.
InterruptedWorkIsRecoverable ==
  pc = "idle" /\ entry = "unknown" =>
    \/ \E o \in waiting : effects[o] # "absent"
    \/ at \in {"source", "removed"} \union Candidates
=============================================================================

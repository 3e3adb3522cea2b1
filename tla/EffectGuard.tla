---------------------------- MODULE EffectGuard ----------------------------
(***************************************************************************)
(* The effect protocol of Mavona: how several sessions, each with its own  *)
(* durable event log, share one worktree.                                  *)
(*                                                                         *)
(*  - a session's log records every effect: effect.requested (the intent), *)
(*    effect.completed (the result), effect.reconciled (the user's         *)
(*    acknowledgement of an effect whose result is not known)              *)
(*    (src/packages/domain/task.ts, src/packages/sessions);                *)
(*  - the worktree has a lease, a SQLite lock that dies with its process,  *)
(*    and a durable table of pending effects (src/packages/tools/          *)
(*    worktree.ts);                                                        *)
(*  - a task writes the intent, then the pending row, runs the effect,     *)
(*    writes the result, then deletes the row (src/packages/agent/loop.ts);*)
(*  - the restoration or disposal of a retained source runs one effect the *)
(*    same way, and its failure handler may withdraw a result that was     *)
(*    already recorded (src/packages/tools/recovery.ts, disposal.ts);      *)
(*  - reconcileEffect accepts the current worktree for an effect whose     *)
(*    result was lost (src/packages/sessions/reconciliation.ts).           *)
(*                                                                         *)
(* Every step between two durable writes is an action, so that a process   *)
(* may die between any two of them.  A child process that outlives the     *)
(* harness keeps changing the worktree.  Effect identities are fresh       *)
(* UUIDs: the finite set Effect bounds how many effects a behaviour has.   *)
(***************************************************************************)
EXTENDS Naturals, FiniteSets

CONSTANTS
  Session,    \* session identities
  Effect,     \* effect identities
  NoSession,  \* "nobody", for the lease and for effects that did not run
  NoEffect,   \* "no effect", for a process that executes none
  MaxCrashes  \* bound on the number of killed processes

ASSUME NoSessionAssumption == NoSession \notin Session
ASSUME NoEffectAssumption == NoEffect \notin Effect
ASSUME MaxCrashesAssumption == MaxCrashes \in Nat

VARIABLES
  created,     \* sessions whose log exists
  open,        \* sessions whose log is locked by a live process
  ledger,      \* ledger[s][e]: SessionState.effects of s
  reconciled,  \* reconciled[s]: SessionState.reconciledEffects of s
  pending,     \* rows of effects.sqlite
  lease,       \* session whose process holds the lock of mutable.sqlite
  pc,          \* what the process of s is doing
  cur,         \* the effect it is executing or reconciling
  recovering,  \* sessions whose process restores or disposes of a source
  reported,    \* reported[e]: the result e returned to the process that ran it
  ranBy,       \* history: the session that started the effect, if it started
  withdrawn,   \* history: effects withdrawn after their row was deleted
  touching,    \* effects whose process is changing the worktree now
  crashes      \* number of processes killed so far

vars == <<created, open, ledger, reconciled, pending, lease, pc, cur, recovering,
          reported, ranBy, withdrawn, touching, crashes>>

Outcome == {"passed", "failed", "unknown"}
Row == [effect : Effect, owner : Session]
TaskPC == {"task", "asking", "approved", "intended", "guarded", "running",
           "returned", "recorded", "settled"}
ReconcilePC == {"reconciling", "acknowledged"}

TypeOK ==
  /\ created \in SUBSET Session
  /\ open \in SUBSET created
  /\ ledger \in [Session -> [Effect -> Outcome \union {"absent"}]]
  /\ reconciled \in [Session -> SUBSET Effect]
  /\ pending \in SUBSET Row
  /\ lease \in Session \union {NoSession}
  /\ pc \in [Session -> {"idle"} \union TaskPC \union ReconcilePC]
  /\ cur \in [Session -> Effect \union {NoEffect}]
  /\ recovering \in SUBSET Session
  /\ reported \in [Effect -> Outcome]
  /\ ranBy \in [Effect -> Session \union {NoSession}]
  /\ withdrawn \in SUBSET Effect
  /\ touching \in SUBSET Effect
  /\ crashes \in 0..MaxCrashes

Init ==
  /\ created = {}
  /\ open = {}
  /\ ledger = [s \in Session |-> [e \in Effect |-> "absent"]]
  /\ reconciled = [s \in Session |-> {}]
  /\ pending = {}
  /\ lease = NoSession
  /\ pc = [s \in Session |-> "idle"]
  /\ cur = [s \in Session |-> NoEffect]
  /\ recovering = {}
  /\ reported = [e \in Effect |-> "unknown"]
  /\ ranBy = [e \in Effect |-> NoSession]
  /\ withdrawn = {}
  /\ touching = {}
  /\ crashes = 0

-----------------------------------------------------------------------------
(* The ledger of a session *)

Unreconciled(s, e) == ledger[s][e] = "unknown" /\ e \notin reconciled[s]

\* SessionState.mutationAllowed
MutationAllowed(s) == \A e \in Effect : ~Unreconciled(s, e)

Fresh(e) == \A s \in Session : ledger[s][e] = "absent"

RowOf(s) == [effect |-> cur[s], owner |-> s]

\* A faulty variant: the lease is not closed.
GoIdleWithLease(s) ==
  /\ pc' = [pc EXCEPT ![s] = "idle"]
  /\ cur' = [cur EXCEPT ![s] = NoEffect]
  /\ recovering' = recovering \ {s}
  /\ lease' = lease

\* The process of s leaves what it was doing and closes its lease.
GoIdle(s) ==
  /\ pc' = [pc EXCEPT ![s] = "idle"]
  /\ cur' = [cur EXCEPT ![s] = NoEffect]
  /\ recovering' = recovering \ {s}
  /\ lease' = NoSession

-----------------------------------------------------------------------------
(* Sessions: create, resume, fork, close *)

\* createSession
Create(s) ==
  /\ s \notin created
  /\ created' = created \union {s}
  /\ open' = open \union {s}
  /\ UNCHANGED <<ledger, reconciled, pending, lease, pc, cur, recovering,
                 reported, ranBy, withdrawn, touching, crashes>>

\* resumeSession: the exclusive lock of writer.sqlite admits one live process.
Resume(s) ==
  /\ s \in created \ open
  /\ open' = open \union {s}
  /\ UNCHANGED <<created, ledger, reconciled, pending, lease, pc, cur,
                 recovering, reported, ranBy, withdrawn, touching, crashes>>

\* forkSession reads the source without its lock, at any moment of its life,
\* and copies its effects with their identities.
Fork(s, t) ==
  /\ s \in created
  /\ t \notin created
  /\ created' = created \union {t}
  /\ open' = open \union {t}
  /\ ledger' = [ledger EXCEPT ![t] = ledger[s]]
  /\ reconciled' = [reconciled EXCEPT ![t] = reconciled[s]]
  /\ UNCHANGED <<pending, lease, pc, cur, recovering, reported, ranBy,
                 withdrawn, touching, crashes>>

\* SessionStore.close of a session that does nothing
CloseSession(s) ==
  /\ s \in open
  /\ pc[s] = "idle"
  /\ open' = open \ {s}
  /\ UNCHANGED <<created, ledger, reconciled, pending, lease, pc, cur,
                 recovering, reported, ranBy, withdrawn, touching, crashes>>

-----------------------------------------------------------------------------
(* A task *)

\* WorktreeLease.acquire without the reconcile option refuses a worktree with
\* pending rows, whoever owns them.
WorktreeAvailable == pending = {}

\* What a task or a recovery needs to work on the worktree
MayStart(s) ==
  /\ s \in open
  /\ pc[s] = "idle"
  /\ MutationAllowed(s)
  /\ lease = NoSession
  /\ WorktreeAvailable

\* runTask up to the lease
StartTask(s) ==
  /\ MayStart(s)
  /\ lease' = s
  /\ pc' = [pc EXCEPT ![s] = "task"]
  /\ UNCHANGED <<created, open, ledger, reconciled, pending, cur, recovering,
                 reported, ranBy, withdrawn, touching, crashes>>

\* restoreSource and disposeSource up to the lease; the user approved the exact
\* review before. Whether the session has a retained source is left open.
StartRecovery(s) ==
  /\ MayStart(s)
  /\ lease' = s
  /\ pc' = [pc EXCEPT ![s] = "approved"]
  /\ recovering' = recovering \union {s}
  /\ UNCHANGED <<created, open, ledger, reconciled, pending, cur, reported,
                 ranBy, withdrawn, touching, crashes>>

\* A task asks for the approval of its next action, with the lease held. A
\* session with an unknown effect gets here no more: the task ends.
Ask(s) ==
  /\ pc[s] = "task"
  /\ MutationAllowed(s)
  /\ pc' = [pc EXCEPT ![s] = "asking"]
  /\ UNCHANGED <<created, open, ledger, reconciled, pending, lease, cur,
                 recovering, reported, ranBy, withdrawn, touching, crashes>>

\* The user approves ...
Approve(s) ==
  /\ pc[s] = "asking"
  /\ pc' = [pc EXCEPT ![s] = "approved"]
  /\ UNCHANGED <<created, open, ledger, reconciled, pending, lease, cur,
                 recovering, reported, ranBy, withdrawn, touching, crashes>>

\* ... or denies, or interrupts the task, which answers for him: the task ends.
Deny(s) ==
  /\ pc[s] = "asking"
  /\ GoIdle(s)
  /\ UNCHANGED <<created, open, ledger, reconciled, pending, reported, ranBy,
                 withdrawn, touching, crashes>>

\* A faulty variant: the row is written before the intent.
RowBeforeIntent(s, e) ==
  /\ pc[s] \in {"task", "approved"}
  /\ MutationAllowed(s)
  /\ Fresh(e)
  /\ pending' = pending \union {[effect |-> e, owner |-> s]}
  /\ cur' = [cur EXCEPT ![s] = e]
  /\ pc' = [pc EXCEPT ![s] = "intended"]
  /\ UNCHANGED <<created, open, ledger, reconciled, lease, recovering,
                 reported, ranBy, withdrawn, touching, crashes>>

\* effect.requested, of an action that the policy allows or that was approved;
\* SessionStore.append refuses it while an effect of the session is not
\* accounted for.
Request(s, e) ==
  /\ pc[s] \in {"task", "approved"}
  /\ MutationAllowed(s)
  /\ Fresh(e)
  /\ ledger' = [ledger EXCEPT ![s][e] = "unknown"]
  /\ cur' = [cur EXCEPT ![s] = e]
  /\ pc' = [pc EXCEPT ![s] = "intended"]
  /\ UNCHANGED <<created, open, reconciled, pending, lease, recovering,
                 reported, ranBy, withdrawn, touching, crashes>>

\* A faulty variant: no row is written.
SkipRow(s) ==
  /\ pc[s] = "intended"
  /\ pc' = [pc EXCEPT ![s] = "guarded"]
  /\ UNCHANGED <<created, open, ledger, reconciled, pending, lease, cur,
                 recovering, reported, ranBy, withdrawn, touching, crashes>>

\* WorktreeLease.beginEffect
BeginEffect(s) ==
  /\ pc[s] = "intended"
  /\ pending = {}
  /\ pending' = pending \union {RowOf(s)}
  /\ pc' = [pc EXCEPT ![s] = "guarded"]
  /\ UNCHANGED <<created, open, ledger, reconciled, lease, cur, recovering,
                 reported, ranBy, withdrawn, touching, crashes>>

\* ToolRuntime.execute starts to change the worktree
Start(s) ==
  /\ pc[s] = "guarded"
  /\ ranBy' = [ranBy EXCEPT ![cur[s]] = s]
  /\ touching' = touching \union {cur[s]}
  /\ pc' = [pc EXCEPT ![s] = "running"]
  /\ UNCHANGED <<created, open, ledger, reconciled, pending, lease, cur,
                 recovering, reported, withdrawn, crashes>>

\* ... and returns its result; a recovery passes or is interrupted.
Return(s, outcome) ==
  /\ pc[s] = "running"
  /\ s \in recovering => outcome # "failed"
  /\ touching' = touching \ {cur[s]}
  /\ reported' = [reported EXCEPT ![cur[s]] = outcome]
  /\ pc' = [pc EXCEPT ![s] = "returned"]
  /\ UNCHANGED <<created, open, ledger, reconciled, pending, lease, cur,
                 recovering, ranBy, withdrawn, crashes>>

\* effect.completed
Complete(s) ==
  /\ pc[s] = "returned"
  /\ ledger' = [ledger EXCEPT ![s][cur[s]] = reported[cur[s]]]
  /\ pc' = [pc EXCEPT ![s] = "recorded"]
  /\ UNCHANGED <<created, open, reconciled, pending, lease, cur, recovering,
                 reported, ranBy, withdrawn, touching, crashes>>

\* A faulty variant: the row goes whatever the result is.
DropRowAlways(s) == pending \ {RowOf(s)}

\* The rows that completeEffect leaves: an unknown result keeps its row.
RowsAfterCompletion(s) ==
  IF reported[cur[s]] = "unknown" THEN pending ELSE pending \ {RowOf(s)}

\* WorktreeLease.completeEffect; a task goes on, a restoration has its snapshot
\* and its invalidation still to append.
CompleteEffect(s) ==
  /\ pc[s] = "recorded"
  /\ RowOf(s) \in pending
  /\ pending' = RowsAfterCompletion(s)
  /\ pc' = [pc EXCEPT ![s] = IF s \in recovering THEN "settled" ELSE "task"]
  /\ cur' = [cur EXCEPT ![s] = IF s \in recovering THEN @ ELSE NoEffect]
  /\ UNCHANGED <<created, open, ledger, reconciled, lease, recovering,
                 reported, ranBy, withdrawn, touching, crashes>>

\* runTask ends between two effects, a recovery after its only one.
Finish(s) ==
  /\ pc[s] \in {"task", "settled"}
  /\ GoIdle(s)
  /\ UNCHANGED <<created, open, ledger, reconciled, pending, reported, ranBy,
                 withdrawn, touching, crashes>>

\* A step of execute or of a recovery throws (a cancelled signal, a stale
\* approval, a failed write): it is recorded if it can be, and the lease closes.
\* A failed append closes the store as well.
Abandon(s) ==
  /\ pc[s] \in TaskPC \ {"task", "asking"}
  /\ touching' = touching \ {cur[s]}
  /\ open' \in {open, open \ {s}}
  /\ GoIdle(s)
  /\ UNCHANGED <<created, ledger, reconciled, pending, reported, ranBy,
                 withdrawn, crashes>>

\* A recovery that passed throws after it recorded its result: completeEffect
\* fails, or an append of a restoration after it. The failure handler appends a
\* second effect.completed, "unknown"; the row, if it is gone, does not return.
\* (A disposal appends nothing after its row is gone; it is not told apart.)
Withdraw(s) ==
  /\ s \in recovering
  /\ pc[s] \in {"recorded", "settled"}
  /\ reported[cur[s]] = "passed"
  /\ ledger' = [ledger EXCEPT ![s][cur[s]] = "unknown"]
  /\ withdrawn' = IF pc[s] = "settled" THEN withdrawn \union {cur[s]} ELSE withdrawn
  /\ open' \in {open, open \ {s}}
  /\ GoIdle(s)
  /\ UNCHANGED <<created, reconciled, pending, reported, ranBy, touching,
                 crashes>>

-----------------------------------------------------------------------------
(* reconcileEffect *)

\* An effect of the session may be reconciled unless another session owns its
\* pending row.
MayReconcile(s, e) ==
  /\ ledger[s][e] # "absent"
  /\ \A r \in pending : r.effect = e => r.owner = s

BeginReconcile(s, e) ==
  /\ s \in open
  /\ pc[s] = "idle"
  /\ lease = NoSession
  /\ MayReconcile(s, e)
  /\ lease' = s
  /\ cur' = [cur EXCEPT ![s] = e]
  /\ pc' = [pc EXCEPT ![s] = "reconciling"]
  /\ UNCHANGED <<created, open, ledger, reconciled, pending, recovering,
                 reported, ranBy, withdrawn, touching, crashes>>

\* A faulty variant: an acknowledged effect is taken for a successful one.
AcknowledgeAsPassed(s) ==
  /\ pc[s] = "reconciling"
  /\ ledger' = [ledger EXCEPT ![s][cur[s]] = "passed"]
  /\ reconciled' = [reconciled EXCEPT ![s] = @ \union {cur[s]}]
  /\ pc' = [pc EXCEPT ![s] = "acknowledged"]
  /\ UNCHANGED <<created, open, pending, lease, cur, recovering, reported,
                 ranBy, withdrawn, touching, crashes>>

\* effect.reconciled: the outcome of the effect stays what it was.
Acknowledge(s) ==
  /\ pc[s] = "reconciling"
  /\ reconciled' = [reconciled EXCEPT ![s] = @ \union {cur[s]}]
  /\ pc' = [pc EXCEPT ![s] = "acknowledged"]
  /\ UNCHANGED <<created, open, ledger, pending, lease, cur, recovering,
                 reported, ranBy, withdrawn, touching, crashes>>

\* WorktreeLease.reconcileEffect, and the lease closes
EndReconcile(s) ==
  /\ pc[s] = "acknowledged"
  /\ pending' = pending \ {RowOf(s)}
  /\ GoIdle(s)
  /\ UNCHANGED <<created, open, ledger, reconciled, reported, ranBy,
                 withdrawn, touching, crashes>>

\* reconcileEffect throws (the worktree cannot be read, a failed write).
AbandonReconcile(s) ==
  /\ pc[s] \in ReconcilePC
  /\ open' \in {open, open \ {s}}
  /\ GoIdle(s)
  /\ UNCHANGED <<created, ledger, reconciled, pending, reported, ranBy,
                 withdrawn, touching, crashes>>

-----------------------------------------------------------------------------
(* Failures *)

\* The process of s is killed: its locks go, what it wrote stays, and its
\* child process may keep running.
Crash(s) ==
  /\ s \in open
  /\ crashes < MaxCrashes
  /\ crashes' = crashes + 1
  /\ open' = open \ {s}
  /\ pc' = [pc EXCEPT ![s] = "idle"]
  /\ cur' = [cur EXCEPT ![s] = NoEffect]
  /\ recovering' = recovering \ {s}
  /\ lease' = IF lease = s THEN NoSession ELSE lease
  /\ UNCHANGED <<created, ledger, reconciled, pending, reported, ranBy,
                 withdrawn, touching>>

\* The orphaned child of a killed process ends.
OrphanExit(e) ==
  /\ e \in touching
  /\ \A s \in Session : ~(pc[s] = "running" /\ cur[s] = e)
  /\ touching' = touching \ {e}
  /\ UNCHANGED <<created, open, ledger, reconciled, pending, lease, pc, cur,
                 recovering, reported, ranBy, withdrawn, crashes>>

-----------------------------------------------------------------------------
TaskStep(s) ==
  \/ Ask(s) \/ Approve(s) \/ Deny(s)
  \/ BeginEffect(s) \/ Start(s) \/ Complete(s) \/ CompleteEffect(s)
  \/ Finish(s) \/ Abandon(s) \/ Withdraw(s)
  \/ \E e \in Effect : Request(s, e)
  \/ \E outcome \in Outcome : Return(s, outcome)

ReconcileStep(s) == Acknowledge(s) \/ EndReconcile(s) \/ AbandonReconcile(s)

UserStep(s) ==
  \/ Create(s) \/ Resume(s) \/ CloseSession(s) \/ StartTask(s)
  \/ StartRecovery(s)
  \/ \E t \in Session : Fork(s, t)
  \/ \E e \in Effect : BeginReconcile(s, e)

Next ==
  \/ \E s \in Session : TaskStep(s) \/ ReconcileStep(s) \/ UserStep(s) \/ Crash(s)
  \/ \E e \in Effect : OrphanExit(e)

Spec == Init /\ [][Next]_vars

-----------------------------------------------------------------------------
(* Safety *)

Begun(e) == ranBy[e] # NoSession

\* The log of s accounts for the effect: it has a result, or the user
\* acknowledged that it has none.
Accounted(s, e) == ledger[s][e] \in {"passed", "failed"} \/ e \in reconciled[s]

\* What the session that ran an effect must still account for.
Unsettled(e) == Begun(e) /\ ~Accounted(ranBy[e], e)

\* An effect that touches the worktree has a durable pending row, until the
\* session that ran it has acknowledged it, also when its process outlived the
\* harness (worktree.ts, beginEffect before runtime.execute in loop.ts).
TouchIsGuarded ==
  \A e \in touching :
    [effect |-> e, owner |-> ranBy[e]] \in pending \/ e \in reconciled[ranBy[e]]

\* Two effects touch the worktree at the same time only if the user
\* acknowledged one of them while its orphaned process was still running
\* (worktree.ts, acquire; loop.ts, execute).
NoOverlap ==
  \A e, f \in touching :
    e # f => \E g \in {e, f} : g \in reconciled[ranBy[g]]

\* The session that owns a pending row can always clear it: its log holds the
\* intent that reconcileEffect looks for, whatever was interrupted
\* (reconciliation.ts, "Session effect not found").
GuardIsReconcilable ==
  \A r \in pending : r.owner \in created /\ MayReconcile(r.owner, r.effect)

\* No session lets an effect touch the worktree while an effect of any session
\* is not accounted for in the log of the session that ran it, except for one
\* whose result a recovery withdrew when its row was already gone (worktree.ts,
\* acquire and beginEffect; store.ts, append; recovery.ts, the catch).
StartsOnSettledWorktree ==
  [][touching' \ touching # {} =>
       \A e \in Effect : Unsettled(e) => e \in withdrawn]_vars

\* A pending row is deleted only by the process of its owner, which holds the
\* lease, after its log durably accounts for the effect (worktree.ts,
\* completeEffect and reconcileEffect).
RowClearedByOwnerAfterLog ==
  [][\A r \in pending \ pending' : lease = r.owner /\ Accounted(r.owner, r.effect)]_vars

\* No log claims an outcome that the process of the effect did not return:
\* an acknowledgement, a fork, a kill or the failure of a recovery never makes
\* an unknown effect a known one (reconciliation.ts, "never an inferred
\* successful effect").
NothingIsInferred ==
  \A s \in Session, e \in Effect :
    ledger[s][e] \in {"passed", "failed"} => Begun(e) /\ reported[e] = ledger[s][e]

-----------------------------------------------------------------------------
(* The inductive invariant behind the safety properties *)

\* A process that works on the worktree has the lease and its session.
LeaseInv ==
  \A s \in Session :
    /\ pc[s] # "idle" => lease = s /\ s \in open
    /\ lease = s => pc[s] # "idle"

\* A log without a file is empty; only effects with an intent are reconciled.
LogInv ==
  \A s \in Session, e \in Effect :
    /\ s \notin created => ledger[s][e] = "absent"
    /\ e \in reconciled[s] => ledger[s][e] # "absent"

\* There is at most one pending row.
RowInv ==
  /\ GuardIsReconcilable
  /\ \A r, q \in pending : r = q

\* What a stage of the process of s knows of its log, the rows, the worktree.
Stage(s) ==
  /\ pc[s] \notin {"idle", "task", "asking", "approved"} => cur[s] \in Effect
  /\ s \in recovering => pc[s] \in TaskPC
  /\ pc[s] \in {"task", "asking", "approved"} =>
       \A r \in pending : r.owner = s /\ Unreconciled(s, r.effect)
  /\ pc[s] \in {"intended", "guarded", "running", "returned"} =>
       Unreconciled(s, cur[s])
  /\ pc[s] = "intended" => pending = {}
  /\ pc[s] \in {"intended", "guarded"} => ~Begun(cur[s])
  /\ pc[s] \in {"guarded", "running", "returned", "recorded"} => pending = {RowOf(s)}
  /\ pc[s] \in {"running", "returned", "recorded", "settled"} => ranBy[cur[s]] = s
  /\ pc[s] = "running" => reported[cur[s]] = "unknown"
  /\ pc[s] \in {"returned", "recorded", "settled"} => cur[s] \notin touching
  /\ pc[s] \in {"recorded", "settled"} =>
       ledger[s][cur[s]] = reported[cur[s]] /\ cur[s] \notin reconciled[s]
  /\ pc[s] = "settled" =>
       pending = IF reported[cur[s]] = "unknown" THEN {RowOf(s)} ELSE {}
  /\ pc[s] \in ReconcilePC => MayReconcile(s, cur[s])
  /\ pc[s] = "acknowledged" => cur[s] \in reconciled[s]

StageInv == \A s \in Session : Stage(s)

\* An effect that began is in the log of its session, and accounted for there,
\* pending, or withdrawn; one that did not has no result.
RunInv ==
  \A e \in Effect :
    IF Begun(e)
      THEN /\ ledger[ranBy[e]][e] # "absent"
           /\ \/ Accounted(ranBy[e], e)
              \/ [effect |-> e, owner |-> ranBy[e]] \in pending
              \/ e \in withdrawn
      ELSE reported[e] = "unknown"

TouchInv == (\A e \in touching : Begun(e)) /\ TouchIsGuarded

\* Every step preserves the conjunction: what a crash leaves behind is always
\* either accounted for in a log or behind a pending row of its owner.
IndInv ==
  /\ TypeOK /\ LeaseInv /\ LogInv /\ RowInv /\ StageInv /\ RunInv /\ TouchInv
  /\ NothingIsInferred

-----------------------------------------------------------------------------
(* The abstract specification *)

EffectsOf(rows) == {r.effect : r \in rows}

Promise == INSTANCE EffectPromise WITH
  exposed <- EffectsOf(pending),
  settled <- EffectsOf({r \in pending : Accounted(r.owner, r.effect)})

\* The logs and the pending table keep the promise of EffectPromise.
KeepsPromise == Promise!Spec

-----------------------------------------------------------------------------
(* Liveness *)

\* The process of s waits for what nothing bounds: the answer of the user, who
\* sees no deadline, or the end of the command it runs, whose pipes a descendant
\* may hold open after it was killed.
Waiting(s) == pc[s] \in {"asking", "running"}

\* A process that was started and waits for nothing takes its next step: what
\* is left between two waits are its own reads and writes.
ProcessFairness ==
  \A s \in Session :
    WF_vars(~Waiting(s) /\ TaskStep(s)) /\ WF_vars(ReconcileStep(s))

LiveSpec == Spec /\ ProcessFairness

\* No question and no command waits for ever.
EveryWaitEnds(s) == []<>~Waiting(s)

\* A user who leaves the session of a row open from some time on and, as long as
\* its reconciliation is possible again and again, retries it until it succeeds,
\* whatever is done to other rows.
UserFairness(r) ==
  /\ <>[](r.owner \in open)
  /\ []<>(ENABLED BeginReconcile(r.owner, r.effect)) =>
       []<><<cur[r.owner] = r.effect /\ EndReconcile(r.owner)>>_vars

\* If no wait lasts for ever, no session keeps the worktree for ever (loop.ts, the
\* finally of runTask; recovery.ts and reconciliation.ts, their finally).
LeaseIsReleased ==
  (\A s \in Session : EveryWaitEnds(s)) => []<>(lease = NoSession)

\* A worktree blocked by a pending row is unblocked in the end if the user
\* keeps reconciling that row and no wait lasts for ever, however often
\* processes die in between and whatever the sessions do besides
\* (reconciliation.ts, reconcileEffect).
GuardsAreCleared ==
  (\A s \in Session : EveryWaitEnds(s)) =>
    \A r \in Row : UserFairness(r) => (r \in pending ~> r \notin pending)
=============================================================================

------------------------- MODULE EffectGuardProofs -------------------------
(***************************************************************************)
(* Proofs about EffectGuard, for any number of sessions, effects and       *)
(* killed processes.  Each lemma <Action>Step shows that an action keeps   *)
(* the inductive invariant IndInv, one conjunct after the other; the       *)
(* theorems at the end draw the conclusions.                               *)
(***************************************************************************)
EXTENDS EffectGuard, TLAPS

LEMMA IndInvInit == Init => IndInv
  BY NoSessionAssumption, MaxCrashesAssumption
     DEF Init, IndInv, TypeOK, LeaseInv, LogInv, RowInv, StageInv, Stage, RunInv,
         TouchInv, TouchIsGuarded, GuardIsReconcilable, Row, Outcome, Begun,
         ReconcilePC, TaskPC, NothingIsInferred

\* While a process works on the worktree, every other one is idle.
LEMMA OthersAreIdle ==
  ASSUME IndInv, NEW s \in Session, pc[s] # "idle", NEW t \in Session, t # s
  PROVE  pc[t] = "idle" /\ t \notin recovering
  BY DEF IndInv, LeaseInv, StageInv, Stage, TaskPC

\* While nobody has the lease, every process is idle.
LEMMA AllAreIdle ==
  ASSUME IndInv, lease = NoSession, NEW t \in Session
  PROVE  pc[t] = "idle" /\ t \notin recovering
  BY NoSessionAssumption DEF IndInv, LeaseInv, StageInv, Stage, TaskPC

\* An idle process knows nothing.
LEMMA IdleStage ==
  ASSUME NEW t \in Session, pc'[t] = "idle", t \notin recovering'
  PROVE  Stage(t)'
  BY DEF Stage, TaskPC, ReconcilePC

LEMMA CreateStep ==
  ASSUME IndInv, NEW s \in Session, Create(s)
  PROVE  IndInv'
<1>1. TypeOK'
  BY DEF IndInv, TypeOK, Create
<1>2. LeaseInv'
  BY DEF IndInv, LeaseInv, Create
<1>3. LogInv'
  BY DEF IndInv, LogInv, Create
<1>4. RowInv'
  BY DEF IndInv, RowInv, Create, MayReconcile, GuardIsReconcilable
<1>5. StageInv'
  BY DEF IndInv, StageInv, Stage, Create, Begun, Unreconciled, MayReconcile,
         RowOf
<1>6. RunInv'
  BY DEF IndInv, RunInv, Create, Begun, Accounted
<1>7. TouchInv'
  BY DEF IndInv, TouchInv, Create, Begun, TouchIsGuarded
<1>8. NothingIsInferred'
  BY DEF IndInv, NothingIsInferred, Create, Begun
<1> QED BY <1>1, <1>2, <1>3, <1>4, <1>5, <1>6, <1>7, <1>8 DEF IndInv

LEMMA ResumeStep ==
  ASSUME IndInv, NEW s \in Session, Resume(s)
  PROVE  IndInv'
<1>1. TypeOK'
  BY DEF IndInv, TypeOK, Resume
<1>2. LeaseInv'
  BY DEF IndInv, LeaseInv, Resume
<1>3. LogInv'
  BY DEF IndInv, LogInv, Resume
<1>4. RowInv'
  BY DEF IndInv, RowInv, Resume, MayReconcile, GuardIsReconcilable
<1>5. StageInv'
  BY DEF IndInv, StageInv, Stage, Resume, Begun, Unreconciled, MayReconcile,
         RowOf
<1>6. RunInv'
  BY DEF IndInv, RunInv, Resume, Begun, Accounted
<1>7. TouchInv'
  BY DEF IndInv, TouchInv, Resume, Begun, TouchIsGuarded
<1>8. NothingIsInferred'
  BY DEF IndInv, NothingIsInferred, Resume, Begun
<1> QED BY <1>1, <1>2, <1>3, <1>4, <1>5, <1>6, <1>7, <1>8 DEF IndInv

LEMMA ForkStep ==
  ASSUME IndInv, NEW s \in Session, NEW t \in Session, Fork(s, t)
  PROVE  IndInv'
<1>1. TypeOK'
  BY DEF IndInv, TypeOK, Fork
<1>2. LeaseInv'
  BY DEF IndInv, LeaseInv, Fork
<1>3. LogInv'
  BY DEF IndInv, TypeOK, LogInv, Fork
<1>4. RowInv'
  BY DEF IndInv, RowInv, Fork, MayReconcile, GuardIsReconcilable
<1>5. StageInv'
  BY DEF IndInv, TypeOK, LogInv, StageInv, Stage, Fork, Row, Outcome,
         ReconcilePC, Begun, Unreconciled, MayReconcile, RowOf
<1>6. RunInv'
  BY DEF IndInv, LogInv, RunInv, Fork, Begun, Accounted
<1>7. TouchInv'
  BY DEF IndInv, TypeOK, LogInv, TouchInv, Fork, Begun, TouchIsGuarded
<1>8. NothingIsInferred'
  BY DEF IndInv, NothingIsInferred, Fork, Begun
<1> QED BY <1>1, <1>2, <1>3, <1>4, <1>5, <1>6, <1>7, <1>8 DEF IndInv

LEMMA CloseSessionStep ==
  ASSUME IndInv, NEW s \in Session, CloseSession(s)
  PROVE  IndInv'
<1>1. TypeOK'
  BY DEF IndInv, TypeOK, CloseSession
<1>2. LeaseInv'
  BY DEF IndInv, LeaseInv, CloseSession
<1>3. LogInv'
  BY DEF IndInv, LogInv, CloseSession
<1>4. RowInv'
  BY DEF IndInv, RowInv, CloseSession, MayReconcile, GuardIsReconcilable
<1>5. StageInv'
  BY DEF IndInv, StageInv, Stage, CloseSession, Begun, Unreconciled,
         MayReconcile, RowOf
<1>6. RunInv'
  BY DEF IndInv, RunInv, CloseSession, Begun, Accounted
<1>7. TouchInv'
  BY DEF IndInv, TouchInv, CloseSession, Begun, TouchIsGuarded
<1>8. NothingIsInferred'
  BY DEF IndInv, NothingIsInferred, CloseSession, Begun
<1> QED BY <1>1, <1>2, <1>3, <1>4, <1>5, <1>6, <1>7, <1>8 DEF IndInv

LEMMA StartTaskStep ==
  ASSUME IndInv, NEW s \in Session, StartTask(s)
  PROVE  IndInv'
<1>1. TypeOK'
  BY DEF IndInv, TypeOK, StartTask, MayStart, TaskPC
<1>2. LeaseInv'
  BY NoSessionAssumption DEF IndInv, TypeOK, LeaseInv, StartTask, MayStart
<1>3. LogInv'
  BY DEF IndInv, LogInv, StartTask
<1>4. RowInv'
  BY DEF IndInv, RowInv, StartTask, MayReconcile, GuardIsReconcilable
<1>5. StageInv'
  <2>1. Stage(s)
    BY DEF IndInv, StageInv
  <2>2. Stage(s)'
    BY <2>1 DEF IndInv, TypeOK, LeaseInv, Stage, StartTask, TaskPC, ReconcilePC, Begun,
       Unreconciled, MayReconcile, MayStart, WorktreeAvailable
  <2>3. ASSUME NEW t \in Session, t # s  PROVE pc'[t] = "idle" /\ t \notin recovering'
    BY <2>3, AllAreIdle DEF IndInv, TypeOK, StartTask, MayStart
  <2> QED BY <2>2, <2>3, IdleStage DEF StageInv
<1>6. RunInv'
  BY DEF IndInv, RunInv, StartTask, Begun, Accounted
<1>7. TouchInv'
  BY DEF IndInv, TouchInv, StartTask, Begun, TouchIsGuarded
<1>8. NothingIsInferred'
  BY DEF IndInv, NothingIsInferred, StartTask, Begun
<1> QED BY <1>1, <1>2, <1>3, <1>4, <1>5, <1>6, <1>7, <1>8 DEF IndInv

LEMMA StartRecoveryStep ==
  ASSUME IndInv, NEW s \in Session, StartRecovery(s)
  PROVE  IndInv'
<1>1. TypeOK'
  BY DEF IndInv, TypeOK, StartRecovery, MayStart, TaskPC
<1>2. LeaseInv'
  BY NoSessionAssumption DEF IndInv, TypeOK, LeaseInv, StartRecovery, MayStart
<1>3. LogInv'
  BY DEF IndInv, LogInv, StartRecovery
<1>4. RowInv'
  BY DEF IndInv, RowInv, StartRecovery, MayReconcile, GuardIsReconcilable
<1>5. StageInv'
  <2>1. Stage(s)
    BY DEF IndInv, StageInv
  <2>2. Stage(s)'
    BY <2>1 DEF IndInv, TypeOK, LeaseInv, Stage, StartRecovery, TaskPC, ReconcilePC, Begun,
       Unreconciled, MayReconcile, MayStart, WorktreeAvailable
  <2>3. ASSUME NEW t \in Session, t # s  PROVE pc'[t] = "idle" /\ t \notin recovering'
    BY <2>3, AllAreIdle DEF IndInv, TypeOK, StartRecovery, MayStart
  <2> QED BY <2>2, <2>3, IdleStage DEF StageInv
<1>6. RunInv'
  BY DEF IndInv, RunInv, StartRecovery, Begun, Accounted
<1>7. TouchInv'
  BY DEF IndInv, TouchInv, StartRecovery, Begun, TouchIsGuarded
<1>8. NothingIsInferred'
  BY DEF IndInv, NothingIsInferred, StartRecovery, Begun
<1> QED BY <1>1, <1>2, <1>3, <1>4, <1>5, <1>6, <1>7, <1>8 DEF IndInv

LEMMA AskStep ==
  ASSUME IndInv, NEW s \in Session, Ask(s)
  PROVE  IndInv'
<1>1. TypeOK'
  BY DEF IndInv, TypeOK, Ask, TaskPC
<1>2. LeaseInv'
  BY DEF IndInv, LeaseInv, Ask
<1>3. LogInv'
  BY DEF IndInv, LogInv, Ask
<1>4. RowInv'
  BY DEF IndInv, RowInv, Ask, MayReconcile, GuardIsReconcilable
<1>5. StageInv'
  BY DEF IndInv, TypeOK, LeaseInv, StageInv, Stage, Ask, TaskPC, ReconcilePC, Begun,
         Unreconciled, MayReconcile, RowOf
<1>6. RunInv'
  BY DEF IndInv, RunInv, Ask, Begun, Accounted
<1>7. TouchInv'
  BY DEF IndInv, TouchInv, Ask, Begun, TouchIsGuarded
<1>8. NothingIsInferred'
  BY DEF IndInv, NothingIsInferred, Ask, Begun
<1> QED BY <1>1, <1>2, <1>3, <1>4, <1>5, <1>6, <1>7, <1>8 DEF IndInv

LEMMA ApproveStep ==
  ASSUME IndInv, NEW s \in Session, Approve(s)
  PROVE  IndInv'
<1>1. TypeOK'
  BY DEF IndInv, TypeOK, Approve, TaskPC
<1>2. LeaseInv'
  BY DEF IndInv, LeaseInv, Approve
<1>3. LogInv'
  BY DEF IndInv, LogInv, Approve
<1>4. RowInv'
  BY DEF IndInv, RowInv, Approve, MayReconcile, GuardIsReconcilable
<1>5. StageInv'
  BY DEF IndInv, TypeOK, LeaseInv, StageInv, Stage, Approve, TaskPC, ReconcilePC, Begun,
         Unreconciled, MayReconcile, RowOf
<1>6. RunInv'
  BY DEF IndInv, RunInv, Approve, Begun, Accounted
<1>7. TouchInv'
  BY DEF IndInv, TouchInv, Approve, Begun, TouchIsGuarded
<1>8. NothingIsInferred'
  BY DEF IndInv, NothingIsInferred, Approve, Begun
<1> QED BY <1>1, <1>2, <1>3, <1>4, <1>5, <1>6, <1>7, <1>8 DEF IndInv

LEMMA RequestStep ==
  ASSUME IndInv, NEW s \in Session, NEW e \in Effect, Request(s, e)
  PROVE  IndInv'
<1>1. TypeOK'
  BY DEF IndInv, TypeOK, Request, Outcome, TaskPC
<1>2. LeaseInv'
  BY DEF IndInv, LeaseInv, Request
<1>3. LogInv'
  BY DEF IndInv, TypeOK, LeaseInv, LogInv, Request
<1>4. RowInv'
  BY DEF IndInv, RowInv, Request, MayReconcile, GuardIsReconcilable
<1>5. StageInv'
  <2>1. pending = {} /\ pending' = {}
    BY DEF IndInv, StageInv, Stage, Request, MutationAllowed, TypeOK, Row
  <2>2. ~Begun(e) /\ e \notin reconciled[s]
    BY NoSessionAssumption DEF IndInv, TypeOK, RunInv, LogInv, Fresh, Begun,
       Request
  <2>3. Stage(s)'
    BY <2>1, <2>2 DEF IndInv, TypeOK, StageInv, Stage, Request, Unreconciled, Begun,
       TaskPC, ReconcilePC
  <2>4. ASSUME NEW t \in Session, t # s  PROVE Stage(t)'
    <3>1. pc'[t] = "idle" /\ t \notin recovering'
      BY <2>4, OthersAreIdle DEF IndInv, TypeOK, Request
    <3> QED BY <3>1, IdleStage
  <2> QED BY <2>3, <2>4 DEF StageInv
<1>6. RunInv'
  BY DEF IndInv, RunInv, Request, Fresh, Begun, Accounted
<1>7. TouchInv'
  BY DEF IndInv, TouchInv, Request, Begun, TouchIsGuarded
<1>8. NothingIsInferred'
  BY DEF IndInv, NothingIsInferred, Request, Begun
<1> QED BY <1>1, <1>2, <1>3, <1>4, <1>5, <1>6, <1>7, <1>8 DEF IndInv

LEMMA BeginEffectStep ==
  ASSUME IndInv, NEW s \in Session, BeginEffect(s)
  PROVE  IndInv'
<1>1. TypeOK'
  BY DEF IndInv, TypeOK, StageInv, Stage, BeginEffect, Row, TaskPC, RowOf
<1>2. LeaseInv'
  BY DEF IndInv, LeaseInv, BeginEffect
<1>3. LogInv'
  BY DEF IndInv, LogInv, BeginEffect
<1>4. RowInv'
  BY DEF IndInv, LogInv, RowInv, StageInv, Stage, BeginEffect, Unreconciled,
         MayReconcile, GuardIsReconcilable, RowOf
<1>5. StageInv'
  <2>1. Stage(s)
    BY DEF IndInv, StageInv
  <2>2. Stage(s)'
    BY <2>1 DEF IndInv, TypeOK, LeaseInv, Stage, BeginEffect, TaskPC, ReconcilePC, Begun,
       Unreconciled, MayReconcile, RowOf
  <2>3. ASSUME NEW t \in Session, t # s  PROVE pc'[t] = "idle" /\ t \notin recovering'
    BY <2>3, OthersAreIdle DEF IndInv, TypeOK, BeginEffect
  <2> QED BY <2>2, <2>3, IdleStage DEF StageInv
<1>6. RunInv'
  BY DEF IndInv, RunInv, BeginEffect, Begun, Accounted
<1>7. TouchInv'
  BY DEF IndInv, TouchInv, BeginEffect, Begun, TouchIsGuarded
<1>8. NothingIsInferred'
  BY DEF IndInv, NothingIsInferred, BeginEffect, Begun
<1> QED BY <1>1, <1>2, <1>3, <1>4, <1>5, <1>6, <1>7, <1>8 DEF IndInv

LEMMA StartStep ==
  ASSUME IndInv, NEW s \in Session, Start(s)
  PROVE  IndInv'
<1>1. TypeOK'
  BY DEF IndInv, TypeOK, LeaseInv, StageInv, Stage, Start, TaskPC
<1>2. LeaseInv'
  BY DEF IndInv, LeaseInv, Start
<1>3. LogInv'
  BY DEF IndInv, LogInv, Start
<1>4. RowInv'
  BY DEF IndInv, RowInv, Start, MayReconcile, GuardIsReconcilable
<1>5. StageInv'
  <2>1. Stage(s)
    BY DEF IndInv, StageInv
  <2>2. /\ pc'[s] = "running" /\ cur'[s] = cur[s] /\ recovering' = recovering
        /\ ranBy'[cur[s]] = s /\ reported'[cur[s]] = "unknown"
    BY <2>1 DEF IndInv, TypeOK, Stage, RunInv, Start
  <2>3. /\ cur[s] \in Effect /\ pending' = {RowOf(s)} /\ Unreconciled(s, cur[s])
        /\ UNCHANGED <<ledger, reconciled, cur>>
    BY <2>1 DEF Stage, Start
  <2>4. Stage(s)'
    BY <2>2, <2>3 DEF Stage, Unreconciled, RowOf, TaskPC, ReconcilePC
  <2>5. ASSUME NEW t \in Session, t # s  PROVE pc'[t] = "idle" /\ t \notin recovering'
    BY <2>5, OthersAreIdle DEF IndInv, TypeOK, Start
  <2> QED BY <2>4, <2>5, IdleStage DEF StageInv
<1>6. RunInv'
  BY DEF IndInv, StageInv, Stage, RunInv, Start, Begun, Accounted,
         Unreconciled, RowOf
<1>7. TouchInv'
  BY NoSessionAssumption DEF IndInv, TypeOK, StageInv, Stage, TouchInv, Start,
     Begun, TouchIsGuarded, RowOf
<1>8. NothingIsInferred'
  <2>1. ~Begun(cur[s])
    BY DEF IndInv, StageInv, Stage, Start
  <2> QED BY <2>1, NoSessionAssumption DEF IndInv, TypeOK, NothingIsInferred, Start, Begun
<1> QED BY <1>1, <1>2, <1>3, <1>4, <1>5, <1>6, <1>7, <1>8 DEF IndInv

LEMMA ReturnStep ==
  ASSUME IndInv, NEW s \in Session, NEW outcome \in Outcome, Return(s, outcome)
  PROVE  IndInv'
<1>1. TypeOK'
  BY DEF IndInv, TypeOK, Return, TaskPC
<1>2. LeaseInv'
  BY DEF IndInv, LeaseInv, Return
<1>3. LogInv'
  BY DEF IndInv, LogInv, Return
<1>4. RowInv'
  BY DEF IndInv, RowInv, Return, MayReconcile, GuardIsReconcilable
<1>5. StageInv'
  <2>1. Stage(s)
    BY DEF IndInv, StageInv
  <2>2. Stage(s)'
    BY <2>1 DEF IndInv, TypeOK, LeaseInv, Stage, Return, TaskPC, ReconcilePC, Begun,
       Unreconciled, MayReconcile, RowOf
  <2>3. ASSUME NEW t \in Session, t # s  PROVE pc'[t] = "idle" /\ t \notin recovering'
    BY <2>3, OthersAreIdle DEF IndInv, TypeOK, Return
  <2> QED BY <2>2, <2>3, IdleStage DEF StageInv
<1>6. RunInv'
  <2>1. Begun(cur[s])
    BY NoSessionAssumption DEF IndInv, StageInv, Stage, Return, Begun
  <2> QED BY <2>1 DEF IndInv, TypeOK, RunInv, Return, Begun, Accounted
<1>7. TouchInv'
  BY DEF IndInv, TouchInv, Return, Begun, TouchIsGuarded
<1>8. NothingIsInferred'
  <2>1. reported[cur[s]] = "unknown"
    BY DEF IndInv, StageInv, Stage, Return
  <2> QED BY <2>1 DEF IndInv, TypeOK, NothingIsInferred, Return, Begun
<1> QED BY <1>1, <1>2, <1>3, <1>4, <1>5, <1>6, <1>7, <1>8 DEF IndInv

LEMMA CompleteStep ==
  ASSUME IndInv, NEW s \in Session, Complete(s)
  PROVE  IndInv'
<1>1. TypeOK'
  BY DEF IndInv, TypeOK, StageInv, Stage, Complete, TaskPC
<1>2. LeaseInv'
  BY DEF IndInv, LeaseInv, Complete
<1>3. LogInv'
  BY DEF IndInv, LogInv, StageInv, Stage, Complete, Unreconciled
<1>4. RowInv'
  BY DEF IndInv, TypeOK, RowInv, Complete, Outcome, MayReconcile,
         GuardIsReconcilable
<1>5. StageInv'
  <2>1. Stage(s)
    BY DEF IndInv, StageInv
  <2>2. Stage(s)'
    BY <2>1 DEF IndInv, TypeOK, LeaseInv, Stage, Complete, TaskPC, ReconcilePC, Begun,
       Unreconciled, MayReconcile, RowOf
  <2>3. ASSUME NEW t \in Session, t # s  PROVE pc'[t] = "idle" /\ t \notin recovering'
    BY <2>3, OthersAreIdle DEF IndInv, TypeOK, Complete
  <2> QED BY <2>2, <2>3, IdleStage DEF StageInv
<1>6. RunInv'
  BY DEF IndInv, TypeOK, StageInv, Stage, RunInv, Complete, Outcome, Begun,
         Accounted, RowOf
<1>7. TouchInv'
  BY DEF IndInv, TouchInv, Complete, Begun, TouchIsGuarded
<1>8. NothingIsInferred'
  <2>1. Begun(cur[s])
    BY NoSessionAssumption DEF IndInv, StageInv, Stage, Complete, Begun
  <2> QED BY <2>1 DEF IndInv, TypeOK, NothingIsInferred, Complete, Begun
<1> QED BY <1>1, <1>2, <1>3, <1>4, <1>5, <1>6, <1>7, <1>8 DEF IndInv

LEMMA CompleteEffectStep ==
  ASSUME IndInv, NEW s \in Session, CompleteEffect(s)
  PROVE  IndInv'
<1>1. TypeOK'
  BY DEF IndInv, TypeOK, CompleteEffect, RowsAfterCompletion, TaskPC
<1>2. LeaseInv'
  BY DEF IndInv, LeaseInv, CompleteEffect
<1>3. LogInv'
  BY DEF IndInv, LogInv, CompleteEffect
<1>4. RowInv'
  BY DEF IndInv, RowInv, CompleteEffect, RowsAfterCompletion, MayReconcile,
         GuardIsReconcilable
<1>5. StageInv'
  <2>1. Stage(s)
    BY DEF IndInv, StageInv
  <2>2. /\ cur[s] \in Effect /\ pending = {RowOf(s)} /\ ranBy[cur[s]] = s
        /\ cur[s] \notin touching /\ ledger[s][cur[s]] = reported[cur[s]]
        /\ cur[s] \notin reconciled[s]
    BY <2>1 DEF Stage, CompleteEffect
  <2>3. /\ UNCHANGED <<ledger, reconciled, ranBy, reported, touching, recovering>>
        /\ pending' = IF reported[cur[s]] = "unknown" THEN {RowOf(s)} ELSE {}
    BY <2>2 DEF CompleteEffect, RowsAfterCompletion
  <2>4. ASSUME s \in recovering  PROVE Stage(s)'
    <3>1. pc'[s] = "settled" /\ cur'[s] = cur[s]
      BY <2>4 DEF IndInv, TypeOK, CompleteEffect
    <3> QED BY <2>2, <2>3, <3>1 DEF Stage, RowOf, TaskPC, ReconcilePC
  <2>5. ASSUME s \notin recovering  PROVE Stage(s)'
    <3>1. pc'[s] = "task"
      BY <2>5 DEF IndInv, TypeOK, CompleteEffect
    <3>2. \A r \in pending' : r.owner = s /\ Unreconciled(s, r.effect)'
      BY <2>2, <2>3 DEF RowOf, Unreconciled
    <3> QED BY <2>3, <2>5, <3>1, <3>2 DEF Stage, ReconcilePC
  <2>6. Stage(s)'
    BY <2>4, <2>5
  <2>7. ASSUME NEW t \in Session, t # s  PROVE pc'[t] = "idle" /\ t \notin recovering'
    BY <2>7, OthersAreIdle DEF IndInv, TypeOK, CompleteEffect
  <2> QED BY <2>6, <2>7, IdleStage DEF StageInv
<1>6. RunInv'
  BY DEF IndInv, TypeOK, StageInv, Stage, RunInv, CompleteEffect,
         RowsAfterCompletion, Outcome, Begun, Accounted, RowOf
<1>7. TouchInv'
  BY DEF IndInv, StageInv, Stage, TouchInv, CompleteEffect, Begun,
         TouchIsGuarded, RowOf
<1>8. NothingIsInferred'
  BY DEF IndInv, NothingIsInferred, CompleteEffect, Begun
<1> QED BY <1>1, <1>2, <1>3, <1>4, <1>5, <1>6, <1>7, <1>8 DEF IndInv

LEMMA FinishStep ==
  ASSUME IndInv, NEW s \in Session, Finish(s)
  PROVE  IndInv'
<1>1. TypeOK'
  BY DEF IndInv, TypeOK, Finish, GoIdle
<1>2. LeaseInv'
  BY NoSessionAssumption DEF IndInv, TypeOK, LeaseInv, Finish, GoIdle
<1>3. LogInv'
  BY DEF IndInv, LogInv, Finish
<1>4. RowInv'
  BY DEF IndInv, RowInv, Finish, MayReconcile, GuardIsReconcilable
<1>5. StageInv'
  <2>1. ASSUME NEW t \in Session  PROVE pc'[t] = "idle" /\ t \notin recovering'
    BY OthersAreIdle DEF IndInv, TypeOK, Finish, GoIdle
  <2> QED BY <2>1, IdleStage DEF StageInv
<1>6. RunInv'
  BY DEF IndInv, RunInv, Finish, Begun, Accounted
<1>7. TouchInv'
  BY DEF IndInv, TouchInv, Finish, Begun, TouchIsGuarded
<1>8. NothingIsInferred'
  BY DEF IndInv, NothingIsInferred, Finish, Begun
<1> QED BY <1>1, <1>2, <1>3, <1>4, <1>5, <1>6, <1>7, <1>8 DEF IndInv

LEMMA DenyStep ==
  ASSUME IndInv, NEW s \in Session, Deny(s)
  PROVE  IndInv'
<1>1. TypeOK'
  BY DEF IndInv, TypeOK, Deny, GoIdle
<1>2. LeaseInv'
  BY NoSessionAssumption DEF IndInv, TypeOK, LeaseInv, Deny, GoIdle
<1>3. LogInv'
  BY DEF IndInv, LogInv, Deny
<1>4. RowInv'
  BY DEF IndInv, RowInv, Deny, MayReconcile, GuardIsReconcilable
<1>5. StageInv'
  BY DEF IndInv, StageInv, Stage, Deny, GoIdle, ReconcilePC, Begun,
         Unreconciled, MayReconcile, RowOf
<1>6. RunInv'
  BY DEF IndInv, RunInv, Deny, Begun, Accounted
<1>7. TouchInv'
  BY DEF IndInv, TouchInv, Deny, Begun, TouchIsGuarded
<1>8. NothingIsInferred'
  BY DEF IndInv, NothingIsInferred, Deny, Begun
<1> QED BY <1>1, <1>2, <1>3, <1>4, <1>5, <1>6, <1>7, <1>8 DEF IndInv

LEMMA AbandonStep ==
  ASSUME IndInv, NEW s \in Session, Abandon(s)
  PROVE  IndInv'
<1>1. TypeOK'
  BY DEF IndInv, TypeOK, Abandon, GoIdle
<1>2. LeaseInv'
  BY NoSessionAssumption DEF IndInv, TypeOK, LeaseInv, Abandon, GoIdle, TaskPC
<1>3. LogInv'
  BY DEF IndInv, LogInv, Abandon
<1>4. RowInv'
  BY DEF IndInv, RowInv, Abandon, MayReconcile, GuardIsReconcilable
<1>5. StageInv'
  BY DEF IndInv, TypeOK, StageInv, Stage, Abandon, GoIdle, ReconcilePC, Begun,
         Unreconciled, MayReconcile, RowOf
<1>6. RunInv'
  BY DEF IndInv, RunInv, Abandon, Begun, Accounted
<1>7. TouchInv'
  BY DEF IndInv, TouchInv, Abandon, Begun, TouchIsGuarded
<1>8. NothingIsInferred'
  BY DEF IndInv, NothingIsInferred, Abandon, Begun
<1> QED BY <1>1, <1>2, <1>3, <1>4, <1>5, <1>6, <1>7, <1>8 DEF IndInv

LEMMA WithdrawStep ==
  ASSUME IndInv, NEW s \in Session, Withdraw(s)
  PROVE  IndInv'
<1>1. TypeOK'
  <2>1. cur[s] \in Effect
    BY DEF IndInv, StageInv, Stage, Withdraw
  <2> QED BY <2>1 DEF IndInv, TypeOK, Withdraw, GoIdle, Outcome
<1>2. LeaseInv'
  BY NoSessionAssumption DEF IndInv, TypeOK, LeaseInv, Withdraw, GoIdle, TaskPC
<1>3. LogInv'
  <2>1. s \in created
    BY DEF IndInv, TypeOK, LeaseInv, Withdraw
  <2> QED BY <2>1 DEF IndInv, TypeOK, LogInv, Withdraw
<1>4. RowInv'
  BY DEF IndInv, TypeOK, RowInv, Withdraw, MayReconcile, GuardIsReconcilable
<1>5. StageInv'
  <2>1. ASSUME NEW t \in Session  PROVE pc'[t] = "idle" /\ t \notin recovering'
    BY OthersAreIdle DEF IndInv, TypeOK, Withdraw, GoIdle
  <2> QED BY <2>1, IdleStage DEF StageInv
<1>6. RunInv'
  <2>1. Stage(s) /\ cur[s] \in Effect
    BY DEF IndInv, StageInv, Stage, Withdraw
  <2>2. pc[s] = "recorded" => RowOf(s) \in pending /\ ranBy[cur[s]] = s
    BY <2>1 DEF Stage
  <2>3. pc[s] = "settled" => cur[s] \in withdrawn'
    BY DEF Withdraw
  <2>4. withdrawn \subseteq withdrawn'
    BY DEF Withdraw
  <2> QED BY <2>1, <2>2, <2>3, <2>4 DEF IndInv, TypeOK, RunInv, Withdraw, Begun, Accounted,
          RowOf
<1>7. TouchInv'
  BY DEF IndInv, TouchInv, Withdraw, Begun, TouchIsGuarded
<1>8. NothingIsInferred'
  BY DEF IndInv, TypeOK, NothingIsInferred, Withdraw, Begun
<1> QED BY <1>1, <1>2, <1>3, <1>4, <1>5, <1>6, <1>7, <1>8 DEF IndInv

LEMMA BeginReconcileStep ==
  ASSUME IndInv, NEW s \in Session, NEW e \in Effect, BeginReconcile(s, e)
  PROVE  IndInv'
<1>1. TypeOK'
  BY DEF IndInv, TypeOK, BeginReconcile, ReconcilePC
<1>2. LeaseInv'
  BY NoSessionAssumption DEF IndInv, TypeOK, LeaseInv, BeginReconcile
<1>3. LogInv'
  BY DEF IndInv, LogInv, BeginReconcile
<1>4. RowInv'
  BY DEF IndInv, RowInv, BeginReconcile, MayReconcile, GuardIsReconcilable
<1>5. StageInv'
  <2>1. Stage(s)
    BY DEF IndInv, StageInv
  <2>2. Stage(s)'
    BY <2>1 DEF IndInv, TypeOK, LeaseInv, Stage, BeginReconcile, TaskPC, ReconcilePC, Begun,
       Unreconciled, MayReconcile
  <2>3. ASSUME NEW t \in Session, t # s  PROVE pc'[t] = "idle" /\ t \notin recovering'
    BY <2>3, AllAreIdle DEF IndInv, TypeOK, BeginReconcile
  <2> QED BY <2>2, <2>3, IdleStage DEF StageInv
<1>6. RunInv'
  BY DEF IndInv, RunInv, BeginReconcile, Begun, Accounted
<1>7. TouchInv'
  BY DEF IndInv, TouchInv, BeginReconcile, Begun, TouchIsGuarded
<1>8. NothingIsInferred'
  BY DEF IndInv, NothingIsInferred, BeginReconcile, Begun
<1> QED BY <1>1, <1>2, <1>3, <1>4, <1>5, <1>6, <1>7, <1>8 DEF IndInv

LEMMA AcknowledgeStep ==
  ASSUME IndInv, NEW s \in Session, Acknowledge(s)
  PROVE  IndInv'
<1>1. TypeOK'
  BY DEF IndInv, TypeOK, StageInv, Stage, Acknowledge, ReconcilePC
<1>2. LeaseInv'
  BY DEF IndInv, LeaseInv, Acknowledge
<1>3. LogInv'
  BY DEF IndInv, LogInv, StageInv, Stage, Acknowledge, ReconcilePC, MayReconcile
<1>4. RowInv'
  BY DEF IndInv, RowInv, Acknowledge, MayReconcile, GuardIsReconcilable
<1>5. StageInv'
  <2>1. Stage(s)
    BY DEF IndInv, StageInv
  <2>2. Stage(s)'
    BY <2>1 DEF IndInv, TypeOK, LeaseInv, Stage, Acknowledge, TaskPC, ReconcilePC, Begun,
       Unreconciled, MayReconcile
  <2>3. ASSUME NEW t \in Session, t # s  PROVE pc'[t] = "idle" /\ t \notin recovering'
    BY <2>3, OthersAreIdle DEF IndInv, TypeOK, Acknowledge
  <2> QED BY <2>2, <2>3, IdleStage DEF StageInv
<1>6. RunInv'
  BY DEF IndInv, RunInv, Acknowledge, Begun, Accounted
<1>7. TouchInv'
  BY DEF IndInv, TouchInv, Acknowledge, Begun, TouchIsGuarded
<1>8. NothingIsInferred'
  BY DEF IndInv, NothingIsInferred, Acknowledge, Begun
<1> QED BY <1>1, <1>2, <1>3, <1>4, <1>5, <1>6, <1>7, <1>8 DEF IndInv

LEMMA EndReconcileStep ==
  ASSUME IndInv, NEW s \in Session, EndReconcile(s)
  PROVE  IndInv'
<1>1. TypeOK'
  BY DEF IndInv, TypeOK, EndReconcile, GoIdle
<1>2. LeaseInv'
  BY NoSessionAssumption DEF IndInv, TypeOK, LeaseInv, EndReconcile, GoIdle
<1>3. LogInv'
  BY DEF IndInv, LogInv, EndReconcile
<1>4. RowInv'
  BY DEF IndInv, RowInv, EndReconcile, MayReconcile, GuardIsReconcilable
<1>5. StageInv'
  BY DEF IndInv, TypeOK, StageInv, Stage, EndReconcile, GoIdle, ReconcilePC,
         Begun, Unreconciled, MayReconcile, RowOf
<1>6. RunInv'
  BY DEF IndInv, StageInv, Stage, RunInv, EndReconcile, Begun, Accounted, RowOf
<1>7. TouchInv'
  BY DEF IndInv, StageInv, Stage, TouchInv, EndReconcile, Begun,
         TouchIsGuarded, RowOf
<1>8. NothingIsInferred'
  BY DEF IndInv, NothingIsInferred, EndReconcile, Begun
<1> QED BY <1>1, <1>2, <1>3, <1>4, <1>5, <1>6, <1>7, <1>8 DEF IndInv

LEMMA AbandonReconcileStep ==
  ASSUME IndInv, NEW s \in Session, AbandonReconcile(s)
  PROVE  IndInv'
<1>1. TypeOK'
  BY DEF IndInv, TypeOK, AbandonReconcile, GoIdle
<1>2. LeaseInv'
  BY NoSessionAssumption DEF IndInv, TypeOK, LeaseInv, AbandonReconcile,
     GoIdle, ReconcilePC
<1>3. LogInv'
  BY DEF IndInv, LogInv, AbandonReconcile
<1>4. RowInv'
  BY DEF IndInv, RowInv, AbandonReconcile, MayReconcile, GuardIsReconcilable
<1>5. StageInv'
  BY DEF IndInv, TypeOK, StageInv, Stage, AbandonReconcile, GoIdle,
         ReconcilePC, Begun, Unreconciled, MayReconcile, RowOf
<1>6. RunInv'
  BY DEF IndInv, RunInv, AbandonReconcile, Begun, Accounted
<1>7. TouchInv'
  BY DEF IndInv, TouchInv, AbandonReconcile, Begun, TouchIsGuarded
<1>8. NothingIsInferred'
  BY DEF IndInv, NothingIsInferred, AbandonReconcile, Begun
<1> QED BY <1>1, <1>2, <1>3, <1>4, <1>5, <1>6, <1>7, <1>8 DEF IndInv

LEMMA CrashStep ==
  ASSUME IndInv, NEW s \in Session, Crash(s)
  PROVE  IndInv'
<1>1. TypeOK'
  BY MaxCrashesAssumption DEF IndInv, TypeOK, Crash
<1>2. LeaseInv'
  BY NoSessionAssumption DEF IndInv, TypeOK, LeaseInv, Crash
<1>3. LogInv'
  BY DEF IndInv, LogInv, Crash
<1>4. RowInv'
  BY DEF IndInv, RowInv, Crash, MayReconcile, GuardIsReconcilable
<1>5. StageInv'
  BY DEF IndInv, TypeOK, StageInv, Stage, Crash, ReconcilePC, Begun,
         Unreconciled, MayReconcile, RowOf
<1>6. RunInv'
  BY DEF IndInv, RunInv, Crash, Begun, Accounted
<1>7. TouchInv'
  BY DEF IndInv, TouchInv, Crash, Begun, TouchIsGuarded
<1>8. NothingIsInferred'
  BY DEF IndInv, NothingIsInferred, Crash, Begun
<1> QED BY <1>1, <1>2, <1>3, <1>4, <1>5, <1>6, <1>7, <1>8 DEF IndInv

LEMMA OrphanExitStep ==
  ASSUME IndInv, NEW e \in Effect, OrphanExit(e)
  PROVE  IndInv'
<1>1. TypeOK'
  BY DEF IndInv, TypeOK, OrphanExit
<1>2. LeaseInv'
  BY DEF IndInv, LeaseInv, OrphanExit
<1>3. LogInv'
  BY DEF IndInv, LogInv, OrphanExit
<1>4. RowInv'
  BY DEF IndInv, RowInv, OrphanExit, MayReconcile, GuardIsReconcilable
<1>5. StageInv'
  BY DEF IndInv, StageInv, Stage, OrphanExit, Begun, Unreconciled,
         MayReconcile, RowOf
<1>6. RunInv'
  BY DEF IndInv, RunInv, OrphanExit, Begun, Accounted
<1>7. TouchInv'
  BY DEF IndInv, TouchInv, OrphanExit, Begun, TouchIsGuarded
<1>8. NothingIsInferred'
  BY DEF IndInv, NothingIsInferred, OrphanExit, Begun
<1> QED BY <1>1, <1>2, <1>3, <1>4, <1>5, <1>6, <1>7, <1>8 DEF IndInv

LEMMA StutteringStep ==
  ASSUME IndInv, UNCHANGED vars
  PROVE  IndInv'
<1>1. TypeOK'
  BY DEF IndInv, TypeOK, vars
<1>2. LeaseInv'
  BY DEF IndInv, LeaseInv, vars
<1>3. LogInv'
  BY DEF IndInv, LogInv, vars
<1>4. RowInv'
  BY DEF IndInv, RowInv, GuardIsReconcilable, MayReconcile, vars
<1>5. StageInv'
  BY DEF IndInv, StageInv, Stage, Begun, Unreconciled, MayReconcile, RowOf, vars
<1>6. RunInv'
  BY DEF IndInv, RunInv, Begun, Accounted, vars
<1>7. TouchInv'
  BY DEF IndInv, TouchInv, Begun, TouchIsGuarded, vars
<1>8. NothingIsInferred'
  BY DEF IndInv, NothingIsInferred, vars, Begun
<1> QED BY <1>1, <1>2, <1>3, <1>4, <1>5, <1>6, <1>7, <1>8 DEF IndInv

-----------------------------------------------------------------------------
(* The steps of the specification *)

\* Every action of Next, and a stuttering step, keeps the invariant.
LEMMA IndInvStep == IndInv /\ [Next]_vars => IndInv'
<1> SUFFICES ASSUME IndInv, [Next]_vars
             PROVE  IndInv'
  OBVIOUS
<1>1. ASSUME NEW s \in Session, TaskStep(s)
      PROVE  IndInv'
  BY <1>1, AskStep, ApproveStep, DenyStep, BeginEffectStep, StartStep, CompleteStep,
     CompleteEffectStep, FinishStep, AbandonStep, WithdrawStep, RequestStep, ReturnStep
     DEF TaskStep
<1>2. ASSUME NEW s \in Session, ReconcileStep(s)
      PROVE  IndInv'
  BY <1>2, AcknowledgeStep, EndReconcileStep, AbandonReconcileStep DEF ReconcileStep
<1>3. ASSUME NEW s \in Session, UserStep(s)
      PROVE  IndInv'
  BY <1>3, CreateStep, ResumeStep, CloseSessionStep, StartTaskStep, StartRecoveryStep,
     ForkStep, BeginReconcileStep DEF UserStep
<1>4. ASSUME NEW s \in Session, Crash(s)
      PROVE  IndInv'
  BY <1>4, CrashStep
<1>5. ASSUME NEW e \in Effect, OrphanExit(e)
      PROVE  IndInv'
  BY <1>5, OrphanExitStep
<1>6. CASE UNCHANGED vars
  BY <1>6, StutteringStep
<1> QED BY <1>1, <1>2, <1>3, <1>4, <1>5, <1>6 DEF Next

\* What a crash leaves behind between any two durable writes is accounted for in
\* a log or behind a pending row of its owner: the whole inductive invariant.
THEOREM IndInvariant == Spec => []IndInv
  BY IndInvInit, IndInvStep, PTL DEF Spec

-----------------------------------------------------------------------------
(* Safety *)

\* Every variable keeps its type.
THEOREM TypeCorrect == Spec => []TypeOK
<1>1. IndInv => TypeOK
  BY DEF IndInv
<1> QED BY <1>1, IndInvariant, PTL

\* The owner of a pending row can always reconcile it: no crash, fork or failed
\* write leaves a row whose intent its log does not hold.
THEOREM GuardStaysReconcilable == Spec => []GuardIsReconcilable
<1>1. IndInv => GuardIsReconcilable
  BY DEF IndInv, RowInv
<1> QED BY <1>1, IndInvariant, PTL

\* An effect that touches the worktree is behind a durable pending row, or its
\* session acknowledged it, also when its process outlived the harness.
THEOREM TouchStaysGuarded == Spec => []TouchIsGuarded
<1>1. IndInv => TouchIsGuarded
  BY DEF IndInv, TouchInv
<1> QED BY <1>1, IndInvariant, PTL

\* Two effects touch the worktree together only after the user acknowledged one
\* of them while its orphaned process was running.
THEOREM EffectsDoNotOverlap == Spec => []NoOverlap
<1>1. IndInv => NoOverlap
  <2> SUFFICES ASSUME IndInv, NEW e \in touching, NEW f \in touching, e # f,
                      \A g \in {e, f} : g \notin reconciled[ranBy[g]]
               PROVE  FALSE
    BY DEF NoOverlap
  <2>1. [effect |-> e, owner |-> ranBy[e]] \in pending
    BY DEF IndInv, TouchInv, TouchIsGuarded
  <2>2. [effect |-> f, owner |-> ranBy[f]] \in pending
    BY DEF IndInv, TouchInv, TouchIsGuarded
  <2>3. [effect |-> e, owner |-> ranBy[e]] = [effect |-> f, owner |-> ranBy[f]]
    BY <2>1, <2>2 DEF IndInv, RowInv
  <2> QED BY <2>3
<1> QED BY <1>1, IndInvariant, PTL

\* No log of any session claims an outcome that the process of the effect did
\* not return, whatever was killed, forked, acknowledged or withdrawn.
THEOREM NothingInferred == Spec => []NothingIsInferred
<1>1. IndInv => NothingIsInferred
  BY DEF IndInv
<1> QED BY <1>1, IndInvariant, PTL

-----------------------------------------------------------------------------
(* Action properties *)

\* Under the invariant, an effect that is neither settled nor withdrawn has a
\* pending row.
LEMMA UnsettledIsPending ==
  ASSUME IndInv, NEW e \in Effect, Unsettled(e), e \notin withdrawn
  PROVE  [effect |-> e, owner |-> ranBy[e]] \in pending
  BY DEF IndInv, RunInv, Unsettled

\* No session lets an effect touch the worktree while an effect of any session
\* is not accounted for in the log of the session that ran it, unless a recovery
\* withdrew its result when its row was gone.
THEOREM StartsAreOnSettledWorktree == Spec => StartsOnSettledWorktree
<1> DEFINE A == touching' \ touching # {} =>
                  \A e \in Effect : Unsettled(e) => e \in withdrawn
<1>1. ASSUME IndInv, NEW s \in Session, Start(s)
      PROVE  A
  <2> SUFFICES ASSUME NEW e \in Effect, Unsettled(e), e \notin withdrawn
               PROVE  FALSE
    OBVIOUS
  <2>1. pending = {RowOf(s)} /\ ~Begun(cur[s])
    BY <1>1 DEF IndInv, StageInv, Stage, Start
  <2>2. [effect |-> e, owner |-> ranBy[e]] = RowOf(s)
    BY <1>1, <2>1, UnsettledIsPending
  <2>3. e = cur[s]
    BY <2>2 DEF RowOf
  <2> QED BY <2>1, <2>3 DEF Unsettled
<1>2. ASSUME touching' \subseteq touching
      PROVE  A
  BY <1>2
<1>3. ASSUME NEW s \in Session, TaskStep(s), ~Start(s)
      PROVE  touching' \subseteq touching
  BY <1>3 DEF TaskStep, Ask, Approve, Deny, BeginEffect, Complete, CompleteEffect,
              Finish, Abandon, Withdraw, Request, Return
<1>4. ASSUME NEW s \in Session, ReconcileStep(s) \/ UserStep(s) \/ Crash(s)
      PROVE  touching' \subseteq touching
  BY <1>4 DEF ReconcileStep, Acknowledge, EndReconcile, AbandonReconcile, UserStep,
              Create, Resume, CloseSession, StartTask, StartRecovery, Fork, BeginReconcile, Crash
<1>5. ASSUME NEW e \in Effect, OrphanExit(e)
      PROVE  touching' \subseteq touching
  BY <1>5 DEF OrphanExit
<1>6. IndInv /\ Next => A
  BY <1>1, <1>2, <1>3, <1>4, <1>5 DEF Next
<1>7. IndInv /\ [Next]_vars => [A]_vars
  BY <1>6
<1> QED BY <1>7, IndInvariant, PTL DEF Spec, StartsOnSettledWorktree

\* A pending row is deleted only by the process of its owner, under the lease,
\* after its log durably accounts for the effect.
THEOREM RowsAreClearedByOwner == Spec => RowClearedByOwnerAfterLog
<1> DEFINE A == \A r \in pending \ pending' :
                  lease = r.owner /\ Accounted(r.owner, r.effect)
<1>1. ASSUME IndInv, NEW s \in Session, CompleteEffect(s)
      PROVE  A
  <2> SUFFICES ASSUME NEW r \in pending \ pending'
               PROVE  lease = r.owner /\ Accounted(r.owner, r.effect)
    OBVIOUS
  <2>1. pending = {RowOf(s)} /\ ledger[s][cur[s]] = reported[cur[s]]
    BY <1>1 DEF IndInv, StageInv, Stage, CompleteEffect
  <2>2. r = RowOf(s)
    BY <2>1
  <2>3. r.owner = s /\ r.effect = cur[s]
    BY <2>2 DEF RowOf
  <2>4. reported[cur[s]] \in {"passed", "failed"}
    BY <1>1 DEF IndInv, TypeOK, StageInv, Stage, Outcome, CompleteEffect,
                RowsAfterCompletion
  <2>5. lease = s
    BY <1>1 DEF IndInv, LeaseInv, CompleteEffect
  <2> QED BY <2>1, <2>3, <2>4, <2>5 DEF Accounted
<1>2. ASSUME IndInv, NEW s \in Session, EndReconcile(s)
      PROVE  A
  <2> SUFFICES ASSUME NEW r \in pending \ pending'
               PROVE  lease = r.owner /\ Accounted(r.owner, r.effect)
    OBVIOUS
  <2>1. r.owner = s /\ r.effect = cur[s]
    BY <1>2 DEF EndReconcile, RowOf
  <2>2. cur[s] \in reconciled[s]
    BY <1>2 DEF IndInv, StageInv, Stage, EndReconcile
  <2>3. lease = s
    BY <1>2 DEF IndInv, LeaseInv, EndReconcile
  <2> QED BY <2>1, <2>2, <2>3 DEF Accounted
<1>3. ASSUME NEW s \in Session, TaskStep(s), ~CompleteEffect(s)
      PROVE  pending \subseteq pending'
  BY <1>3 DEF TaskStep, Ask, Approve, Deny, BeginEffect, Start, Complete, Finish,
              Abandon, Withdraw, Request, Return
<1>4. ASSUME NEW s \in Session,
             (ReconcileStep(s) /\ ~EndReconcile(s)) \/ UserStep(s) \/ Crash(s)
      PROVE  pending \subseteq pending'
  BY <1>4 DEF ReconcileStep, Acknowledge, AbandonReconcile, UserStep, Create,
              Resume, CloseSession, StartTask, StartRecovery, Fork, BeginReconcile, Crash
<1>5. ASSUME NEW e \in Effect, OrphanExit(e)
      PROVE  pending \subseteq pending'
  BY <1>5 DEF OrphanExit
<1>6. ASSUME pending \subseteq pending'
      PROVE  A
  BY <1>6
<1>7. IndInv /\ Next => A
  BY <1>1, <1>2, <1>3, <1>4, <1>5, <1>6 DEF Next, ReconcileStep
<1>8. IndInv /\ [Next]_vars => [A]_vars
  BY <1>7
<1> QED BY <1>8, IndInvariant, PTL DEF Spec, RowClearedByOwnerAfterLog

-----------------------------------------------------------------------------
(* The refinement *)

\* A step that changes neither the rows nor what they are worth, and touches
\* nothing, is a stuttering step of EffectPromise.
LEMMA QuietStep ==
  ASSUME UNCHANGED <<pending, touching>>,
         \A r \in pending : Accounted(r.owner, r.effect)' <=> Accounted(r.owner, r.effect)
  PROVE  [Promise!Next]_Promise!vars
  BY DEF Promise!vars, EffectsOf

\* An effect that is at work is exposed and not settled.
LEMMA WorkIsExposed ==
  ASSUME IndInv, NEW s \in Session, pc[s] \in {"guarded", "running", "returned"}
  PROVE  /\ cur[s] \in Effect
         /\ pending = {RowOf(s)}
         /\ ~Accounted(s, cur[s])
  BY DEF IndInv, StageInv, Stage, Unreconciled, Accounted

\* What one row is worth decides what is exposed and settled.
LEMMA OneRow ==
  ASSUME NEW s \in Session, pending = {RowOf(s)}
  PROVE  /\ EffectsOf(pending) = {cur[s]}
         /\ EffectsOf({r \in pending : Accounted(r.owner, r.effect)}) =
              IF Accounted(s, cur[s]) THEN {cur[s]} ELSE {}
  BY DEF RowOf, EffectsOf

\* The steps of a task refine the steps of EffectPromise.
LEMMA TaskStepRefines ==
  ASSUME IndInv, NEW s \in Session, TaskStep(s)
  PROVE  [Promise!Next]_Promise!vars
<1>1. CASE BeginEffect(s)
  <2>1. cur[s] \in Effect /\ ~Accounted(s, cur[s]) /\ pending = {}
    BY <1>1 DEF IndInv, StageInv, Stage, BeginEffect, Unreconciled, Accounted
  <2>2. pending' = {RowOf(s)} /\ UNCHANGED <<touching, ledger, reconciled, cur>>
    BY <1>1, <2>1 DEF BeginEffect
  <2>3. Promise!Expose(cur[s])
    BY <2>1, <2>2 DEF Promise!Expose, EffectsOf, RowOf, Accounted
  <2> QED BY <2>1, <2>3 DEF Promise!Next
<1>2. CASE Start(s)
  <2>1. cur[s] \in Effect /\ pending = {RowOf(s)} /\ ~Accounted(s, cur[s])
    BY <1>2, WorkIsExposed DEF Start
  <2>2. /\ UNCHANGED <<pending, ledger, reconciled>>
        /\ touching' = touching \union {cur[s]}
    BY <1>2 DEF Start
  <2>3. Promise!Touch(cur[s])
    BY <2>1, <2>2, OneRow DEF Promise!Touch, EffectsOf, Accounted
  <2> QED BY <2>1, <2>3 DEF Promise!Next
<1>3. CASE \E outcome \in Outcome : Return(s, outcome)
  <2>1. cur[s] \in Effect
    BY <1>3, WorkIsExposed DEF Return
  <2>2. Promise!Leave(cur[s])
    BY <1>3 DEF Return, Promise!Leave, EffectsOf, Accounted
  <2> QED BY <2>1, <2>2 DEF Promise!Next
<1>4. CASE Complete(s)
  <2>1. cur[s] \in Effect /\ pending = {RowOf(s)} /\ ~Accounted(s, cur[s])
    BY <1>4, WorkIsExposed DEF Complete
  <2>2. UNCHANGED <<pending, touching, reconciled, cur>>
    BY <1>4 DEF Complete
  <2>3. CASE Accounted(s, cur[s])'
    <3>1. Promise!Settle(cur[s])
      BY <2>1, <2>2, <2>3 DEF Promise!Settle, EffectsOf, RowOf
    <3> QED BY <2>1, <3>1 DEF Promise!Next
  <2>4. CASE ~Accounted(s, cur[s])'
    <3>1. \A r \in pending : Accounted(r.owner, r.effect)' <=> Accounted(r.owner, r.effect)
      BY <2>1, <2>2, <2>4 DEF RowOf
    <3> QED BY <2>2, <3>1, QuietStep
  <2> QED BY <2>3, <2>4
<1>5. CASE CompleteEffect(s)
  <2>1. /\ cur[s] \in Effect /\ pending = {RowOf(s)}
        /\ ledger[s][cur[s]] = reported[cur[s]] /\ cur[s] \notin reconciled[s]
    BY <1>5 DEF IndInv, StageInv, Stage, CompleteEffect
  <2>2. UNCHANGED <<touching, ledger, reconciled>>
    BY <1>5 DEF CompleteEffect
  <2>3. CASE reported[cur[s]] = "unknown"
    <3>1. UNCHANGED pending
      BY <1>5, <2>3 DEF CompleteEffect, RowsAfterCompletion
    <3> QED BY <2>2, <3>1, QuietStep DEF Accounted
  <2>4. CASE reported[cur[s]] # "unknown"
    <3>1. pending' = {}
      BY <1>5, <2>1, <2>4 DEF CompleteEffect, RowsAfterCompletion
    <3>2. Accounted(s, cur[s])
      BY <2>1, <2>4 DEF IndInv, TypeOK, Outcome, Accounted
    <3>3. Promise!Clear(cur[s])
      BY <2>1, <2>2, <3>1, <3>2, OneRow DEF Promise!Clear, EffectsOf
    <3> QED BY <2>1, <3>3 DEF Promise!Next
  <2> QED BY <2>3, <2>4
<1>6. CASE Ask(s) \/ Approve(s) \/ Deny(s) \/ Finish(s)
  BY <1>6, QuietStep DEF Ask, Approve, Deny, Finish, Accounted
<1>7. CASE Abandon(s)
  <2>1. CASE cur[s] \in Effect
    <3>1. Promise!Leave(cur[s])
      BY <1>7 DEF Abandon, Promise!Leave, EffectsOf, Accounted
    <3> QED BY <2>1, <3>1 DEF Promise!Next
  <2>2. CASE cur[s] \notin Effect
    <3>1. UNCHANGED <<pending, touching, ledger, reconciled>>
      BY <1>7, <2>2 DEF IndInv, TypeOK, Abandon
    <3> QED BY <3>1, QuietStep DEF Accounted
  <2> QED BY <2>1, <2>2
<1>8. ASSUME NEW e \in Effect, Request(s, e)
      PROVE  [Promise!Next]_Promise!vars
  <2>1. \A r \in pending : r.owner \in Session /\ r.effect # e
    BY <1>8 DEF IndInv, TypeOK, RowInv, GuardIsReconcilable, MayReconcile, Request,
                Fresh, Row
  <2>2. \A r \in pending : Accounted(r.owner, r.effect)' <=> Accounted(r.owner, r.effect)
    BY <1>8, <2>1 DEF IndInv, TypeOK, Request, Accounted
  <2> QED BY <1>8, <2>2, QuietStep DEF Request
<1>9. CASE Withdraw(s)
  <2>1. /\ cur[s] \in Effect /\ pc[s] \in {"recorded", "settled"}
        /\ ledger[s][cur[s]] = "passed" /\ cur[s] \notin reconciled[s]
        /\ pending = IF pc[s] = "recorded" THEN {RowOf(s)} ELSE {}
    BY <1>9 DEF IndInv, StageInv, Stage, Withdraw, ReconcilePC
  <2>2. /\ UNCHANGED <<pending, touching, reconciled>>
        /\ ledger' = [ledger EXCEPT ![s][cur[s]] = "unknown"]
    BY <1>9 DEF Withdraw
  <2>3. CASE pc[s] = "recorded"
    <3>1. ~ledger'[s][cur[s]] \in {"passed", "failed"}
      BY <2>1, <2>2 DEF IndInv, TypeOK
    <3>2. {r \in pending' : Accounted(r.owner, r.effect)'} = {}
      BY <2>1, <2>2, <2>3, <3>1 DEF RowOf, Accounted
    <3>3. Promise!Unsettle(cur[s])
      BY <2>1, <2>2, <2>3, <3>2, OneRow DEF Promise!Unsettle, EffectsOf, Accounted
    <3> QED BY <2>1, <3>3 DEF Promise!Next
  <2>4. CASE pc[s] = "settled"
    BY <2>1, <2>2, <2>4, QuietStep
  <2> QED BY <2>1, <2>3, <2>4
<1> QED BY <1>1, <1>2, <1>3, <1>4, <1>5, <1>6, <1>7, <1>8, <1>9 DEF TaskStep

\* So do the steps of a reconciliation.
LEMMA ReconcileStepRefines ==
  ASSUME IndInv, NEW s \in Session, ReconcileStep(s)
  PROVE  [Promise!Next]_Promise!vars
<1>1. CASE Acknowledge(s)
  <2>1. cur[s] \in Effect /\ (\A r \in pending : r.effect = cur[s] => r.owner = s)
    BY <1>1 DEF IndInv, StageInv, Stage, ReconcilePC, MayReconcile, Acknowledge
  <2>2. /\ UNCHANGED <<pending, touching, ledger, cur>>
        /\ reconciled' = [reconciled EXCEPT ![s] = @ \union {cur[s]}]
    BY <1>1 DEF Acknowledge
  <2>3. CASE RowOf(s) \in pending
    <3>1. pending = {RowOf(s)}
      BY <2>3 DEF IndInv, RowInv
    <3>2. Accounted(s, cur[s])'
      BY <2>2 DEF IndInv, TypeOK, Accounted
    <3>3. Promise!Settle(cur[s])
      BY <2>2, <3>1, <3>2 DEF Promise!Settle, EffectsOf, RowOf
    <3> QED BY <2>1, <3>3 DEF Promise!Next
  <2>4. CASE RowOf(s) \notin pending
    <3>1. \A r \in pending : r.effect # cur[s]
      BY <2>1, <2>4 DEF RowOf, IndInv, TypeOK, Row
    <3>2. \A r \in pending : Accounted(r.owner, r.effect)' <=> Accounted(r.owner, r.effect)
      BY <2>2, <3>1 DEF IndInv, TypeOK, Row, Accounted
    <3> QED BY <2>2, <3>2, QuietStep
  <2> QED BY <2>3, <2>4
<1>2. CASE EndReconcile(s)
  <2>1. cur[s] \in Effect /\ cur[s] \in reconciled[s]
    BY <1>2 DEF IndInv, StageInv, Stage, EndReconcile
  <2>2. /\ UNCHANGED <<touching, ledger, reconciled>>
        /\ pending' = pending \ {RowOf(s)}
    BY <1>2 DEF EndReconcile
  <2>3. CASE RowOf(s) \in pending
    <3>1. pending = {RowOf(s)}
      BY <2>3 DEF IndInv, RowInv
    <3>2. Promise!Clear(cur[s])
      BY <2>1, <2>2, <3>1, OneRow DEF Promise!Clear, EffectsOf, Accounted
    <3> QED BY <2>1, <3>2 DEF Promise!Next
  <2>4. CASE RowOf(s) \notin pending
    BY <2>2, <2>4, QuietStep DEF Accounted
  <2> QED BY <2>3, <2>4
<1>3. CASE AbandonReconcile(s)
  BY <1>3, QuietStep DEF AbandonReconcile, Accounted
<1> QED BY <1>1, <1>2, <1>3 DEF ReconcileStep

\* What the user does to sessions changes nothing that was promised: a fork
\* writes the log of a session that owns no row yet.
LEMMA UserStepRefines ==
  ASSUME IndInv, NEW s \in Session, UserStep(s) \/ Crash(s)
  PROVE  [Promise!Next]_Promise!vars
<1>1. ASSUME NEW t \in Session, Fork(s, t)
      PROVE  [Promise!Next]_Promise!vars
  <2>1. \A r \in pending : r.owner # t
    BY <1>1 DEF IndInv, RowInv, GuardIsReconcilable, Fork
  <2>2. \A r \in pending : Accounted(r.owner, r.effect)' <=> Accounted(r.owner, r.effect)
    BY <1>1, <2>1 DEF IndInv, TypeOK, Row, Fork, Accounted
  <2> QED BY <1>1, <2>2, QuietStep DEF Fork
<1>2. ASSUME UNCHANGED <<pending, touching, ledger, reconciled>>
      PROVE  [Promise!Next]_Promise!vars
  BY <1>2, QuietStep DEF Accounted
<1>3. ASSUME \A t \in Session : ~Fork(s, t)
      PROVE  UNCHANGED <<pending, touching, ledger, reconciled>>
  BY <1>3 DEF UserStep, Create, Resume, CloseSession, StartTask, StartRecovery, BeginReconcile, Crash
<1> QED BY <1>1, <1>2, <1>3

\* The session logs and the pending table implement EffectPromise: an effect is
\* exposed before it touches the worktree, alone until it is settled, and never
\* forgotten before.
THEOREM EffectGuardKeepsPromise == Spec => KeepsPromise
<1>1. Init => Promise!Init
  BY DEF Init, Promise!Init, EffectsOf
<1>2. ASSUME NEW e \in Effect, OrphanExit(e)
      PROVE  [Promise!Next]_Promise!vars
  <2>1. Promise!Leave(e)
    BY <1>2 DEF OrphanExit, Promise!Leave, EffectsOf, Accounted
  <2> QED BY <2>1 DEF Promise!Next
<1>3. ASSUME UNCHANGED vars
      PROVE  [Promise!Next]_Promise!vars
  BY <1>3, QuietStep DEF vars, Accounted
<1>4. IndInv /\ [Next]_vars => [Promise!Next]_Promise!vars
  BY <1>2, <1>3, TaskStepRefines, ReconcileStepRefines, UserStepRefines DEF Next
<1> QED BY <1>1, <1>4, IndInvariant, PTL DEF Spec, KeepsPromise, Promise!Spec
=============================================================================

------------------------------ MODULE TaskLoop ------------------------------
(***************************************************************************)
(* One task after another in one session: the turns with the model, the    *)
(* tool calls, the independent verification, the bounded repair and the    *)
(* exit code (src/packages/agent/loop.ts, runTask; correctness in          *)
(* src/packages/domain/task.ts).                                           *)
(*                                                                         *)
(* The worktree is a version that effects, verifiers and the user's own    *)
(* edits replace; a capture reads it.  Versions never come back: an edit   *)
(* that is undone between two captures is not seen by the code, nor here.  *)
(* What the model says is abstracted to the number and kind of its tool    *)
(* calls, approval to a question that may wait for ever.  The effect       *)
(* protocol below an execution is EffectGuard's; here an execution ends    *)
(* with an outcome, throws, or never ends.                                 *)
(***************************************************************************)
EXTENDS Naturals, Sequences, FiniteSets

CONSTANTS
  Verifier,        \* identities of the task's verifiers
  Order,           \* the order in which they run
  Required,        \* those whose result decides
  Objective,       \* those not proposed by the model
  MaxTurns,        \* options.maxTurns
  MaxToolCalls,    \* options.maxToolCalls
  RepairAttempts,  \* options.repairAttempts, 0 or 1
  MaxBatch,        \* bound on the tool calls of one response
  MaxTasks,        \* bound on the tasks of the session
  MaxVersions      \* bound on the versions of the worktree

ASSUME VerifierAssumption ==
  /\ Order \in Seq(Verifier) /\ Required \subseteq Verifier
  /\ Objective \subseteq Verifier /\ RepairAttempts \in {0, 1}
  /\ {MaxTurns, MaxToolCalls, MaxBatch, MaxTasks} \subseteq Nat
  /\ MaxVersions \in Nat \ {0}

\* The verifiers of a task have distinct identities: given ones are checked
\* (loop.ts 54), selected ones are named by their commands (selection.ts).
ASSUME OrderAssumption == \A i, j \in 1..Len(Order) : Order[i] = Order[j] => i = j

VARIABLES
  phase,               \* where runTask is
  turns, calls, repairs, batch, queue,  \* its counters and what is left to do
  tree, newest,        \* the version of the worktree, and the newest one made
  snapshot,            \* the last repository.snapshot of the session
  latest, verified,    \* latest and verificationState of the task
  check,               \* checks[v]: state, fresh and whether it exited nonzero
  result,              \* the outcome of the execution that just ended
  mutationAllowed,     \* SessionState.mutationAllowed
  cancelled, expired,  \* the user's signal and the deadline's
  status, exit,        \* of the task that ended last
  tasks,
  ranOn,               \* history: the version a verifier last started on
  executed,            \* history: executions of the current task
  stopped              \* history: the user's signal stopped an execution

counters == <<turns, calls, repairs, batch>>
stateVars == <<snapshot, latest, verified>>
signals == <<cancelled, expired>>
ending == <<status, exit>>
history == <<ranOn, executed, stopped>>
vars == <<phase, counters, queue, tree, newest, stateVars, check, result,
          mutationAllowed, signals, ending, tasks, history>>

Version == 1..MaxVersions
NoState == 0
Partial == MaxVersions + 1   \* a capture that could not read every file
Check == [state : {"passed", "failed", "unknown"}, fresh : BOOLEAN, nonzero : BOOLEAN]
NotRun == [state |-> "unknown", fresh |-> FALSE, nonzero |-> FALSE]

\* An execution passes, fails with an exit code, is killed by somebody else's
\* signal, or is stopped (a timeout, the output limit, a cancellation).
Outcome == {"passed", "failed", "signalled", "unknown"}

TypeOK ==
  /\ phase \in {"idle", "review", "model", "call", "tool", "toolDone",
               "verify", "checkCall", "check", "checkDone"}
  /\ turns \in 0..MaxTurns /\ calls \in 0..MaxToolCalls + 1
  /\ repairs \in 0..RepairAttempts /\ batch \in 0..MaxBatch
  /\ queue \in Seq(Verifier)
  /\ tree \in Version /\ newest \in Version
  /\ snapshot \in Version \union {NoState, Partial}
  /\ latest \in Version \union {NoState, Partial}
  /\ verified \in Version \union {NoState, Partial}
  /\ check \in [Verifier -> Check]
  /\ result \in Outcome
  /\ mutationAllowed \in BOOLEAN /\ cancelled \in BOOLEAN
  /\ expired \in BOOLEAN /\ stopped \in BOOLEAN
  /\ status \in {"none", "refused", "repository_changed", "context_limit", "turn_budget",
                 "tool_budget", "approval_required", "effect_unknown",
                 "acceptance_changed", "verified", "verification_failed",
                 "verification_unknown", "cancelled", "error"}
  /\ exit \in {0, 2, 3, 4, 5, 130}
  /\ tasks \in 0..MaxTasks
  /\ ranOn \in [Verifier -> Version \union {NoState}]
  /\ executed \in 0..MaxToolCalls + 1

Init ==
  /\ phase = "idle"
  /\ turns = 0 /\ calls = 0 /\ repairs = 0 /\ batch = 0 /\ queue = <<>>
  /\ tree = 1 /\ newest = 1
  /\ snapshot = NoState /\ latest = NoState /\ verified = NoState
  /\ check = [v \in Verifier |-> NotRun]
  /\ result = "passed"
  /\ mutationAllowed = TRUE
  /\ cancelled = FALSE /\ expired = FALSE
  /\ status = "none" /\ exit = 4
  /\ tasks = 0
  /\ ranOn = [v \in Verifier |-> NoState] /\ executed = 0 /\ stopped = FALSE

-----------------------------------------------------------------------------
(* domain/task.ts: correctness *)

Accepted(v) == check[v].fresh /\ v \in Objective

Correctness ==
  IF \E v \in Required : Accepted(v) /\ check[v].state = "failed" THEN "failed"
  ELSE IF Required # {} /\ \A v \in Required : Accepted(v) /\ check[v].state = "passed"
         THEN "passed"
         ELSE "unknown"

-----------------------------------------------------------------------------
Aborted == cancelled \/ expired

\* finish: task.completed
Finish(word, code) ==
  /\ phase' = "idle"
  /\ batch' = 0 /\ queue' = <<>>
  /\ status' = word /\ exit' = code

\* The catch of runTask, for a thrown abort or error
Caught ==
  IF Aborted THEN Finish("cancelled", IF cancelled THEN 130 ELSE 4)
             ELSE Finish("error", 5)

\* captureRepositoryState reads the worktree, or only a part of it.
Captures == {tree, Partial}

StaleChecks(c) == [v \in Verifier |-> [c[v] EXCEPT !.fresh = FALSE]]

-----------------------------------------------------------------------------
(* The start of a task *)

NewTask ==
  /\ phase = "idle"
  /\ tasks < MaxTasks
  /\ tasks' = tasks + 1
  /\ turns' = 0 /\ calls' = 0 /\ repairs' = 0
  /\ cancelled' = FALSE /\ expired' = FALSE
  /\ check' = [v \in Verifier |-> NotRun]
  /\ executed' = 0 /\ stopped' = FALSE
  /\ verified' = NoState
  /\ UNCHANGED <<tree, newest, result, mutationAllowed, ranOn>>

\* Nothing was captured yet: the session has unreconciled effects, the task
\* needs a decision, the worktree is not free, or a check throws.
Refuse ==
  /\ NewTask
  /\ latest' = NoState
  /\ Finish("error", 5) \/ (mutationAllowed /\ Finish("refused", 2))
  /\ UNCHANGED snapshot

\* The worktree must be what the session last recorded.  Two partial captures
\* may look the same or not.  Acceptance criteria are captured from a complete
\* state only; if they are not those of the session, the user is asked.
Start ==
  /\ NewTask
  /\ mutationAllowed
  /\ \E state \in Captures :
       /\ latest' = state
       /\ \/ /\ snapshot \in {NoState, state}
             /\ snapshot' = state
             /\ \/ Finish("error", 5)
                \/ /\ state # Partial
                   /\ phase' \in {"model", "review"}
                   /\ UNCHANGED <<batch, queue, ending>>
          \/ /\ snapshot # NoState
             /\ snapshot = state => state = Partial
             /\ Finish("repository_changed", 2)
             /\ UNCHANGED snapshot

-----------------------------------------------------------------------------
(* The question whether changed acceptance criteria are adopted, at the start  *)
(* of a task and before its verification; it has no deadline                   *)

Verify == phase' = "verify" /\ queue' = Order /\ UNCHANGED <<batch, ending>>

Adopt ==
  /\ phase = "review" /\ ~Aborted
  /\ IF verified = NoState THEN phase' = "model" /\ UNCHANGED <<batch, queue, ending>>
                           ELSE Verify
  /\ UNCHANGED <<turns, calls, repairs, tree, newest, stateVars, check, result,
                 mutationAllowed, signals, tasks, history>>

Decline ==
  /\ phase = "review"
  /\ Finish("acceptance_changed", 2)
  /\ UNCHANGED <<turns, calls, repairs, tree, newest, stateVars, check, result,
                 mutationAllowed, signals, tasks, history>>

-----------------------------------------------------------------------------
(* The turns with the model *)

taskVars == <<tree, newest, stateVars, check, result, mutationAllowed, signals,
              tasks, history>>

\* A turn ends in tool calls, or concludes (batch 0) with the state to verify.
Turn ==
  /\ phase = "model" /\ batch = 0
  /\ ~Aborted /\ turns < MaxTurns
  /\ turns' = turns + 1
  /\ \E n \in 1..MaxBatch : batch' = n
  /\ UNCHANGED <<phase, calls, repairs, queue, ending, taskVars>>

\* The model concludes: the state to verify is captured.  A partial capture
\* ends the task, changed acceptance criteria are a question.
Conclude ==
  /\ phase = "model" /\ batch = 0
  /\ ~Aborted /\ turns < MaxTurns
  /\ turns' = turns + 1
  /\ verified' \in Captures
  /\ latest' = verified' /\ snapshot' = verified'
  /\ IF verified' = Partial THEN Caught
     ELSE Verify \/ (phase' = "review" /\ UNCHANGED <<batch, queue, ending>>)
  /\ UNCHANGED <<calls, repairs, tree, newest, check, result, mutationAllowed,
                 signals, tasks, history>>

\* A faulty variant: the bound is off by one.
OutOfTurnsLate ==
  /\ phase = "model" /\ batch = 0 /\ turns > MaxTurns
  /\ Finish("turn_budget", 4)
  /\ UNCHANGED <<turns, calls, repairs, taskVars>>

OutOfTurns ==
  /\ phase = "model" /\ batch = 0 /\ turns = MaxTurns
  /\ Finish("turn_budget", 4)
  /\ UNCHANGED <<turns, calls, repairs, taskVars>>

ContextLimit ==
  /\ phase = "model" /\ batch = 0 /\ ~Aborted /\ turns < MaxTurns
  /\ turns' = turns + 1
  /\ Finish("context_limit", 4)
  /\ UNCHANGED <<calls, repairs, taskVars>>

\* The provider, a tool before its effect or a capture throws, or the signal is
\* noticed.
Throw ==
  /\ \/ phase = "model" /\ (batch > 0 \/ turns < MaxTurns)
     \/ phase = "verify" /\ queue # <<>>
     \/ phase \in {"review", "call", "checkCall", "toolDone", "checkDone"}
  /\ Caught
  /\ UNCHANGED <<turns, calls, repairs, taskVars>>

-----------------------------------------------------------------------------
(* Tool calls and verifier runs share the budget of calls *)

Working == (phase = "model" /\ batch > 0) \/ (phase = "verify" /\ queue # <<>>)

\* A faulty variant: one execution too many.
BudgetInclusive == calls <= MaxToolCalls

BudgetLeft == calls < MaxToolCalls

\* A tool call, or the next verifier, is counted; then it is prepared, and
\* shown to the user if it is not allowed yet.
Call ==
  /\ Working /\ ~Aborted /\ BudgetLeft
  /\ calls' = calls + 1
  /\ phase' = IF phase = "model" THEN "call" ELSE "checkCall"
  /\ UNCHANGED <<turns, repairs, batch, queue, ending, taskVars>>

OutOfCalls ==
  /\ Working /\ ~Aborted /\ calls >= MaxToolCalls
  /\ calls' = calls + 1
  /\ Finish("tool_budget", 4)
  /\ UNCHANGED <<turns, repairs, taskVars>>

\* A call that executes nothing ends, also with images that were not approved.
ReadOnlyCall ==
  /\ phase = "call"
  /\ phase' = "model" /\ batch' = batch - 1
  /\ UNCHANGED <<turns, calls, repairs, queue, ending, taskVars>>

\* What is approved is executed, if no signal came meanwhile.
Execute ==
  /\ ~Aborted
  /\ executed' = executed + 1
  /\ \/ phase = "call" /\ phase' = "tool" /\ UNCHANGED ranOn
     \/ /\ phase = "checkCall" /\ phase' = "check"
        /\ ranOn' = [ranOn EXCEPT ![Head(queue)] = tree]
  /\ UNCHANGED <<counters, queue, tree, newest, stateVars, check,
                 result, mutationAllowed, signals, ending, tasks, stopped>>

\* What is not approved ends the task, also when the question was cancelled.
Denied ==
  /\ phase \in {"call", "checkCall"}
  /\ Finish("approval_required", 2)
  /\ UNCHANGED <<turns, calls, repairs, taskVars>>

\* A signal stops a command; a file mutation may already be done.
Outcomes ==
  IF ~Aborted THEN Outcome
  ELSE IF phase = "tool" THEN {"passed", "unknown"} ELSE {"unknown"}

\* The execution may have changed the worktree whatever its outcome is.
ExecutionReturns ==
  /\ phase \in {"tool", "check"}
  /\ phase' = IF phase = "tool" THEN "toolDone" ELSE "checkDone"
  /\ result' \in Outcomes
  /\ mutationAllowed' = (mutationAllowed /\ result' # "unknown")
  /\ stopped' = (stopped \/ (cancelled /\ result' = "unknown"))
  /\ \/ UNCHANGED <<tree, newest>>
     \/ newest < MaxVersions /\ newest' = newest + 1 /\ tree' = newest'
  /\ UNCHANGED <<counters, queue, stateVars, check, signals, ending, tasks,
                 ranOn, executed>>

\* ... or it throws and leaves an unknown effect; nothing is captured.
ExecutionThrows ==
  /\ phase \in {"tool", "check"}
  /\ mutationAllowed' = FALSE
  /\ Caught
  /\ UNCHANGED <<turns, calls, repairs, tree, newest, stateVars, check, result,
                 signals, tasks, history>>

\* A faulty variant: the task goes on after an unknown effect.
ToolEndsAnyway ==
  /\ phase = "toolDone"
  /\ latest' \in Captures
  /\ snapshot' = latest'
  /\ phase' = "model" /\ batch' = batch - 1
  /\ UNCHANGED <<queue, ending, turns, calls, repairs, verified, tree, newest,
                 check, result, mutationAllowed, signals, tasks, history>>

\* The state after a tool call is captured; an unknown effect ends the task.
ToolEnds ==
  /\ phase = "toolDone"
  /\ latest' \in Captures
  /\ snapshot' = latest'
  /\ IF mutationAllowed
       THEN phase' = "model" /\ batch' = batch - 1 /\ UNCHANGED <<queue, ending>>
       ELSE Finish("effect_unknown", 4)
  /\ UNCHANGED <<turns, calls, repairs, verified, tree, newest, check, result,
                 mutationAllowed, signals, tasks, history>>

-----------------------------------------------------------------------------
(* Verification *)

\* A check is fresh if the worktree is still the version to verify.
FreshNow == verified # Partial /\ latest' = verified

Recorded == [state   |-> IF result = "signalled" THEN "failed" ELSE result,
             fresh   |-> FreshNow,
             nonzero |-> result = "failed"]

\* A faulty variant: a stale check does not make the earlier ones stale.
ChecksAfterOnly(v) == [check EXCEPT ![v] = Recorded]

\* The checks after verifier v: if the worktree changed, all of them are stale.
ChecksAfter(v) ==
  IF FreshNow THEN [check EXCEPT ![v] = Recorded]
              ELSE StaleChecks([check EXCEPT ![v] = Recorded])

\* A changed worktree or an unknown effect ends the verification pass.
CheckEnds ==
  /\ phase = "checkDone"
  /\ latest' \in Captures
  /\ snapshot' = latest'
  /\ check' = ChecksAfter(Head(queue))
  /\ queue' = IF FreshNow /\ mutationAllowed THEN Tail(queue) ELSE <<>>
  /\ phase' = "verify"
  /\ UNCHANGED <<counters, verified, tree, newest, result, mutationAllowed,
                 signals, ending, tasks, history>>

ObjectiveFailures ==
  {v \in Required : Accepted(v) /\ check[v].state = "failed" /\ check[v].nonzero}

\* A faulty variant: the number of repairs is not bounded.
RepairAgain ==
  /\ Correctness = "failed" /\ ObjectiveFailures # {}
  /\ mutationAllowed
  /\ turns < MaxTurns /\ calls < MaxToolCalls

RepairAllowed ==
  /\ Correctness = "failed" /\ ObjectiveFailures # {}
  /\ mutationAllowed
  /\ repairs < RepairAttempts /\ turns < MaxTurns /\ calls < MaxToolCalls

\* One repair: the checks are stale and the model gets the failures.
Repair ==
  /\ phase = "verify" /\ queue = <<>>
  /\ RepairAllowed
  /\ repairs' = repairs + 1
  /\ check' = StaleChecks(check)
  /\ phase' = "model"
  /\ UNCHANGED <<turns, calls, batch, queue, ending, tree, newest, stateVars,
                 result, mutationAllowed, signals, tasks, history>>

Conclusion ==
  /\ phase = "verify" /\ queue = <<>>
  /\ ~RepairAllowed
  /\ CASE Correctness = "passed"  -> Finish("verified", 0)
       [] Correctness = "failed"  -> Finish("verification_failed", 3)
       [] Correctness = "unknown" -> Finish("verification_unknown", 4)
  /\ UNCHANGED <<turns, calls, repairs, taskVars>>

-----------------------------------------------------------------------------
(* The environment *)

UserEdits ==
  /\ newest < MaxVersions
  /\ newest' = newest + 1 /\ tree' = newest'
  /\ UNCHANGED <<phase, counters, queue, stateVars, check, result,
                 mutationAllowed, signals, ending, tasks, history>>

UserCancels ==
  /\ phase # "idle" /\ ~cancelled
  /\ cancelled' = TRUE
  /\ UNCHANGED <<phase, counters, queue, tree, newest, stateVars, check, result,
                 mutationAllowed, expired, ending, tasks, history>>

DeadlinePasses ==
  /\ phase # "idle" /\ ~expired
  /\ expired' = TRUE
  /\ UNCHANGED <<phase, counters, queue, tree, newest, stateVars, check, result,
                 mutationAllowed, cancelled, ending, tasks, history>>

\* /reconcile: the user accepts the worktree as it is.
UserAccepts ==
  /\ phase = "idle"
  /\ snapshot' \in Captures
  /\ UNCHANGED <<phase, counters, queue, tree, newest, latest, verified, check,
                 result, mutationAllowed, signals, ending, tasks, history>>

\* reconcileEffect, of the last unknown effect
UserReconciles ==
  /\ phase = "idle"
  /\ ~mutationAllowed
  /\ mutationAllowed' = TRUE
  /\ snapshot' = tree
  /\ UNCHANGED <<phase, counters, queue, tree, newest, latest, verified, check,
                 result, signals, ending, tasks, history>>

-----------------------------------------------------------------------------
TaskStep ==
  \/ Turn \/ Conclude \/ OutOfTurns \/ ContextLimit \/ Throw
  \/ Adopt \/ Decline \/ Call \/ OutOfCalls \/ ReadOnlyCall \/ Execute \/ Denied
  \/ ExecutionReturns \/ ExecutionThrows \/ ToolEnds
  \/ CheckEnds \/ Repair \/ Conclusion

Next ==
  \/ Refuse \/ Start \/ TaskStep
  \/ UserEdits \/ UserCancels \/ DeadlinePasses
  \/ UserAccepts \/ UserReconciles

Spec == Init /\ [][Next]_vars

\* What a task waits for without a bound: the user's answer, which no deadline
\* replaces (loop.ts 72, 88, 114, 115), a browser, and the end of a child whose
\* pipes a descendant may hold (runtime.ts 23).
Waiting == phase \in {"review", "call", "checkCall", "tool", "check"}

\* A task that does not wait takes its next step; a turn of the model ends by
\* the deadline (loop.ts, signal).
FairSpec == Spec /\ WF_vars(~Waiting /\ TaskStep)

-----------------------------------------------------------------------------
(* Properties *)

\* A task is called correct only if every required check passed on the very
\* version that was last captured, which is the one that was to be verified,
\* whatever was edited, repaired or cancelled in between (loop.ts, the
\* verification loop; task.ts, correctness).
PassedMeansCheckedOnLatest ==
  phase = "idle" /\ tasks > 0 /\ Correctness = "passed" =>
    /\ Required # {}
    /\ \A v \in Required : v \in Objective /\ ranOn[v] = latest
    /\ latest = verified

\* All turns, repairs and verification passes of a task together execute no
\* more than the budget of calls (loop.ts, calls).
ExecutionsWithinBudget == executed <= MaxToolCalls

\* After an effect with an unknown outcome a task executes nothing more
\* (loop.ts, effect_unknown and the verification loop).
NothingAfterUnknown == [][executed' > executed => mutationAllowed]_vars

\* A repair follows an objective failure of the version that was last
\* captured, never a stale or unknown one (loop.ts, task.repair.started).
RepairFollowsFreshFailure ==
  [][repairs' > repairs =>
       \E v \in Required : check[v].state = "failed" /\ ranOn[v] = latest]_vars

\* If each of its waits ends, every task ends, whatever the model answers
\* (loop.ts, the bounds on turns, calls and repairs).
EveryWaitEnds == []<>~Waiting
TaskEnds == EveryWaitEnds => (phase # "idle" ~> phase = "idle")

\* What the documents say and the code does not do: a task whose execution the
\* user's cancellation stopped does not exit as verified.
StoppedTaskIsNotVerified == phase = "idle" /\ stopped => exit # 0
=============================================================================

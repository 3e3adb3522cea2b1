--------------------------- MODULE TaskLoopProofs ---------------------------
(***************************************************************************)
(* What holds of the task loop for every list of verifiers, budget and     *)
(* number of tasks, edits and signals: a task is called correct only for   *)
(* what its checks ran on, it executes within its budget and nothing after *)
(* an unknown effect, and it repairs only what objectively failed.         *)
(*                                                                         *)
(* And of one turn of it: a response of the model becomes tool calls whole *)
(* or not at all, for every protocol, every number of calls and every      *)
(* sequence of records, with any number of faults.  By induction over the  *)
(* records: what the adapter and the collector know after the first k of   *)
(* them (Understood) is what those records say.  The response that arrives *)
(* in full is the induction over its calls (HeardAll).                     *)
(*                                                                         *)
(* And of what a turn sends: for every budget and every number of turns,   *)
(* compaction loses nothing (AnyTaskKeepsAll).  By induction over the      *)
(* turns: a prompt is Coherent.                                            *)
(***************************************************************************)
EXTENDS MCTaskLoop, WellFoundedInduction, FiniteSetTheorems, TLAPS

Distinct(q) == \A i, j \in 1..Len(q) : q[i] = q[j] => i = j

Modelling == {"review", "model", "call", "tool", "toolDone"}
Verifying == {"verify", "checkCall", "check", "checkDone"}

\* Every execution was counted as a call, and a call is counted before it is made.
Accounted ==
  /\ phase # "idle" => calls <= MaxToolCalls
  /\ executed <= calls /\ executed <= MaxToolCalls
  /\ executed < calls \/ phase \notin {"call", "checkCall"}
  /\ phase \in {"call", "tool", "toolDone"} => batch > 0

\* Where a task may still execute, no effect is unknown.
Undisturbed ==
  /\ phase \in {"review", "model", "call", "tool", "checkCall", "check"} => mutationAllowed
  /\ phase = "verify" /\ queue # <<>> => mutationAllowed

\* Versions only grow, and a verifier starts on the one to verify or a later one.
Versions ==
  /\ tree = newest
  /\ phase \in Verifying \/ (phase = "review" /\ verified # NoState) =>
       verified \in Version /\ verified <= tree
  /\ phase = "checkCall" => queue # <<>>
  /\ phase \in {"check", "checkDone"} =>
       /\ queue # <<>>
       /\ verified <= ranOn[Head(queue)]
       /\ ranOn[Head(queue)] <= tree

\* A verifier that is still to run has no fresh check, and none has one while the
\* model works.
Pending ==
  /\ phase \in Modelling => \A v \in Verifier : ~check[v].fresh
  /\ phase \in Verifying =>
       Distinct(queue) /\ \A i \in 1..Len(queue) : ~check[queue[i]].fresh

\* A fresh check ran on the version to verify, which is the last one captured.
FreshIsCurrent ==
  \A v \in Verifier : check[v].fresh => ranOn[v] = verified /\ latest = verified

Inv == TypeOK /\ Accounted /\ Undisturbed /\ Versions /\ Pending /\ FreshIsCurrent

LEMMA Bounds ==
  /\ MaxTurns \in Nat /\ MaxToolCalls \in Nat /\ MaxBatch \in Nat
  /\ MaxTasks \in Nat /\ MaxVersions \in Nat \ {0} /\ RepairAttempts \in Nat
  /\ Order \in Seq(Verifier)
BY VerifierAssumption

LEMMA VersionFacts ==
  /\ Version \subseteq Nat \ {0} /\ 1 \in Version
  /\ NoState \notin Version /\ Partial \notin Version /\ Partial # NoState
BY Bounds DEF Version, NoState, Partial

LEMMA CapturesType ==
  TypeOK => Captures \subseteq Version \union {NoState, Partial}
BY DEF TypeOK, Captures

\* correctness has one of three values.
LEMMA CorrectnessValues == Correctness \in {"passed", "failed", "unknown"}
BY DEF Correctness

\* What is left of a list without repetitions after its head
LEMMA DistinctTail ==
  ASSUME NEW q \in Seq(Verifier), q # <<>>, Distinct(q)
  PROVE  /\ Head(q) \in Verifier /\ Head(q) = q[1] /\ 1 \in 1..Len(q)
         /\ Tail(q) \in Seq(Verifier) /\ Distinct(Tail(q))
         /\ \A i \in 1..Len(Tail(q)) :
              /\ i + 1 \in 1..Len(q)
              /\ Tail(q)[i] = q[i + 1] /\ Tail(q)[i] # Head(q)
<1>1. Len(q) \in Nat \ {0}
  OBVIOUS
<1>2. /\ Head(q) \in Verifier /\ Head(q) = q[1]
      /\ Tail(q) \in Seq(Verifier) /\ Len(Tail(q)) = Len(q) - 1
  OBVIOUS
<1>3. \A i \in 1..Len(Tail(q)) : i + 1 \in 1..Len(q) /\ Tail(q)[i] = q[i + 1]
  BY <1>1, <1>2
<1>4. \A i \in 1..Len(Tail(q)) : Tail(q)[i] # Head(q)
  <2> SUFFICES ASSUME NEW i \in 1..Len(Tail(q)), Tail(q)[i] = Head(q)
               PROVE  FALSE
    OBVIOUS
  <2>1. q[i + 1] = q[1] /\ i + 1 \in 1..Len(q) /\ 1 \in 1..Len(q)
    BY <1>1, <1>2, <1>3
  <2>2. i + 1 = 1
    BY <2>1 DEF Distinct
  <2> QED
    BY <2>2, <1>1, <1>2
<1>5. Distinct(Tail(q))
  <2> SUFFICES ASSUME NEW i \in 1..Len(Tail(q)), NEW j \in 1..Len(Tail(q)),
                      Tail(q)[i] = Tail(q)[j]
               PROVE  i = j
    BY DEF Distinct
  <2>1. q[i + 1] = q[j + 1] /\ i + 1 \in 1..Len(q) /\ j + 1 \in 1..Len(q)
    BY <1>3
  <2>2. i + 1 = j + 1
    BY <2>1 DEF Distinct
  <2> QED
    BY <2>2, <1>1, <1>2
<1> QED
  BY <1>1, <1>2, <1>3, <1>4, <1>5

LEMMA InvInit == Init => Inv
<1> SUFFICES ASSUME Init PROVE Inv
  OBVIOUS
<1>1. TypeOK
  <2>1. /\ turns \in 0..MaxTurns /\ calls \in 0..MaxToolCalls + 1
        /\ repairs \in 0..RepairAttempts /\ batch \in 0..MaxBatch
        /\ tasks \in 0..MaxTasks /\ executed \in 0..MaxToolCalls + 1
    BY Bounds DEF Init
  <2>2. check \in [Verifier -> Check]
    BY DEF Init, NotRun, Check
  <2>3. ranOn \in [Verifier -> Version \union {NoState}]
    BY DEF Init
  <2>4. queue \in Seq(Verifier) /\ tree \in Version /\ newest \in Version
    BY VersionFacts DEF Init
  <2> QED
    BY <2>1, <2>2, <2>3, <2>4 DEF Init, TypeOK, Outcome
<1>2. Accounted /\ Undisturbed /\ Versions
  BY Bounds DEF Init, Accounted, Undisturbed, Versions, Verifying
<1>3. Pending /\ FreshIsCurrent
  BY DEF Init, Pending, FreshIsCurrent, Modelling, Verifying, NotRun
<1> QED
  BY <1>1, <1>2, <1>3 DEF Inv

-----------------------------------------------------------------------------
(* Types *)

LEMMA NumberTypes ==
  TypeOK => /\ turns \in 0..MaxTurns /\ calls \in 0..MaxToolCalls + 1
            /\ repairs \in 0..RepairAttempts /\ batch \in 0..MaxBatch
            /\ tasks \in 0..MaxTasks /\ executed \in 0..MaxToolCalls + 1
BY DEF TypeOK

LEMMA StaleType ==
  ASSUME NEW c \in [Verifier -> Check]
  PROVE  /\ StaleChecks(c) \in [Verifier -> Check]
         /\ \A v \in Verifier : ~StaleChecks(c)[v].fresh
BY DEF StaleChecks, Check

\* The statuses and exit codes that a caught error ends with
LEMMA CaughtEnds ==
  Caught => /\ phase' = "idle" /\ batch' = 0 /\ queue' = <<>>
            /\ status' \in {"cancelled", "error"} /\ exit' \in {4, 5, 130}
BY DEF Caught, Finish

LEMMA TypeNext ==
  TypeOK /\ Accounted /\ Versions /\ Pending /\ [Next]_vars => TypeOK'
<1> SUFFICES ASSUME TypeOK, Accounted, Versions, Pending, [Next]_vars PROVE TypeOK'
  OBVIOUS
<1>e. /\ batch > 0 => batch - 1 \in 0..MaxBatch
      /\ calls < MaxToolCalls => calls + 1 \in 0..MaxToolCalls + 1
      /\ executed + 1 \in 0..MaxToolCalls + 1
  <2>1. /\ batch \in 0..MaxBatch /\ calls \in 0..MaxToolCalls + 1
        /\ executed \in 0..MaxToolCalls + 1 /\ executed <= MaxToolCalls
    BY NumberTypes DEF Accounted
  <2>2. MaxBatch \in Nat /\ MaxToolCalls \in Nat
    BY Bounds
  <2> QED
    BY <2>1, <2>2
<1> USE NumberTypes, VersionFacts, Bounds
    DEF counters, stateVars, signals, ending, history, taskVars
<1>a. NewTask => /\ tasks' \in 0..MaxTasks /\ turns' \in 0..MaxTurns
                 /\ calls' \in 0..MaxToolCalls + 1 /\ repairs' \in 0..RepairAttempts
                 /\ executed' \in 0..MaxToolCalls + 1
                 /\ check' \in [Verifier -> Check]
  BY DEF NewTask, NotRun, Check
<1>b. newest < MaxVersions /\ newest' = newest + 1 => newest' \in Version
  BY DEF TypeOK, Version
<1>c. StaleChecks(check) \in [Verifier -> Check]
  BY StaleType DEF TypeOK
<1>d. phase # "idle" => calls + 1 \in 0..MaxToolCalls + 1
  BY DEF Accounted
<1>1. CASE Refuse
  <2>1. /\ phase' = "idle" /\ batch' = 0 /\ queue' = <<>>
        /\ status' \in {"error", "refused"} /\ exit' \in {2, 5}
    BY <1>1 DEF Refuse, Finish
  <2>2. latest' = NoState /\ snapshot' = snapshot /\ NewTask
    BY <1>1 DEF Refuse
  <2>3. cancelled' \in BOOLEAN /\ expired' \in BOOLEAN /\ stopped' \in BOOLEAN
    BY <2>2 DEF NewTask
  <2> QED
    BY <1>a, <2>1, <2>2, <2>3 DEF TypeOK, NewTask
<1>2. CASE Start
  <2>1. latest' \in Version \union {NoState, Partial}
    BY <1>2, CapturesType DEF Start
  <2>2. snapshot' \in Version \union {NoState, Partial}
    BY <1>2, CapturesType DEF Start, TypeOK
  <2>3. \/ /\ phase' = "idle" /\ batch' = 0 /\ queue' = <<>>
           /\ status' \in {"error", "repository_changed"}
           /\ exit' \in {2, 5}
        \/ phase' \in {"model", "review"} /\ UNCHANGED <<batch, queue, ending>>
    BY <1>2 DEF Start, Finish
  <2>4. NewTask
    BY <1>2 DEF Start
  <2>5. cancelled' \in BOOLEAN /\ expired' \in BOOLEAN /\ stopped' \in BOOLEAN
    BY <2>4 DEF NewTask
  <2>6. verified' = NoState
    BY <2>4 DEF NewTask
  <2>7. CASE phase' = "idle" /\ batch' = 0 /\ queue' = <<>>
             /\ status' \in {"error", "repository_changed"}
             /\ exit' \in {2, 5}
    BY <1>a, <2>1, <2>2, <2>4, <2>5, <2>6, <2>7 DEF TypeOK, NewTask
  <2>8. CASE phase' \in {"model", "review"} /\ UNCHANGED <<batch, queue, ending>>
    BY <1>a, <2>1, <2>2, <2>4, <2>5, <2>6, <2>8 DEF TypeOK, NewTask
  <2> QED
    BY <2>3, <2>7, <2>8
<1>3. CASE Turn
  <2>1. turns' \in 0..MaxTurns /\ batch' \in 0..MaxBatch
    BY <1>3 DEF Turn
  <2> QED
    BY <1>3, <2>1 DEF TypeOK, Turn
<1>4. CASE Conclude
  <2>1. turns' \in 0..MaxTurns
    BY <1>4 DEF Conclude
  <2>2. verified' \in Version \union {NoState, Partial}
    BY <1>4, CapturesType DEF Conclude
  <2>3. \/ /\ phase' = "idle" /\ batch' = 0 /\ queue' = <<>>
           /\ status' \in {"cancelled", "error"} /\ exit' \in {4, 5, 130}
        \/ Verify
        \/ phase' = "review" /\ UNCHANGED <<batch, queue, ending>>
    BY <1>4, CaughtEnds DEF Conclude
  <2>4. CASE /\ phase' = "idle" /\ batch' = 0 /\ queue' = <<>>
             /\ status' \in {"cancelled", "error"} /\ exit' \in {4, 5, 130}
    BY <1>4, <2>1, <2>2, <2>4 DEF TypeOK, Conclude
  <2>5. CASE Verify
    BY <1>4, <2>1, <2>2, <2>5 DEF TypeOK, Conclude, Verify
  <2>6. CASE phase' = "review" /\ UNCHANGED <<batch, queue, ending>>
    BY <1>4, <2>1, <2>2, <2>6 DEF TypeOK, Conclude
  <2> QED
    BY <2>3, <2>4, <2>5, <2>6
<1>5. CASE OutOfTurns
  BY <1>5 DEF TypeOK, OutOfTurns, Finish
<1>6. CASE ContextLimit
  <2>1. turns' \in 0..MaxTurns
    BY <1>6 DEF ContextLimit
  <2> QED
    BY <1>6, <2>1 DEF TypeOK, ContextLimit, Finish
<1>7. CASE Throw
  BY <1>7, CaughtEnds DEF TypeOK, Throw
<1>8. CASE ReadOnlyCall
  <2>1. batch' \in 0..MaxBatch
    BY <1>8, <1>e DEF ReadOnlyCall, Accounted
  <2> QED
    BY <1>8, <2>1 DEF TypeOK, ReadOnlyCall
<1>9. CASE Execute
  <2>1. executed' \in 0..MaxToolCalls + 1
    BY <1>9, <1>e DEF Execute
  <2>2. ranOn' \in [Verifier -> Version \union {NoState}]
    BY <1>9 DEF TypeOK, Execute
  <2> QED
    BY <1>9, <2>1, <2>2 DEF TypeOK, Execute
<1>10. CASE Denied
  BY <1>10 DEF TypeOK, Denied, Finish
<1>23. CASE Call
  <2>1. calls' \in 0..MaxToolCalls + 1
    BY <1>23, <1>e DEF Call, BudgetLeft
  <2> QED
    BY <1>23, <2>1 DEF TypeOK, Call
<1>24. CASE Adopt
  <2>1. CASE verified = NoState
    BY <1>24, <2>1 DEF TypeOK, Adopt
  <2>2. CASE verified # NoState
    BY <1>24, <2>2 DEF TypeOK, Adopt, Verify
  <2> QED
    BY <2>1, <2>2
<1>25. CASE Decline
  BY <1>25 DEF TypeOK, Decline, Finish
<1>11. CASE OutOfCalls
  <2>1. calls' \in 0..MaxToolCalls + 1
    BY <1>11, <1>d DEF OutOfCalls, Working
  <2> QED
    BY <1>11, <2>1 DEF TypeOK, OutOfCalls, Finish
<1>12. CASE ExecutionReturns
  <2>1. result' \in Outcome
    BY <1>12 DEF ExecutionReturns, Outcomes, Outcome
  <2> QED
    BY <1>12, <1>b, <2>1 DEF TypeOK, ExecutionReturns
<1>13. CASE ExecutionThrows
  <2>1. /\ phase' = "idle" /\ batch' = 0 /\ queue' = <<>>
        /\ status' \in {"cancelled", "error"} /\ exit' \in {4, 5, 130}
    BY <1>13, CaughtEnds DEF ExecutionThrows
  <2>2. mutationAllowed' \in BOOLEAN
    BY <1>13 DEF ExecutionThrows
  <2> QED
    BY <1>13, <2>1, <2>2 DEF TypeOK, ExecutionThrows
<1>14. CASE ToolEnds
  <2>1. latest' \in Version \union {NoState, Partial}
    BY <1>14, CapturesType DEF ToolEnds
  <2>2. batch' \in 0..MaxBatch
    BY <1>14 DEF ToolEnds, Finish, Accounted
  <2>3. CASE mutationAllowed
    BY <1>14, <2>1, <2>2, <2>3 DEF TypeOK, ToolEnds
  <2>4. CASE ~mutationAllowed
    BY <1>14, <2>1, <2>2, <2>4 DEF TypeOK, ToolEnds, Finish
  <2> QED
    BY <2>3, <2>4
<1>15. CASE CheckEnds
  <2>1. latest' \in Version \union {NoState, Partial}
    BY <1>15, CapturesType DEF CheckEnds
  <2>2. queue # <<>> /\ queue \in Seq(Verifier)
    BY <1>15 DEF CheckEnds, Versions, TypeOK
  <2>3. queue' \in Seq(Verifier)
    BY <1>15, <2>2 DEF CheckEnds
  <2>4. Recorded \in Check
    BY DEF TypeOK, Recorded, Check, Outcome, FreshNow
  <2>5. [check EXCEPT ![Head(queue)] = Recorded] \in [Verifier -> Check]
    BY <2>4 DEF TypeOK
  <2>6. check' \in [Verifier -> Check]
    BY <1>15, <2>5 DEF CheckEnds, ChecksAfter, StaleChecks, Check
  <2> QED
    BY <1>15, <2>1, <2>3, <2>6 DEF TypeOK, CheckEnds
<1>16. CASE Repair
  <2>1. repairs' \in 0..RepairAttempts
    BY <1>16 DEF Repair, RepairAllowed
  <2> QED
    BY <1>16, <1>c, <2>1 DEF TypeOK, Repair
<1>17. CASE Conclusion
  <2>1. \/ Finish("verified", 0) \/ Finish("verification_failed", 3)
        \/ Finish("verification_unknown", 4)
    BY <1>17, CorrectnessValues DEF Conclusion
  <2>2. /\ phase' = "idle" /\ batch' = 0 /\ queue' = <<>>
        /\ status' \in {"verified", "verification_failed", "verification_unknown"}
        /\ exit' \in {0, 3, 4}
    BY <2>1 DEF Finish
  <2>3. UNCHANGED <<turns, calls, repairs, taskVars>>
    BY <1>17 DEF Conclusion
  <2> QED
    BY <2>2, <2>3 DEF TypeOK
<1>18. CASE UserEdits
  BY <1>18, <1>b DEF TypeOK, UserEdits
<1>19. CASE UserCancels \/ DeadlinePasses
  <2>1. cancelled' \in BOOLEAN /\ expired' \in BOOLEAN
    BY <1>19 DEF TypeOK, UserCancels, DeadlinePasses
  <2>2. UNCHANGED <<phase, counters, queue, tree, newest, stateVars, check, result,
                    mutationAllowed, ending, tasks, history>>
    BY <1>19 DEF UserCancels, DeadlinePasses
  <2> QED
    BY <2>1, <2>2 DEF TypeOK
<1>20. CASE UserAccepts
  <2>1. snapshot' \in Version \union {NoState, Partial}
    BY <1>20, CapturesType DEF UserAccepts
  <2> QED
    BY <1>20, <2>1 DEF TypeOK, UserAccepts
<1>21. CASE UserReconciles
  BY <1>21 DEF TypeOK, UserReconciles
<1>22. CASE UNCHANGED vars
  BY <1>22 DEF TypeOK, vars
<1> QED
  BY <1>1, <1>2, <1>3, <1>4, <1>5, <1>6, <1>7, <1>8, <1>9, <1>10, <1>11, <1>12,
     <1>13, <1>14, <1>15, <1>16, <1>17, <1>18, <1>19, <1>20, <1>21, <1>22, <1>23,
     <1>24, <1>25 DEF Next, TaskStep

-----------------------------------------------------------------------------
(* Steps that end a task, and steps of the user *)

Ending ==
  \/ OutOfTurns \/ ContextLimit \/ Throw \/ Denied \/ OutOfCalls \/ Conclusion
  \/ Decline

\* They leave what was found out about the worktree as it is.
LEMMA EndingEnds ==
  Ending => phase' = "idle" /\ UNCHANGED taskVars /\ calls' \in {calls, calls + 1}
<1> USE DEF taskVars, stateVars, signals, history
<1>1. CASE OutOfTurns \/ ContextLimit
  BY <1>1 DEF OutOfTurns, ContextLimit, Finish
<1>2. CASE Throw
  BY <1>2, CaughtEnds DEF Throw
<1>3. CASE Denied \/ OutOfCalls \/ Decline
  BY <1>3 DEF Denied, OutOfCalls, Decline, Finish
<1>4. CASE Conclusion
  BY <1>4, CorrectnessValues DEF Conclusion, Finish
<1> QED
  BY <1>1, <1>2, <1>3, <1>4 DEF Ending

UserStep == UserCancels \/ DeadlinePasses \/ UserAccepts \/ UserReconciles

LEMMA UserStepLeaves ==
  UserStep => /\ UNCHANGED <<phase, counters, queue, tree, newest, latest, verified,
                             check, result, tasks, history>>
              /\ mutationAllowed => mutationAllowed'
BY DEF UserStep, UserCancels, DeadlinePasses, UserAccepts, UserReconciles,
   counters, stateVars, history

-----------------------------------------------------------------------------
(* The budget of calls *)

LEMMA AccountedNext == TypeOK /\ Accounted /\ [Next]_vars => Accounted'
<1> SUFFICES ASSUME TypeOK, Accounted, [Next]_vars PROVE Accounted'
  OBVIOUS
<1> USE NumberTypes, Bounds DEF Accounted, counters, stateVars, history, taskVars
<1>1. CASE Refuse \/ Start
  <2>1. calls' = 0 /\ executed' = 0 /\ phase' \in {"idle", "model", "review"}
    BY <1>1 DEF Refuse, Start, NewTask, Finish
  <2> QED
    BY <2>1
<1>2. CASE Ending
  BY <1>2, EndingEnds
<1>3. CASE Turn \/ ReadOnlyCall
  BY <1>3 DEF Turn, ReadOnlyCall
<1>4. CASE Conclude
  <2>1. phase' \in {"idle", "verify", "review"} /\ UNCHANGED <<calls, executed>>
    BY <1>4, CaughtEnds DEF Conclude, Verify
  <2> QED
    BY <1>4, <2>1 DEF Conclude
<1>5. CASE Execute
  BY <1>5 DEF Execute
<1>6. CASE ExecutionReturns
  BY <1>6 DEF ExecutionReturns
<1>7. CASE ExecutionThrows
  BY <1>7, CaughtEnds DEF ExecutionThrows
<1>8. CASE ToolEnds
  BY <1>8 DEF ToolEnds, Finish
<1>9. CASE CheckEnds \/ Repair
  BY <1>9 DEF CheckEnds, Repair
<1>10. CASE UserEdits
  BY <1>10 DEF UserEdits
<1>11. CASE UserStep
  BY <1>11, UserStepLeaves
<1>12. CASE UNCHANGED vars
  BY <1>12 DEF vars
<1>13. CASE Call
  BY <1>13 DEF Call, BudgetLeft, Working
<1>14. CASE Adopt
  BY <1>14 DEF Adopt, Verify
<1> QED
  BY <1>1, <1>2, <1>3, <1>4, <1>5, <1>6, <1>7, <1>8, <1>9, <1>10, <1>11, <1>12,
     <1>13, <1>14
     DEF Next, TaskStep, Ending, UserStep

-----------------------------------------------------------------------------
(* Unknown effects *)

LEMMA UndisturbedNext == TypeOK /\ Undisturbed /\ [Next]_vars => Undisturbed'
<1> SUFFICES ASSUME TypeOK, Undisturbed, [Next]_vars PROVE Undisturbed'
  OBVIOUS
<1> USE DEF Undisturbed, counters, stateVars, history, taskVars
<1>1. CASE Refuse
  BY <1>1 DEF Refuse, Finish
<1>2. CASE Start
  BY <1>2 DEF Start, NewTask, Finish
<1>3. CASE Ending
  BY <1>3, EndingEnds
<1>4. CASE Turn \/ ReadOnlyCall
  BY <1>4 DEF Turn, ReadOnlyCall
<1>5. CASE Conclude
  <2>1. phase' \in {"idle", "verify", "review"}
    BY <1>5, CaughtEnds DEF Conclude, Verify
  <2> QED
    BY <1>5, <2>1 DEF Conclude
<1>6. CASE Execute
  BY <1>6 DEF Execute
<1>7. CASE ExecutionReturns
  BY <1>7 DEF ExecutionReturns
<1>8. CASE ExecutionThrows
  BY <1>8, CaughtEnds DEF ExecutionThrows
<1>9. CASE ToolEnds
  BY <1>9 DEF ToolEnds, Finish
<1>10. CASE CheckEnds
  BY <1>10 DEF CheckEnds
<1>11. CASE Repair
  BY <1>11 DEF Repair, RepairAllowed
<1>12. CASE UserEdits
  BY <1>12 DEF UserEdits
<1>13. CASE UserStep
  BY <1>13, UserStepLeaves
<1>14. CASE UNCHANGED vars
  BY <1>14 DEF vars
<1>15. CASE Call
  BY <1>15 DEF Call, Working
<1>16. CASE Adopt
  BY <1>16 DEF Adopt, Verify
<1> QED
  BY <1>1, <1>2, <1>3, <1>4, <1>5, <1>6, <1>7, <1>8, <1>9, <1>10, <1>11, <1>12,
     <1>13, <1>14, <1>15, <1>16 DEF Next, TaskStep, Ending, UserStep

-----------------------------------------------------------------------------
(* Versions *)

LEMMA VersionsNext == TypeOK /\ Versions /\ [Next]_vars => Versions'
<1> SUFFICES ASSUME TypeOK, Versions, [Next]_vars PROVE Versions'
  OBVIOUS
<1> USE VersionFacts
    DEF Versions, Verifying, counters, stateVars, history, taskVars
<1>a. tree \in Nat /\ newest \in Nat /\ tree \in Version
  BY DEF TypeOK
<1>b. phase \in {"check", "checkDone"} =>
        ranOn[Head(queue)] \in Nat /\ verified \in Nat
  <2>1. phase \in {"check", "checkDone"} => Head(queue) \in Verifier
    BY DEF TypeOK
  <2>2. \A v \in Verifier : ranOn[v] \in Nat
    <3>1. Version \union {NoState} \subseteq Nat
      BY DEF NoState
    <3> QED
      BY <3>1 DEF TypeOK
  <2>3. phase \in Verifying => verified \in Nat
    OBVIOUS
  <2> QED
    BY <2>1, <2>2, <2>3
<1>1. CASE Refuse \/ Start
  <2>1. /\ phase' \in {"idle", "model", "review"} /\ UNCHANGED <<tree, newest>>
        /\ verified' = NoState
    BY <1>1 DEF Refuse, Start, NewTask, Finish
  <2> QED
    BY <2>1
<1>2. CASE Ending
  BY <1>2, EndingEnds
<1>3. CASE Turn \/ ReadOnlyCall
  BY <1>3 DEF Turn, ReadOnlyCall
<1>4. CASE Conclude
  <2>1. UNCHANGED <<tree, newest>>
    BY <1>4 DEF Conclude
  <2>2. CASE verified' = Partial
    BY <1>4, <2>1, <2>2, CaughtEnds DEF Conclude
  <2>3. CASE verified' # Partial
    <3>1. verified' = tree
      BY <1>4, <2>3 DEF Conclude, Captures
    <3>2. phase' \in {"idle", "verify", "review"}
      BY <1>4, <2>3 DEF Conclude, Verify
    <3> QED
      BY <1>a, <2>1, <3>1, <3>2
  <2> QED
    BY <2>2, <2>3
<1>5. CASE Execute
  <2>1. UNCHANGED <<tree, newest, verified, queue>>
    BY <1>5 DEF Execute
  <2>2. CASE phase = "call"
    BY <1>5, <2>1, <2>2 DEF Execute
  <2>3. CASE phase # "call"
    <3>1. phase = "checkCall" /\ queue # <<>> /\ phase' = "check"
      BY <1>5, <2>3 DEF Execute
    <3>2. Head(queue) \in Verifier
      BY <3>1 DEF TypeOK
    <3>3. ranOn'[Head(queue)] = tree
      BY <1>5, <2>3, <3>2 DEF Execute, TypeOK
    <3> QED
      BY <1>a, <2>1, <3>1, <3>3
  <2> QED
    BY <2>2, <2>3
<1>6. CASE ExecutionReturns
  <2>1. tree' = newest' /\ tree <= tree' /\ tree' \in Nat
    BY <1>6, <1>a DEF ExecutionReturns
  <2>2. UNCHANGED <<verified, queue, ranOn>>
    BY <1>6 DEF ExecutionReturns
  <2>3. CASE phase = "tool"
    BY <1>6, <2>1, <2>3 DEF ExecutionReturns
  <2>4. CASE phase # "tool"
    <3>1. phase = "check" /\ phase' = "checkDone"
      BY <1>6, <2>4 DEF ExecutionReturns
    <3> QED
      BY <1>a, <1>b, <2>1, <2>2, <3>1
  <2> QED
    BY <2>3, <2>4
<1>7. CASE ExecutionThrows
  BY <1>7, CaughtEnds DEF ExecutionThrows
<1>8. CASE ToolEnds
  BY <1>8 DEF ToolEnds, Finish
<1>9. CASE CheckEnds \/ Repair
  BY <1>9 DEF CheckEnds, Repair
<1>10. CASE UserEdits
  <2>1. tree' = newest' /\ tree <= tree' /\ tree' \in Nat
    BY <1>10, <1>a DEF UserEdits
  <2>2. UNCHANGED <<phase, verified, queue, ranOn>>
    BY <1>10 DEF UserEdits
  <2>3. CASE phase \in {"check", "checkDone"}
    BY <1>a, <1>b, <2>1, <2>2, <2>3
  <2>4. CASE phase \notin {"check", "checkDone"}
    <3> DEFINE counted == phase \in Verifying \/ (phase = "review" /\ verified # NoState)
    <3>1. counted => verified \in Version /\ verified <= tree
      OBVIOUS
    <3>2. counted => verified \in Nat
      BY <3>1
    <3>3. counted => verified <= tree'
      BY <1>a, <2>1, <3>1, <3>2
    <3> QED
      BY <2>1, <2>2, <2>4, <3>1, <3>3
  <2> QED
    BY <2>3, <2>4
<1>11. CASE UserStep
  BY <1>11, UserStepLeaves
<1>12. CASE UNCHANGED vars
  BY <1>12 DEF vars
<1>13. CASE Call
  BY <1>13 DEF Call, Working
<1>14. CASE Adopt
  BY <1>14 DEF Adopt, Verify
<1> QED
  BY <1>1, <1>2, <1>3, <1>4, <1>5, <1>6, <1>7, <1>8, <1>9, <1>10, <1>11, <1>12,
     <1>13, <1>14
     DEF Next, TaskStep, Ending, UserStep

-----------------------------------------------------------------------------
(* Checks *)

\* What recording the check of the verifier that just ran does to the checks:
\* without a fresh result none stays fresh, with one only that of the verifier
\* may become so.
LEMMA ChecksRecorded ==
  ASSUME TypeOK, Head(queue) \in Verifier, check' = ChecksAfter(Head(queue))
  PROVE  /\ ~FreshNow => \A v \in Verifier : ~check'[v].fresh
         /\ \A v \in Verifier : v # Head(queue) /\ FreshNow => check'[v] = check[v]
<1> DEFINE c == [check EXCEPT ![Head(queue)] = Recorded]
<1>1. c \in [Verifier -> Check]
  <2>1. Recorded \in Check
    BY DEF TypeOK, Recorded, Check, Outcome, FreshNow
  <2> QED
    BY <2>1 DEF TypeOK
<1>2. CASE FreshNow
  <2>1. check' = c
    BY <1>2 DEF ChecksAfter
  <2> QED
    BY <1>2, <2>1 DEF TypeOK
<1>3. CASE ~FreshNow
  <2>1. check' = StaleChecks(c)
    BY <1>3 DEF ChecksAfter
  <2> HIDE DEF c
  <2> QED
    BY <1>1, <1>3, <2>1, StaleType
<1> QED
  BY <1>2, <1>3

LEMMA PendingNext == TypeOK /\ Versions /\ Pending /\ [Next]_vars => Pending'
<1> SUFFICES ASSUME TypeOK, Versions, Pending, [Next]_vars PROVE Pending'
  OBVIOUS
<1> USE DEF Pending, Modelling, Verifying, counters, stateVars, history, taskVars
<1>1. CASE Refuse
  BY <1>1 DEF Refuse, Finish
<1>2. CASE Start
  <2>1. \A v \in Verifier : ~check'[v].fresh
    BY <1>2 DEF Start, NewTask, NotRun
  <2>2. phase' \in {"idle", "model", "review"}
    BY <1>2 DEF Start, Finish
  <2> QED
    BY <2>1, <2>2
<1>3. CASE Ending
  BY <1>3, EndingEnds
<1>4. CASE Turn \/ ReadOnlyCall
  BY <1>4 DEF Turn, ReadOnlyCall
<1>5. CASE Conclude
  <2>1. phase' \in {"idle", "review"} \/ (phase' = "verify" /\ queue' = Order)
    BY <1>5, CaughtEnds DEF Conclude, Verify
  <2>2. check' = check /\ \A v \in Verifier : ~check[v].fresh
    BY <1>5 DEF Conclude
  <2>3. Distinct(Order) /\ \A i \in 1..Len(Order) : Order[i] \in Verifier
    BY OrderAssumption, Bounds DEF Distinct
  <2> QED
    BY <2>1, <2>2, <2>3
<1>6. CASE Execute
  BY <1>6 DEF Execute
<1>7. CASE ExecutionReturns
  BY <1>7 DEF ExecutionReturns
<1>8. CASE ExecutionThrows
  BY <1>8, CaughtEnds DEF ExecutionThrows
<1>9. CASE ToolEnds
  BY <1>9 DEF ToolEnds, Finish
<1>10. CASE CheckEnds
  <2> DEFINE rest == Tail(queue)
  <2>1. /\ queue \in Seq(Verifier) /\ queue # <<>> /\ Distinct(queue)
        /\ \A i \in 1..Len(queue) : ~check[queue[i]].fresh
        /\ phase' = "verify"
    BY <1>10 DEF CheckEnds, Versions, TypeOK
  <2>2. Head(queue) \in Verifier
    BY <2>1
  <2>3. CASE queue' = <<>>
    BY <2>1, <2>3 DEF Distinct
  <2>4. CASE queue' # <<>>
    <3>1. queue' = rest /\ FreshNow
      BY <1>10, <2>4 DEF CheckEnds
    <3>2. \A v \in Verifier : v # Head(queue) => check'[v] = check[v]
      BY <1>10, <2>2, <3>1, ChecksRecorded DEF CheckEnds
    <3>3. /\ rest \in Seq(Verifier) /\ Distinct(rest)
          /\ \A i \in 1..Len(rest) :
               /\ i + 1 \in 1..Len(queue)
               /\ rest[i] = queue[i + 1] /\ rest[i] # Head(queue)
      BY <2>1, DistinctTail
    <3>4. ASSUME NEW i \in 1..Len(rest) PROVE ~check'[rest[i]].fresh
      <4>1. rest[i] \in Verifier /\ rest[i] # Head(queue)
        <5>1. i + 1 \in 1..Len(queue) /\ rest[i] = queue[i + 1] /\ rest[i] # Head(queue)
          BY <3>3
        <5>2. queue[i + 1] \in Verifier
          BY <2>1, <5>1
        <5> QED
          BY <5>1, <5>2
      <4>2. check'[rest[i]] = check[queue[i + 1]]
        BY <3>2, <3>3, <4>1
      <4> QED
        BY <2>1, <3>3, <4>2
    <3> QED
      BY <2>1, <3>1, <3>3, <3>4
  <2> QED
    BY <2>3, <2>4
<1>11. CASE Repair
  BY <1>11, StaleType DEF Repair, TypeOK
<1>12. CASE UserEdits
  BY <1>12 DEF UserEdits
<1>13. CASE UserStep
  BY <1>13, UserStepLeaves
<1>14. CASE UNCHANGED vars
  BY <1>14 DEF vars
<1>15. CASE Call
  BY <1>15 DEF Call, Working
<1>16. CASE Adopt
  <2>1. phase' = "model" \/ (phase' = "verify" /\ queue' = Order)
    BY <1>16 DEF Adopt, Verify
  <2>2. check' = check /\ \A v \in Verifier : ~check[v].fresh
    BY <1>16 DEF Adopt
  <2>3. Distinct(Order) /\ \A i \in 1..Len(Order) : Order[i] \in Verifier
    BY OrderAssumption, Bounds DEF Distinct
  <2> QED
    BY <2>1, <2>2, <2>3
<1> QED
  BY <1>1, <1>2, <1>3, <1>4, <1>5, <1>6, <1>7, <1>8, <1>9, <1>10, <1>11, <1>12,
     <1>13, <1>14, <1>15, <1>16 DEF Next, TaskStep, Ending, UserStep

LEMMA FreshNext ==
  TypeOK /\ Versions /\ Pending /\ FreshIsCurrent /\ [Next]_vars => FreshIsCurrent'
<1> SUFFICES ASSUME TypeOK, Versions, Pending, FreshIsCurrent, [Next]_vars
             PROVE  FreshIsCurrent'
  OBVIOUS
<1> USE DEF FreshIsCurrent, counters, stateVars, history, taskVars
<1>1. CASE Refuse \/ Start
  BY <1>1 DEF Refuse, Start, NewTask, NotRun
<1>2. CASE Ending
  BY <1>2, EndingEnds
<1>3. CASE Turn \/ ReadOnlyCall
  BY <1>3 DEF Turn, ReadOnlyCall
<1>4. CASE Conclude \/ ToolEnds
  <2>1. check' = check /\ \A v \in Verifier : ~check[v].fresh
    BY <1>4 DEF Conclude, ToolEnds, Pending, Modelling
  <2> QED
    BY <2>1
<1>5. CASE Execute
  <2>1. UNCHANGED <<check, latest, verified>>
    BY <1>5 DEF Execute
  <2>2. CASE phase = "call"
    BY <1>5, <2>1, <2>2 DEF Execute
  <2>3. CASE phase # "call"
    <3>1. /\ phase = "checkCall" /\ queue # <<>>
          /\ ranOn' = [ranOn EXCEPT ![Head(queue)] = tree]
      BY <1>5, <2>3 DEF Execute, Versions
    <3>2. Head(queue) \in Verifier /\ Head(queue) = queue[1] /\ 1 \in 1..Len(queue)
      BY <3>1 DEF TypeOK
    <3>3. ~check[Head(queue)].fresh
      BY <3>1, <3>2 DEF Pending, Verifying
    <3> QED
      BY <2>1, <3>1, <3>2, <3>3 DEF TypeOK
  <2> QED
    BY <2>2, <2>3
<1>6. CASE ExecutionReturns
  BY <1>6 DEF ExecutionReturns
<1>7. CASE ExecutionThrows
  BY <1>7 DEF ExecutionThrows
<1>8. CASE CheckEnds
  <2>1. Head(queue) \in Verifier /\ UNCHANGED <<ranOn, verified>>
    BY <1>8 DEF CheckEnds, Versions, TypeOK
  <2>2. CASE ~FreshNow
    <3>1. \A v \in Verifier : ~check'[v].fresh
      BY <1>8, <2>1, <2>2, ChecksRecorded DEF CheckEnds
    <3> QED
      BY <3>1
  <2>3. CASE FreshNow
    <3>1. latest' = verified /\ verified = tree
      BY <1>8, <2>3 DEF CheckEnds, FreshNow, Captures
    <3>2. ranOn[Head(queue)] = verified
      <4>1. /\ verified <= ranOn[Head(queue)] /\ ranOn[Head(queue)] <= tree
        BY <1>8 DEF CheckEnds, Versions
      <4>2. tree \in Nat /\ ranOn[Head(queue)] \in Nat
        <5>1. Version \union {NoState} \subseteq Nat
          BY VersionFacts DEF NoState
        <5> QED
          BY <2>1, <5>1 DEF TypeOK
      <4> QED
        BY <3>1, <4>1, <4>2
    <3>3. \A v \in Verifier : v # Head(queue) => check'[v] = check[v]
      BY <1>8, <2>1, <2>3, ChecksRecorded DEF CheckEnds
    <3> QED
      BY <2>1, <3>1, <3>2, <3>3
  <2> QED
    BY <2>2, <2>3
<1>9. CASE Repair
  BY <1>9, StaleType DEF Repair, TypeOK
<1>10. CASE UserEdits
  BY <1>10 DEF UserEdits
<1>11. CASE UserStep
  BY <1>11, UserStepLeaves
<1>12. CASE UNCHANGED vars
  BY <1>12 DEF vars
<1>13. CASE Call \/ Adopt
  BY <1>13 DEF Call, Adopt
<1> QED
  BY <1>1, <1>2, <1>3, <1>4, <1>5, <1>6, <1>7, <1>8, <1>9, <1>10, <1>11, <1>12,
     <1>13
     DEF Next, TaskStep, Ending, UserStep

-----------------------------------------------------------------------------
\* The invariant is inductive.
LEMMA InvNext == Inv /\ [Next]_vars => Inv'
BY TypeNext, AccountedNext, UndisturbedNext, VersionsNext, PendingNext, FreshNext
   DEF Inv

\* Every state of the task loop satisfies the invariant (loop.ts, runTask).
THEOREM InvHolds == Spec => []Inv
<1>1. Init => Inv
  BY InvInit
<1>2. Inv /\ [Next]_vars => Inv'
  BY InvNext
<1> QED
  BY <1>1, <1>2, PTL DEF Spec

\* The counters, versions, checks and exit codes stay within their ranges
\* (loop.ts, runTask).
THEOREM TypesHold == Spec => []TypeOK
<1>1. Inv => TypeOK
  BY DEF Inv
<1> QED
  BY <1>1, InvHolds, PTL

\* Correct means that every required check ran and passed on the version that was
\* verified and last captured (loop.ts, the verification loop; task.ts,
\* correctness).
THEOREM CorrectIsChecked == Spec => []PassedMeansCheckedOnLatest
<1>1. Inv => PassedMeansCheckedOnLatest
  <2> SUFFICES ASSUME Inv, Correctness = "passed"
               PROVE  /\ Required # {}
                      /\ \A v \in Required : v \in Objective /\ ranOn[v] = latest
                      /\ latest = verified
    BY DEF PassedMeansCheckedOnLatest
  <2>1. Required # {} /\ \A v \in Required : Accepted(v)
    BY DEF Correctness
  <2>2. \A v \in Required : v \in Verifier /\ v \in Objective /\ check[v].fresh
    BY <2>1, VerifierAssumption DEF Accepted
  <2>3. \A v \in Required : ranOn[v] = verified /\ latest = verified
    BY <2>2 DEF Inv, FreshIsCurrent
  <2> QED
    BY <2>1, <2>2, <2>3
<1> QED
  BY <1>1, InvHolds, PTL

\* Turns, repairs and passes together never execute more than the budget
\* (loop.ts, calls).
THEOREM BudgetHolds == Spec => []ExecutionsWithinBudget
<1>1. Inv => ExecutionsWithinBudget
  BY DEF Inv, Accounted, ExecutionsWithinBudget
<1> QED
  BY <1>1, InvHolds, PTL

\* Only Execute executes.
LEMMA OnlyExecute == TypeOK /\ [Next]_vars /\ executed' > executed => Execute
<1> SUFFICES ASSUME TypeOK, [Next]_vars, executed' > executed PROVE Execute
  OBVIOUS
<1> USE NumberTypes, Bounds DEF counters, stateVars, history, taskVars
<1>1. executed \in Nat
  OBVIOUS
<1>2. ASSUME executed' = executed \/ executed' = 0 PROVE FALSE
  BY <1>1, <1>2
<1>3. CASE Refuse \/ Start
  BY <1>2, <1>3 DEF Refuse, Start, NewTask
<1>4. CASE Ending
  BY <1>2, <1>4, EndingEnds
<1>5. CASE Turn \/ ReadOnlyCall \/ Conclude \/ ToolEnds \/ Call \/ Adopt
  BY <1>2, <1>5 DEF Turn, ReadOnlyCall, Conclude, ToolEnds, Call, Adopt
<1>6. CASE ExecutionReturns \/ ExecutionThrows
  BY <1>2, <1>6 DEF ExecutionReturns, ExecutionThrows
<1>7. CASE CheckEnds \/ Repair \/ UserEdits
  BY <1>2, <1>7 DEF CheckEnds, Repair, UserEdits
<1>8. CASE UserStep
  BY <1>2, <1>8, UserStepLeaves
<1>9. CASE UNCHANGED vars
  BY <1>2, <1>9 DEF vars
<1> QED
  BY <1>3, <1>4, <1>5, <1>6, <1>7, <1>8, <1>9 DEF Next, TaskStep, Ending, UserStep

\* After an unknown effect a task executes nothing more (loop.ts, effect_unknown
\* and the verification loop).
THEOREM UnknownStopsExecution == Spec => NothingAfterUnknown
<1>1. Inv /\ [Next]_vars => (executed' > executed => mutationAllowed)
  BY OnlyExecute DEF Inv, Undisturbed, Execute
<1> QED
  BY <1>1, InvHolds, PTL DEF Spec, NothingAfterUnknown

LEMMA OnlyRepair == TypeOK /\ [Next]_vars /\ repairs' > repairs => Repair
<1> SUFFICES ASSUME TypeOK, [Next]_vars, repairs' > repairs PROVE Repair
  OBVIOUS
<1> USE NumberTypes, Bounds DEF counters, stateVars, history, taskVars
<1>1. repairs \in Nat
  OBVIOUS
<1>2. ASSUME repairs' = repairs \/ repairs' = 0 PROVE FALSE
  BY <1>1, <1>2
<1>3. CASE Refuse \/ Start
  BY <1>2, <1>3 DEF Refuse, Start, NewTask
<1>4. CASE OutOfTurns \/ ContextLimit \/ Throw \/ Denied \/ OutOfCalls \/ Conclusion
            \/ Decline
  BY <1>2, <1>4 DEF OutOfTurns, ContextLimit, Throw, Denied, OutOfCalls, Conclusion, Decline
<1>5. CASE Turn \/ ReadOnlyCall \/ Conclude \/ ToolEnds \/ Call \/ Adopt \/ Execute
  BY <1>2, <1>5 DEF Turn, ReadOnlyCall, Conclude, ToolEnds, Call, Adopt, Execute
<1>6. CASE ExecutionReturns \/ ExecutionThrows
  BY <1>2, <1>6 DEF ExecutionReturns, ExecutionThrows
<1>7. CASE CheckEnds \/ UserEdits
  BY <1>2, <1>7 DEF CheckEnds, UserEdits
<1>8. CASE UserStep
  BY <1>2, <1>8, UserStepLeaves
<1>9. CASE UNCHANGED vars
  BY <1>2, <1>9 DEF vars
<1> QED
  BY <1>3, <1>4, <1>5, <1>6, <1>7, <1>8, <1>9 DEF Next, TaskStep, UserStep

\* A repair follows an objective failure on the version that was last captured
\* (loop.ts, task.repair.started).
THEOREM RepairIsObjective == Spec => RepairFollowsFreshFailure
<1>1. Inv /\ [Next]_vars =>
        (repairs' > repairs =>
           \E v \in Required : check[v].state = "failed" /\ ranOn[v] = latest)
  <2> SUFFICES ASSUME Inv, [Next]_vars, repairs' > repairs
               PROVE  \E v \in Required :
                        check[v].state = "failed" /\ ranOn[v] = latest
    OBVIOUS
  <2>1. ObjectiveFailures # {}
    BY OnlyRepair DEF Inv, Repair, RepairAllowed
  <2>2. PICK v \in Required : check[v].fresh /\ check[v].state = "failed"
    BY <2>1 DEF ObjectiveFailures, Accepted
  <2>3. ranOn[v] = latest
    BY <2>2, VerifierAssumption DEF Inv, FreshIsCurrent
  <2> QED
    BY <2>2, <2>3
<1> QED
  BY <1>1, InvHolds, PTL DEF Spec, RepairFollowsFreshFailure

-----------------------------------------------------------------------------
(* One turn: induction over the records *)

\* A set of naturals has a least one.
LEMMA LeastNatural ==
  ASSUME NEW S \in SUBSET Nat, S # {}
  PROVE  \E m \in S : \A k \in S : m <= k
<1>1. PICK m \in S : \A k \in S : <<k, m>> \notin OpToRel(<, Nat)
  BY NatLessThanWellFounded, WFMin
<1>2. ASSUME NEW k \in S PROVE m <= k
  <2>1. <<k, m>> \notin OpToRel(<, Nat)
    BY <1>1
  <2>2. ~(k < m)
    BY <2>1 DEF OpToRel
  <2> QED
    BY <2>2
<1> QED
  BY <1>2

\* A set that has 0, and with every number below n the next one, has all up to n.
LEMMA UpTo ==
  ASSUME NEW n \in Nat, NEW T, 0 \in T,
         \A k \in 0..(n - 1) : k \in T => k + 1 \in T
  PROVE  0..n \subseteq T
<1> DEFINE missing == {k \in 0..n : k \notin T}
<1> SUFFICES ASSUME missing # {} PROVE FALSE
  OBVIOUS
<1>1. missing \in SUBSET Nat
  OBVIOUS
<1>2. PICK m \in missing : \A k \in missing : m <= k
  <2> HIDE DEF missing
  <2> QED BY <1>1, LeastNatural
<1>3. m # 0 /\ m \in 0..n
  BY <1>2
<1>4. m - 1 \in 0..n /\ m - 1 \in 0..(n - 1) /\ m - 1 \notin missing
  BY <1>2, <1>3
<1>5. m - 1 + 1 = m /\ m - 1 + 1 \in T
  BY <1>3, <1>4
<1> QED
  BY <1>2, <1>5

-----------------------------------------------------------------------------
(* What the records and the events are *)

Category ==
  {"authentication", "authorization", "rate_limit", "quota", "timeout",
   "connection", "malformed_response", "unsupported_capability",
   "context_limit", "safety_refusal", "unknown_provider_error", "cancelled"}

CallPart == [kind : {"open"}, index : Nat, id : CallId, name : ToolName]
           \union [kind : {"piece"}, index : Nat, piece : Nat]

SignalKind == {"start", "refusal", "incomplete", "failed", "end", "done", "other"}

Record ==
  CallPart \union [kind : {"close"}, index : Nat]
    \union [kind : {"finish"}, reason : Reason]
    \union [kind : {"error"}, category : Category]
    \union [kind : SignalKind]

Event == CallPart \union [kind : {"completed"}, reason : Reason]
           \union [kind : {"error"}, category : Category]

-----------------------------------------------------------------------------
(* The folds *)

Read(protocol, items) ==
  LET Step(s, r) == Adapter(protocol, s, r) IN Through(Step, Reading, items)

Collected(events) == Through(Collect, Collecting, events)

ReadStep(protocol, items, f, k) ==
  IF k = 0 THEN Reading ELSE Adapter(protocol, f[k - 1], items[k])

Reads(f, protocol, items, n) == f = [k \in 0..n |-> ReadStep(protocol, items, f, k)]

\* The fold of an adapter, as a recursive function, exists ...
LEMMA ReadingExists ==
  ASSUME NEW protocol, NEW items, NEW n \in Nat
  PROVE  \E f : Reads(f, protocol, items, n)
<1> DEFINE T == {k \in 0..n : \E f : Reads(f, protocol, items, k)}
<1>1. 0 \in T
  <2> DEFINE f == [k \in 0..0 |-> Reading]
  <2>1. f = [k \in 0..0 |-> ReadStep(protocol, items, f, k)]
    BY DEF ReadStep
  <2> QED
    BY <2>1 DEF Reads
<1>2. ASSUME NEW m \in 0..(n - 1), m \in T PROVE m + 1 \in T
  <2>1. PICK f : Reads(f, protocol, items, m)
    BY <1>2
  <2> DEFINE g == [k \in 0..(m + 1) |->
                     IF k = m + 1 THEN ReadStep(protocol, items, f, k) ELSE f[k]]
  <2>2. ASSUME NEW k \in 0..(m + 1) PROVE g[k] = ReadStep(protocol, items, g, k)
    <3>1. k # 0 => k - 1 \in 0..(m + 1) /\ k - 1 # m + 1
      BY <1>2
    <3>2. k # 0 => g[k - 1] = f[k - 1]
      BY <3>1
    <3>3. ReadStep(protocol, items, g, k) = ReadStep(protocol, items, f, k)
      BY <3>2 DEF ReadStep
    <3>4. k # m + 1 => k \in 0..m
      BY <1>2
    <3>5. k # m + 1 => f[k] = ReadStep(protocol, items, f, k)
      BY <2>1, <3>4 DEF Reads
    <3> QED
      BY <3>3, <3>5
  <2>3. Reads(g, protocol, items, m + 1)
    BY <2>2 DEF Reads
  <2> QED
    BY <1>2, <2>3
<1>3. 0..n \subseteq T
  <2> HIDE DEF T
  <2> QED
    BY <1>1, <1>2, UpTo
<1> QED
  BY <1>3

\* ... and computes what the adapter reads.
LEMMA ReadComputed ==
  ASSUME NEW protocol, NEW items, Len(items) \in Nat
  PROVE  \E f : /\ Reads(f, protocol, items, Len(items))
                /\ Read(protocol, items) = f[Len(items)]
<1> DEFINE f == CHOOSE g : Reads(g, protocol, items, Len(items))
<1>1. Reads(f, protocol, items, Len(items))
  <2>1. \E g : Reads(g, protocol, items, Len(items))
    BY ReadingExists
  <2> QED
    BY <2>1, Zenon
<1>2. Read(protocol, items) = f[Len(items)]
  BY Zenon DEF Read, Through, Reads, ReadStep
<1> HIDE DEF f
<1> QED
  BY <1>1, <1>2

CollectStep(events, f, k) ==
  IF k = 0 THEN Collecting ELSE Collect(f[k - 1], events[k])

Collects(f, events, n) == f = [k \in 0..n |-> CollectStep(events, f, k)]

\* The same of the collector
LEMMA CollectingExists ==
  ASSUME NEW events, NEW n \in Nat
  PROVE  \E f : Collects(f, events, n)
<1> DEFINE T == {k \in 0..n : \E f : Collects(f, events, k)}
<1>1. 0 \in T
  <2> DEFINE f == [k \in 0..0 |-> Collecting]
  <2>1. f = [k \in 0..0 |-> CollectStep(events, f, k)]
    BY DEF CollectStep
  <2> QED
    BY <2>1 DEF Collects
<1>2. ASSUME NEW m \in 0..(n - 1), m \in T PROVE m + 1 \in T
  <2>1. PICK f : Collects(f, events, m)
    BY <1>2
  <2> DEFINE g == [k \in 0..(m + 1) |->
                     IF k = m + 1 THEN CollectStep(events, f, k) ELSE f[k]]
  <2>2. ASSUME NEW k \in 0..(m + 1) PROVE g[k] = CollectStep(events, g, k)
    <3>1. k # 0 => k - 1 \in 0..(m + 1) /\ k - 1 # m + 1
      BY <1>2
    <3>2. k # 0 => g[k - 1] = f[k - 1]
      BY <3>1
    <3>3. CollectStep(events, g, k) = CollectStep(events, f, k)
      BY <3>2 DEF CollectStep
    <3>4. k # m + 1 => k \in 0..m
      BY <1>2
    <3>5. k # m + 1 => f[k] = CollectStep(events, f, k)
      BY <2>1, <3>4 DEF Collects
    <3> QED
      BY <3>3, <3>5
  <2>3. Collects(g, events, m + 1)
    BY <2>2 DEF Collects
  <2> QED
    BY <1>2, <2>3
<1>3. 0..n \subseteq T
  <2> HIDE DEF T
  <2> QED
    BY <1>1, <1>2, UpTo
<1> QED
  BY <1>3

LEMMA CollectedComputed ==
  ASSUME NEW events, Len(events) \in Nat
  PROVE  \E f : Collects(f, events, Len(events)) /\ Collected(events) = f[Len(events)]
<1> DEFINE f == CHOOSE g : Collects(g, events, Len(events))
<1>1. Collects(f, events, Len(events))
  <2>1. \E g : Collects(g, events, Len(events))
    BY CollectingExists
  <2> QED
    BY <2>1, Zenon
<1>2. Collected(events) = f[Len(events)]
  BY Zenon DEF Collected, Through, Collects, CollectStep
<1> HIDE DEF f
<1> QED
  BY <1>1, <1>2

LEMMA CollectedOfNothing == Collected(<<>>) = Collecting
<1>1. Len(<<>>) = 0
  OBVIOUS
<1>2. PICK f : Collects(f, <<>>, 0) /\ Collected(<<>>) = f[0]
  BY <1>1, CollectedComputed
<1> QED
  BY <1>2 DEF Collects, CollectStep

\* One more event is collected on top of the others.
LEMMA CollectedOfAppend ==
  ASSUME NEW S, NEW events \in Seq(S), NEW e \in S
  PROVE  Collected(Append(events, e)) = Collect(Collected(events), e)
<1> DEFINE n == Len(events)
           more == Append(events, e)
<1>1. /\ n \in Nat /\ Len(more) = n + 1 /\ more[n + 1] = e
      /\ \A i \in 1..n : more[i] = events[i]
  OBVIOUS
<1> HIDE DEF more, n
<1>2. PICK f : Collects(f, events, n) /\ Collected(events) = f[n]
  BY <1>1, CollectedComputed DEF n
<1>3. PICK g : Collects(g, more, n + 1) /\ Collected(more) = g[n + 1]
  <2>1. Len(more) \in Nat
    BY <1>1
  <2> QED
    BY <1>1, <2>1, CollectedComputed
<1> DEFINE T == {k \in 0..n : f[k] = g[k]}
<1>4. \A k \in 0..n : f[k] = CollectStep(events, f, k) /\ g[k] = CollectStep(more, g, k)
  <2>1. \A k \in 0..n : k \in 0..(n + 1)
    BY <1>1
  <2> QED
    BY <1>2, <1>3, <2>1 DEF Collects
<1>5. 0 \in T
  BY <1>1, <1>4 DEF CollectStep
<1>6. ASSUME NEW k \in 0..(n - 1), k \in T PROVE k + 1 \in T
  <2>1. k + 1 \in 0..n /\ k + 1 # 0 /\ k + 1 - 1 = k /\ k + 1 \in 1..n
    BY <1>1, <1>6
  <2>2. CollectStep(events, f, k + 1) = CollectStep(more, g, k + 1)
    BY <1>1, <1>6, <2>1 DEF CollectStep
  <2> QED
    BY <1>4, <2>1, <2>2
<1>7. f[n] = g[n]
  <2>1. 0..n \subseteq T
    <3> HIDE DEF T
    <3> QED
      BY <1>1, <1>5, <1>6, UpTo
  <2> QED
    BY <1>1, <2>1
<1>8. g[n + 1] = CollectStep(more, g, n + 1) /\ n + 1 # 0 /\ n + 1 - 1 = n
  <2>1. n + 1 \in 0..(n + 1) /\ n + 1 # 0 /\ n + 1 - 1 = n
    BY <1>1
  <2> QED
    BY <1>3, <2>1 DEF Collects
<1> QED
  BY <1>1, <1>2, <1>3, <1>7, <1>8 DEF CollectStep, more

-----------------------------------------------------------------------------
(* What an adapter makes of a record *)

State == [events : Seq(Event), over : BOOLEAN, started : BOOLEAN,
          blocks : SUBSET Nat, finish : Reason \union {None}]

LastKind(protocol) == IF protocol = "compatible" THEN "done" ELSE "end"

\* The adapter in state s reads r, hands on the events es and is in state t.
HandsOn(r, s, t) ==
  /\ ~t.over /\ r \in CallPart
  /\ t.events = Append(s.events, r) /\ t.finish = s.finish

Absorbs(protocol, r, s, t) ==
  /\ ~t.over /\ r.kind \notin {"open", "piece", LastKind(protocol)}
  /\ t.events = s.events
  /\ t.finish = s.finish \/ r = FinishReason(t.finish)

Fails(s, t) ==
  t.over /\ \E category \in Category : t.events = Append(s.events, Error(category))

Ends(protocol, r, s, t) ==
  /\ t.over /\ r.kind = LastKind(protocol)
  /\ \E reason \in Reason :
       /\ t.events = Append(s.events, Completed(reason))
       /\ protocol # "openai" => reason = s.finish

Reaction(protocol, r, s, t) ==
  /\ t \in State
  /\ \/ HandsOn(r, s, t) \/ Absorbs(protocol, r, s, t)
     \/ Fails(s, t) \/ Ends(protocol, r, s, t)

\* The deltas are the records that open a call or bring a piece of one.
LEMMA RecordKinds ==
  ASSUME NEW r \in Record
  PROVE  /\ r.kind \in {"open", "piece"} <=> r \in CallPart
         /\ r \in CallPart => r.index \in Nat
         /\ r.kind = "close" => r.index \in Nat
         /\ r.kind = "finish" => r.reason \in Reason /\ r = FinishReason(r.reason)
         /\ r.kind = "error" => r.category \in Category /\ r = Error(r.category)
BY DEF Record, CallPart, SignalKind, FinishReason, Error

\* What an adapter yields is appended, and the rest of its state is the same.
LEMMA Yielded ==
  ASSUME NEW s \in State, NEW e \in Event
  PROVE  /\ Yield(s, e) \in State /\ Yield(s, e).events = Append(s.events, e)
         /\ Yield(s, e).over = s.over /\ Yield(s, e).finish = s.finish
         /\ Stop(s, e) \in State /\ Stop(s, e).events = Append(s.events, e)
         /\ Stop(s, e).over
<1>1. s.events \in Seq(Event)
  BY DEF State
<1>2. Append(s.events, e) \in Seq(Event)
  BY <1>1
<1> DEFINE es == Append(s.events, e)
<1>3. Yield(s, e) = [s EXCEPT !.events = es] /\ es \in Seq(Event)
  BY <1>2 DEF Yield
<1>4. Stop(s, e) = [Yield(s, e) EXCEPT !.over = TRUE]
  BY DEF Stop
<1> HIDE DEF es
<1>5. /\ Yield(s, e) \in State /\ Yield(s, e).events = es
      /\ Yield(s, e).over = s.over /\ Yield(s, e).finish = s.finish
  BY <1>3 DEF State
<1>6. Stop(s, e) \in State /\ Stop(s, e).events = es /\ Stop(s, e).over
  BY <1>4, <1>5 DEF State
<1> QED
  BY <1>5, <1>6 DEF es

LEMMA Stopping ==
  ASSUME NEW s \in State, NEW category \in Category
  PROVE  /\ Stop(s, Error(category)) \in State
         /\ Fails(s, Stop(s, Error(category)))
<1>1. Error(category) \in Event
  BY DEF Error, Event
<1> QED
  BY <1>1, Yielded DEF Fails

LEMMA MalformedStops ==
  ASSUME NEW s \in State
  PROVE  Malformed(s) \in State /\ Fails(s, Malformed(s))
<1>1. "malformed_response" \in Category
  BY DEF Category
<1> QED
  BY <1>1, Stopping DEF Malformed

LEMMA Completing ==
  ASSUME NEW s \in State, NEW reason \in Reason
  PROVE  /\ Stop(s, Completed(reason)) \in State
         /\ Stop(s, Completed(reason)).over
         /\ Stop(s, Completed(reason)).events = Append(s.events, Completed(reason))
<1>1. Completed(reason) \in Event
  BY DEF Completed, Event
<1> QED
  BY <1>1, Yielded

LEMMA Yielding ==
  ASSUME NEW s \in State, ~s.over, NEW r \in CallPart
  PROVE  Yield(s, r) \in State /\ HandsOn(r, s, Yield(s, r))
<1>1. r \in Event
  BY DEF Event
<1> QED
  BY <1>1, Yielded DEF HandsOn

\* Each adapter hands a record on, absorbs it, fails, or ends the response.
LEMMA OpenAIReacts ==
  ASSUME NEW s \in State, ~s.over, NEW r \in Record, r.kind # "error"
  PROVE  Reaction("openai", r, s, OpenAI(s, r))
<1>1. CASE r.kind \in {"open", "piece"}
  BY <1>1, RecordKinds, Yielding DEF OpenAI, Reaction
<1>2. CASE r.kind = "refusal"
  <2>1. "safety_refusal" \in Category
    BY DEF Category
  <2> QED
    BY <1>2, <2>1, Stopping DEF OpenAI, Reaction
<1>3. CASE r.kind = "incomplete"
  <2>1. "context_limit" \in Category
    BY DEF Category
  <2> QED
    BY <1>3, <2>1, Stopping DEF OpenAI, Reaction
<1>4. CASE r.kind = "failed"
  <2>1. "unknown_provider_error" \in Category
    BY DEF Category
  <2> QED
    BY <1>4, <2>1, Stopping DEF OpenAI, Reaction
<1>5. CASE r.kind = "end"
  <2>1. "stop" \in Reason
    BY DEF Reason
  <2>2. OpenAI(s, r) = Stop(s, Completed("stop"))
    BY <1>5 DEF OpenAI
  <2> QED
    BY <1>5, <2>1, <2>2, Completing DEF Reaction, Ends, LastKind
<1>6. CASE r.kind = "done"
  BY <1>6, MalformedStops DEF OpenAI, Reaction
<1>7. CASE r.kind \notin {"open", "piece", "refusal", "incomplete", "failed", "end", "done"}
  <2>1. OpenAI(s, r) = s
    BY <1>7 DEF OpenAI
  <2> QED
    BY <1>7, <2>1 DEF Reaction, Absorbs, LastKind
<1> QED
  BY <1>1, <1>2, <1>3, <1>4, <1>5, <1>6, <1>7

LEMMA AnthropicReacts ==
  ASSUME NEW s \in State, ~s.over, NEW r \in Record, r.kind # "error"
  PROVE  Reaction("anthropic", r, s, Anthropic(s, r))
<1>1. CASE r.kind = "start"
  <2>1. [s EXCEPT !.started = TRUE] \in State
    BY DEF State
  <2>2. Absorbs("anthropic", r, s, [s EXCEPT !.started = TRUE])
    BY <1>1 DEF Absorbs, LastKind, State
  <2>3. Anthropic(s, r) = IF s.started THEN Malformed(s) ELSE [s EXCEPT !.started = TRUE]
    BY <1>1 DEF Anthropic
  <2> QED
    BY <2>1, <2>2, <2>3, MalformedStops DEF Reaction
<1>2. CASE r.kind = "open"
  <2> DEFINE t == [Yield(s, r) EXCEPT !.blocks = @ \union {r.index}]
  <2>1. r \in CallPart /\ r.index \in Nat
    BY <1>2, RecordKinds
  <2>2. Yield(s, r) \in State /\ HandsOn(r, s, Yield(s, r))
    BY <2>1, Yielding
  <2>3. t \in State /\ HandsOn(r, s, t)
    BY <2>1, <2>2 DEF State, HandsOn
  <2>4. Anthropic(s, r) = IF r.index \in s.blocks THEN Malformed(s) ELSE t
    BY <1>2 DEF Anthropic
  <2> QED
    BY <2>3, <2>4, MalformedStops DEF Reaction
<1>3. CASE r.kind = "piece"
  <2>1. r \in CallPart
    BY <1>3, RecordKinds
  <2>2. Anthropic(s, r) = IF r.index \in s.blocks THEN Yield(s, r) ELSE Malformed(s)
    BY <1>3 DEF Anthropic
  <2> QED
    BY <2>1, <2>2, Yielding, MalformedStops DEF Reaction
<1>4. CASE r.kind = "close"
  <2> DEFINE t == [s EXCEPT !.blocks = @ \ {r.index}]
  <2>1. t \in State /\ Absorbs("anthropic", r, s, t)
    BY <1>4 DEF State, Absorbs, LastKind
  <2>2. Anthropic(s, r) = IF r.index \in s.blocks THEN t ELSE Malformed(s)
    BY <1>4 DEF Anthropic
  <2> QED
    BY <2>1, <2>2, MalformedStops DEF Reaction
<1>5. CASE r.kind = "finish"
  <2> DEFINE t == [s EXCEPT !.finish = r.reason]
  <2>1. r.reason \in Reason /\ r = FinishReason(r.reason)
    BY <1>5, RecordKinds
  <2>2. t \in State /\ Absorbs("anthropic", r, s, t)
    BY <1>5, <2>1 DEF State, Absorbs, LastKind
  <2>3. Anthropic(s, r) = t
    BY <1>5 DEF Anthropic
  <2> QED
    BY <2>2, <2>3 DEF Reaction
<1>6. CASE r.kind = "end"
  <2>1. Anthropic(s, r) = IF s.started /\ s.blocks = {} /\ s.finish # None
                          THEN Stop(s, Completed(s.finish)) ELSE Malformed(s)
    BY <1>6 DEF Anthropic
  <2>2. s.finish # None => s.finish \in Reason
    BY DEF State
  <2>3. s.finish # None => Ends("anthropic", r, s, Stop(s, Completed(s.finish)))
    BY <1>6, <2>2, Completing DEF Ends, LastKind
  <2> QED
    BY <2>1, <2>2, <2>3, Completing, MalformedStops DEF Reaction
<1>7. CASE r.kind = "done"
  BY <1>7, MalformedStops DEF Anthropic, Reaction
<1>8. CASE r.kind \notin {"start", "open", "piece", "close", "finish", "end", "done"}
  <2>1. Anthropic(s, r) = s
    BY <1>8 DEF Anthropic
  <2> QED
    BY <1>8, <2>1 DEF Reaction, Absorbs, LastKind
<1> QED
  BY <1>1, <1>2, <1>3, <1>4, <1>5, <1>6, <1>7, <1>8

LEMMA CompatibleReacts ==
  ASSUME NEW s \in State, ~s.over, NEW r \in Record, r.kind # "error"
  PROVE  Reaction("compatible", r, s, Compatible(s, r))
<1>1. CASE r.kind \in {"open", "piece"}
  BY <1>1, RecordKinds, Yielding DEF Compatible, Reaction
<1>2. CASE r.kind = "refusal"
  <2>1. "safety_refusal" \in Category
    BY DEF Category
  <2> QED
    BY <1>2, <2>1, Stopping DEF Compatible, Reaction
<1>3. CASE r.kind = "finish"
  <2> DEFINE t == [s EXCEPT !.finish = r.reason]
  <2>1. r.reason \in Reason /\ r = FinishReason(r.reason)
    BY <1>3, RecordKinds
  <2>2. t \in State /\ Absorbs("compatible", r, s, t)
    BY <1>3, <2>1 DEF State, Absorbs, LastKind
  <2>3. Compatible(s, r) = t
    BY <1>3 DEF Compatible
  <2> QED
    BY <2>2, <2>3 DEF Reaction
<1>4. CASE r.kind = "done"
  <2>1. Compatible(s, r) = IF s.finish = None THEN Malformed(s)
                           ELSE Stop(s, Completed(s.finish))
    BY <1>4 DEF Compatible
  <2>2. s.finish # None => s.finish \in Reason
    BY DEF State
  <2>3. s.finish # None => Ends("compatible", r, s, Stop(s, Completed(s.finish)))
    BY <1>4, <2>2, Completing DEF Ends, LastKind
  <2> QED
    BY <2>1, <2>2, <2>3, Completing, MalformedStops DEF Reaction
<1>5. CASE r.kind \notin {"open", "piece", "refusal", "finish", "done"}
  <2>1. Compatible(s, r) = Malformed(s)
    BY <1>5 DEF Compatible
  <2> QED
    BY <2>1, MalformedStops DEF Reaction
<1> QED
  BY <1>1, <1>2, <1>3, <1>4, <1>5

\* A record is handed on, absorbed, rejected, or it ends the response.
LEMMA AdapterReacts ==
  ASSUME NEW protocol \in Protocol, NEW s \in State, NEW r \in Record
  PROVE  IF s.over THEN Adapter(protocol, s, r) = s
         ELSE Reaction(protocol, r, s, Adapter(protocol, s, r))
<1>1. CASE s.over
  BY <1>1 DEF Adapter
<1>2. CASE ~s.over /\ r.kind = "error"
  <2>1. r.category \in Category /\ r = Error(r.category)
    BY <1>2, RecordKinds
  <2>2. Adapter(protocol, s, r) = Stop(s, Error(r.category))
    BY <1>2, <2>1 DEF Adapter
  <2>3. Adapter(protocol, s, r) \in State /\ Fails(s, Adapter(protocol, s, r))
    BY <2>1, <2>2, Stopping
  <2> QED
    BY <1>2, <2>3 DEF Reaction
<1>3. CASE ~s.over /\ r.kind # "error"
  <2>1. CASE protocol = "openai"
    <3>1. Adapter(protocol, s, r) = OpenAI(s, r)
      BY <1>3, <2>1 DEF Adapter
    <3> QED
      BY <1>3, <2>1, <3>1, OpenAIReacts
  <2>2. CASE protocol = "anthropic"
    <3>1. Adapter(protocol, s, r) = Anthropic(s, r)
      BY <1>3, <2>2 DEF Adapter
    <3> QED
      BY <1>3, <2>2, <3>1, AnthropicReacts
  <2>3. CASE protocol = "compatible"
    <3>1. Adapter(protocol, s, r) = Compatible(s, r)
      BY <1>3, <2>3 DEF Adapter
    <3> QED
      BY <1>3, <2>3, <3>1, CompatibleReacts
  <2> QED
    BY <2>1, <2>2, <2>3 DEF Protocol
<1> QED
  BY <1>1, <1>2, <1>3

-----------------------------------------------------------------------------
(* What the collector knows of the records it has been handed *)

GatheredCall == [id : CallId \union {None}, name : ToolName \union {None},
                 arguments : Seq(Nat)]

Collection == [order : Seq(Nat), calls : UNION {[D -> GatheredCall] : D \in SUBSET Nat},
               finish : Reason \union {None}, category : Category \union {None}]

OpensOf(r, i) == r.kind = "open" /\ r.index = i
PieceOf(r, i) == r.kind = "piece" /\ r.index = i

\* Among the first k records of t call i is announced as call has it.
Announced(t, k, i, call) ==
  /\ call.id = None <=> call.name = None
  /\ call.id # None => \E n \in 1..k : t[n] = Open(i, call.id, call.name)
  /\ \A n \in 1..k :
       OpensOf(t[n], i) => call.id # None /\ t[n].id = call.id /\ t[n].name = call.name

\* The pieces of its arguments are, if they are no more than two, those that
\* call has, in their order.
Arrived(t, k, i, arguments) ==
  /\ arguments = <<>> => \A n \in 1..k : ~PieceOf(t[n], i)
  /\ Len(arguments) = 1 =>
       \E m \in 1..k : /\ t[m] = Piece(i, arguments[1])
                       /\ \A n \in 1..k : PieceOf(t[n], i) => n = m
  /\ Len(arguments) = 2 =>
       \E l, m \in 1..k :
         /\ l < m /\ t[l] = Piece(i, arguments[1]) /\ t[m] = Piece(i, arguments[2])
         /\ \A n \in 1..k : PieceOf(t[n], i) => n \in {l, m}

Called(t, k, i, call) == Announced(t, k, i, call) /\ Arrived(t, k, i, call.arguments)

LEMMA DeltaKinds ==
  ASSUME NEW r \in CallPart
  PROVE  /\ r.index \in Nat
         /\ r.kind = "piece" => r.piece \in Nat /\ r = Piece(r.index, r.piece)
         /\ r.kind # "piece" => /\ r.kind = "open" /\ r.id \in CallId /\ r.name \in ToolName
                                /\ r = Open(r.index, r.id, r.name)
BY DEF CallPart, Piece, Open

LEMMA MergedPiece ==
  ASSUME NEW call \in GatheredCall, NEW r \in CallPart, r.kind = "piece"
  PROVE  /\ Merged(call, r) \in GatheredCall
         /\ Merged(call, r).id = call.id /\ Merged(call, r).name = call.name
         /\ Merged(call, r).arguments = Append(call.arguments, r.piece)
<1> DEFINE more == Append(call.arguments, r.piece)
<1>1. call.arguments \in Seq(Nat) /\ r.piece \in Nat
  BY DeltaKinds DEF GatheredCall
<1>2. more \in Seq(Nat)
  BY <1>1
<1>3. Merged(call, r) = [call EXCEPT !.arguments = more]
  BY DEF Merged
<1> HIDE DEF more
<1>4. /\ Merged(call, r) \in GatheredCall
      /\ Merged(call, r).id = call.id /\ Merged(call, r).name = call.name
      /\ Merged(call, r).arguments = more
  BY <1>2, <1>3 DEF GatheredCall
<1> QED
  BY <1>4 DEF more

LEMMA MergedOpen ==
  ASSUME NEW call \in GatheredCall, NEW r \in CallPart, r.kind # "piece",
         "conflict" \notin {Merged(call, r).id, Merged(call, r).name}
  PROVE  /\ Merged(call, r) \in GatheredCall
         /\ Merged(call, r).id = r.id /\ Merged(call, r).name = r.name
         /\ Merged(call, r).arguments = call.arguments
         /\ call.id \in {None, r.id} /\ call.name \in {None, r.name}
<1>1. r.id \in CallId /\ r.name \in ToolName
  BY DeltaKinds
<1>2. Merged(call, r) =
        [call EXCEPT !.id   = IF call.id \in {None, r.id} THEN r.id ELSE "conflict",
                     !.name = IF call.name \in {None, r.name} THEN r.name ELSE "conflict"]
  BY DEF Merged
<1>3. /\ Merged(call, r).id = IF call.id \in {None, r.id} THEN r.id ELSE "conflict"
      /\ Merged(call, r).name = IF call.name \in {None, r.name} THEN r.name ELSE "conflict"
      /\ Merged(call, r).arguments = call.arguments
  BY <1>2 DEF GatheredCall
<1>4. call.id \in {None, r.id} /\ call.name \in {None, r.name}
  BY <1>3
<1>5. Merged(call, r) = [call EXCEPT !.id = r.id, !.name = r.name]
  BY <1>2, <1>4
<1>6. Merged(call, r) \in GatheredCall
  BY <1>1, <1>5 DEF GatheredCall
<1> QED
  BY <1>3, <1>4, <1>6

\* A record that is no part of call i changes nothing that is known of it.
LEMMA CalledStays ==
  ASSUME NEW t, NEW k \in Nat, NEW i, NEW call,
         ~OpensOf(t[k + 1], i), ~PieceOf(t[k + 1], i), Called(t, k, i, call)
  PROVE  Called(t, k + 1, i, call)
<1>1. \A n \in 1..(k + 1) : n \in 1..k \/ n = k + 1
  OBVIOUS
<1>2. 1..k \subseteq 1..(k + 1)
  OBVIOUS
<1>3. Announced(t, k + 1, i, call)
  BY <1>1, <1>2 DEF Called, Announced
<1>4. Arrived(t, k + 1, i, call.arguments)
  BY <1>1, <1>2 DEF Called, Arrived
<1> QED
  BY <1>3, <1>4 DEF Called

\* Nothing has been said of a call that is unknown.
LEMMA CalledNothing ==
  ASSUME NEW t, NEW k \in Nat, NEW i,
         \A n \in 1..k : ~OpensOf(t[n], i) /\ ~PieceOf(t[n], i)
  PROVE  Called(t, k, i, NoCall)
BY DEF Called, Announced, Arrived, NoCall

LEMMA AppendedTo ==
  ASSUME NEW a \in Seq(Nat), NEW x \in Nat
  PROVE  /\ Append(a, x) # <<>>
         /\ Len(Append(a, x)) = 1 => a = <<>> /\ Append(a, x)[1] = x
         /\ Len(Append(a, x)) = 2 =>
              Len(a) = 1 /\ Append(a, x)[1] = a[1] /\ Append(a, x)[2] = x
<1>1. Len(a) \in Nat /\ Len(Append(a, x)) = Len(a) + 1
  OBVIOUS
<1>2. Len(a) = 0 => a = <<>>
  OBVIOUS
<1>3. \A n \in 1..Len(a) : Append(a, x)[n] = a[n]
  OBVIOUS
<1>4. Append(a, x)[Len(a) + 1] = x
  OBVIOUS
<1>5. Len(Append(a, x)) = 1 => Len(a) = 0
  BY <1>1
<1>6. Len(Append(a, x)) = 2 => Len(a) = 1
  <2>1. ASSUME NEW n \in Nat, n + 1 = 2 PROVE n = 1
    BY <2>1
  <2>2. Len(a) \in Nat
    BY <1>1
  <2>3. Len(Append(a, x)) = 2 => Len(a) + 1 = 2
    BY <1>1, Zenon
  <2> QED
    BY <2>1, <2>2, <2>3, Zenon
<1>7. Append(a, x) # <<>>
  BY <1>1
<1> QED
  BY <1>2, <1>3, <1>4, <1>5, <1>6, <1>7

\* A delta that is merged without a conflict is known from then on.
LEMMA CalledMore ==
  ASSUME NEW t, NEW k \in Nat, NEW i, NEW call \in GatheredCall, NEW r \in CallPart,
         t[k + 1] = r, r.index = i, Called(t, k, i, call),
         "conflict" \notin {Merged(call, r).id, Merged(call, r).name}
  PROVE  Called(t, k + 1, i, Merged(call, r)) /\ Merged(call, r) \in GatheredCall
<1> DEFINE m == Merged(call, r)
<1>1. \A n \in 1..(k + 1) : n \in 1..k \/ n = k + 1
  OBVIOUS
<1>2. 1..k \subseteq 1..(k + 1) /\ k + 1 \in 1..(k + 1) /\ \A n \in 1..k : n < k + 1
  OBVIOUS
<1>3. CASE r.kind = "piece"
  <2>1. /\ m \in GatheredCall /\ m.id = call.id /\ m.name = call.name
        /\ m.arguments = Append(call.arguments, r.piece)
    BY <1>3, MergedPiece
  <2>2. r = Piece(i, r.piece) /\ r.piece \in Nat /\ ~OpensOf(r, i) /\ PieceOf(r, i)
    BY <1>3, DeltaKinds DEF OpensOf, PieceOf
  <2> HIDE DEF m
  <2>3. Announced(t, k + 1, i, m)
    BY <1>1, <1>2, <2>1, <2>2 DEF Called, Announced
  <2> DEFINE a == call.arguments
  <2>4. a \in Seq(Nat) /\ Len(a) \in Nat
    BY DEF GatheredCall
  <2>5. /\ m.arguments # <<>>
        /\ Len(m.arguments) = 1 => a = <<>> /\ m.arguments[1] = r.piece
        /\ Len(m.arguments) = 2 =>
             Len(a) = 1 /\ m.arguments[1] = a[1] /\ m.arguments[2] = r.piece
    BY <2>1, <2>2, <2>4, AppendedTo
  <2>6. Arrived(t, k, i, a)
    BY DEF Called
  <2> HIDE DEF a
  <2>7. ASSUME Len(m.arguments) = 1
        PROVE  \E n \in 1..(k + 1) :
                 /\ t[n] = Piece(i, m.arguments[1])
                 /\ \A j \in 1..(k + 1) : PieceOf(t[j], i) => j = n
    <3>1. a = <<>> /\ m.arguments[1] = r.piece
      BY <2>5, <2>7
    <3>2. \A n \in 1..k : ~PieceOf(t[n], i)
      BY <2>5, <2>6, <3>1 DEF Arrived
    <3> WITNESS k + 1 \in 1..(k + 1)
    <3> QED
      BY <1>1, <1>2, <2>2, <2>5, <3>1, <3>2
  <2>8. ASSUME Len(m.arguments) = 2
        PROVE  \E l, n \in 1..(k + 1) :
                 /\ l < n /\ t[l] = Piece(i, m.arguments[1])
                 /\ t[n] = Piece(i, m.arguments[2])
                 /\ \A j \in 1..(k + 1) : PieceOf(t[j], i) => j \in {l, n}
    <3>1. Len(a) = 1 /\ m.arguments[1] = a[1] /\ m.arguments[2] = r.piece
      BY <2>5, <2>8
    <3>2. PICK l \in 1..k :
            t[l] = Piece(i, a[1]) /\ \A n \in 1..k : PieceOf(t[n], i) => n = l
      BY <2>6, <3>1 DEF Arrived
    <3> WITNESS l \in 1..(k + 1), k + 1 \in 1..(k + 1)
    <3> QED
      BY <1>1, <1>2, <2>2, <2>5, <3>1, <3>2
  <2>9. Arrived(t, k + 1, i, m.arguments)
    BY <2>5, <2>7, <2>8 DEF Arrived
  <2> QED
    BY <2>1, <2>3, <2>9 DEF Called, m
<1>4. CASE r.kind # "piece"
  <2>1. /\ m \in GatheredCall /\ m.id = r.id /\ m.name = r.name /\ m.arguments = call.arguments
        /\ call.id \in {None, r.id} /\ call.name \in {None, r.name}
    BY <1>4, MergedOpen
  <2>2. /\ r = Open(i, r.id, r.name) /\ r.id # None /\ r.name # None
        /\ OpensOf(r, i) /\ ~PieceOf(r, i)
    BY <1>4, DeltaKinds, WordAssumption DEF OpensOf, PieceOf
  <2> HIDE DEF m
  <2>3. Announced(t, k + 1, i, m)
    <3>1. ASSUME NEW n \in 1..(k + 1), OpensOf(t[n], i)
          PROVE  m.id # None /\ t[n].id = m.id /\ t[n].name = m.name
      <4>1. CASE n = k + 1
        BY <2>1, <2>2, <4>1
      <4>2. CASE n \in 1..k
        <5>1. /\ t[n].id = call.id /\ t[n].name = call.name
              /\ call.id # None /\ call.name # None
          BY <3>1, <4>2 DEF Called, Announced
        <5>2. call.id = r.id /\ call.name = r.name
          BY <2>1, <5>1
        <5> QED
          BY <2>1, <2>2, <5>1, <5>2
      <4> QED
        BY <1>1, <4>1, <4>2
    <3> QED
      BY <1>2, <2>1, <2>2, <3>1 DEF Announced
  <2>4. Arrived(t, k + 1, i, m.arguments)
    BY <1>1, <1>2, <2>1, <2>2 DEF Called, Arrived
  <2> QED
    BY <2>1, <2>3, <2>4 DEF Called, m
<1> QED
  BY <1>3, <1>4

\* The calls that were collected are those of the first k records, each once in
\* the order.
Gathered(t, k, c) ==
  /\ Len(c.order) <= MaxCalls
  /\ \A m, n \in 1..Len(c.order) : c.order[m] = c.order[n] => m = n
  /\ DOMAIN c.calls = {c.order[n] : n \in 1..Len(c.order)}
  /\ \A i \in DOMAIN c.calls : Called(t, k, i, c.calls[i])
  /\ \A n \in 1..k : t[n].kind \in {"open", "piece"} => t[n].index \in DOMAIN c.calls

LEMMA CollectionFields ==
  ASSUME NEW c \in Collection
  PROVE  /\ c.order \in Seq(Nat) /\ DOMAIN c.calls \in SUBSET Nat
         /\ \A i \in DOMAIN c.calls : c.calls[i] \in GatheredCall
         /\ c.finish \in Reason \union {None} /\ c.category \in Category \union {None}
<1>1. PICK D \in SUBSET Nat : c.calls \in [D -> GatheredCall]
  BY DEF Collection
<1> QED
  BY <1>1 DEF Collection

LEMMA NoCallType == NoCall \in GatheredCall /\ NoCall.arguments = <<>>
BY DEF NoCall, GatheredCall

\* A record that is no delta adds nothing to what was gathered.
LEMMA GatheredStays ==
  ASSUME NEW t, NEW k \in Nat, NEW c, Gathered(t, k, c),
         t[k + 1].kind \notin {"open", "piece"}
  PROVE  Gathered(t, k + 1, c)
<1>1. \A n \in 1..(k + 1) : n \in 1..k \/ n = k + 1
  OBVIOUS
<1>2. \A i \in DOMAIN c.calls : Called(t, k + 1, i, c.calls[i])
  <2> SUFFICES ASSUME NEW i \in DOMAIN c.calls PROVE Called(t, k + 1, i, c.calls[i])
    OBVIOUS
  <2>1. Called(t, k, i, c.calls[i])
    BY DEF Gathered
  <2>2. ~OpensOf(t[k + 1], i) /\ ~PieceOf(t[k + 1], i)
    BY DEF OpensOf, PieceOf
  <2> QED
    BY <2>1, <2>2, CalledStays
<1> QED
  BY <1>1, <1>2 DEF Gathered

\* The order with an index that is new
LEMMA Ordered ==
  ASSUME NEW order \in Seq(Nat), NEW i \in Nat,
         \A m, n \in 1..Len(order) : order[m] = order[n] => m = n,
         i \notin {order[n] : n \in 1..Len(order)}
  PROVE  LET more == Append(order, i)
         IN  /\ more \in Seq(Nat) /\ Len(more) = Len(order) + 1
             /\ \A m, n \in 1..Len(more) : more[m] = more[n] => m = n
             /\ {more[n] : n \in 1..Len(more)} = {order[n] : n \in 1..Len(order)} \union {i}
<1> DEFINE more == Append(order, i)
           N == Len(order)
<1>1. more \in Seq(Nat) /\ Len(more) = N + 1 /\ N \in Nat
  OBVIOUS
<1>2. (\A n \in 1..N : more[n] = order[n]) /\ more[N + 1] = i
  OBVIOUS
<1>3. \A n \in 1..(N + 1) : n \in 1..N \/ n = N + 1
  BY <1>1
<1>4. 1..N \subseteq 1..(N + 1) /\ N + 1 \in 1..(N + 1)
  BY <1>1
<1>5. \A m, n \in 1..N : order[m] = order[n] => m = n
  OBVIOUS
<1>6. \A n \in 1..N : order[n] # i
  OBVIOUS
<1> HIDE DEF more, N
<1>7. \A m, n \in 1..(N + 1) : more[m] = more[n] => m = n
  BY <1>2, <1>3, <1>5, <1>6
<1>8. {more[n] : n \in 1..(N + 1)} = {order[n] : n \in 1..N} \union {i}
  BY <1>2, <1>3, <1>4
<1> QED
  BY <1>1, <1>7, <1>8 DEF more, N

\* A delta that the collector accepts is gathered.
LEMMA DeltaGathers ==
  ASSUME NEW t, NEW k \in Nat, NEW c \in Collection, NEW r \in CallPart,
         t[k + 1] = r, Gathered(t, k, c), c.category = None, c.finish = None
  PROVE  /\ Delta(c, r) \in Collection /\ Delta(c, r).finish = None
         /\ Delta(c, r).category = None => Gathered(t, k + 1, Delta(c, r))
<1> DEFINE i == r.index
           known == \E n \in 1..Len(c.order) : c.order[n] = i
           base == IF known THEN c.calls[i] ELSE NoCall
           call == Merged(base, r)
           order == IF known THEN c.order ELSE Append(c.order, i)
           D == DOMAIN c.calls \union {i}
           held == [j \in D |-> IF j = i THEN call ELSE c.calls[j]]
           d == [c EXCEPT !.order = order, !.calls = held]
<1>1. CASE (~known /\ Len(c.order) >= MaxCalls) \/ "conflict" \in {call.id, call.name}
  <2>1. Delta(c, r) = [c EXCEPT !.category = "malformed_response"]
    BY <1>1 DEF Delta, Fail
  <2>2. "malformed_response" \in Category /\ "malformed_response" # None
    BY DEF Category, None
  <2> HIDE DEF i, known, base, call, order, D, held, d
  <2> QED
    BY <2>1, <2>2 DEF Collection
<1>2. CASE ~((~known /\ Len(c.order) >= MaxCalls) \/ "conflict" \in {call.id, call.name})
  <2>1. Delta(c, r) = d
    BY <1>2, Zenon DEF Delta
  <2>2. /\ i \in Nat /\ c.order \in Seq(Nat) /\ Len(c.order) \in Nat
        /\ DOMAIN c.calls \in SUBSET Nat
        /\ \A j \in DOMAIN c.calls : c.calls[j] \in GatheredCall
    BY DeltaKinds, CollectionFields
  <2>3. known <=> i \in DOMAIN c.calls
    BY DEF Gathered
  <2>4. OpensOf(r, i) \/ PieceOf(r, i)
    BY DeltaKinds DEF OpensOf, PieceOf
  <2>5. \A j : j # i => ~OpensOf(r, j) /\ ~PieceOf(r, j)
    BY DEF OpensOf, PieceOf
  <2>6. base \in GatheredCall /\ Called(t, k, i, base)
    <3>1. CASE known
      BY <2>2, <2>3, <3>1 DEF Gathered
    <3>2. CASE ~known
      <4>1. \A n \in 1..k : ~OpensOf(t[n], i) /\ ~PieceOf(t[n], i)
        BY <2>3, <3>2 DEF Gathered, OpensOf, PieceOf
      <4>2. Called(t, k, i, NoCall)
        BY <4>1, CalledNothing
      <4> QED
        BY <3>2, <4>2, NoCallType
    <3> QED
      BY <3>1, <3>2
  <2>7. Called(t, k + 1, i, call) /\ call \in GatheredCall
    <3>1. "conflict" \notin {Merged(base, r).id, Merged(base, r).name}
      BY <1>2
    <3> HIDE DEF base
    <3> QED
      BY <2>6, <3>1, CalledMore
  <2>8. /\ order \in Seq(Nat) /\ Len(order) <= MaxCalls
        /\ \A m, n \in 1..Len(order) : order[m] = order[n] => m = n
        /\ {order[n] : n \in 1..Len(order)} = D
    <3>1. CASE known
      BY <2>2, <2>3, <3>1 DEF Gathered
    <3>2. CASE ~known
      <4>1. i \notin {c.order[n] : n \in 1..Len(c.order)}
        BY <3>2
      <4>2. \A m, n \in 1..Len(c.order) : c.order[m] = c.order[n] => m = n
        BY DEF Gathered
      <4>3. /\ Append(c.order, i) \in Seq(Nat) /\ Len(Append(c.order, i)) = Len(c.order) + 1
            /\ \A m, n \in 1..Len(Append(c.order, i)) :
                 Append(c.order, i)[m] = Append(c.order, i)[n] => m = n
            /\ {Append(c.order, i)[n] : n \in 1..Len(Append(c.order, i))} =
                 {c.order[n] : n \in 1..Len(c.order)} \union {i}
        <5> HIDE DEF i
        <5> QED
          BY <2>2, <4>1, <4>2, Ordered
      <4>4. Len(c.order) + 1 <= MaxCalls
        BY <1>2, <2>2, <3>2, ProviderAssumption
      <4>5. order = Append(c.order, i)
        BY <3>2
      <4>6. DOMAIN c.calls = {c.order[n] : n \in 1..Len(c.order)}
        BY DEF Gathered
      <4> HIDE DEF i, order, known
      <4> QED
        BY <4>3, <4>4, <4>5, <4>6
    <3> QED
      BY <3>1, <3>2
  <2>9. D \in SUBSET Nat /\ held \in [D -> GatheredCall]
    BY <2>2, <2>7
  <2>10. /\ d \in Collection /\ d.order = order /\ d.calls = held
         /\ d.finish = None /\ d.category = None
    <3> HIDE DEF i, known, base, call, order, D, held
    <3>1. d = [c EXCEPT !.order = order, !.calls = held]
      OBVIOUS
    <3> HIDE DEF d
    <3>2. /\ d \in Collection /\ d.order = order /\ d.calls = held
          /\ d.finish = c.finish /\ d.category = c.category
      <4>1. order \in Seq(Nat)
        BY <2>8
      <4>2. held \in UNION {[E -> GatheredCall] : E \in SUBSET Nat}
        BY <2>9
      <4>3. /\ d \in Collection /\ d.order = order /\ d.calls = held
        BY <4>1, <4>2, <3>1 DEF Collection
      <4>4. d.finish = c.finish /\ d.category = c.category
        BY <3>1 DEF Collection
      <4> QED
        BY <4>3, <4>4
    <3> QED
      BY <3>2
  <2>11. \A j \in D : Called(t, k + 1, j, held[j])
    <3> SUFFICES ASSUME NEW j \in D PROVE Called(t, k + 1, j, held[j])
      OBVIOUS
    <3>1. CASE j = i
      BY <2>7, <3>1
    <3>2. CASE j # i
      <4>1. j \in DOMAIN c.calls /\ held[j] = c.calls[j]
        BY <3>2
      <4>2. Called(t, k, j, c.calls[j])
        BY <4>1 DEF Gathered
      <4>3. ~OpensOf(t[k + 1], j) /\ ~PieceOf(t[k + 1], j)
        BY <2>5, <3>2
      <4> QED
        BY <4>1, <4>2, <4>3, CalledStays
    <3> QED
      BY <3>1, <3>2
  <2>12. \A n \in 1..(k + 1) : t[n].kind \in {"open", "piece"} => t[n].index \in D
    <3>1. \A n \in 1..(k + 1) : n \in 1..k \/ n = k + 1
      OBVIOUS
    <3> QED
      BY <3>1 DEF Gathered
  <2>13. DOMAIN held = D
    OBVIOUS
  <2> HIDE DEF i, known, base, call, order, D, held, d
  <2> QED
    BY <2>1, <2>8, <2>10, <2>11, <2>12, <2>13 DEF Gathered
<1> QED
  BY <1>1, <1>2

-----------------------------------------------------------------------------
(* Adapter and collector together *)

\* The first k records of t do not end the response.
Silent(protocol, t, k) == \A n \in 1..k : t[n].kind # LastKind(protocol)

\* The m-th record ended the response, and it gave a reason before.
EndedAt(protocol, t, m, c) ==
  /\ t[m].kind = LastKind(protocol) /\ Silent(protocol, t, m - 1)
  /\ Gathered(t, m, c) /\ c.finish \in Reason
  /\ protocol # "openai" => \E n \in 1..m : t[n] = FinishReason(c.finish)

\* What the adapter's state s says of the first k records of t, if nothing that
\* it has yielded makes the collector fail
Understood(protocol, t, k, s) ==
  LET c == Collected(s.events)
  IN  /\ s \in State /\ c \in Collection
      /\ c.category = None /\ ~s.over =>
           /\ c.finish = None /\ Silent(protocol, t, k) /\ Gathered(t, k, c)
           /\ s.finish # None => \E n \in 1..k : t[n] = FinishReason(s.finish)
      /\ c.category = None /\ s.over => \E m \in 1..k : EndedAt(protocol, t, m, c)

\* What the adapter yields is what the collector gets.
LEMMA CollectedNext ==
  ASSUME NEW s \in State, NEW u \in State, NEW e \in Event,
         u.events = Append(s.events, e)
  PROVE  Collected(u.events) = Collect(Collected(s.events), e)
<1>1. s.events \in Seq(Event)
  BY DEF State
<1> QED
  BY <1>1, CollectedOfAppend

LEMMA CollectedFails ==
  ASSUME NEW c \in Collection, NEW category \in Category
  PROVE  /\ Collect(c, Error(category)) \in Collection
         /\ Collect(c, Error(category)).category # None
<1>1. category # None
  BY DEF Category, None
<1>2. c.category # None => Collect(c, Error(category)) = c
  BY DEF Collect
<1>3. c.category = None => Collect(c, Error(category)) = [c EXCEPT !.category = category]
  BY DEF Collect, Fail, Error
<1> QED
  BY <1>1, <1>2, <1>3 DEF Collection

LEMMA CollectedStuck ==
  ASSUME NEW c, NEW e, c.category # None
  PROVE  Collect(c, e) = c
BY DEF Collect

\* Before the first record
LEMMA UnderstoodFirst ==
  ASSUME NEW protocol, NEW t PROVE Understood(protocol, t, 0, Reading)
<1>1. <<>> \in Seq(Event)
  OBVIOUS
<1>2. Reading \in State /\ Reading.events = <<>> /\ ~Reading.over /\ Reading.finish = None
  BY <1>1 DEF Reading, State
<1>3. <<>> \in [{} -> GatheredCall] /\ {} \in SUBSET Nat /\ <<>> \in Seq(Nat)
  OBVIOUS
<1>4. <<>> \in UNION {[D -> GatheredCall] : D \in SUBSET Nat}
  BY <1>3
<1>5. /\ Collecting \in Collection /\ Collecting.finish = None
      /\ Collecting.order = <<>> /\ Collecting.calls = <<>>
  BY <1>3, <1>4 DEF Collecting, Collection
<1>6. Collected(Reading.events) = Collecting
  BY <1>2, CollectedOfNothing
<1>7. Len(<<>>) = 0 /\ DOMAIN <<>> = {} /\ 1..0 = {}
  OBVIOUS
<1>8. 0 <= MaxCalls
  BY ProviderAssumption
<1>9. Gathered(t, 0, Collecting)
  BY <1>5, <1>7, <1>8 DEF Gathered
<1>10. Silent(protocol, t, 0)
  BY <1>7 DEF Silent
<1> QED
  BY <1>2, <1>5, <1>6, <1>9, <1>10 DEF Understood

LEMMA SilentNext ==
  ASSUME NEW protocol, NEW t, NEW k \in Nat, Silent(protocol, t, k),
         t[k + 1].kind # LastKind(protocol)
  PROVE  Silent(protocol, t, k + 1)
<1>1. \A n \in 1..(k + 1) : n \in 1..k \/ n = k + 1
  OBVIOUS
<1> QED
  BY <1>1 DEF Silent

LEMMA LastIsNoDelta ==
  ASSUME NEW protocol, NEW r, r.kind = LastKind(protocol)
  PROVE  r.kind \notin {"open", "piece"}
BY DEF LastKind

\* One more record
LEMMA UnderstoodNext ==
  ASSUME NEW protocol \in Protocol, NEW t, NEW k \in Nat, t[k + 1] \in Record,
         NEW s, Understood(protocol, t, k, s)
  PROVE  Understood(protocol, t, k + 1, Adapter(protocol, s, t[k + 1]))
<1> DEFINE r == t[k + 1]
           u == Adapter(protocol, s, r)
           c == Collected(s.events)
           d == Collected(u.events)
<1>1. s \in State /\ c \in Collection
  BY DEF Understood
<1>2. /\ IF s.over THEN u = s ELSE Reaction(protocol, r, s, u)
      /\ r = t[k + 1] /\ r \in Record
  BY <1>1, AdapterReacts
<1>3. 1..k \subseteq 1..(k + 1) /\ k + 1 \in 1..(k + 1) /\ k + 1 - 1 = k
  OBVIOUS
<1> HIDE DEF r, u
<1>4. /\ c.category = None /\ ~s.over =>
           /\ c.finish = None /\ Silent(protocol, t, k) /\ Gathered(t, k, c)
           /\ s.finish # None => \E n \in 1..k : t[n] = FinishReason(s.finish)
      /\ c.category = None /\ s.over => \E m \in 1..k : EndedAt(protocol, t, m, c)
  BY DEF Understood
<1> SUFFICES Understood(protocol, t, k + 1, u)
  BY DEF u, r
<1>5. CASE s.over
  <2>1. u = s
    BY <1>2, <1>5
  <2> QED
    BY <1>1, <1>3, <1>4, <1>5, <2>1 DEF Understood
<1>6. CASE ~s.over /\ HandsOn(r, s, u)
  <2>1. u \in State /\ ~u.over /\ u.finish = s.finish /\ u.events = Append(s.events, r)
    BY <1>2, <1>6 DEF Reaction, HandsOn
  <2>2. r \in CallPart /\ r \in Event
    BY <1>6 DEF HandsOn, Event
  <2>3. d = Collect(c, r)
    BY <1>1, <2>1, <2>2, CollectedNext
  <2>4. CASE c.category # None
    <3>1. d = c
      BY <2>3, <2>4, CollectedStuck
    <3> QED
      BY <1>1, <2>1, <2>4, <3>1 DEF Understood
  <2>5. CASE c.category = None
    <3>1. c.finish = None /\ Silent(protocol, t, k) /\ Gathered(t, k, c)
      BY <1>4, <1>6, <2>5
    <3>2. r.kind \in {"open", "piece"}
      BY <2>2, DeltaKinds
    <3>3. Collect(c, r) = Delta(c, r)
      BY <2>5, <3>1, <3>2 DEF Collect
    <3>4. /\ d \in Collection /\ d.finish = None
          /\ d.category = None => Gathered(t, k + 1, d)
      <4> HIDE DEF c
      <4> QED
        BY <1>1, <1>2, <2>2, <2>3, <2>5, <3>1, <3>3, DeltaGathers
    <3>5. Silent(protocol, t, k + 1)
      BY <1>2, <3>1, <3>2, SilentNext, LastIsNoDelta
    <3> HIDE DEF c
    <3> QED
      BY <1>3, <1>4, <1>6, <2>1, <2>5, <3>4, <3>5 DEF Understood
  <2> QED
    BY <2>4, <2>5
<1>7. CASE ~s.over /\ Absorbs(protocol, r, s, u)
  <2>1. /\ u \in State /\ ~u.over /\ u.events = s.events
        /\ u.finish = s.finish \/ r = FinishReason(u.finish)
        /\ r.kind \notin {"open", "piece"} /\ r.kind # LastKind(protocol)
    BY <1>2, <1>7 DEF Reaction, Absorbs
  <2>2. d = c
    BY <2>1
  <2> HIDE DEF c, d
  <2>3. c.category = None => Gathered(t, k + 1, c) /\ Silent(protocol, t, k + 1)
    BY <1>2, <1>4, <1>7, <2>1, GatheredStays, SilentNext
  <2> USE DEF c, d
  <2>4. c.category = None /\ u.finish # None =>
          \E n \in 1..(k + 1) : t[n] = FinishReason(u.finish)
    BY <1>2, <1>3, <1>4, <1>7, <2>1
  <2> QED
    BY <1>1, <1>4, <1>7, <2>1, <2>2, <2>3, <2>4 DEF Understood
<1>8. CASE ~s.over /\ Fails(s, u)
  <2>1. PICK category \in Category : u.events = Append(s.events, Error(category))
    BY <1>8 DEF Fails
  <2>2. Error(category) \in Event /\ u \in State /\ u.over
    BY <1>2, <1>8 DEF Error, Event, Reaction, Fails
  <2>3. d = Collect(c, Error(category))
    BY <1>1, <2>1, <2>2, CollectedNext
  <2>4. d \in Collection /\ d.category # None
    BY <1>1, <2>3, CollectedFails
  <2> QED
    BY <2>2, <2>4 DEF Understood
<1>9. CASE ~s.over /\ Ends(protocol, r, s, u)
  <2>1. PICK reason \in Reason : /\ u.events = Append(s.events, Completed(reason))
                                 /\ protocol # "openai" => reason = s.finish
    BY <1>9 DEF Ends
  <2>2. Completed(reason) \in Event /\ u \in State /\ u.over /\ r.kind = LastKind(protocol)
    BY <1>2, <1>9 DEF Completed, Event, Reaction, Ends
  <2>3. d = Collect(c, Completed(reason))
    BY <1>1, <2>1, <2>2, CollectedNext
  <2>4. CASE c.category # None
    <3>1. d = c
      BY <2>3, <2>4, CollectedStuck
    <3> QED
      BY <1>1, <2>2, <2>4, <3>1 DEF Understood
  <2>5. CASE c.category = None
    <3>1. /\ c.finish = None /\ Silent(protocol, t, k) /\ Gathered(t, k, c)
          /\ s.finish # None => \E n \in 1..k : t[n] = FinishReason(s.finish)
      BY <1>4, <1>9, <2>5
    <3>2. d = [c EXCEPT !.finish = reason]
      BY <2>3, <2>5, <3>1 DEF Collect, Completed
    <3>3. /\ d \in Collection /\ d.finish = reason
          /\ d.order = c.order /\ d.calls = c.calls
      BY <1>1, <3>2 DEF Collection
    <3>4. Gathered(t, k + 1, c)
      BY <1>2, <2>2, <3>1, LastIsNoDelta, GatheredStays
    <3>5. Gathered(t, k + 1, d)
      BY <3>3, <3>4 DEF Gathered
    <3>6. reason # None
      BY DEF Reason, None
    <3>7. EndedAt(protocol, t, k + 1, d)
      BY <1>2, <1>3, <2>1, <2>2, <3>1, <3>3, <3>5, <3>6 DEF EndedAt
    <3> QED
      BY <1>3, <2>2, <3>3, <3>7 DEF Understood
  <2> QED
    BY <2>4, <2>5
<1> QED
  BY <1>2, <1>5, <1>6, <1>7, <1>8, <1>9 DEF Reaction

\* After the last record
LEMMA UnderstoodAll ==
  ASSUME NEW protocol \in Protocol, NEW t \in Seq(Record)
  PROVE  Understood(protocol, t, Len(t), Read(protocol, t))
<1> DEFINE N == Len(t)
<1>1. N \in Nat /\ \A n \in 1..N : t[n] \in Record
  OBVIOUS
<1>2. PICK f : Reads(f, protocol, t, N) /\ Read(protocol, t) = f[N]
  BY <1>1, ReadComputed
<1> HIDE DEF N
<1> DEFINE T == {k \in 0..N : Understood(protocol, t, k, f[k])}
<1>3. \A k \in 0..N : f[k] = ReadStep(protocol, t, f, k)
  BY <1>2 DEF Reads
<1>4. 0 \in T
  <2>1. f[0] = Reading
    BY <1>1, <1>3 DEF ReadStep
  <2> QED
    BY <1>1, <2>1, UnderstoodFirst
<1>5. ASSUME NEW k \in 0..(N - 1), k \in T PROVE k + 1 \in T
  <2>1. k \in Nat /\ k + 1 \in 0..N /\ k + 1 \in 1..N /\ k + 1 # 0 /\ k + 1 - 1 = k
    BY <1>1, <1>5
  <2>2. f[k + 1] = Adapter(protocol, f[k], t[k + 1])
    BY <1>3, <2>1 DEF ReadStep
  <2>3. Understood(protocol, t, k, f[k]) /\ t[k + 1] \in Record
    BY <1>1, <1>5, <2>1
  <2>4. Understood(protocol, t, k + 1, f[k + 1])
    BY <2>1, <2>2, <2>3, UnderstoodNext
  <2> QED
    BY <2>1, <2>4
<1>6. 0..N \subseteq T
  <2> HIDE DEF T
  <2> QED
    BY <1>1, <1>4, <1>5, UpTo
<1>7. N \in 0..N
  BY <1>1
<1> QED
  BY <1>2, <1>6, <1>7 DEF N

\* A turn that is not refused was ended by its provider.
LEMMA TurnEnded ==
  ASSUME NEW protocol \in Protocol, NEW t \in Seq(Record),
         NEW c, c = Collected(Adapted(protocol, t))
  PROVE  /\ c \in Collection
         /\ c.category = None => \E m \in 1..Len(t) : EndedAt(protocol, t, m, c)
<1> DEFINE s == Read(protocol, t)
<1>1. Understood(protocol, t, Len(t), s)
  BY UnderstoodAll
<1>2. Adapted(protocol, t) = IF s.over THEN s.events ELSE Malformed(s).events
  BY DEF Adapted, Read
<1> HIDE DEF s
<1>3. CASE s.over
  BY <1>1, <1>2, <1>3 DEF Understood
<1>4. CASE ~s.over
  <2>1. s \in State /\ Collected(s.events) \in Collection
    BY <1>1 DEF Understood
  <2>2. Malformed(s) \in State /\ Fails(s, Malformed(s))
    BY <2>1, MalformedStops
  <2>3. PICK category \in Category : Malformed(s).events = Append(s.events, Error(category))
    BY <2>2 DEF Fails
  <2>4. Error(category) \in Event
    BY DEF Error, Event
  <2>5. c = Collect(Collected(s.events), Error(category))
    BY <1>2, <1>4, <2>1, <2>2, <2>3, <2>4, CollectedNext
  <2> QED
    BY <2>1, <2>5, CollectedFails
<1> QED
  BY <1>3, <1>4

\* The transport adds nothing to the records but an error at their end.
LEMMA TransportRecords ==
  ASSUME NEW stream \in [records : Seq(Record), ending : Endings]
  PROVE  LET t == Transport(stream)
             N == Len(stream.records)
         IN  /\ t \in Seq(Record) /\ N \in Nat
             /\ \A n \in 1..N : t[n] = stream.records[n]
             /\ \A n \in 1..Len(t) : n \notin 1..N => t[n].kind = "error"
<1> DEFINE error == Error(StreamError(stream.ending))
           records == stream.records
<1>1. records \in Seq(Record)
  OBVIOUS
<1>2. StreamError(stream.ending) \in Category
  BY DEF StreamError, Category
<1>3. error \in Record /\ error.kind = "error"
  BY <1>2 DEF Error, Record
<1>4. Transport(stream) = records \/ Transport(stream) = Append(records, error)
  BY DEF Transport
<1> HIDE DEF error, records
<1>5. /\ Append(records, error) \in Seq(Record) /\ Len(records) \in Nat
      /\ Len(Append(records, error)) = Len(records) + 1
      /\ \A n \in 1..Len(records) : Append(records, error)[n] = records[n]
      /\ Append(records, error)[Len(records) + 1] = error
  BY <1>1, <1>3
<1>6. \A n \in 1..(Len(records) + 1) : n \notin 1..Len(records) => n = Len(records) + 1
  BY <1>5
<1>7. CASE Transport(stream) = records
  BY <1>1, <1>5, <1>7 DEF records
<1>8. CASE Transport(stream) = Append(records, error)
  <2> DEFINE t == Append(records, error)
  <2>1. \A n \in 1..Len(t) : n \notin 1..Len(records) => t[n].kind = "error"
    BY <1>3, <1>5, <1>6
  <2> QED
    BY <1>5, <1>8, <2>1 DEF records
<1> QED
  BY <1>4, <1>7, <1>8

\* What was heard are the records up to the first that ends the response.
LEMMA HeardIs ==
  ASSUME NEW protocol, NEW records \in Seq(Record), NEW m \in 1..Len(records),
         records[m].kind = LastKind(protocol), Silent(protocol, records, m - 1)
  PROVE  /\ Len(Heard(protocol, records)) = m
         /\ \A n \in 1..m : Heard(protocol, records)[n] = records[n]
<1> DEFINE ends == {i \in 1..Len(records) : records[i].kind = LastKind(protocol)}
           first == CHOOSE i \in ends : \A j \in ends : i <= j
<1>1. m \in ends /\ \A j \in ends : m <= j
  <2>1. ASSUME NEW j \in ends, ~(m <= j) PROVE FALSE
    <3>1. j \in 1..(m - 1)
      BY <2>1
    <3> QED
      BY <3>1 DEF Silent
  <2> QED
    BY <2>1
<1>2. ends \subseteq Nat
  OBVIOUS
<1>3. Heard(protocol, records) = IF ends = {} THEN <<>> ELSE Before(records, 1 + first)
  BY DEF Heard, LastKind
<1> HIDE DEF ends
<1>4. first = m
  <2>1. first \in ends /\ \A j \in ends : first <= j
    BY <1>1
  <2> HIDE DEF first
  <2>2. first <= m /\ m <= first /\ first \in Nat /\ m \in Nat
    BY <1>1, <1>2, <2>1
  <2> QED
    BY <2>2
<1> HIDE DEF first
<1>5. Heard(protocol, records) = SubSeq(records, 1, m)
  BY <1>1, <1>3, <1>4 DEF Before
<1> QED
  BY <1>5

\* f enumerates S, each element once.
Enumerates(f, n, S) ==
  /\ \A i, j \in 1..n : f[i] = f[j] => i = j
  /\ \A i \in 1..n : f[i] \in S
  /\ \A x \in S : \E i \in 1..n : f[i] = x

\* What is enumerated without repetition is counted.
LEMMA Enumerated ==
  ASSUME NEW n \in Nat, NEW f, NEW S, Enumerates(f, n, S)
  PROVE  Cardinality(S) = n
<1> DEFINE g == [i \in 1..n |-> f[i]]
<1>1. g \in [1..n -> S]
  BY DEF Enumerates
<1>2. g \in Bijection(1..n, S)
  BY <1>1 DEF Enumerates, Bijection, Injection, Surjection, IsInjective
<1>3. ExistsBijection(1..n, S)
  BY <1>2 DEF ExistsBijection
<1> QED
  BY <1>3, FS_CountingElements

\* A call of a turn that is not refused, as it was heard
LEMMA WholeWhenCalled ==
  ASSUME NEW heard, NEW t, NEW m \in Nat, Len(heard) = m,
         \A n \in 1..m : heard[n] = t[n],
         NEW i, NEW call, Called(t, m, i, call),
         call.id # None, call.name \in Tools, call.arguments = Document
  PROVE  IsWhole(call, i, heard)
<1>1. /\ Len(call.arguments) = 2 /\ call.arguments[1] = 1 /\ call.arguments[2] = 2
  BY DEF Document
<1>2. PICK j, l \in 1..m :
        /\ j < l /\ t[j] = Piece(i, 1) /\ t[l] = Piece(i, 2)
        /\ \A n \in 1..m : PieceOf(t[n], i) => n \in {j, l}
  BY <1>1 DEF Called, Arrived
<1>3. \E n \in 1..Len(heard) : heard[n] = Open(i, call.id, call.name)
  BY DEF Called, Announced
<1>4. \A n \in 1..Len(heard) : heard[n].kind = "open" /\ heard[n].index = i
        => heard[n].id = call.id /\ heard[n].name = call.name
  BY DEF Called, Announced, OpensOf
<1>5. \A n \in 1..Len(heard) : heard[n].kind = "piece" /\ heard[n].index = i => n \in {j, l}
  BY <1>2 DEF PieceOf
<1> QED
  BY <1>2, <1>3, <1>4, <1>5 DEF IsWhole

\* What the tail of collectTurn has checked
LEMMA ConcludedOk ==
  ASSUME NEW c \in Collection, Concluded(c) = "ok"
  PROVE  /\ c.category = None /\ c.finish \notin {"length", "content_filter"}
         /\ \A i \in DOMAIN c.calls : /\ c.calls[i].id # None
                                      /\ c.calls[i].name \in Tools
                                      /\ c.calls[i].arguments = Document
         /\ \A i, j \in DOMAIN c.calls : c.calls[i].id = c.calls[j].id => i = j
<1>1. c.category \in Category \union {None}
  BY CollectionFields
<1>2. c.category = None
  BY <1>1 DEF Concluded, Category, None
<1>3. c.finish \notin {"length", "content_filter"}
  BY <1>2 DEF Concluded
<1> QED
  BY <1>2, <1>3 DEF Concluded

\* Whatever records arrive, in whatever order, and however the stream ends: tool
\* calls reach the loop only from a response that its provider ended, and then
\* exactly those it announced, whole and told apart (sse.ts, transport.ts, the
\* adapters, collectTurn).
THEOREM WholeCallsFromAnyStream ==
  ASSUME NEW protocol \in Protocol,
         NEW stream \in [records : Seq(Record), ending : Endings]
  PROVE  HandsOverWholeCalls(protocol, stream)
<1> DEFINE t == Transport(stream)
           c == Collected(Adapted(protocol, t))
           turn == Turned(protocol, stream)
           records == stream.records
           heard == Heard(protocol, records)
           Opened == {heard[i].index : i \in {j \in 1..Len(heard) : heard[j].kind = "open"}}
           N == Len(c.order)
<1> SUFFICES ASSUME turn.category = "ok"
             PROVE  /\ heard # <<>>
                    /\ protocol # "openai" =>
                         FinishReason("stop") \in {heard[i] : i \in 1..Len(heard)}
                    /\ Len(turn.calls) = Cardinality(Opened) /\ Len(turn.calls) <= MaxCalls
                    /\ Cardinality({turn.calls[n].id : n \in 1..Len(turn.calls)}) =
                         Len(turn.calls)
                    /\ \A index \in Opened : \E n \in 1..Len(turn.calls) :
                         IsWhole(turn.calls[n], index, heard)
  BY DEF HandsOverWholeCalls
<1>1. turn = [category |-> Concluded(c),
              calls |-> IF Concluded(c) # "ok" THEN <<>>
                        ELSE [n \in 1..N |-> c.calls[c.order[n]]]]
  BY DEF Turned, Collected
<1>2. Concluded(c) = "ok" /\ turn.calls = [n \in 1..N |-> c.calls[c.order[n]]]
  BY <1>1
<1>3. /\ t \in Seq(Record) /\ Len(records) \in Nat /\ records \in Seq(Record)
      /\ \A n \in 1..Len(records) : t[n] = records[n]
      /\ \A n \in 1..Len(t) : n \notin 1..Len(records) => t[n].kind = "error"
  BY TransportRecords
<1>4. /\ c \in Collection
      /\ c.category = None => \E m \in 1..Len(t) : EndedAt(protocol, t, m, c)
  BY <1>3, TurnEnded
<1> HIDE DEF t, turn, heard, c, records
<1>5. /\ c.category = None /\ c.finish \notin {"length", "content_filter"}
      /\ \A i \in DOMAIN c.calls : /\ c.calls[i].id # None
                                   /\ c.calls[i].name \in Tools
                                   /\ c.calls[i].arguments = Document
      /\ \A i, j \in DOMAIN c.calls : c.calls[i].id = c.calls[j].id => i = j
  BY <1>2, <1>4, ConcludedOk
<1>6. PICK m \in 1..Len(t) : EndedAt(protocol, t, m, c)
  BY <1>4, <1>5
<1>7. /\ t[m].kind = LastKind(protocol) /\ Silent(protocol, t, m - 1) /\ Gathered(t, m, c)
      /\ c.finish = "stop"
      /\ protocol # "openai" => \E n \in 1..m : t[n] = FinishReason("stop")
  BY <1>5, <1>6 DEF EndedAt, Reason
<1>8. m \in 1..Len(records) /\ m \in Nat
  <2>1. t[m].kind # "error"
    BY <1>7 DEF LastKind
  <2> QED
    BY <1>3, <2>1
<1>9. /\ records[m].kind = LastKind(protocol) /\ Silent(protocol, records, m - 1)
      /\ \A n \in 1..m : t[n] = records[n]
  <2>1. 1..m \subseteq 1..Len(records) /\ 1..(m - 1) \subseteq 1..Len(records)
    BY <1>3, <1>8
  <2> QED
    BY <1>3, <1>7, <1>8, <2>1 DEF Silent
<1>10. Len(heard) = m /\ \A n \in 1..m : heard[n] = t[n]
  <2>1. Len(heard) = m /\ \A n \in 1..m : heard[n] = records[n]
    BY <1>3, <1>8, <1>9, HeardIs DEF heard
  <2> QED
    BY <1>9, <2>1
<1>11. /\ N \in Nat /\ N <= MaxCalls
       /\ \A i, j \in 1..N : c.order[i] = c.order[j] => i = j
       /\ DOMAIN c.calls = {c.order[n] : n \in 1..N}
       /\ \A i \in DOMAIN c.calls : Called(t, m, i, c.calls[i])
       /\ \A n \in 1..m : t[n].kind \in {"open", "piece"} => t[n].index \in DOMAIN c.calls
  <2>1. c.order \in Seq(Nat)
    BY <1>4, CollectionFields
  <2> QED
    BY <1>7, <2>1 DEF Gathered
<1>12. Opened = DOMAIN c.calls
  <2>1. ASSUME NEW i \in DOMAIN c.calls PROVE i \in Opened
    <3>1. Called(t, m, i, c.calls[i]) /\ c.calls[i].id # None
      BY <1>5, <1>11
    <3>2. PICK n \in 1..m : t[n] = Open(i, c.calls[i].id, c.calls[i].name)
      BY <3>1 DEF Called, Announced
    <3>3. n \in 1..Len(heard) /\ heard[n].kind = "open" /\ heard[n].index = i
      BY <1>10, <3>2 DEF Open
    <3> QED
      BY <3>3
  <2>2. ASSUME NEW i \in Opened PROVE i \in DOMAIN c.calls
    <3>1. PICK n \in 1..Len(heard) : heard[n].kind = "open" /\ heard[n].index = i
      OBVIOUS
    <3> QED
      BY <1>10, <1>11, <3>1
  <2> QED
    BY <2>1, <2>2
<1> HIDE DEF Opened, N
<1>13. Cardinality(Opened) = N
  <2>1. Enumerates(c.order, N, Opened)
    BY <1>11, <1>12 DEF Enumerates
  <2> QED
    BY <1>11, <2>1, Enumerated
<1>14. Len(turn.calls) = N /\ \A n \in 1..N : turn.calls[n] = c.calls[c.order[n]]
  BY <1>2, <1>11
<1>15. Cardinality({turn.calls[n].id : n \in 1..N}) = N
  <2> DEFINE id == [n \in 1..N |-> c.calls[c.order[n]].id]
  <2>1. \A i, j \in 1..N : id[i] = id[j] => i = j
    BY <1>5, <1>11
  <2> DEFINE ids == {turn.calls[n].id : n \in 1..N}
  <2>2. ids = {id[n] : n \in 1..N}
    BY <1>14
  <2> HIDE DEF id, ids
  <2>e. Enumerates(id, N, ids)
    BY <2>1, <2>2 DEF Enumerates
  <2>3. Cardinality(ids) = N
    BY <1>11, <2>e, Enumerated
  <2> QED
    BY <2>3 DEF ids
<1>16. ASSUME NEW index \in Opened
       PROVE  \E n \in 1..N : IsWhole(turn.calls[n], index, heard)
  <2>1. index \in DOMAIN c.calls
    BY <1>12
  <2>2. PICK n \in 1..N : c.order[n] = index
    BY <1>11, <2>1
  <2>3. IsWhole(c.calls[index], index, heard)
    BY <1>5, <1>8, <1>10, <1>11, <2>1, WholeWhenCalled
  <2> QED
    BY <1>14, <2>2, <2>3
<1>17. heard # <<>>
  BY <1>8, <1>10
<1>18. protocol # "openai" => FinishReason("stop") \in {heard[i] : i \in 1..Len(heard)}
  BY <1>7, <1>10
<1> QED
  BY <1>11, <1>13, <1>14, <1>15, <1>16, <1>17, <1>18

-----------------------------------------------------------------------------
(* A response that arrives in full *)

LEMMA ReadOfNothing == ASSUME NEW protocol PROVE Read(protocol, <<>>) = Reading
<1>1. Len(<<>>) = 0
  OBVIOUS
<1>2. PICK f : Reads(f, protocol, <<>>, 0) /\ Read(protocol, <<>>) = f[0]
  BY <1>1, ReadComputed
<1> QED
  BY <1>2 DEF Reads, ReadStep

\* One more record is read on top of the others.
LEMMA ReadOfAppend ==
  ASSUME NEW protocol, NEW S, NEW items \in Seq(S), NEW r \in S
  PROVE  Read(protocol, Append(items, r)) = Adapter(protocol, Read(protocol, items), r)
<1> DEFINE n == Len(items)
           more == Append(items, r)
<1>1. /\ n \in Nat /\ Len(more) = n + 1 /\ more[n + 1] = r
      /\ \A i \in 1..n : more[i] = items[i]
  OBVIOUS
<1> HIDE DEF more, n
<1>2. PICK f : Reads(f, protocol, items, n) /\ Read(protocol, items) = f[n]
  BY <1>1, ReadComputed DEF n
<1>3. PICK g : Reads(g, protocol, more, n + 1) /\ Read(protocol, more) = g[n + 1]
  <2>1. Len(more) \in Nat
    BY <1>1
  <2> QED
    BY <1>1, <2>1, ReadComputed
<1> DEFINE T == {k \in 0..n : f[k] = g[k]}
<1>4. \A k \in 0..n : /\ f[k] = ReadStep(protocol, items, f, k)
                      /\ g[k] = ReadStep(protocol, more, g, k)
  <2>1. \A k \in 0..n : k \in 0..(n + 1)
    BY <1>1
  <2> QED
    BY <1>2, <1>3, <2>1 DEF Reads
<1>5. 0 \in T
  BY <1>1, <1>4 DEF ReadStep
<1>6. ASSUME NEW k \in 0..(n - 1), k \in T PROVE k + 1 \in T
  <2>1. k + 1 \in 0..n /\ k + 1 # 0 /\ k + 1 - 1 = k /\ k + 1 \in 1..n
    BY <1>1, <1>6
  <2>2. ReadStep(protocol, items, f, k + 1) = ReadStep(protocol, more, g, k + 1)
    BY <1>1, <1>6, <2>1 DEF ReadStep
  <2> QED
    BY <1>4, <2>1, <2>2
<1>7. f[n] = g[n]
  <2>1. 0..n \subseteq T
    <3> HIDE DEF T
    <3> QED
      BY <1>1, <1>5, <1>6, UpTo
  <2> QED
    BY <1>1, <2>1
<1>8. g[n + 1] = ReadStep(protocol, more, g, n + 1) /\ n + 1 # 0 /\ n + 1 - 1 = n
  <2>1. n + 1 \in 0..(n + 1) /\ n + 1 # 0 /\ n + 1 - 1 = n
    BY <1>1
  <2> QED
    BY <1>3, <2>1 DEF Reads
<1> QED
  BY <1>1, <1>2, <1>3, <1>7, <1>8 DEF ReadStep, more

\* The records of the first n calls of a response
BodyStep(protocol, said, f, n) ==
  IF n = 0 THEN IF protocol = "anthropic" THEN <<Signal("start")>> ELSE <<>>
  ELSE f[n - 1] \o CallRecords(protocol, said[n], n)

Bodies(f, protocol, said, n) == f = [k \in 0..n |-> BodyStep(protocol, said, f, k)]

\* The records of the calls, as a recursive function, exist ...
LEMMA BodyExists ==
  ASSUME NEW protocol, NEW said, NEW n \in Nat
  PROVE  \E f : Bodies(f, protocol, said, n)
<1> DEFINE T == {k \in 0..n : \E f : Bodies(f, protocol, said, k)}
<1>1. 0 \in T
  <2> DEFINE f == [k \in 0..0 |-> BodyStep(protocol, said, <<>>, 0)]
  <2>1. f = [k \in 0..0 |-> BodyStep(protocol, said, f, k)]
    BY DEF BodyStep
  <2> QED
    BY <2>1 DEF Bodies
<1>2. ASSUME NEW m \in 0..(n - 1), m \in T PROVE m + 1 \in T
  <2>1. PICK f : Bodies(f, protocol, said, m)
    BY <1>2
  <2> DEFINE g == [k \in 0..(m + 1) |->
                     IF k = m + 1 THEN BodyStep(protocol, said, f, k) ELSE f[k]]
  <2>2. ASSUME NEW k \in 0..(m + 1) PROVE g[k] = BodyStep(protocol, said, g, k)
    <3>1. k # 0 => k - 1 \in 0..(m + 1) /\ k - 1 # m + 1
      BY <1>2
    <3>2. k # 0 => g[k - 1] = f[k - 1]
      BY <3>1
    <3>3. BodyStep(protocol, said, g, k) = BodyStep(protocol, said, f, k)
      BY <3>2 DEF BodyStep
    <3>4. k # m + 1 => k \in 0..m
      BY <1>2
    <3>5. k # m + 1 => f[k] = BodyStep(protocol, said, f, k)
      BY <2>1, <3>4 DEF Bodies
    <3> QED
      BY <3>3, <3>5
  <2>3. Bodies(g, protocol, said, m + 1)
    BY <2>2 DEF Bodies
  <2> QED
    BY <1>2, <2>3
<1>3. 0..n \subseteq T
  <2> HIDE DEF T
  <2> QED
    BY <1>1, <1>2, UpTo
<1> QED
  BY <1>3

\* ... and are what is on the wire before the end of the response.
LEMMA WireComputed ==
  ASSUME NEW protocol, NEW response, Len(response.calls) \in Nat
  PROVE  \E f : /\ Bodies(f, protocol, response.calls, Len(response.calls))
                /\ Wire(protocol, response) =
                     f[Len(response.calls)] \o Ended(protocol, response.reason)
<1> DEFINE said == response.calls
           f == CHOOSE g : Bodies(g, protocol, said, Len(said))
<1>1. Bodies(f, protocol, said, Len(said))
  <2>1. \E g : Bodies(g, protocol, said, Len(said))
    BY BodyExists
  <2> QED
    BY <2>1, Zenon
<1>2. Wire(protocol, response) = f[Len(said)] \o Ended(protocol, response.reason)
  BY Zenon DEF Wire, Bodies, BodyStep
<1> HIDE DEF f
<1> QED
  BY <1>1, <1>2

\* The collector after the first n calls, of the last of which doc has come
Holding(said, n, doc) ==
  [order |-> [k \in 1..n |-> k],
   calls |-> [i \in 1..n |-> [id |-> said[i].id, name |-> said[i].name,
                              arguments |-> IF i = n THEN doc ELSE Document]],
   finish |-> None, category |-> None]

Saying == [id : CallId, name : ToolName]

\* Before the first call
LEMMA HoldingNothing == ASSUME NEW said, NEW doc PROVE Holding(said, 0, doc) = Collecting
<1>1. 1..0 = {}
  OBVIOUS
<1>2. [k \in 1..0 |-> k] = <<>>
  OBVIOUS
<1>3. [i \in 1..0 |-> [id |-> said[i].id, name |-> said[i].name,
                        arguments |-> IF i = 0 THEN doc ELSE Document]] = <<>>
  OBVIOUS
<1> QED
  BY <1>2, <1>3 DEF Holding, Collecting

LEMMA HoldingOrder ==
  ASSUME NEW n \in Nat
  PROVE  LET order == [k \in 1..n |-> k]
         IN  /\ order \in Seq(Nat) /\ Len(order) = n
             /\ \A k \in 1..n : order[k] = k
             /\ Append(order, n + 1) = [k \in 1..(n + 1) |-> k]
<1> DEFINE order == [k \in 1..n |-> k]
<1>1. order \in Seq(Nat) /\ Len(order) = n /\ \A k \in 1..n : order[k] = k
  OBVIOUS
<1>2. Append(order, n + 1) = [k \in 1..(n + 1) |-> k]
  OBVIOUS
<1> QED
  BY <1>1, <1>2

\* The record that opens the next call: it is held, unless the calls are too many.
LEMMA OpenCollected ==
  ASSUME NEW said, NEW n \in Nat, said[n + 1] \in Saying
  PROVE  LET d == Collect(Holding(said, n, Document),
                          Open(n + 1, said[n + 1].id, said[n + 1].name))
         IN  /\ n < MaxCalls => d = Holding(said, n + 1, <<>>)
             /\ n >= MaxCalls => d = Fail(Holding(said, n, Document), "malformed_response")
<1> DEFINE c == Holding(said, n, Document)
           e == Open(n + 1, said[n + 1].id, said[n + 1].name)
           call == [id |-> said[n + 1].id, name |-> said[n + 1].name, arguments |-> <<>>]
<1>1. said[n + 1].id \in CallId /\ said[n + 1].name \in ToolName
  BY DEF Saying
<1>2. /\ c.order = [k \in 1..n |-> k] /\ DOMAIN c.calls = 1..n
      /\ c.finish = None /\ c.category = None
  BY DEF Holding
<1>3. Len(c.order) = n /\ ~ \E k \in 1..Len(c.order) : c.order[k] = n + 1
  BY <1>2, HoldingOrder
<1>4. e.kind = "open" /\ e.index = n + 1
  BY DEF Open
<1>5. Merged(NoCall, e) = call
  BY DEF Merged, NoCall, Open
<1>6. "conflict" \notin {call.id, call.name}
  BY <1>1, WordAssumption
<1>7. Collect(c, e) = Delta(c, e)
  BY <1>2, <1>4 DEF Collect
<1>8. n >= MaxCalls => Delta(c, e) = Fail(c, "malformed_response")
  BY <1>3, <1>4 DEF Delta
<1>9. ASSUME n < MaxCalls PROVE Delta(c, e) = Holding(said, n + 1, <<>>)
  <2>1. ~(n >= MaxCalls)
    BY <1>9, ProviderAssumption
  <2> DEFINE held == [j \in DOMAIN c.calls \union {n + 1} |->
                         IF j = n + 1 THEN call ELSE c.calls[j]]
  <2>2. Delta(c, e) = [c EXCEPT !.order = Append(c.order, n + 1), !.calls = held]
    BY <1>3, <1>4, <1>5, <1>6, <2>1 DEF Delta
  <2>3. Append(c.order, n + 1) = [k \in 1..(n + 1) |-> k]
    BY <1>2, HoldingOrder
  <2>4. held = [i \in 1..(n + 1) |->
                   [id |-> said[i].id, name |-> said[i].name,
                    arguments |-> IF i = n + 1 THEN <<>> ELSE Document]]
    <3>1. DOMAIN c.calls \union {n + 1} = 1..(n + 1)
      BY <1>2
    <3>2. ASSUME NEW i \in 1..(n + 1), i # n + 1
          PROVE  c.calls[i] = [id |-> said[i].id, name |-> said[i].name,
                               arguments |-> Document]
      <4>1. i \in 1..n
        BY <3>2
      <4> QED
        BY <4>1 DEF Holding
    <3> QED
      BY <3>1, <3>2
  <2> HIDE DEF held
  <2> QED
    BY <2>2, <2>3, <2>4 DEF Holding
<1> QED
  BY <1>7, <1>8, <1>9

\* A piece of the last call is appended to its arguments.
LEMMA PieceCollected ==
  ASSUME NEW said, NEW n \in Nat, n # 0, said[n] \in Saying, NEW doc \in Seq(Nat),
         NEW x \in Nat
  PROVE  Collect(Holding(said, n, doc), Piece(n, x)) = Holding(said, n, Append(doc, x))
<1> DEFINE c == Holding(said, n, doc)
           e == Piece(n, x)
           more == Append(doc, x)
           call == [id |-> said[n].id, name |-> said[n].name, arguments |-> more]
<1>1. said[n].id \in CallId /\ said[n].name \in ToolName
  BY DEF Saying
<1>2. /\ c.order = [k \in 1..n |-> k] /\ DOMAIN c.calls = 1..n
      /\ c.finish = None /\ c.category = None
      /\ c.calls[n] = [id |-> said[n].id, name |-> said[n].name, arguments |-> doc]
  BY DEF Holding
<1>3. n \in 1..Len(c.order) /\ c.order[n] = n
  BY <1>2, HoldingOrder
<1>4. e.kind = "piece" /\ e.index = n /\ e.piece = x
  BY DEF Piece
<1> HIDE DEF more
<1>5. Merged(c.calls[n], e) = call
  <2> DEFINE base == [id |-> said[n].id, name |-> said[n].name, arguments |-> doc]
  <2>1. Merged(base, e) = [base EXCEPT !.arguments = Append(doc, x)]
    BY <1>4 DEF Merged
  <2> QED
    BY <1>2, <2>1 DEF more
<1>6. "conflict" \notin {call.id, call.name}
  BY <1>1, WordAssumption
<1>7. Collect(c, e) = Delta(c, e)
  BY <1>2, <1>4 DEF Collect
<1> DEFINE held == [j \in DOMAIN c.calls \union {n} |->
                       IF j = n THEN call ELSE c.calls[j]]
<1>8. Delta(c, e) = [c EXCEPT !.order = c.order, !.calls = held]
  BY <1>3, <1>4, <1>5, <1>6 DEF Delta
<1>9. held = [i \in 1..n |->
                 [id |-> said[i].id, name |-> said[i].name,
                  arguments |-> IF i = n THEN more ELSE Document]]
  <2>1. DOMAIN c.calls \union {n} = 1..n
    BY <1>2
  <2>2. ASSUME NEW i \in 1..n, i # n
        PROVE  c.calls[i] = [id |-> said[i].id, name |-> said[i].name,
                             arguments |-> Document]
    BY <2>2 DEF Holding
  <2> QED
    BY <2>1, <2>2
<1> HIDE DEF held
<1>10. Delta(c, e) = Holding(said, n, more)
  BY <1>2, <1>8, <1>9 DEF Holding
<1> QED
  BY <1>7, <1>10 DEF more
-----------------------------------------------------------------------------
\* The adapter between two records of a response
Listening(protocol, s, blocks) ==
  /\ s \in State /\ ~s.over /\ s.started = (protocol = "anthropic")
  /\ s.blocks = (IF protocol = "anthropic" THEN blocks ELSE {}) /\ s.finish = None

LEMMA StartHeard ==
  /\ Listening("anthropic", Adapter("anthropic", Reading, Signal("start")), {})
  /\ Adapter("anthropic", Reading, Signal("start")).events = <<>>
<1>1. <<>> \in Seq(Event)
  OBVIOUS
<1>2. Adapter("anthropic", Reading, Signal("start")) = [Reading EXCEPT !.started = TRUE]
  BY DEF Adapter, Anthropic, Signal, Reading
<1> QED
  BY <1>1, <1>2 DEF Listening, State, Reading

\* The records of a call, one at a time
LEMMA OpenHeard ==
  ASSUME NEW protocol \in Protocol, NEW s, Listening(protocol, s, {}), NEW i \in Nat,
         NEW call \in Saying
  PROVE  LET r == Open(i, call.id, call.name)
             u == Adapter(protocol, s, r)
         IN  Listening(protocol, u, {i}) /\ u.events = Append(s.events, r)
<1> DEFINE r == Open(i, call.id, call.name)
           u == Adapter(protocol, s, r)
<1>1. r \in Event /\ r.kind = "open" /\ r.index = i
  BY DEF Event, CallPart, Open, Saying
<1>2. s \in State /\ ~s.over
  BY DEF Listening
<1>3. Yield(s, r) \in State /\ Yield(s, r) = [s EXCEPT !.events = Append(s.events, r)]
  <2>1. Append(s.events, r) \in Seq(Event)
    BY <1>1, <1>2 DEF State
  <2> QED
    BY <1>2, <2>1 DEF Yield, State
<1> HIDE DEF r
<1>4. u = IF protocol = "anthropic" THEN [Yield(s, r) EXCEPT !.blocks = {i}]
          ELSE Yield(s, r)
  <2>1. CASE protocol = "openai"
    BY <1>1, <1>2, <2>1 DEF Adapter, OpenAI
  <2>2. CASE protocol = "compatible"
    BY <1>1, <1>2, <2>2 DEF Adapter, Compatible
  <2>3. CASE protocol = "anthropic"
    <3>1. s.blocks = {}
      BY <2>3 DEF Listening
    <3>2. u = [Yield(s, r) EXCEPT !.blocks = Yield(s, r).blocks \union {i}]
      BY <1>1, <1>2, <2>3, <3>1 DEF Adapter, Anthropic
    <3>3. Yield(s, r).blocks = {}
      BY <1>2, <1>3, <3>1 DEF State
    <3> QED
      BY <2>3, <3>2, <3>3
  <2> QED
    BY <2>1, <2>2, <2>3 DEF Protocol
<1>5. {i} \in SUBSET Nat
  OBVIOUS
<1> QED
  BY <1>2, <1>3, <1>4, <1>5 DEF Listening, State, r

LEMMA PieceHeard ==
  ASSUME NEW protocol \in Protocol, NEW s, NEW i \in Nat, Listening(protocol, s, {i}),
         NEW r \in CallPart, PieceOf(r, i)
  PROVE  LET u == Adapter(protocol, s, r)
         IN  Listening(protocol, u, {i}) /\ u.events = Append(s.events, r)
<1> DEFINE u == Adapter(protocol, s, r)
<1>1. r \in Event /\ r.kind = "piece" /\ r.index = i
  BY DEF Event, PieceOf
<1>2. s \in State /\ ~s.over
  BY DEF Listening
<1>3. Yield(s, r) \in State /\ Yield(s, r) = [s EXCEPT !.events = Append(s.events, r)]
  <2>1. Append(s.events, r) \in Seq(Event)
    BY <1>1, <1>2 DEF State
  <2> QED
    BY <1>2, <2>1 DEF Yield, State
<1>4. u = Yield(s, r)
  <2>1. CASE protocol = "openai"
    BY <1>1, <1>2, <2>1 DEF Adapter, OpenAI
  <2>2. CASE protocol = "compatible"
    BY <1>1, <1>2, <2>2 DEF Adapter, Compatible
  <2>3. CASE protocol = "anthropic"
    <3>1. s.blocks = {i}
      BY <2>3 DEF Listening
    <3> QED
      BY <1>1, <1>2, <2>3, <3>1 DEF Adapter, Anthropic
  <2> QED
    BY <2>1, <2>2, <2>3 DEF Protocol
<1> QED
  BY <1>2, <1>3, <1>4 DEF Listening, State

LEMMA CloseHeard ==
  ASSUME NEW s, NEW i \in Nat, Listening("anthropic", s, {i})
  PROVE  LET u == Adapter("anthropic", s, Close(i))
         IN  Listening("anthropic", u, {}) /\ u.events = s.events
<1>1. s \in State /\ ~s.over /\ s.blocks = {i}
  BY DEF Listening
<1>2. Adapter("anthropic", s, Close(i)) = [s EXCEPT !.blocks = {}]
  <2>1. Adapter("anthropic", s, Close(i)) = [s EXCEPT !.blocks = s.blocks \ {i}]
    BY <1>1 DEF Adapter, Anthropic, Close
  <2> QED
    BY <1>1, <2>1
<1> QED
  BY <1>1, <1>2 DEF Listening, State

\* Records that are concatenated come one after the other.
LEMMA Appended ==
  ASSUME NEW S, NEW items \in Seq(S), NEW a \in S, NEW b \in S, NEW c \in S, NEW d \in S
  PROVE  /\ items \o <<>> = items
         /\ items \o <<a>> = Append(items, a)
         /\ items \o <<a, b>> = Append(Append(items, a), b)
         /\ items \o <<a, b, c>> = Append(Append(Append(items, a), b), c)
         /\ items \o <<a, b, c, d>> = Append(Append(Append(Append(items, a), b), c), d)
<1>1. items \o <<>> = items
  OBVIOUS
<1>2. items \o <<a>> = Append(items, a)
  OBVIOUS
<1>3. items \o <<a, b>> = Append(Append(items, a), b)
  OBVIOUS
<1>4. items \o <<a, b, c>> = Append(Append(Append(items, a), b), c)
  OBVIOUS
<1>5. items \o <<a, b, c, d>> = Append(Append(Append(Append(items, a), b), c), d)
  OBVIOUS
<1> QED
  BY <1>1, <1>2, <1>3, <1>4, <1>5

LEMMA Tuples ==
  ASSUME NEW S, NEW a \in S, NEW b \in S, NEW c \in S, NEW d \in S
  PROVE  /\ Append(<<a>>, b) = <<a, b>>
         /\ <<a, b, c>> \o <<d>> = <<a, b, c, d>>
<1>1. /\ <<>> \in Seq(S) /\ <<a>> \in Seq(S) /\ <<a, b, c>> \in Seq(S)
      /\ Append(<<>>, a) = <<a>>
  OBVIOUS
<1>2. /\ <<>> \o <<a, b>> = <<a, b>> /\ <<>> \o <<a, b, c>> = <<a, b, c>>
      /\ <<>> \o <<a, b, c, d>> = <<a, b, c, d>>
  <2>1. <<a, b>> \in Seq(S) /\ <<a, b, c>> \in Seq(S) /\ <<a, b, c, d>> \in Seq(S)
    OBVIOUS
  <2>2. \A x \in Seq(S) : <<>> \o x = x
    OBVIOUS
  <2> QED
    BY <2>1, <2>2
<1>3. Append(<<a>>, b) = <<a, b>>
  <2>1. <<>> \o <<a, b>> = Append(Append(<<>>, a), b)
    BY <1>1, Appended
  <2> QED
    BY <1>1, <1>2, <2>1, Zenon
<1>4. <<a, b, c>> \o <<d>> = Append(<<a, b, c>>, d)
  BY <1>1, Appended
<1>5. Append(<<a, b, c>>, d) = <<a, b, c, d>>
  <2>1. /\ <<>> \o <<a, b, c>> = Append(Append(Append(<<>>, a), b), c)
        /\ <<>> \o <<a, b, c, d>> = Append(Append(Append(Append(<<>>, a), b), c), d)
    BY <1>1, Appended
  <2> QED
    BY <1>1, <1>2, <2>1, Zenon
<1> QED
  BY <1>3, <1>4, <1>5

\* The three or four records of a call
LEMMA CallHeard ==
  ASSUME NEW protocol \in Protocol, NEW items \in Seq(Record), NEW i \in Nat,
         NEW call \in Saying, Listening(protocol, Read(protocol, items), {})
  PROVE  LET more == items \o CallRecords(protocol, call, i)
             c == Collected(Read(protocol, items).events)
             opened == Collect(c, Open(i, call.id, call.name))
         IN  /\ more \in Seq(Record) /\ Listening(protocol, Read(protocol, more), {})
             /\ Collected(Read(protocol, more).events) =
                  Collect(Collect(opened, Piece(i, 1)), Piece(i, 2))
<1> DEFINE s == Read(protocol, items)
           a == Open(i, call.id, call.name)
           items1 == Append(items, a)
           items2 == Append(items1, Piece(i, 1))
           items3 == Append(items2, Piece(i, 2))
           items4 == Append(items3, Close(i))
           s1 == Read(protocol, items1)
           s2 == Read(protocol, items2)
           s3 == Read(protocol, items3)
           s4 == Read(protocol, items4)
<1>1. /\ a \in CallPart /\ Piece(i, 1) \in CallPart /\ Piece(i, 2) \in CallPart
      /\ Close(i) \in Record /\ \A r \in CallPart : r \in Record /\ r \in Event
  BY DEF CallPart, Record, Event, Open, Piece, Close, Saying
<1>n. PieceOf(Piece(i, 1), i) /\ PieceOf(Piece(i, 2), i)
  BY DEF PieceOf, Piece
<1> HIDE DEF a
<1>2. items1 \in Seq(Record) /\ s1 = Adapter(protocol, s, a)
  BY <1>1, ReadOfAppend
<1>3. Listening(protocol, s1, {i}) /\ s1.events = Append(s.events, a)
  BY <1>2, OpenHeard DEF a
<1> HIDE DEF items1
<1>4. items2 \in Seq(Record) /\ s2 = Adapter(protocol, s1, Piece(i, 1))
  BY <1>1, <1>2, ReadOfAppend
<1>5. Listening(protocol, s2, {i}) /\ s2.events = Append(s1.events, Piece(i, 1))
  <2> DEFINE r == Piece(i, 1)
  <2>1. r \in CallPart /\ PieceOf(r, i)
    BY <1>1, <1>n
  <2>2. s2 = Adapter(protocol, s1, r)
    BY <1>4
  <2>3. Listening(protocol, s1, {i})
    BY <1>3
  <2> HIDE DEF r, s1, s2
  <2>4. Listening(protocol, s2, {i}) /\ s2.events = Append(s1.events, r)
    BY <2>1, <2>2, <2>3, PieceHeard
  <2> QED
    BY <2>4 DEF r, s1, s2
<1> HIDE DEF items2
<1>6. items3 \in Seq(Record) /\ s3 = Adapter(protocol, s2, Piece(i, 2))
  BY <1>1, <1>4, ReadOfAppend
<1>7. Listening(protocol, s3, {i}) /\ s3.events = Append(s2.events, Piece(i, 2))
  <2> DEFINE r == Piece(i, 2)
  <2>1. r \in CallPart /\ PieceOf(r, i)
    BY <1>1, <1>n
  <2>2. s3 = Adapter(protocol, s2, r)
    BY <1>6
  <2>3. Listening(protocol, s2, {i})
    BY <1>5
  <2> HIDE DEF r, s2, s3
  <2>4. Listening(protocol, s3, {i}) /\ s3.events = Append(s2.events, r)
    BY <2>1, <2>2, <2>3, PieceHeard
  <2> QED
    BY <2>4 DEF r, s2, s3
<1> HIDE DEF items3
<1>8. items4 \in Seq(Record) /\ s4 = Adapter(protocol, s3, Close(i))
  BY <1>1, <1>6, ReadOfAppend
<1> HIDE DEF items4
<1>9. s \in State /\ s1 \in State /\ s2 \in State /\ s3 \in State
  BY <1>3, <1>5, <1>7 DEF Listening
<1> HIDE DEF s, s1, s2, s3, s4
<1>10. /\ Collected(s1.events) = Collect(Collected(s.events), a)
       /\ Collected(s2.events) = Collect(Collected(s1.events), Piece(i, 1))
       /\ Collected(s3.events) = Collect(Collected(s2.events), Piece(i, 2))
  BY <1>1, <1>3, <1>5, <1>7, <1>9, CollectedNext
<1>11. CASE protocol # "anthropic"
  <2>1. items \o CallRecords(protocol, call, i) = items \o <<a, Piece(i, 1), Piece(i, 2)>>
    <3>1. CallRecords(protocol, call, i) = <<a, Piece(i, 1), Piece(i, 2)>>
      BY <1>11 DEF CallRecords, a
    <3> QED
      BY <3>1
  <2>2. items \o CallRecords(protocol, call, i) = items3
    BY <1>1, <2>1, Appended DEF items1, items2, items3
  <2>3. Listening(protocol, s3, {})
    BY <1>7, <1>11 DEF Listening
  <2> QED
    BY <1>6, <1>10, <2>2, <2>3 DEF s, s3, a
<1>12. CASE protocol = "anthropic"
  <2>1. CallRecords(protocol, call, i) = <<a, Piece(i, 1), Piece(i, 2), Close(i)>>
    <3>1. CallRecords(protocol, call, i) = <<a, Piece(i, 1), Piece(i, 2)>> \o <<Close(i)>>
      BY <1>12 DEF CallRecords, a
    <3>2. <<a, Piece(i, 1), Piece(i, 2)>> \o <<Close(i)>> =
            <<a, Piece(i, 1), Piece(i, 2), Close(i)>>
      <4> DEFINE b == Piece(i, 1)
                 c == Piece(i, 2)
                 d == Close(i)
      <4>1. a \in Record /\ b \in Record /\ c \in Record /\ d \in Record
        BY <1>1
      <4> HIDE DEF b, c, d
      <4>2. <<a, b, c>> \o <<d>> = <<a, b, c, d>>
        BY <4>1, Tuples
      <4> QED
        BY <4>2 DEF b, c, d
    <3> QED
      BY <3>1, <3>2
  <2>2. items \o CallRecords(protocol, call, i) = items4
    BY <1>1, <2>1, Appended DEF items1, items2, items3, items4
  <2>3. Listening(protocol, s4, {}) /\ s4.events = s3.events
    BY <1>7, <1>8, <1>12, CloseHeard
  <2> QED
    BY <1>8, <1>10, <2>2, <2>3 DEF s, s4, a
<1> QED
  BY <1>11, <1>12

\* All records but the last: what is held of n calls
HeardAll(protocol, said, items, n) ==
  LET s == Read(protocol, items)
      c == Collected(s.events)
  IN  /\ items \in Seq(Record) /\ Listening(protocol, s, {})
      /\ n <= MaxCalls => c = Holding(said, n, Document)
      /\ n > MaxCalls => c.category = "malformed_response"

\* By induction over the calls: the first, ...
LEMMA HeardNothing ==
  ASSUME NEW protocol \in Protocol, NEW said
  PROVE  HeardAll(protocol, said, BodyStep(protocol, said, <<>>, 0), 0)
<1>1. <<>> \in Seq(Record) /\ <<>> \in Seq(Event) /\ {} \in SUBSET Nat
  OBVIOUS
<1>2. Collected(<<>>) = Holding(said, 0, Document) /\ ~(0 > MaxCalls)
  BY CollectedOfNothing, HoldingNothing, ProviderAssumption
<1>3. CASE protocol # "anthropic"
  <2>1. BodyStep(protocol, said, <<>>, 0) = <<>>
    BY <1>3 DEF BodyStep
  <2>2. Read(protocol, <<>>) = Reading
    BY ReadOfNothing
  <2>3. Listening(protocol, Reading, {}) /\ Reading.events = <<>>
    BY <1>1, <1>3 DEF Listening, Reading, State
  <2> QED
    BY <1>1, <1>2, <2>1, <2>2, <2>3 DEF HeardAll
<1>4. CASE protocol = "anthropic"
  <2> DEFINE start == Signal("start")
  <2>1. BodyStep(protocol, said, <<>>, 0) = <<start>>
    BY <1>4 DEF BodyStep
  <2>2. start \in Record
    BY DEF Signal, Record, SignalKind
  <2> HIDE DEF start
  <2>3. <<start>> \in Seq(Record) /\ Append(<<>>, start) = <<start>>
    BY <2>2
  <2>4. Read(protocol, <<start>>) = Adapter("anthropic", Reading, start)
    <3>1. Read(protocol, Append(<<>>, start)) = Adapter(protocol, Read(protocol, <<>>), start)
      BY <1>1, <2>2, ReadOfAppend
    <3>2. Read(protocol, <<>>) = Reading
      BY ReadOfNothing
    <3> QED
      BY <1>4, <2>3, <3>1, <3>2
  <2> QED
    BY <1>2, <1>4, <2>1, <2>3, <2>4, StartHeard DEF HeardAll, start
<1> QED
  BY <1>3, <1>4

\* ... the next ...
LEMMA HeardMore ==
  ASSUME NEW protocol \in Protocol, NEW said, NEW n \in Nat, said[n + 1] \in Saying,
         NEW items, HeardAll(protocol, said, items, n)
  PROVE  HeardAll(protocol, said, items \o CallRecords(protocol, said[n + 1], n + 1), n + 1)
<1> DEFINE more == items \o CallRecords(protocol, said[n + 1], n + 1)
           c == Collected(Read(protocol, items).events)
           d == Collected(Read(protocol, more).events)
           a == Open(n + 1, said[n + 1].id, said[n + 1].name)
<1>1. /\ items \in Seq(Record) /\ Listening(protocol, Read(protocol, items), {})
      /\ n <= MaxCalls => c = Holding(said, n, Document)
      /\ n > MaxCalls => c.category = "malformed_response"
  BY DEF HeardAll
<1>2. /\ more \in Seq(Record) /\ Listening(protocol, Read(protocol, more), {})
      /\ d = Collect(Collect(Collect(c, a), Piece(n + 1, 1)), Piece(n + 1, 2))
  BY <1>1, CallHeard
<1> HIDE DEF more, c, d, a
<1>3. CASE n < MaxCalls
  <2>1. Collect(c, a) = Holding(said, n + 1, <<>>)
    BY <1>1, <1>3, OpenCollected, ProviderAssumption DEF a
  <2>2. n + 1 \in Nat /\ n + 1 # 0
    OBVIOUS
  <2>3. 1 \in Nat /\ <<>> \in Seq(Nat) /\ Append(<<>>, 1) = <<1>>
    OBVIOUS
  <2>4. 2 \in Nat /\ <<1>> \in Seq(Nat) /\ Append(<<1>>, 2) = <<1, 2>>
    <3>1. 1 \in Nat /\ 2 \in Nat
      OBVIOUS
    <3>2. <<1>> \in Seq(Nat)
      BY <3>1
    <3>3. Append(<<1>>, 2) = <<1, 2>>
      BY <3>1, Tuples, Zenon
    <3> QED
      BY <3>1, <3>2, <3>3
  <2>5. Collect(Holding(said, n + 1, <<>>), Piece(n + 1, 1)) = Holding(said, n + 1, <<1>>)
    BY <2>2, <2>3, PieceCollected
  <2>6. Collect(Holding(said, n + 1, <<1>>), Piece(n + 1, 2)) = Holding(said, n + 1, <<1, 2>>)
    BY <2>2, <2>4, PieceCollected
  <2>7. d = Holding(said, n + 1, Document)
    BY <1>2, <2>1, <2>5, <2>6 DEF Document
  <2>8. ~(n + 1 > MaxCalls)
    BY <1>3, ProviderAssumption
  <2> QED
    BY <1>2, <2>7, <2>8 DEF HeardAll, d, more
<1>4. CASE ~(n < MaxCalls)
  <2>1. n >= MaxCalls /\ ~(n + 1 <= MaxCalls)
    BY <1>4, ProviderAssumption
  <2>2. None # "malformed_response"
    BY DEF None
  <2>3. Collect(c, a).category = "malformed_response"
    <3>1. CASE n = MaxCalls
      <4>1. Collect(c, a) = Fail(Holding(said, n, Document), "malformed_response")
        BY <1>1, <2>1, <3>1, OpenCollected, ProviderAssumption DEF a
      <4> QED
        BY <4>1 DEF Fail, Holding
    <3>2. CASE n # MaxCalls
      <4>1. c.category = "malformed_response"
        BY <1>1, <2>1, <3>2, ProviderAssumption
      <4> QED
        BY <2>2, <4>1, CollectedStuck
    <3> QED
      BY <3>1, <3>2
  <2>4. d = Collect(c, a)
    BY <1>2, <2>2, <2>3, CollectedStuck
  <2> QED
    BY <1>2, <2>1, <2>3, <2>4 DEF HeardAll, d, more
<1> QED
  BY <1>3, <1>4

\* ... and all of them
LEMMA HeardResponse ==
  ASSUME NEW protocol \in Protocol, NEW said, NEW n \in Nat,
         \A k \in 1..n : said[k] \in Saying, NEW f, Bodies(f, protocol, said, n)
  PROVE  HeardAll(protocol, said, f[n], n)
<1> DEFINE T == {k \in 0..n : HeardAll(protocol, said, f[k], k)}
<1>1. \A k \in 0..n : f[k] = BodyStep(protocol, said, f, k)
  BY DEF Bodies
<1>2. 0 \in T
  <2>1. f[0] = BodyStep(protocol, said, <<>>, 0)
    BY <1>1 DEF BodyStep
  <2> QED
    BY <2>1, HeardNothing
<1>3. ASSUME NEW k \in 0..(n - 1), k \in T PROVE k + 1 \in T
  <2>1. k \in Nat /\ k + 1 \in 0..n /\ k + 1 \in 1..n /\ k + 1 # 0 /\ k + 1 - 1 = k
    BY <1>3
  <2>2. f[k + 1] = f[k] \o CallRecords(protocol, said[k + 1], k + 1)
    <3> DEFINE m == k + 1
    <3>2. m # 0 /\ m - 1 = k
      BY <2>1
    <3>3. f[m] = BodyStep(protocol, said, f, m)
      BY <1>1, <2>1
    <3> HIDE DEF m
    <3>4. f[m] = f[m - 1] \o CallRecords(protocol, said[m], m)
      BY <3>2, <3>3 DEF BodyStep
    <3>5. f[m] = f[k] \o CallRecords(protocol, said[m], m)
      BY <3>2, <3>4
    <3> QED
      BY <3>5 DEF m
  <2>3. HeardAll(protocol, said, f[k], k) /\ said[k + 1] \in Saying
    BY <1>3, <2>1
  <2> QED
    BY <2>1, <2>2, <2>3, HeardMore
<1>4. 0..n \subseteq T
  <2> HIDE DEF T
  <2> QED
    BY <1>2, <1>3, UpTo
<1> QED
  BY <1>4

\* The reason is remembered until the response ends.
LEMMA Finishing ==
  ASSUME NEW protocol \in Protocol, protocol # "openai", NEW s, Listening(protocol, s, {}),
         NEW reason \in Reason
  PROVE  LET u == Adapter(protocol, s, FinishReason(reason))
         IN  u = [s EXCEPT !.finish = reason] /\ u \in State
<1>1. s \in State /\ ~s.over
  BY DEF Listening
<1>2. Adapter(protocol, s, FinishReason(reason)) = [s EXCEPT !.finish = reason]
  BY <1>1 DEF Adapter, Anthropic, Compatible, FinishReason, Protocol
<1> QED
  BY <1>1, <1>2 DEF State

\* The last of the records: the events end with what the reason calls for.
LEMMA EndRead ==
  ASSUME NEW protocol \in Protocol, NEW items \in Seq(Record), NEW reason \in Reason,
         Listening(protocol, Read(protocol, items), {})
  PROVE  LET all == items \o Ended(protocol, reason)
             s == Read(protocol, items)
         IN  \E e \in Event :
               /\ all \in Seq(Record) /\ Read(protocol, all).over
               /\ Collected(Read(protocol, all).events) = Collect(Collected(s.events), e)
               /\ \/ e = Completed(reason)
                  \/ reason # "stop" /\ \E category \in Category : e = Error(category)
<1> DEFINE all == items \o Ended(protocol, reason)
           s == Read(protocol, items)
           last == IF protocol = "openai" /\ reason = "length" THEN Error("context_limit")
                   ELSE IF protocol = "openai" /\ reason # "stop" THEN Error("safety_refusal")
                   ELSE Completed(reason)
<1>1. /\ last \in Event
      /\ \/ last = Completed(reason)
         \/ reason # "stop" /\ \E category \in Category : last = Error(category)
  <2>1. "context_limit" \in Category /\ "safety_refusal" \in Category
    BY DEF Category
  <2>2. \A category \in Category : Error(category) \in Event
    BY DEF Error, Event
  <2>3. Completed(reason) \in Event
    BY DEF Completed, Event
  <2> QED
    BY <2>1, <2>2, <2>3
<1>2. s \in State /\ ~s.over
  BY DEF Listening
<1>3. /\ FinishReason(reason) \in Record
      /\ \A kind \in SignalKind : Signal(kind) \in Record /\ Signal(kind).kind = kind
  BY DEF FinishReason, Signal, Record, Reason
<1>4. all \in Seq(Record) /\ Read(protocol, all).over
      /\ Read(protocol, all).events = Append(s.events, last)
  <2>1. CASE protocol = "openai" /\ reason = "stop"
    <3> DEFINE end == Signal("end")
               done == Signal("done")
               first == Append(items, end)
               u == Stop(s, Completed("stop"))
    <3>1. end \in Record /\ done \in Record /\ end.kind = "end"
      BY <1>3 DEF SignalKind
    <3>2. Ended(protocol, reason) = <<end, done>>
      BY <2>1 DEF Ended
    <3> HIDE DEF end, done
    <3>3. all = Append(first, done)
      BY <3>1, <3>2, Appended
    <3>4. first \in Seq(Record)
      BY <3>1
    <3>5. Read(protocol, first) = Adapter(protocol, s, end)
      BY <3>1, ReadOfAppend
    <3>6. Adapter(protocol, s, end) = u
      BY <1>2, <2>1, <3>1 DEF Adapter, OpenAI
    <3>7. u.over /\ u.events = Append(s.events, last)
      BY <1>2, <2>1 DEF Stop, Yield, State
    <3> HIDE DEF first, u
    <3>8. Read(protocol, all) = Adapter(protocol, u, done)
      BY <3>1, <3>3, <3>4, <3>5, <3>6, ReadOfAppend
    <3>9. Read(protocol, all) = u
      BY <3>7, <3>8 DEF Adapter
    <3>10. all \in Seq(Record)
      BY <3>1, <3>3, <3>4
    <3> QED
      BY <3>7, <3>9, <3>10
  <2>2. CASE protocol = "openai" /\ reason # "stop"
    <3> DEFINE r == IF reason = "length" THEN Signal("incomplete") ELSE Signal("refusal")
    <3>1. r \in Record /\ r.kind = (IF reason = "length" THEN "incomplete" ELSE "refusal")
      BY <1>3 DEF SignalKind
    <3>2. Ended(protocol, reason) = <<r>>
      BY <2>2 DEF Ended
    <3> HIDE DEF r
    <3>3. all = Append(items, r) /\ all \in Seq(Record)
      BY <3>1, <3>2, Appended
    <3>4. Read(protocol, all) = Adapter(protocol, s, r)
      BY <3>1, <3>3, ReadOfAppend
    <3>5. Adapter(protocol, s, r) = Stop(s, last)
      <4>1. CASE reason = "length"
        BY <1>2, <2>2, <3>1, <4>1 DEF Adapter, OpenAI
      <4>2. CASE reason # "length"
        BY <1>2, <2>2, <3>1, <4>2 DEF Adapter, OpenAI
      <4> QED
        BY <4>1, <4>2
    <3> HIDE DEF last
    <3>6. Stop(s, last).over /\ Stop(s, last).events = Append(s.events, last)
      BY <1>2 DEF Stop, Yield, State
    <3> QED
      BY <3>3, <3>4, <3>5, <3>6
  <2>3. CASE protocol # "openai"
    <3> DEFINE finish == FinishReason(reason)
               r == Signal(LastKind(protocol))
               first == Append(items, finish)
               t == [s EXCEPT !.finish = reason]
    <3>1. r \in Record /\ finish \in Record /\ r.kind = LastKind(protocol)
      BY <1>3 DEF SignalKind, LastKind
    <3>2. Ended(protocol, reason) = <<finish, r>>
      BY <2>3 DEF Ended, Protocol, LastKind
    <3>3. Adapter(protocol, s, finish) = t /\ t \in State
      BY <2>3, Finishing
    <3> HIDE DEF finish, r
    <3>4. all = Append(first, r)
      BY <3>1, <3>2, Appended
    <3>5. first \in Seq(Record)
      BY <3>1
    <3>6. Read(protocol, first) = Adapter(protocol, s, finish)
      BY <3>1, ReadOfAppend
    <3> HIDE DEF first, t
    <3>7. Read(protocol, all) = Adapter(protocol, t, r)
      BY <3>1, <3>3, <3>4, <3>5, <3>6, ReadOfAppend
    <3>8. /\ ~t.over /\ t.finish = reason /\ t.events = s.events /\ reason # None
          /\ protocol = "anthropic" => t.started /\ t.blocks = {}
      BY <1>2, <2>3 DEF t, Listening, State, None, Reason
    <3> HIDE DEF t
    <3>9. Adapter(protocol, t, r) = Stop(t, Completed(reason))
      <4>1. CASE protocol = "anthropic"
        BY <3>1, <3>8, <4>1 DEF Adapter, Anthropic, LastKind
      <4>2. CASE protocol = "compatible"
        BY <3>1, <3>8, <4>2 DEF Adapter, Compatible, LastKind
      <4> QED
        BY <2>3, <4>1, <4>2 DEF Protocol
    <3>10. last = Completed(reason)
      BY <2>3
    <3> HIDE DEF last
    <3>11. Stop(t, last).over /\ Stop(t, last).events = Append(t.events, last)
      BY <3>3 DEF Stop, Yield, State
    <3>12. all \in Seq(Record)
      BY <3>1, <3>4, <3>5
    <3> QED
      BY <3>7, <3>8, <3>9, <3>10, <3>11, <3>12
  <2> QED
    BY <2>1, <2>2, <2>3
<1> HIDE DEF last, s, all
<1>5. Read(protocol, all) \in State
  <2>1. Understood(protocol, all, Len(all), Read(protocol, all))
    BY <1>4, UnderstoodAll
  <2> QED
    BY <2>1 DEF Understood
<1>6. Collected(Read(protocol, all).events) = Collect(Collected(s.events), last)
  BY <1>1, <1>2, <1>4, <1>5, CollectedNext
<1> QED
  BY <1>1, <1>4, <1>6 DEF s, all

\* What the tail of collectTurn makes of all the calls of a response
LEMMA ConcludedAll ==
  ASSUME NEW said, NEW n \in Nat, \A k \in 1..n : said[k] \in Saying, NEW reason \in Reason,
         NEW c, c = [Holding(said, n, Document) EXCEPT !.finish = reason]
  PROVE  Concluded(c) = "ok" <=>
           /\ reason = "stop" /\ \A k \in 1..n : said[k].name \in Tools
           /\ \A k, l \in 1..n : said[k].id = said[l].id => k = l
<1>1. /\ c.category = None /\ c.finish = reason /\ DOMAIN c.calls = 1..n
      /\ \A k \in 1..n : c.calls[k] = [id |-> said[k].id, name |-> said[k].name,
                                      arguments |-> Document]
  BY DEF Holding
<1>2. \A k \in 1..n : /\ c.calls[k].id = said[k].id /\ c.calls[k].name = said[k].name
                      /\ c.calls[k].arguments = Document
  <2> SUFFICES ASSUME NEW k \in 1..n
               PROVE  /\ c.calls[k].id = said[k].id /\ c.calls[k].name = said[k].name
                      /\ c.calls[k].arguments = Document
    OBVIOUS
  <2> DEFINE call == [id |-> said[k].id, name |-> said[k].name, arguments |-> Document]
  <2>1. c.calls[k] = call
    BY <1>1
  <2>2. call.id = said[k].id /\ call.name = said[k].name /\ call.arguments = Document
    OBVIOUS
  <2> HIDE DEF call
  <2> QED
    BY <2>1, <2>2
<1>3. \A k \in 1..n : said[k].id # None
  BY WordAssumption DEF Saying
<1>4. CASE reason # "stop"
  <2>1. reason \in {"length", "content_filter"}
    BY <1>4 DEF Reason
  <2> QED
    BY <1>1, <1>4, <2>1 DEF Concluded
<1>5. CASE reason = "stop"
  <2>1. Concluded(c) = "ok" <=>
          ~ (\/ \E call \in {c.calls[i] : i \in DOMAIN c.calls} :
                  call.id = None \/ call.name \notin Tools \/ call.arguments # Document
             \/ \E i, j \in DOMAIN c.calls : i # j /\ c.calls[i].id = c.calls[j].id)
    BY <1>1, <1>5 DEF Concluded, None
  <2> QED
    BY <1>1, <1>2, <1>3, <1>5, <2>1
<1> QED
  BY <1>4, <1>5

\* A response without a fault is handed over in full, if it is acceptable, and
\* otherwise it is refused (types.ts, collectTurn; the adapters).
LEMMA AllCallsHandedOver ==
  ASSUME NEW protocol \in Protocol, NEW response \in Responses
  PROVE  /\ HandsOverAllCalls(protocol, response)
         /\ Wire(protocol, response) \in Seq(Record)
<1> DEFINE said == response.calls
           reason == response.reason
           n == Len(said)
           all == Wire(protocol, response)
           stream == [records |-> all, ending |-> AtEnd]
           turn == Turned(protocol, stream)
           c == Collected(Adapted(protocol, Transport(stream)))
<1>1. /\ reason \in Reason /\ n \in Nat /\ DOMAIN said = 1..n
      /\ said = [k \in 1..n |-> said[k]] /\ \A k \in 1..n : said[k] \in Saying
  <2>1. PICK m \in 0..MaxCalls + 1 : said \in [1..m -> Saying]
    BY DEF Responses, Saying
  <2>2. m \in Nat
    BY <2>1, ProviderAssumption
  <2>3. Len(said) = m
    BY <2>1, <2>2
  <2> QED
    BY <2>1, <2>2, <2>3 DEF Responses
<1>2. PICK f : Bodies(f, protocol, said, n) /\ all = f[n] \o Ended(protocol, reason)
  BY <1>1, WireComputed
<1> DEFINE body == f[n]
           d == Collected(Read(protocol, body).events)
<1>3. HeardAll(protocol, said, body, n)
  BY <1>1, <1>2, HeardResponse
<1>4. /\ body \in Seq(Record) /\ Listening(protocol, Read(protocol, body), {})
      /\ n <= MaxCalls => d = Holding(said, n, Document)
      /\ n > MaxCalls => d.category = "malformed_response"
  BY <1>3 DEF HeardAll
<1>5. PICK e \in Event :
        /\ all \in Seq(Record) /\ Read(protocol, all).over
        /\ Collected(Read(protocol, all).events) = Collect(d, e)
        /\ \/ e = Completed(reason)
           \/ reason # "stop" /\ \E category \in Category : e = Error(category)
  BY <1>1, <1>2, <1>4, EndRead
<1>6. c = Collect(d, e)
  <2>1. Transport(stream) = all
    BY DEF Transport, AtEnd
  <2>2. Adapted(protocol, all) = Read(protocol, all).events
    BY <1>5 DEF Adapted, Read
  <2> QED
    BY <1>5, <2>1, <2>2
<1>7. turn = [category |-> Concluded(c),
              calls |-> IF Concluded(c) # "ok" THEN <<>>
                        ELSE [k \in 1..Len(c.order) |-> c.calls[c.order[k]]]]
  BY DEF Turned, Collected
<1> DEFINE Named(call) == [id |-> call.id, name |-> call.name]
<1>8. HandsOverAllCalls(protocol, response) <=>
        /\ turn.category = "ok" <=> Acceptable(response)
        /\ turn.category = "ok" =>
             [k \in 1..Len(turn.calls) |-> Named(turn.calls[k])] = said
  BY DEF HandsOverAllCalls
<1>9. Acceptable(response) <=>
        /\ reason = "stop" /\ n <= MaxCalls
        /\ \A k \in 1..n : said[k].name \in Tools
        /\ \A k, l \in 1..n : said[k].id = said[l].id => k = l
  BY DEF Acceptable
<1> HIDE DEF said, reason, n, turn, c, d, body, all
<1>10. turn.category = Concluded(c)
  BY <1>7
<1>11. CASE n > MaxCalls
  <2>1. c.category = "malformed_response" /\ "malformed_response" # None
    <3>1. d.category = "malformed_response" /\ "malformed_response" # None
      BY <1>4, <1>11 DEF None
    <3> QED
      BY <1>6, <3>1, CollectedStuck
  <2>2. Concluded(c) # "ok"
    BY <2>1 DEF Concluded
  <2>3. ~(n <= MaxCalls)
    BY <1>1, <1>11, ProviderAssumption
  <2> QED
    BY <1>5, <1>8, <1>9, <1>10, <2>2, <2>3 DEF all
<1>12. CASE n <= MaxCalls /\ e # Completed(reason)
  <2>1. PICK category \in Category : e = Error(category)
    BY <1>5, <1>12
  <2>2. d.category = None
    BY <1>4, <1>12 DEF Holding
  <2>3. c = Fail(d, category)
    BY <1>6, <2>1, <2>2 DEF Collect, Error
  <2>4. c.category = category /\ category # None /\ category # "ok"
    <3>1. d = Holding(said, n, Document)
      BY <1>4, <1>12
    <3> QED
      BY <2>3, <3>1 DEF Fail, Holding, Category, None
  <2>5. Concluded(c) # "ok"
    BY <2>4 DEF Concluded
  <2> QED
    BY <1>5, <1>8, <1>9, <1>10, <1>12, <2>5 DEF all
<1>13. CASE n <= MaxCalls /\ e = Completed(reason)
  <2>1. d = Holding(said, n, Document) /\ d.category = None /\ d.finish = None
    BY <1>4, <1>13 DEF Holding
  <2>2. c = [Holding(said, n, Document) EXCEPT !.finish = reason]
    BY <1>6, <1>13, <2>1 DEF Collect, Completed
  <2>3. Concluded(c) = "ok" <=>
          /\ reason = "stop" /\ \A k \in 1..n : said[k].name \in Tools
          /\ \A k, l \in 1..n : said[k].id = said[l].id => k = l
    BY <1>1, <2>2, ConcludedAll
  <2>4. ASSUME turn.category = "ok"
        PROVE  [k \in 1..Len(turn.calls) |-> Named(turn.calls[k])] = said
    <3>1. turn.calls = [k \in 1..Len(c.order) |-> c.calls[c.order[k]]]
      BY <1>7, <1>10, <2>4
    <3>2. c.order = [k \in 1..n |-> k]
      BY <2>2 DEF Holding
    <3>3. Len(c.order) = n /\ \A k \in 1..n : c.order[k] = k
      BY <1>1, <3>2, HoldingOrder
    <3>4. turn.calls = [k \in 1..n |-> c.calls[k]]
      BY <3>1, <3>3
    <3>5. Len(turn.calls) = n
      BY <1>1, <3>4
    <3>6. \A k \in 1..n : c.calls[k].id = said[k].id /\ c.calls[k].name = said[k].name
      BY <2>2 DEF Holding
    <3>7. \A k \in 1..n : Named(turn.calls[k]) = said[k]
      BY <1>1, <3>4, <3>6 DEF Saying
    <3> QED
      BY <1>1, <3>5, <3>7
  <2> QED
    BY <1>5, <1>8, <1>9, <1>10, <1>13, <2>3, <2>4 DEF all
<1> QED
  <2>1. n > MaxCalls \/ n <= MaxCalls
    BY <1>1, ProviderAssumption
  <2> QED
    BY <1>11, <1>12, <1>13, <2>1

\* Every stream is one of records, whatever its fault.
LEMMA StreamsOfRecords ==
  ASSUME NEW protocol \in Protocol, NEW response \in Responses,
         NEW stream \in Streams(protocol, response)
  PROVE  stream \in [records : Seq(Record), ending : Endings]
<1> DEFINE s == Wire(protocol, response)
<1>1. s \in Seq(Record)
  BY AllCallsHandedOver
<1>2. AtEnd \in Endings
  BY DEF AtEnd, Endings
<1>3. Streams(protocol, response) =
        [records : Faulty(protocol, s), ending : {AtEnd}]
          \union [records : {Before(s, i) : i \in 1..Len(s) + 1}, ending : Endings]
  BY DEF Streams
<1> HIDE DEF s
<1>4. ASSUME NEW i \in 1..Len(s) + 1
      PROVE  Before(s, i) \in Seq(Record) /\ From(s, i) \in Seq(Record)
  BY <1>1 DEF Before, From
<1>5. ASSUME NEW i \in 1..Len(s)
      PROVE  /\ i \in 1..Len(s) + 1 /\ s[i] \in Record /\ <<s[i]>> \in Seq(Record)
             /\ From(s, i + 1) \in Seq(Record) /\ From(s, i + 2) \in Seq(Record)
  BY <1>1 DEF From
<1>6. ASSUME NEW i \in 1..Len(s) - 1 PROVE i \in 1..Len(s) /\ i + 1 \in 1..Len(s)
  BY <1>1
<1>7. \A a, b, c \in Seq(Record) : a \o b \in Seq(Record) /\ a \o b \o c \in Seq(Record)
  OBVIOUS
<1>8. \A r \in Strays(protocol) : r \in Record /\ <<r>> \in Seq(Record)
  <2>1. \A id \in CallId, name \in ToolName : Open(1, id, name) \in Record
    BY DEF Open, Record, CallPart
  <2>2. \A kind \in {"start", "failed", "refusal", "end", "done"} : Signal(kind) \in Record
    BY DEF Signal, Record, SignalKind
  <2>3. FinishReason("stop") \in Record /\ Close(1) \in Record
    BY DEF FinishReason, Close, Record, Reason
  <2>4. Error("malformed_response") \in Record /\ Error("rate_limit") \in Record
    BY DEF Error, Record, Category
  <2>5. \A r \in Strays(protocol) : r \in Record
    BY <2>1, <2>2, <2>3, <2>4 DEF Strays
  <2> QED
    BY <2>5
<1>9. Faulty(protocol, s) \subseteq Seq(Record)
  <2>1. \A i \in 1..Len(s) : Before(s, i) \o From(s, i + 1) \in Seq(Record)
    BY <1>4, <1>5, <1>7
  <2>2. \A i \in 1..Len(s) : Before(s, i) \o <<s[i]>> \o From(s, i) \in Seq(Record)
    BY <1>4, <1>5, <1>7
  <2>3. ASSUME NEW i \in 1..Len(s) - 1
        PROVE  Before(s, i) \o <<s[i + 1], s[i]>> \o From(s, i + 2) \in Seq(Record)
    <3>1. s[i] \in Record /\ s[i + 1] \in Record
      BY <1>5, <1>6
    <3>2. <<s[i + 1], s[i]>> \in Seq(Record)
      BY <3>1
    <3> QED
      BY <1>4, <1>5, <1>6, <1>7, <3>2
  <2>4. \A i \in 1..Len(s) + 1, r \in Strays(protocol) :
          Before(s, i) \o <<r>> \o From(s, i) \in Seq(Record)
    BY <1>4, <1>7, <1>8
  <2> DEFINE lost == {Before(s, i) \o From(s, i + 1) : i \in 1..Len(s)}
             repeated == {Before(s, i) \o <<s[i]>> \o From(s, i) : i \in 1..Len(s)}
             swapped == {Before(s, i) \o <<s[i + 1], s[i]>> \o From(s, i + 2) :
                           i \in 1..Len(s) - 1}
             places == 1..Len(s) + 1
             strays == Strays(protocol)
             With(i, r) == Before(s, i) \o <<r>> \o From(s, i)
             foreign == {With(i, r) : i \in places, r \in strays}
  <2>5. Faulty(protocol, s) = lost \union repeated \union swapped \union foreign
    BY DEF Faulty
  <2>6. foreign \subseteq Seq(Record)
    <3>1. \A i \in places, r \in strays : With(i, r) \in Seq(Record)
      BY <2>4
    <3> HIDE DEF places, strays, With
    <3> QED
      BY <3>1
  <2>7. /\ lost \subseteq Seq(Record) /\ repeated \subseteq Seq(Record)
        /\ swapped \subseteq Seq(Record)
    BY <2>1, <2>2, <2>3
  <2> HIDE DEF lost, repeated, swapped, foreign
  <2> QED
    BY <2>5, <2>6, <2>7
<1> QED
  BY <1>2, <1>3, <1>4, <1>9

\* For every protocol and every response: all its calls are handed over if they
\* arrive, and whole calls or none if there is a fault (collectTurn, the adapters).
THEOREM TurnsAreWhole == OnlyWholeTurns
BY AllCallsHandedOver, StreamsOfRecords, WholeCallsFromAnyStream DEF OnlyWholeTurns

\* While the loop works off tool calls, they are the whole calls of a response that
\* the provider ended (loop.ts 105-111, collectTurn and the adapters).
THEOREM CallsStayWhole == Spec => []CallsAreWhole
<1>1. CallsAreWhole
  BY TurnsAreWhole DEF CallsAreWhole
<1> QED
  BY <1>1, PTL
-----------------------------------------------------------------------------
(* The prompt: what is selected from a sequence *)

UpToPlace(places, i) == {j \in places : j <= i}

\* Nth enumerates a set of positions, in order.
InOrder(places) ==
  /\ Cardinality(places) \in Nat
  /\ \A k \in 1..Cardinality(places) : Nth(places, k) \in places
  /\ \A i \in places : \E k \in 1..Cardinality(places) : Nth(places, k) = i
  /\ \A k, l \in 1..Cardinality(places) : k < l <=> Nth(places, k) < Nth(places, l)

LEMMA PlacesInOrder ==
  ASSUME NEW n \in Nat, NEW places \in SUBSET (1..n)
  PROVE  InOrder(places)
<1> DEFINE N == Cardinality(places)
           P(i) == Cardinality(UpToPlace(places, i))
           F == [i \in places |-> P(i)]
<1>1. IsFiniteSet(places) /\ N \in Nat
  <2> DEFINE one == 1
  <2>1. one \in Int /\ n \in Int /\ places \in SUBSET (one..n)
    OBVIOUS
  <2> HIDE DEF one
  <2> QED
    BY <2>1, FS_Interval, FS_Subset, FS_CardinalityType
<1>2. \A i : /\ UpToPlace(places, i) \in SUBSET places
             /\ IsFiniteSet(UpToPlace(places, i)) /\ P(i) \in Nat /\ P(i) <= N
  <2> TAKE i
  <2>1. UpToPlace(places, i) \in SUBSET places
    BY DEF UpToPlace
  <2> QED
    BY <1>1, <2>1, FS_Subset, FS_CardinalityType
<1>3. ASSUME NEW i \in places, NEW j \in places, i < j PROVE P(i) < P(j)
  <2>1. UpToPlace(places, i) \in SUBSET UpToPlace(places, j)
    <3>1. \A l \in places : l \in Nat
      OBVIOUS
    <3>2. ASSUME NEW l \in UpToPlace(places, i) PROVE l \in UpToPlace(places, j)
      <4>1. l \in places /\ l <= i
        BY DEF UpToPlace
      <4>2. l <= j
        BY <1>3, <3>1, <4>1
      <4> QED
        BY <4>1, <4>2 DEF UpToPlace
    <3> QED
      BY <3>2
  <2>2. j \in UpToPlace(places, j) /\ j \notin UpToPlace(places, i)
    BY <1>3 DEF UpToPlace
  <2> QED
    BY <1>2, <2>1, <2>2, FS_Subset
<1>4. ASSUME NEW i \in places PROVE P(i) \in 1..N
  <2>1. UpToPlace(places, i) # {}
    BY DEF UpToPlace
  <2>2. P(i) # 0
    BY <1>2, <2>1, FS_EmptySet
  <2> QED
    BY <1>1, <1>2, <2>2
<1>5. ASSUME NEW i \in places, NEW j \in places, P(i) = P(j) PROVE i = j
  <2>1. i \in Nat /\ j \in Nat /\ P(i) \in Nat
    BY <1>2
  <2> QED
    BY <2>1, <1>3, <1>5
<1>6. F \in Injection(places, 1..N)
  BY <1>4, <1>5 DEF Injection, IsInjective
<1>7. IsFiniteSet(1..N) /\ Cardinality(1..N) = N
  BY <1>1, FS_Interval
<1>8. F \in Surjection(places, 1..N)
  <2> HIDE DEF F
  <2> QED BY <1>6, <1>7, FS_Injection
<1>9. \A k \in 1..N : \E i \in places : P(i) = k
  <2>1. \A k \in 1..N : \E i \in places : F[i] = k
    <3> HIDE DEF F
    <3> QED BY <1>8 DEF Surjection
  <2> QED
    BY <2>1
<1>10. ASSUME NEW k \in 1..N
       PROVE  Nth(places, k) \in places /\ P(Nth(places, k)) = k
  <2>1. Nth(places, k) = CHOOSE i \in places : P(i) = k
    BY DEF Nth, UpToPlace
  <2> QED
    BY <2>1, <1>9
<1>11. ASSUME NEW i \in places PROVE \E k \in 1..N : Nth(places, k) = i
  <2>1. P(i) \in 1..N
    BY <1>4
  <2>2. Nth(places, P(i)) = i
    BY <2>1, <1>5, <1>10
  <2> QED
    BY <2>1, <2>2
<1>12. ASSUME NEW k \in 1..N, NEW l \in 1..N
       PROVE  k < l <=> Nth(places, k) < Nth(places, l)
  <2> DEFINE a == Nth(places, k)
             b == Nth(places, l)
  <2>1. a \in places /\ b \in places /\ P(a) = k /\ P(b) = l
    BY <1>10
  <2> HIDE DEF a, b
  <2>2. a < b => k < l
    BY <2>1, <1>3
  <2>3. b < a => l < k
    BY <2>1, <1>3
  <2>4. a \in Nat /\ b \in Nat /\ (a = b => k = l)
    BY <2>1
  <2>5. k < l <=> a < b
    BY <1>1, <2>2, <2>3, <2>4
  <2> QED
    BY <2>5 DEF a, b
<1> QED
  BY <1>1, <1>10, <1>11, <1>12 DEF InOrder

\* Positions that follow each other stay together.
LEMMA Consecutive ==
  ASSUME NEW n \in Nat, NEW places \in SUBSET (1..n),
         NEW k \in 1..Cardinality(places), NEW d \in Nat,
         \A t \in 0..d : Nth(places, k) + t \in places
  PROVE  k + d \in 1..Cardinality(places) /\ Nth(places, k + d) = Nth(places, k) + d
<1> DEFINE N == Cardinality(places)
           e(l) == Nth(places, l)
           T == {t \in 0..d : k + t \in 1..N /\ e(k + t) = e(k) + t}
<1>1. /\ N \in Nat
      /\ \A l \in 1..N : e(l) \in places /\ e(l) \in Nat
      /\ \A i \in places : \E l \in 1..N : e(l) = i
      /\ \A l, m \in 1..N : l < m <=> e(l) < e(m)
  <2>1. InOrder(places) /\ \A i \in places : i \in Nat
    BY PlacesInOrder
  <2> QED
    BY <2>1 DEF InOrder
<1>2. \A t \in 0..d : e(k) + t \in places
  OBVIOUS
<1>3. k \in 1..N
  OBVIOUS
<1> HIDE DEF N, e
<1>4. 0 \in T
  <2>1. k + 0 = k /\ e(k) + 0 = e(k)
    BY <1>1, <1>3
  <2> QED
    BY <2>1, <1>3
<1>5. ASSUME NEW t \in 0..(d - 1), t \in T PROVE t + 1 \in T
  <2>1. e(k) + (t + 1) \in places /\ k + t \in 1..N /\ e(k + t) = e(k) + t
    BY <1>2, <1>5
  <2>2. PICK l \in 1..N : e(l) = e(k) + (t + 1)
    BY <2>1, <1>1
  <2> DEFINE x == k + t
             y == k + t + 1
  <2>3. x \in 1..N /\ e(x) = e(k) + t /\ y = x + 1 /\ t \in Nat
    BY <2>1, <1>3
  <2> HIDE DEF x, y
  <2>4. x < l
    BY <1>1, <1>3, <2>2, <2>3
  <2>5. y \in 1..N
    BY <1>1, <2>3, <2>4
  <2>6. e(x) < e(y) /\ e(y) \in Nat /\ (y < l => e(y) < e(l))
    BY <1>1, <2>3, <2>5
  <2>7. ~(y < l)
    BY <1>1, <1>3, <2>2, <2>3, <2>6
  <2>8. y = l
    BY <1>1, <2>3, <2>4, <2>5, <2>7
  <2>9. k + (t + 1) = y
    BY <1>3, <2>3 DEF x, y
  <2> QED
    BY <1>5, <2>2, <2>5, <2>8, <2>9
<1>6. 0..d \subseteq T
  <2> HIDE DEF T
  <2> QED BY <1>4, <1>5, UpTo
<1> QED
  BY <1>6 DEF N, e

-----------------------------------------------------------------------------
(* The prompt: what is on record *)

EventAt(i) ==
  IF i = 1 THEN Started(1) ELSE IF i = 2 THEN ToolCompleted(1, "earlier")
  ELSE IF i = 3 THEN Started(Task) ELSE ToolCompleted(i - 3, i - 3)

\* The events of the session when the task has n results
EventsAfter(n) == [i \in 1..(n + 3) |-> EventAt(i)]

LEMMA EventsAtFirst == Opening.events = EventsAfter(0)
<1>1. Opening.events = <<Started(1), ToolCompleted(1, "earlier"), Started(Task)>>
  BY DEF Opening
<1>2. \A i \in 1..3 : <<Started(1), ToolCompleted(1, "earlier"), Started(Task)>>[i] = EventAt(i)
  BY DEF EventAt
<1>3. <<Started(1), ToolCompleted(1, "earlier"), Started(Task)>> = [i \in 1..3 |-> EventAt(i)]
  BY <1>2
<1>4. 0 + 3 = 3
  OBVIOUS
<1> QED
  BY <1>1, <1>3, <1>4 DEF EventsAfter

LEMMA EventsNext ==
  ASSUME NEW n \in Nat, NEW d \in Nat
  PROVE  EventsAfter(n) \o [i \in 1..d |-> ToolCompleted(n + i, n + i)] = EventsAfter(n + d)
<1> DEFINE S == {EventAt(i) : i \in Nat}
           s == EventsAfter(n)
           t == [i \in 1..d |-> ToolCompleted(n + i, n + i)]
           r == EventsAfter(n + d)
<1>1. s \in Seq(S) /\ Len(s) = n + 3 /\ \A i \in 1..(n + 3) : s[i] = EventAt(i)
  BY DEF EventsAfter
<1>2. ASSUME NEW i \in 1..d
      PROVE  ToolCompleted(n + i, n + i) = EventAt(n + 3 + i) /\ n + 3 + i \in Nat
  <2>1. n + 3 + i - 3 = n + i /\ n + 3 + i > 3
    OBVIOUS
  <2> QED
    BY <2>1 DEF EventAt
<1>3. t \in Seq(S) /\ Len(t) = d /\ \A i \in 1..d : t[i] = EventAt(n + 3 + i)
  <2>1. \A i \in 1..d : ToolCompleted(n + i, n + i) \in S
    BY <1>2
  <2> HIDE DEF S
  <2>2. t \in Seq(S) /\ Len(t) = d
    BY <2>1
  <2> QED
    BY <1>2, <2>2
<1>4. r \in Seq(S) /\ Len(r) = n + d + 3 /\ \A i \in 1..(n + d + 3) : r[i] = EventAt(i)
  BY DEF EventsAfter
<1> HIDE DEF s, t, r, S
<1>5. s \o t \in Seq(S) /\ Len(s \o t) = n + d + 3
  <2>1. s \o t \in Seq(S) /\ Len(s \o t) = Len(s) + Len(t)
    BY <1>1, <1>3
  <2> QED
    BY <1>1, <1>3, <2>1
<1>6. ASSUME NEW i \in 1..(n + d + 3) PROVE (s \o t)[i] = r[i]
  <2>1. CASE i <= n + 3
    BY <1>1, <1>3, <1>4, <2>1
  <2>2. CASE ~(i <= n + 3)
    <3>1. i - (n + 3) \in 1..d /\ n + 3 + (i - (n + 3)) = i
      BY <2>2
    <3>2. (s \o t)[i] = t[i - (n + 3)]
      BY <1>1, <1>3, <2>2
    <3> QED
      BY <1>3, <1>4, <3>1, <3>2
  <2> QED
    BY <2>1, <2>2
<1>7. s \o t = r
  BY <1>4, <1>5, <1>6
<1> QED
  BY <1>7 DEF s, t, r

LEMMA KindOfEvent ==
  ASSUME NEW i \in Nat \ {0}
  PROVE  /\ EventAt(i) = Started(Task) <=> i = 3
         /\ i > 3 => ~IsStarted(EventAt(i))
         /\ i > 2 => (IsCompleted(EventAt(i)) <=> i > 3)
         /\ i > 3 => EventAt(i).call = i - 3 /\ EventAt(i).result = i - 3
BY DEF EventAt, Started, ToolCompleted, IsStarted, IsCompleted, Task

LEMMA TaskEventsAre ==
  ASSUME NEW n \in Nat
  PROVE  TaskEvents(EventsAfter(n), Task) = [i \in 1..(n + 1) |-> EventAt(i + 2)]
<1> DEFINE s == EventsAfter(n)
           first == CHOOSE i \in 1..Len(s) : s[i] = Started(Task)
           later == {i \in first + 1..Len(s) : IsStarted(s[i])}
<1>1. Len(s) = n + 3 /\ \A i \in 1..(n + 3) : s[i] = EventAt(i)
  BY DEF EventsAfter
<1>2. first = 3
  <2>1. 3 \in 1..Len(s) /\ \A i \in 1..Len(s) : s[i] = Started(Task) <=> i = 3
    BY <1>1, KindOfEvent
  <2> HIDE DEF s
  <2> QED BY <2>1
<1>3. later = {}
  <2>1. \A i \in first + 1..Len(s) : ~IsStarted(s[i])
    BY <1>1, <1>2, KindOfEvent
  <2> QED BY <2>1
<1>4. TaskEvents(s, Task) = SubSeq(s, 3, n + 3)
  <2>1. TaskEvents(s, Task) =
          SubSeq(s, first, IF later = {} THEN Len(s) ELSE Least(later) - 1)
    BY DEF TaskEvents
  <2> QED
    BY <2>1, <1>1, <1>2, <1>3
<1> DEFINE S == {EventAt(i) : i \in Nat}
<1>5. s \in Seq(S)
  BY DEF EventsAfter
<1>6. SubSeq(s, 3, n + 3) = [i \in 1..(n + 1) |-> EventAt(i + 2)]
  <2> HIDE DEF s, S
  <2>1. SubSeq(s, 3, n + 3) \in Seq(S) /\ Len(SubSeq(s, 3, n + 3)) = n + 1
    BY <1>1, <1>5
  <2>2. \A i \in 1..(n + 1) : SubSeq(s, 3, n + 3)[i] = EventAt(i + 2)
    BY <1>1, <1>5
  <2> QED
    BY <2>1, <2>2
<1> QED
  BY <1>4, <1>6

\* The events of the task after its start are its results, in order.
LEMMA ResultsAre ==
  ASSUME NEW n \in Nat
  PROVE  /\ Len(Results(EventsAfter(n), Task)) = n
         /\ Results(EventsAfter(n), Task) = [k \in 1..n |-> ToolCompleted(k, k)]
<1> DEFINE s == [i \in 1..(n + 1) |-> EventAt(i + 2)]
           K == {i \in 1..Len(s) : IsCompleted(s[i])}
<1>1. Len(s) = n + 1 /\ \A i \in 1..(n + 1) : s[i] = EventAt(i + 2)
  OBVIOUS
<1>2. K = 2..(n + 1)
  <2>1. \A i \in 1..(n + 1) : IsCompleted(s[i]) <=> i > 1
    <3> TAKE i \in 1..(n + 1)
    <3>1. i + 2 \in Nat \ {0} /\ i + 2 > 2 /\ (i + 2 > 3 <=> i > 1)
      OBVIOUS
    <3> QED
      BY <1>1, <3>1, KindOfEvent
  <2> HIDE DEF s
  <2> QED
    BY <1>1, <2>1
<1>3. Cardinality(K) = n
  <2> DEFINE two == 2
             top == n + 1
  <2>1. two = 2 /\ top = n + 1
    OBVIOUS
  <2> HIDE DEF two, top
  <2>2. two \in Int /\ top \in Int
    BY <2>1
  <2>3. Cardinality(two..top) = IF two > top THEN 0 ELSE top - two + 1
    BY <2>2, FS_Interval
  <2>4. Cardinality(two..top) = n
    BY <2>1, <2>3
  <2> QED
    BY <1>2, <2>1, <2>4
<1>4. ASSUME NEW k \in 1..n PROVE Nth(K, k) = k + 1
  <2>1. \A i \in K : Cardinality({j \in K : j <= i}) = i - 1
    <3> TAKE i \in K
    <3> HIDE DEF K
    <3>1. i \in 2..(n + 1)
      BY <1>2
    <3> DEFINE two == 2
    <3>2. two = 2 /\ two \in Int /\ i \in Int /\ two <= i
      BY <3>1
    <3>3. {j \in K : j <= i} = two..i
      BY <1>2, <3>1
    <3> HIDE DEF two
    <3>4. Cardinality(two..i) = IF two > i THEN 0 ELSE i - two + 1
      BY <3>2, FS_Interval
    <3>5. Cardinality(two..i) = i - 1
      BY <3>2, <3>4
    <3> QED
      BY <3>3, <3>5
  <2> HIDE DEF K
  <2>2. k + 1 \in K /\ \A i \in K : i - 1 = k <=> i = k + 1
    BY <1>2
  <2>3. Nth(K, k) = CHOOSE i \in K : Cardinality({j \in K : j <= i}) = k
    BY DEF Nth
  <2>4. \A i \in K : Cardinality({j \in K : j <= i}) = k <=> i = k + 1
    BY <2>1, <2>2
  <2> QED
    BY <2>2, <2>3, <2>4
<1>5. Results(EventsAfter(n), Task) = Selected(s, K)
  <2>1. TaskEvents(EventsAfter(n), Task) = s
    BY TaskEventsAre
  <2> QED
    BY <2>1, Zenon DEF Results
<1>6. Selected(s, K) = [k \in 1..n |-> s[Nth(K, k)]]
  <2> HIDE DEF s, K
  <2> QED BY <1>3 DEF Selected
<1>7. ASSUME NEW k \in 1..n PROVE s[Nth(K, k)] = ToolCompleted(k, k)
  <2>1. s[Nth(K, k)] = EventAt(k + 3) /\ k + 3 - 3 = k /\ k + 3 > 3
    <3> HIDE DEF K, s
    <3>1. Nth(K, k) = k + 1 /\ k + 1 \in 1..(n + 1) /\ k + 1 + 2 = k + 3
      BY <1>4
    <3> QED
      BY <1>1, <3>1
  <2>2. k + 3 # 1 /\ k + 3 # 2 /\ k + 3 # 3
    OBVIOUS
  <2>3. EventAt(k + 3) = ToolCompleted(k + 3 - 3, k + 3 - 3)
    BY <2>2 DEF EventAt
  <2> QED
    BY <2>1, <2>3
<1>8. Results(EventsAfter(n), Task) = [k \in 1..n |-> ToolCompleted(k, k)]
  <2> HIDE DEF s, K
  <2> QED BY <1>5, <1>6, <1>7
<1> QED
  BY <1>8

\* The result of a call can be read again; the earlier task's is not mistaken for it.
LEMMA ResultIsRead ==
  ASSUME NEW n \in Nat, NEW k \in 1..n
  PROVE  ReadResult(EventsAfter(n), Task, k) = k
<1> DEFINE s == [i \in 1..(n + 1) |-> EventAt(i + 2)]
           A == {i \in 1..Len(s) : IsCompleted(s[i]) /\ s[i].call = k}
<1>1. Len(s) = n + 1 /\ \A i \in 1..(n + 1) : s[i] = EventAt(i + 2)
  OBVIOUS
<1>2. A = {k + 1}
  <2>1. \A i \in 1..(n + 1) : IsCompleted(s[i]) /\ s[i].call = k <=> i = k + 1
    <3> TAKE i \in 1..(n + 1)
    <3>1. /\ i + 2 \in Nat \ {0} /\ i + 2 > 2 /\ (i + 2 > 3 <=> i > 1)
          /\ i + 2 - 3 = i - 1 /\ (i > 1 /\ i - 1 = k <=> i = k + 1)
      OBVIOUS
    <3>2. /\ IsCompleted(EventAt(i + 2)) <=> i + 2 > 3
          /\ i + 2 > 3 => EventAt(i + 2).call = i + 2 - 3
      BY <3>1, KindOfEvent
    <3> QED
      BY <1>1, <3>1, <3>2
  <2>2. k + 1 \in 1..(n + 1)
    OBVIOUS
  <2> HIDE DEF s
  <2> QED
    BY <1>1, <2>1, <2>2
<1>3. Least(A) = k + 1
  <2> HIDE DEF A
  <2> QED BY <1>2 DEF Least
<1>4. ReadResult(EventsAfter(n), Task, k) = IF A = {} THEN "none" ELSE s[Least(A)].result
  <2>1. TaskEvents(EventsAfter(n), Task) = s
    BY TaskEventsAre
  <2> QED
    BY <2>1, Zenon DEF ReadResult
<1>5. s[k + 1].result = k
  <2>1. k + 1 \in 1..(n + 1) /\ k + 1 + 2 > 3 /\ k + 1 + 2 - 3 = k /\ k + 1 + 2 \in Nat \ {0}
    OBVIOUS
  <2>2. EventAt(k + 1 + 2).result = k + 1 + 2 - 3
    BY <2>1, KindOfEvent
  <2> QED
    BY <1>1, <2>1, <2>2
<1> HIDE DEF s, A
<1> QED
  BY <1>2, <1>3, <1>4, <1>5

-----------------------------------------------------------------------------
(* The prompt: what is coherent *)

PromptRole == {"system", "initial", "assistant", "tool", "user", "checkpoint"}
PromptMessage == [role : PromptRole, bytes : Nat, calls : Seq(Nat)]

UsersOf(p) == {i \in 1..Len(p) : IsUser(p[i])}
ToolsOf(p) == {i \in 1..Len(p) : p[i].role = "tool"}
CheckpointsOf(p) == {i \in 1..Len(p) : IsCheckpoint(p[i])}

\* The instructions and the task come first, and only there.
Shaped(p) ==
  /\ p \in Seq(PromptMessage) /\ Len(p) >= 2
  /\ \A i \in 1..Len(p) : p[i].role \in {"system", "initial"} <=> i <= 2

\* The results in the prompt are the newest of the task, in their order.
Numbered(p, n) ==
  /\ \A i \in ToolsOf(p) : p[i].calls = <<p[i].calls[1]>> /\ p[i].calls[1] \in 1..n
  /\ \A i, j \in ToolsOf(p) : i < j => p[i].calls[1] < p[j].calls[1]
  /\ \A i \in ToolsOf(p) : \A k \in p[i].calls[1]..n :
       \E j \in ToolsOf(p) : p[j].calls[1] = k

\* The others are in the one checkpoint.
Referenced(p, n) ==
  /\ \A i, j \in CheckpointsOf(p) : i = j
  /\ \A k \in 1..n :
       \/ \E i \in ToolsOf(p) : p[i].calls[1] = k
       \/ \E i \in CheckpointsOf(p) : \E x \in 1..Len(p[i].calls) : p[i].calls[x] = k

\* A prompt after n results and u messages of the user
Coherent(p, n, u) ==
  /\ Shaped(p) /\ Cardinality(UsersOf(p)) = u
  /\ CallsAreAnswered(p) /\ Numbered(p, n) /\ Referenced(p, n)

LEMMA FirstIsCoherent == Coherent(Opening.messages, 0, 0)
<1> DEFINE p == Opening.messages
<1>1. /\ p = <<[role |-> "system", bytes |-> 1, calls |-> <<>>],
               [role |-> "initial", bytes |-> FullBytes, calls |-> <<>>]>>
  BY DEF Opening, Message
<1>2. /\ Len(p) = 2 /\ p[1].role = "system" /\ p[2].role = "initial"
      /\ \A i \in 1..Len(p) : i = 1 \/ i = 2
  BY <1>1
<1>3. p \in Seq(PromptMessage)
  <2>1. <<>> \in Seq(Nat)
    OBVIOUS
  <2>2. [role |-> "system", bytes |-> 1, calls |-> <<>>] \in PromptMessage
    BY <2>1 DEF PromptMessage, PromptRole
  <2>3. [role |-> "initial", bytes |-> FullBytes, calls |-> <<>>] \in PromptMessage
    BY <2>1, ContextAssumption DEF PromptMessage, PromptRole
  <2> QED
    BY <1>1, <2>2, <2>3
<1> HIDE DEF p
<1>4. UsersOf(p) = {} /\ ToolsOf(p) = {} /\ CheckpointsOf(p) = {}
  BY <1>2 DEF UsersOf, ToolsOf, CheckpointsOf, IsUser, IsCheckpoint
<1>5. Cardinality(UsersOf(p)) = 0
  BY <1>4, FS_EmptySet
<1>6. Shaped(p) /\ CallsAreAnswered(p)
  BY <1>2, <1>3 DEF Shaped, CallsAreAnswered
<1>7. Numbered(p, 0) /\ Referenced(p, 0)
  BY <1>4 DEF Numbered, Referenced
<1> QED
  BY <1>5, <1>6, <1>7 DEF Coherent, p

-----------------------------------------------------------------------------
(* The prompt: compaction *)

Kept(m, b) == {j \in b..Len(m) : IsExchange(m[j])}

\* What compactContext returns from a group on
Compacted(q, m, n, u, K) ==
  /\ q \in Seq(PromptMessage) /\ Len(q) = 3 + u + Cardinality(K)
  /\ q[1].role = m[1].role /\ q[2].role = m[2].role
  /\ \A k \in 1..u : IsUser(q[2 + k])
  /\ IsCheckpoint(q[3 + u]) /\ q[3 + u].calls = [k \in 1..n |-> k]
  /\ \A k \in 1..Cardinality(K) : q[3 + u + k] = m[Nth(K, k)]

LEMMA SelectedIs ==
  ASSUME NEW m, m \in Seq(PromptMessage), NEW K \in SUBSET (1..Len(m))
  PROVE  /\ Selected(m, K) \in Seq(PromptMessage)
         /\ Len(Selected(m, K)) = Cardinality(K) /\ Cardinality(K) \in Nat
         /\ \A k \in 1..Cardinality(K) :
              Selected(m, K)[k] = m[Nth(K, k)] /\ Nth(K, k) \in K
<1>1. InOrder(K)
  <2>1. Len(m) \in Nat
    OBVIOUS
  <2> QED BY <2>1, PlacesInOrder
<1>2. Cardinality(K) \in Nat /\ \A k \in 1..Cardinality(K) : Nth(K, k) \in K
  BY <1>1 DEF InOrder
<1>3. \A i \in K : m[i] \in PromptMessage
  OBVIOUS
<1> DEFINE c == Cardinality(K)
           e(k) == Nth(K, k)
<1>4. c \in Nat /\ \A k \in 1..c : e(k) \in K /\ m[e(k)] \in PromptMessage
  BY <1>2, <1>3
<1>5. Selected(m, K) = [k \in 1..c |-> m[e(k)]]
  BY DEF Selected
<1> HIDE DEF c, e
<1>6. /\ Selected(m, K) \in Seq(PromptMessage) /\ Len(Selected(m, K)) = c
      /\ \A k \in 1..c : Selected(m, K)[k] = m[e(k)]
  BY <1>4, <1>5
<1> QED
  BY <1>4, <1>6 DEF c, e

LEMMA Joined ==
  ASSUME NEW S, NEW s \in Seq(S), NEW t \in Seq(S)
  PROVE  /\ s \o t \in Seq(S) /\ Len(s \o t) = Len(s) + Len(t)
         /\ \A i \in 1..Len(s) : (s \o t)[i] = s[i]
         /\ \A i \in 1..Len(t) : (s \o t)[Len(s) + i] = t[i]
OBVIOUS

LEMMA CheckpointIs ==
  ASSUME NEW n \in Nat
  PROVE  /\ Checkpoint(EventsAfter(n), Task) \in PromptMessage
         /\ IsCheckpoint(Checkpoint(EventsAfter(n), Task))
         /\ Checkpoint(EventsAfter(n), Task).calls = [k \in 1..n |-> k]
<1> DEFINE r == Results(EventsAfter(n), Task)
<1>1. Len(r) = n /\ \A k \in 1..n : r[k] = ToolCompleted(k, k)
  BY ResultsAre
<1>2. \A k \in 1..n : r[k].call = k
  BY <1>1 DEF ToolCompleted
<1>3. Checkpoint(EventsAfter(n), Task) =
        [role |-> "checkpoint", bytes |-> 1 + Len(r), calls |-> [i \in 1..Len(r) |-> r[i].call]]
  BY DEF Checkpoint, Message
<1> HIDE DEF r
<1>4. [i \in 1..Len(r) |-> r[i].call] = [k \in 1..n |-> k]
  BY <1>1, <1>2
<1>5. [k \in 1..n |-> k] \in Seq(Nat)
  OBVIOUS
<1>6. Checkpoint(EventsAfter(n), Task) =
        [role |-> "checkpoint", bytes |-> 1 + n, calls |-> [k \in 1..n |-> k]]
  BY <1>1, <1>3, <1>4
<1> DEFINE c == [k \in 1..n |-> k]
<1> HIDE DEF c
<1>7. Checkpoint(EventsAfter(n), Task) = [role |-> "checkpoint", bytes |-> 1 + n, calls |-> c]
  BY <1>6 DEF c
<1>8. c \in Seq(Nat)
  BY <1>5 DEF c
<1> QED
  BY <1>7, <1>8 DEF IsCheckpoint, PromptMessage, PromptRole, c

LEMMA CompactIs ==
  ASSUME NEW m, Shaped(m), NEW n \in Nat, NEW b \in 1..(Len(m) + 1),
         NEW u, u = Cardinality(UsersOf(m))
  PROVE  Compacted(Pinned(m, EventsAfter(n), Task) \o KeptFrom(m, b), m, n, u, Kept(m, b))
<1> DEFINE U == {i \in 3..Len(m) : IsUser(m[i])}
           K == Kept(m, b)
           x == m[1]
           y == [m[2] EXCEPT !.bytes = TrimmedBytes]
           c == Checkpoint(EventsAfter(n), Task)
           h == <<x, y>>
           s == Selected(m, U)
           t == Selected(m, K)
           z == <<c>>
           q == ((h \o s) \o z) \o t
<1>1. m \in Seq(PromptMessage) /\ Len(m) >= 2 /\ Len(m) \in Nat
  BY DEF Shaped
<1>2. U = UsersOf(m)
  <2>1. \A i \in 1..Len(m) : i <= 2 => ~IsUser(m[i])
    BY DEF Shaped, IsUser
  <2> QED
    BY <1>1, <2>1 DEF UsersOf
<1>3. U \in SUBSET (1..Len(m)) /\ K \in SUBSET (1..Len(m))
  BY <1>1 DEF Kept
<1>4. /\ s \in Seq(PromptMessage) /\ Len(s) = u /\ u \in Nat
      /\ \A k \in 1..u : IsUser(s[k])
  <2> HIDE DEF U
  <2>1. \A i \in U : IsUser(m[i])
    BY <1>2 DEF UsersOf
  <2> QED
    BY <1>1, <1>2, <1>3, <2>1, SelectedIs
<1>5. /\ t \in Seq(PromptMessage) /\ Len(t) = Cardinality(K) /\ Cardinality(K) \in Nat
      /\ \A k \in 1..Cardinality(K) : t[k] = m[Nth(K, k)]
  <2> HIDE DEF K
  <2> QED BY <1>1, <1>3, SelectedIs
<1>6. x \in PromptMessage /\ y \in PromptMessage /\ y.role = m[2].role
  <2>1. m[1] \in PromptMessage /\ m[2] \in PromptMessage
    BY <1>1
  <2>2. TrimmedBytes \in Nat
    BY ContextAssumption
  <2> DEFINE w == m[2]
  <2> HIDE DEF w
  <2>3. \A v \in PromptMessage :
          /\ [v EXCEPT !.bytes = TrimmedBytes] \in PromptMessage
          /\ [v EXCEPT !.bytes = TrimmedBytes].role = v.role
    BY <2>2 DEF PromptMessage
  <2> QED
    BY <2>1, <2>3
<1>7. c \in PromptMessage /\ IsCheckpoint(c) /\ c.calls = [k \in 1..n |-> k]
  BY CheckpointIs
<1>8. Pinned(m, EventsAfter(n), Task) \o KeptFrom(m, b) = q
  BY Zenon DEF Pinned, KeptFrom, Kept
<1> HIDE DEF x, y, c, s, t, U, K
<1>9. h \in Seq(PromptMessage) /\ Len(h) = 2 /\ h[1] = x /\ h[2] = y
  BY <1>6
<1>10. z \in Seq(PromptMessage) /\ Len(z) = 1 /\ z[1] = c
  BY <1>7
<1> HIDE DEF h, z
<1> DEFINE hs == h \o s
           hsz == hs \o z
           a == 2 + u
           e == 3 + u
           d == Cardinality(K)
           one == 1
           two == 2
<1>11. /\ a = 2 + u /\ e = 3 + u /\ e = a + one /\ d = Cardinality(K)
       /\ one = 1 /\ two = 2 /\ u \in Nat /\ a = two + u
  BY <1>4
<1> HIDE DEF a, e, d, one, two
<1>12. /\ hs \in Seq(PromptMessage) /\ Len(hs) = a
       /\ \A i \in 1..two : hs[i] = h[i]
       /\ \A i \in 1..u : hs[two + i] = s[i]
  <2>1. /\ hs \in Seq(PromptMessage) /\ Len(hs) = Len(h) + Len(s)
        /\ \A i \in 1..Len(h) : hs[i] = h[i]
        /\ \A i \in 1..Len(s) : hs[Len(h) + i] = s[i]
    <3>1. h \in Seq(PromptMessage) /\ s \in Seq(PromptMessage)
      BY <1>4, <1>9
    <3> QED
      BY <3>1, Joined
  <2>2. Len(h) = two /\ Len(s) = u
    BY <1>4, <1>9, <1>11
  <2> HIDE DEF hs
  <2> QED
    BY <2>1, <2>2, <1>11
<1> HIDE DEF hs
<1>13. /\ hsz \in Seq(PromptMessage) /\ Len(hsz) = e
       /\ \A i \in 1..a : hsz[i] = hs[i]
       /\ \A i \in 1..one : hsz[a + i] = z[i]
  <2>1. /\ hsz \in Seq(PromptMessage) /\ Len(hsz) = Len(hs) + Len(z)
        /\ \A i \in 1..Len(hs) : hsz[i] = hs[i]
        /\ \A i \in 1..Len(z) : hsz[Len(hs) + i] = z[i]
    <3>1. hs \in Seq(PromptMessage) /\ z \in Seq(PromptMessage)
      BY <1>10, <1>12
    <3> QED
      BY <3>1, Joined
  <2>2. Len(hs) = a /\ Len(z) = one
    BY <1>10, <1>11, <1>12
  <2> HIDE DEF hsz
  <2> QED
    BY <2>1, <2>2, <1>11
<1> HIDE DEF hsz
<1> DEFINE r == hsz \o t
<1>14. q = r
  BY Zenon DEF hs, hsz
<1> HIDE DEF q
<1>15. /\ r \in Seq(PromptMessage) /\ Len(r) = e + d
       /\ \A i \in 1..e : r[i] = hsz[i]
       /\ \A i \in 1..d : r[e + i] = t[i]
  <2>1. /\ r \in Seq(PromptMessage) /\ Len(r) = Len(hsz) + Len(t)
        /\ \A i \in 1..Len(hsz) : r[i] = hsz[i]
        /\ \A i \in 1..Len(t) : r[Len(hsz) + i] = t[i]
    <3>1. hsz \in Seq(PromptMessage) /\ t \in Seq(PromptMessage)
      BY <1>5, <1>13
    <3> QED
      BY <3>1, Joined
  <2>2. Len(hsz) = e /\ Len(t) = d
    BY <1>5, <1>11, <1>13
  <2> HIDE DEF r
  <2> QED
    BY <2>1, <2>2, <1>11
<1> HIDE DEF r
<1>16. /\ r[1] = x /\ r[2] = y /\ r[3 + u] = c
       /\ \A k \in 1..u : r[2 + k] = s[k]
  <2>1. /\ one \in 1..two /\ two \in 1..two /\ one \in 1..one
        /\ \A i \in 1..two : i \in 1..a
        /\ \A k \in 1..u : two + k \in 1..a
        /\ \A i \in 1..a : i \in 1..e
        /\ e \in 1..e
    BY <1>11
  <2>2. \A i \in 1..a : r[i] = hs[i]
    BY <2>1, <1>13, <1>15
  <2>3. r[one] = h[one] /\ r[two] = h[two]
    BY <2>1, <2>2, <1>12
  <2>4. \A k \in 1..u : r[two + k] = s[k]
    BY <2>1, <2>2, <1>12
  <2>5. r[e] = hsz[e] /\ hsz[a + one] = z[one]
    BY <2>1, <1>13, <1>15
  <2> QED
    BY <2>3, <2>4, <2>5, <1>9, <1>10, <1>11
<1>17. Compacted(r, m, n, u, K)
  <2>1. r[1].role = m[1].role /\ r[2].role = m[2].role
    BY <1>6, <1>16 DEF x
  <2>2. \A k \in 1..u : IsUser(r[2 + k])
    BY <1>4, <1>16
  <2>3. IsCheckpoint(r[3 + u]) /\ r[3 + u].calls = [k \in 1..n |-> k]
    BY <1>7, <1>16
  <2>4. r \in Seq(PromptMessage) /\ Len(r) = 3 + u + Cardinality(K)
    BY <1>11, <1>15
  <2>5. \A k \in 1..Cardinality(K) : r[3 + u + k] = m[Nth(K, k)]
    BY <1>5, <1>11, <1>15
  <2> QED
    BY <2>1, <2>2, <2>3, <2>4, <2>5 DEF Compacted
<1> QED
  BY <1>8, <1>14, <1>17 DEF K

\* A prompt that is cut at the start of a group stays coherent.
LEMMA CompactStaysCoherent ==
  ASSUME NEW m, NEW n \in Nat, NEW u, Coherent(m, n, u),
         NEW b \in GroupBoundary(m),
         NEW q, Compacted(q, m, n, u, Kept(m, b))
  PROVE  Coherent(q, n, u)
<1> DEFINE K == Kept(m, b)
           N == Len(m)
           c == Cardinality(K)
           e(k) == Nth(K, k)
           w == 3 + u
<1>1. m \in Seq(PromptMessage) /\ N \in Nat /\ N >= 2
  BY DEF Coherent, Shaped
<1>2. b \in 3..(N + 1) /\ (b \in 1..N => m[b].role = "assistant")
  <2>1. \/ b \in 3..N /\ m[b].role = "assistant"
        \/ b = N + 1
    BY DEF GroupBoundary
  <2> QED
    BY <1>1, <2>1
<1>3. /\ K \in SUBSET (1..N)
      /\ \A j \in 1..N : j \in K <=> b <= j /\ IsExchange(m[j])
  BY <1>1, <1>2 DEF Kept
<1>4. /\ c \in Nat
      /\ \A k \in 1..c : e(k) \in K
      /\ \A i \in K : \E k \in 1..c : e(k) = i
      /\ \A k, l \in 1..c : k < l <=> e(k) < e(l)
  <2>1. InOrder(K)
    BY <1>1, <1>3, PlacesInOrder
  <2> QED
    BY <2>1 DEF InOrder
<1>5. \A k \in 1..c, d \in Nat :
        (\A t \in 0..d : e(k) + t \in K) => k + d \in 1..c /\ e(k + d) = e(k) + d
  BY <1>1, <1>3, Consecutive
<1>6. u \in Nat /\ w \in Nat /\ w = 3 + u
  <2> DEFINE one == 1
  <2>1. one \in Int /\ N \in Int /\ UsersOf(m) \in SUBSET (one..N)
    BY <1>1 DEF UsersOf
  <2> HIDE DEF one
  <2>2. Cardinality(UsersOf(m)) \in Nat
    BY <2>1, FS_Interval, FS_Subset, FS_CardinalityType
  <2> QED
    BY <2>2 DEF Coherent
<1>7. /\ q \in Seq(PromptMessage) /\ Len(q) = w + c
      /\ q[1].role = m[1].role /\ q[2].role = m[2].role
      /\ \A k \in 1..u : IsUser(q[2 + k])
      /\ IsCheckpoint(q[w]) /\ q[w].calls = [k \in 1..n |-> k]
      /\ \A k \in 1..c : q[w + k] = m[e(k)]
  BY DEF Compacted
<1> HIDE DEF K, N, c, e, w
<1>8. \A k \in 1..c : q[w + k].role \in {"assistant", "tool"}
  BY <1>3, <1>4, <1>7 DEF IsExchange
<1>9. /\ q[1].role \in {"system", "initial"} /\ q[2].role \in {"system", "initial"}
  <2>1. 1 \in 1..N /\ 2 \in 1..N
    BY <1>1
  <2> QED
    BY <1>7, <2>1 DEF Coherent, Shaped, N
<1>10. \A i \in 1..(w + c) :
         \/ i = 1 \/ i = 2
         \/ i > 2 /\ i < w /\ IsUser(q[i])
         \/ i = w
         \/ i > w /\ i - w \in 1..c /\ w + (i - w) = i /\ q[i] = m[e(i - w)]
              /\ q[i].role \in {"assistant", "tool"}
  <2> TAKE i \in 1..(w + c)
  <2>1. CASE i > 2 /\ i < w
    <3>1. i - 2 \in 1..u /\ 2 + (i - 2) = i
      BY <1>6, <2>1
    <3>2. IsUser(q[2 + (i - 2)])
      BY <1>7, <3>1
    <3> QED
      BY <2>1, <3>1, <3>2
  <2>2. CASE i > w
    <3>1. i - w \in 1..c /\ w + (i - w) = i
      BY <1>4, <1>6, <2>2
    <3>2. q[w + (i - w)] = m[e(i - w)] /\ q[w + (i - w)].role \in {"assistant", "tool"}
      BY <1>7, <1>8, <3>1
    <3> QED
      BY <2>2, <3>1, <3>2
  <2> QED
    BY <1>4, <1>6, <2>1, <2>2
<1>11. ASSUME NEW i \in 1..(w + c)
       PROVE  /\ q[i].role \in {"system", "initial"} <=> i <= 2
              /\ IsUser(q[i]) <=> i > 2 /\ i < w
  <2>1. w > 2 /\ i \in Nat
    BY <1>4, <1>6
  <2>2. CASE i = 1 \/ i = 2
    BY <1>6, <1>9, <2>2 DEF IsUser
  <2>3. CASE i > 2 /\ i < w /\ IsUser(q[i])
    BY <2>1, <2>3 DEF IsUser
  <2>4. CASE i = w
    BY <1>7, <2>1, <2>4 DEF IsUser, IsCheckpoint
  <2>5. CASE i > w /\ q[i].role \in {"assistant", "tool"}
    BY <1>6, <2>1, <2>5 DEF IsUser
  <2> QED
    BY <1>10, <2>2, <2>3, <2>4, <2>5
<1>12. Shaped(q)
  <2>1. Len(q) >= 2
    BY <1>4, <1>6, <1>7
  <2>2. \A i \in 1..Len(q) : q[i].role \in {"system", "initial"} <=> i <= 2
    BY <1>7, <1>11
  <2> QED
    BY <1>7, <2>1, <2>2 DEF Shaped
<1>13. Cardinality(UsersOf(q)) = u
  <2> DEFINE three == 3
             top == 2 + u
  <2>1. three = 3 /\ three \in Int /\ top \in Int /\ top = 2 + u
    BY <1>6
  <2>2. \A i \in 1..(w + c) : IsUser(q[i]) <=> i \in three..top
    BY <1>6, <1>11, <2>1
  <2>3. \A i \in three..top : i \in 1..(w + c)
    BY <1>4, <1>6, <2>1
  <2> HIDE DEF three, top
  <2>4. UsersOf(q) = {i \in 1..(w + c) : IsUser(q[i])}
    BY <1>7 DEF UsersOf
  <2>5. UsersOf(q) = three..top
    BY <2>2, <2>3, <2>4
  <2>6. Cardinality(three..top) = IF three > top THEN 0 ELSE top - three + 1
    BY <2>1, FS_Interval
  <2>7. Cardinality(three..top) = u
    BY <1>6, <2>1, <2>6
  <2> QED
    BY <2>5, <2>7
<1>14. /\ \A i \in ToolsOf(q) : /\ i - w \in 1..c /\ e(i - w) \in ToolsOf(m)
                                /\ q[i] = m[e(i - w)] /\ i \in Nat
       /\ \A k \in 1..c : e(k) \in ToolsOf(m) => w + k \in ToolsOf(q)
  <2>1. ASSUME NEW i \in ToolsOf(q)
        PROVE  i - w \in 1..c /\ e(i - w) \in ToolsOf(m) /\ q[i] = m[e(i - w)] /\ i \in Nat
    <3>1. i \in 1..(w + c) /\ q[i].role = "tool"
      BY <1>7 DEF ToolsOf
    <3>2. i - w \in 1..c /\ q[i] = m[e(i - w)]
      BY <1>7, <1>9, <1>10, <3>1 DEF IsUser, IsCheckpoint
    <3>3. e(i - w) \in 1..N
      BY <1>3, <1>4, <3>2
    <3> QED
      BY <3>1, <3>2, <3>3 DEF ToolsOf, N
  <2>2. ASSUME NEW k \in 1..c, e(k) \in ToolsOf(m) PROVE w + k \in ToolsOf(q)
    <3>1. w + k \in 1..(w + c) /\ q[w + k] = m[e(k)]
      BY <1>4, <1>6, <1>7
    <3> QED
      BY <1>7, <2>2, <3>1 DEF ToolsOf
  <2> QED
    BY <2>1, <2>2
<1>15. Numbered(q, n)
  <2>1. /\ \A i \in ToolsOf(m) : m[i].calls = <<m[i].calls[1]>> /\ m[i].calls[1] \in 1..n
        /\ \A i, j \in ToolsOf(m) : i < j => m[i].calls[1] < m[j].calls[1]
        /\ \A i \in ToolsOf(m) : \A k \in m[i].calls[1]..n :
             \E j \in ToolsOf(m) : m[j].calls[1] = k
    BY DEF Coherent, Numbered
  <2>2. \A i \in ToolsOf(q) : q[i].calls = <<q[i].calls[1]>> /\ q[i].calls[1] \in 1..n
    BY <1>14, <2>1
  <2>3. ASSUME NEW i \in ToolsOf(q), NEW j \in ToolsOf(q), i < j
        PROVE  q[i].calls[1] < q[j].calls[1]
    <3>1. i - w < j - w /\ i - w \in 1..c /\ j - w \in 1..c
      BY <1>6, <1>14, <2>3
    <3>2. e(i - w) < e(j - w)
      BY <1>4, <3>1
    <3> QED
      BY <1>14, <2>1, <3>2
  <2>4. ASSUME NEW i \in ToolsOf(q), NEW k \in q[i].calls[1]..n
        PROVE  \E j \in ToolsOf(q) : q[j].calls[1] = k
    <3> DEFINE x == e(i - w)
    <3>1. x \in ToolsOf(m) /\ q[i] = m[x] /\ x \in K /\ i - w \in 1..c
      BY <1>4, <1>14
    <3> HIDE DEF x
    <3>2. PICK j \in ToolsOf(m) : m[j].calls[1] = k
      BY <2>1, <3>1
    <3>3. m[x].calls[1] \in Nat /\ m[x].calls[1] <= k
      BY <2>1, <3>1
    <3>4. ~(j < x)
      BY <2>1, <3>1, <3>2, <3>3
    <3>5. j \in 1..N /\ x \in 1..N /\ b <= x /\ m[j].role = "tool"
      BY <1>3, <3>1 DEF ToolsOf, N
    <3>6. j \in K
      BY <1>2, <1>3, <3>4, <3>5 DEF IsExchange
    <3>7. PICK l \in 1..c : e(l) = j
      BY <1>4, <3>6
    <3>8. w + l \in ToolsOf(q) /\ q[w + l] = m[j]
      BY <1>7, <1>14, <3>7
    <3> QED
      BY <3>2, <3>8
  <2> QED
    BY <2>2, <2>3, <2>4 DEF Numbered
<1>16. Referenced(q, n)
  <2>1. w \in 1..Len(q)
    BY <1>4, <1>6, <1>7
  <2>2. \A i \in CheckpointsOf(q) : i = w
    BY <1>4, <1>7, <1>9, <1>10 DEF CheckpointsOf, IsCheckpoint, IsUser
  <2>3. w \in CheckpointsOf(q)
    BY <1>7, <2>1 DEF CheckpointsOf
  <2>4. \A k \in 1..n : k \in 1..Len(q[w].calls) /\ q[w].calls[k] = k
    BY <1>7
  <2> QED
    BY <2>2, <2>3, <2>4 DEF Referenced
<1>17. CallsAreAnswered(q)
  <2>1. CallsAreAnswered(m)
    BY DEF Coherent
  <2>2. ASSUME NEW x \in 1..N, b <= x, m[x].role = "assistant",
               NEW t \in 0..Len(m[x].calls)
        PROVE  x + t \in K /\ x + t \in 1..N
                /\ (t # 0 => m[x + t].role = "tool" /\ m[x + t].calls = <<m[x].calls[t]>>)
    <3>1. Len(m[x].calls) \in Nat
      BY <1>1 DEF N, PromptMessage
    <3>2. CASE t = 0
      BY <1>1, <1>3, <2>2, <3>2 DEF IsExchange
    <3>3. CASE t # 0
      <4>1. t \in 1..Len(m[x].calls)
        BY <3>1, <3>3
      <4>2. /\ x + Len(m[x].calls) <= N /\ m[x + t].role = "tool"
            /\ m[x + t].calls = <<m[x].calls[t]>>
        BY <2>1, <2>2, <4>1 DEF CallsAreAnswered, N
      <4>3. x + t \in 1..N /\ b <= x + t
        <5> DEFINE g == Len(m[x].calls)
        <5>1. g \in Nat /\ t \in 1..g /\ x + g <= N
          BY <3>1, <4>1, <4>2
        <5> HIDE DEF g
        <5>2. t \in Nat /\ x \in Nat /\ N \in Nat /\ b \in Nat
          BY <1>1, <1>2, <2>2, <5>1
        <5> QED
          BY <2>2, <5>1, <5>2
      <4> QED
        BY <1>3, <4>2, <4>3 DEF IsExchange
    <3> QED
      BY <3>2, <3>3
  <2>3. ASSUME NEW i \in 1..Len(q), q[i].role = "assistant"
        PROVE  /\ i + Len(q[i].calls) <= Len(q)
               /\ \A t \in 1..Len(q[i].calls) :
                    q[i + t].role = "tool" /\ q[i + t].calls = <<q[i].calls[t]>>
    <3> DEFINE k == i - w
               x == e(k)
               d == Len(q[i].calls)
    <3>1. k \in 1..c /\ w + k = i /\ q[i] = m[x]
      BY <1>7, <1>9, <1>10, <2>3 DEF IsUser, IsCheckpoint
    <3>2. x \in K /\ x \in 1..N /\ b <= x
      BY <1>3, <1>4, <3>1
    <3>3. d \in Nat /\ d = Len(m[x].calls)
      <4>1. m[x] \in PromptMessage
        BY <1>1, <3>2 DEF N
      <4> QED
        BY <3>1, <4>1 DEF PromptMessage
    <3> HIDE DEF k, d
    <3>4. ASSUME NEW t \in 0..d PROVE k + t \in 1..c /\ e(k + t) = x + t
      <4>1. \A r \in 0..t : r \in 0..Len(m[x].calls)
        BY <3>3
      <4>2. \A r \in 0..t : e(k) + r \in K
        BY <2>2, <2>3, <3>1, <3>2, <4>1
      <4> QED
        BY <1>5, <3>1, <3>3, <4>2
    <3>5. i + d <= Len(q)
      <4>1. k + d \in 1..c
        BY <3>3, <3>4
      <4> QED
        <5>1. k + d <= c /\ k \in Nat /\ d \in Nat
          BY <1>4, <3>1, <3>3, <4>1
        <5>2. i = w + k /\ Len(q) = w + c
          BY <1>7, <3>1
        <5> QED
          BY <1>4, <1>6, <5>1, <5>2
    <3>6. ASSUME NEW t \in 1..d
          PROVE  q[i + t].role = "tool" /\ q[i + t].calls = <<q[i].calls[t]>>
      <4>1. t \in 0..d /\ t # 0 /\ t \in 0..Len(m[x].calls)
        BY <3>3
      <4>2. k + t \in 1..c /\ e(k + t) = x + t
        BY <3>4, <4>1
      <4>3. i + t = w + (k + t)
        BY <1>6, <3>1, <3>3
      <4>4. q[i + t] = m[x + t]
        BY <1>7, <4>2, <4>3
      <4>5. m[x + t].role = "tool" /\ m[x + t].calls = <<m[x].calls[t]>>
        BY <2>2, <2>3, <3>1, <3>2, <4>1
      <4> QED
        BY <3>1, <4>4, <4>5
    <3> QED
      BY <3>5, <3>6 DEF d
  <2>4. ASSUME NEW i \in 1..Len(q), q[i].role = "tool"
        PROVE  \E j \in 1..i - 1 : q[j].role = "assistant" /\ i - j <= Len(q[j].calls)
    <3> DEFINE k == i - w
               x == e(k)
    <3>1. k \in 1..c /\ w + k = i /\ q[i] = m[x]
      BY <1>7, <1>9, <1>10, <2>4 DEF IsUser, IsCheckpoint
    <3>2. x \in K /\ x \in 1..N /\ b <= x /\ m[x].role = "tool"
      BY <1>3, <1>4, <2>4, <3>1
    <3> HIDE DEF k
    <3>3. PICK j \in 1..x - 1 : m[j].role = "assistant" /\ x - j <= Len(m[j].calls)
      BY <2>1, <3>2 DEF CallsAreAnswered, N
    <3>4. j \in 1..N /\ Len(m[j].calls) \in Nat
      <4>1. j \in 1..N
        BY <1>1, <3>2
      <4>2. m[j] \in PromptMessage
        BY <1>1, <4>1 DEF N
      <4> QED
        BY <4>1, <4>2 DEF PromptMessage
    <3>5. b <= j
      <4> SUFFICES ASSUME j < b PROVE FALSE
        BY <1>2, <3>4
      <4>1. b - j \in 1..Len(m[j].calls) /\ j + (b - j) = b
        <5> DEFINE g == Len(m[j].calls)
        <5>1. g \in Nat /\ x - j <= g /\ j \in Nat /\ x \in Nat /\ b \in Nat
          BY <1>1, <1>2, <3>2, <3>3, <3>4
        <5> HIDE DEF g, x
        <5>2. b - j \in 1..g /\ j + (b - j) = b
          BY <3>2, <5>1
        <5> QED
          BY <5>2 DEF g
      <4>2. m[b].role = "tool"
        BY <2>1, <3>3, <3>4, <4>1 DEF CallsAreAnswered, N
      <4>3. b \in 1..N
        BY <1>1, <1>2, <3>2
      <4> QED
        BY <1>2, <4>2, <4>3
    <3>6. j \in K
      BY <1>3, <3>3, <3>4, <3>5 DEF IsExchange
    <3>7. PICK l \in 1..c : e(l) = j
      BY <1>4, <3>6
    <3> DEFINE d == x - j
    <3>8. d \in Nat /\ d = x - j /\ d # 0 /\ j + d = x /\ d <= Len(m[j].calls)
      <4>1. x \in Nat /\ j \in 1..x - 1
        BY <1>1, <3>2
      <4> HIDE DEF x
      <4>2. d \in Nat /\ d # 0 /\ j + d = x
        BY <4>1
      <4> QED
        BY <3>3, <4>2
    <3> HIDE DEF d
    <3>9. \A t \in 0..d : t \in 0..Len(m[j].calls)
      BY <3>4, <3>8
    <3>10. \A t \in 0..d : e(l) + t \in K
      BY <2>2, <3>3, <3>4, <3>5, <3>7, <3>9
    <3>11. l + d \in 1..c /\ e(l + d) = x
      BY <1>5, <3>7, <3>8, <3>10
    <3>12. l + d = k
      <4>1. ~(l + d < k) /\ ~(k < l + d)
        <5> DEFINE y == l + d
        <5>1. y \in 1..c /\ e(y) = x /\ x \in Nat
          BY <3>2, <3>11
        <5> HIDE DEF y
        <5>2. ~(y < k) /\ ~(k < y)
          <6>1. e(k) = x
            OBVIOUS
          <6> HIDE DEF x
          <6> QED BY <1>4, <3>1, <5>1, <6>1
        <5> QED
          BY <5>2 DEF y
      <4> QED
        BY <1>4, <3>1, <3>8, <3>11, <4>1
    <3>13. w + l \in 1..i - 1 /\ i - (w + l) = d /\ q[w + l] = m[j]
      <4>1. q[w + l] = m[j]
        BY <1>7, <3>7
      <4>2. i = w + (l + d) /\ l \in Nat /\ d \in Nat /\ d # 0
        BY <1>4, <3>1, <3>7, <3>8, <3>12
      <4>3. w + l \in 1..i - 1 /\ i - (w + l) = d
        <5>1. l # 0
          BY <3>7
        <5> QED
          BY <1>6, <4>2, <5>1
      <4> QED
        BY <4>1, <4>3
    <3> QED
      BY <3>3, <3>8, <3>13
  <2> QED
    BY <2>3, <2>4 DEF CallsAreAnswered
<1> QED
  BY <1>12, <1>13, <1>15, <1>16, <1>17 DEF Coherent

\* Compacted or not, the prompt of a turn is coherent.
LEMMA PromptIsCoherent ==
  ASSUME NEW m, NEW n \in Nat, NEW u, Coherent(m, n, u), NEW budget
  PROVE  Coherent(Prompt(m, budget, EventsAfter(n), Task), n, u)
<1> DEFINE pinned == Pinned(m, EventsAfter(n), Task)
           fitting == {i \in GroupBoundary(m) : Bytes(pinned \o KeptFrom(m, i)) <= budget}
           compact == CompactContext(m, budget, EventsAfter(n), Task)
<1>1. m \in Seq(PromptMessage) /\ Len(m) \in Nat /\ u = Cardinality(UsersOf(m)) /\ Shaped(m)
  BY DEF Coherent, Shaped
<1>2. compact = IF fitting = {} THEN <<>> ELSE pinned \o KeptFrom(m, Least(fitting))
  BY DEF CompactContext
<1>3. ASSUME fitting # {} PROVE Coherent(pinned \o KeptFrom(m, Least(fitting)), n, u)
  <2>1. fitting \in SUBSET GroupBoundary(m) /\ GroupBoundary(m) \in SUBSET (1..(Len(m) + 1))
    BY <1>1 DEF GroupBoundary
  <2>2. fitting \in SUBSET Nat
    BY <2>1
  <2> HIDE DEF fitting, pinned
  <2> DEFINE b == Least(fitting)
  <2>3. b \in fitting
    <3>1. \E i \in fitting : \A j \in fitting : i <= j
      BY <1>3, <2>2, LeastNatural
    <3> QED
      BY <3>1 DEF Least
  <2>4. b \in GroupBoundary(m) /\ b \in 1..(Len(m) + 1)
    BY <2>1, <2>3
  <2> HIDE DEF b
  <2>5. Compacted(pinned \o KeptFrom(m, b), m, n, u, Kept(m, b))
    BY <1>1, <2>4, CompactIs DEF pinned
  <2>6. Coherent(pinned \o KeptFrom(m, b), n, u)
    BY <2>4, <2>5, CompactStaysCoherent
  <2> QED
    BY <2>6 DEF b
<1>4. Prompt(m, budget, EventsAfter(n), Task) =
        IF Bytes(m) > budget /\ compact # <<>> THEN compact ELSE m
  BY DEF Prompt
<1> HIDE DEF compact, pinned, fitting
<1> QED
  BY <1>2, <1>3, <1>4

-----------------------------------------------------------------------------
(* The prompt: another exchange *)

\* What a turn appends: the calls, their answers, and what the user is shown
TurnAppended(q, p, n, d, shown) ==
  /\ q \in Seq(PromptMessage) /\ Len(q) = Len(p) + 1 + d + (IF shown THEN 1 ELSE 0)
  /\ \A i \in 1..Len(p) : q[i] = p[i]
  /\ q[Len(p) + 1].role = "assistant"
  /\ q[Len(p) + 1].calls = [i \in 1..d |-> n + i]
  /\ \A i \in 1..d : /\ q[Len(p) + 1 + i].role = "tool"
                     /\ q[Len(p) + 1 + i].calls = <<n + i>>
  /\ shown => q[Len(p) + 1 + d + 1].role = "user"

LEMMA ExchangeIs ==
  ASSUME NEW p \in Seq(PromptMessage), NEW n \in Nat, NEW d \in Nat,
         NEW size \in Nat, NEW shown \in BOOLEAN
  PROVE  TurnAppended(p \o <<Message("assistant", 1, [i \in 1..d |-> n + i])>>
                    \o [i \in 1..d |-> Message("tool", size, <<n + i>>)]
                    \o (IF shown THEN <<Message("user", 1, <<>>)>> ELSE <<>>),
                  p, n, d, shown)
<1> DEFINE asked == <<Message("assistant", 1, [i \in 1..d |-> n + i])>>
           told == [i \in 1..d |-> Message("tool", size, <<n + i>>)]
           said == IF shown THEN <<Message("user", 1, <<>>)>> ELSE <<>>
           one == 1
           extra == IF shown THEN 1 ELSE 0
           L == Len(p)
<1>1. one = 1 /\ extra \in Nat /\ extra = (IF shown THEN 1 ELSE 0) /\ L \in Nat
  OBVIOUS
<1>2. /\ asked \in Seq(PromptMessage) /\ Len(asked) = one
      /\ asked[1].role = "assistant" /\ asked[1].calls = [i \in 1..d |-> n + i]
  <2> DEFINE ids == [i \in 1..d |-> n + i]
  <2>1. ids \in Seq(Nat)
    OBVIOUS
  <2> HIDE DEF ids
  <2>2. \A a \in Seq(Nat) :
          /\ <<Message("assistant", 1, a)>> \in Seq(PromptMessage)
          /\ Len(<<Message("assistant", 1, a)>>) = 1
          /\ <<Message("assistant", 1, a)>>[1].role = "assistant"
          /\ <<Message("assistant", 1, a)>>[1].calls = a
    BY DEF Message, PromptMessage, PromptRole
  <2>3. asked = <<Message("assistant", 1, ids)>>
    BY DEF ids
  <2> HIDE DEF asked
  <2>4. /\ asked \in Seq(PromptMessage) /\ Len(asked) = 1
        /\ asked[1].role = "assistant" /\ asked[1].calls = ids
    BY <2>1, <2>2, <2>3
  <2> QED
    BY <2>4 DEF ids
<1>3. /\ told \in Seq(PromptMessage) /\ Len(told) = d
      /\ \A i \in 1..d : told[i].role = "tool" /\ told[i].calls = <<n + i>>
  <2>1. \A i \in 1..d : Message("tool", size, <<n + i>>) \in PromptMessage
    <3> TAKE i \in 1..d
    <3>1. <<n + i>> \in Seq(Nat)
      OBVIOUS
    <3> QED
      BY <3>1 DEF Message, PromptMessage, PromptRole
  <2>2. \A i \in 1..d : Message("tool", size, <<n + i>>).role = "tool"
                        /\ Message("tool", size, <<n + i>>).calls = <<n + i>>
    BY DEF Message
  <2> DEFINE answer(i) == Message("tool", size, <<n + i>>)
  <2>3. told = [i \in 1..d |-> answer(i)]
    OBVIOUS
  <2>4. \A i \in 1..d : answer(i) \in PromptMessage
    BY <2>1
  <2>5. \A i \in 1..d : answer(i).role = "tool" /\ answer(i).calls = <<n + i>>
    BY <2>2
  <2> HIDE DEF answer, told
  <2>6. /\ told \in Seq(PromptMessage) /\ Len(told) = d
        /\ \A i \in 1..d : told[i] = answer(i)
    BY <2>3, <2>4
  <2> QED
    BY <2>5, <2>6
<1>4. /\ said \in Seq(PromptMessage) /\ Len(said) = extra
      /\ shown => said[1].role = "user"
  <2>1. <<>> \in Seq(Nat)
    OBVIOUS
  <2>2. Message("user", 1, <<>>) \in PromptMessage /\ Message("user", 1, <<>>).role = "user"
    BY <2>1 DEF Message, PromptMessage, PromptRole
  <2>3. CASE shown
    BY <2>2, <2>3
  <2>4. CASE ~shown
    BY <2>4
  <2> QED
    BY <2>3, <2>4
<1> DEFINE q == p \o asked \o told \o said
<1> HIDE DEF asked, told, said, one, extra, L, q
<1> DEFINE pa == p \o asked
           pat == pa \o told
           r == pat \o said
<1>5. q = r
  BY DEF q
<1>6. /\ pa \in Seq(PromptMessage) /\ Len(pa) = L + one
      /\ \A i \in 1..L : pa[i] = p[i]
      /\ \A i \in 1..one : pa[L + i] = asked[i]
  <2>1. /\ pa \in Seq(PromptMessage) /\ Len(pa) = Len(p) + Len(asked)
        /\ \A i \in 1..Len(p) : pa[i] = p[i]
        /\ \A i \in 1..Len(asked) : pa[Len(p) + i] = asked[i]
    <3>1. p \in Seq(PromptMessage) /\ asked \in Seq(PromptMessage)
      BY <1>2
    <3> QED
      BY <3>1, Joined
  <2> HIDE DEF pa
  <2> QED
    BY <2>1, <1>2 DEF L
<1> HIDE DEF pa
<1>7. /\ pat \in Seq(PromptMessage) /\ Len(pat) = L + one + d
      /\ \A i \in 1..(L + one) : pat[i] = pa[i]
      /\ \A i \in 1..d : pat[L + one + i] = told[i]
  <2>1. /\ pat \in Seq(PromptMessage) /\ Len(pat) = Len(pa) + Len(told)
        /\ \A i \in 1..Len(pa) : pat[i] = pa[i]
        /\ \A i \in 1..Len(told) : pat[Len(pa) + i] = told[i]
    <3>1. pa \in Seq(PromptMessage) /\ told \in Seq(PromptMessage)
      BY <1>3, <1>6
    <3> QED
      BY <3>1, Joined
  <2> HIDE DEF pat
  <2> QED
    BY <2>1, <1>3, <1>6
<1> HIDE DEF pat
<1>8. /\ r \in Seq(PromptMessage) /\ Len(r) = L + one + d + extra
      /\ \A i \in 1..(L + one + d) : r[i] = pat[i]
      /\ \A i \in 1..extra : r[L + one + d + i] = said[i]
  <2>1. /\ r \in Seq(PromptMessage) /\ Len(r) = Len(pat) + Len(said)
        /\ \A i \in 1..Len(pat) : r[i] = pat[i]
        /\ \A i \in 1..Len(said) : r[Len(pat) + i] = said[i]
    <3>1. pat \in Seq(PromptMessage) /\ said \in Seq(PromptMessage)
      BY <1>4, <1>7
    <3> QED
      BY <3>1, Joined
  <2> HIDE DEF r
  <2> QED
    BY <2>1, <1>4, <1>7
<1> HIDE DEF r
<1>9. /\ \A i \in 1..L : i \in 1..(L + one) /\ i \in 1..(L + one + d)
      /\ \A i \in 1..(L + one) : i \in 1..(L + one + d)
      /\ one \in 1..one /\ L + one \in 1..(L + one)
      /\ \A i \in 1..d : L + one + i \in 1..(L + one + d)
      /\ shown => one \in 1..extra
  BY <1>1
<1>10. \A i \in 1..L : r[i] = p[i]
  BY <1>6, <1>7, <1>8, <1>9
<1>11. r[L + one] = asked[one]
  BY <1>6, <1>7, <1>8, <1>9
<1>12. \A i \in 1..d : r[L + one + i] = told[i]
  BY <1>7, <1>8, <1>9
<1>13. shown => r[L + one + d + one] = said[one]
  BY <1>8, <1>9
<1>14. TurnAppended(r, p, n, d, shown)
  <2>1. Len(r) = L + 1 + d + (IF shown THEN 1 ELSE 0)
    BY <1>1, <1>8
  <2>2. r[L + 1].role = "assistant" /\ r[L + 1].calls = [i \in 1..d |-> n + i]
    BY <1>1, <1>2, <1>11
  <2>3. \A i \in 1..d : r[L + 1 + i].role = "tool" /\ r[L + 1 + i].calls = <<n + i>>
    BY <1>1, <1>3, <1>12
  <2>4. shown => r[L + 1 + d + 1].role = "user"
    BY <1>1, <1>4, <1>13
  <2> QED
    BY <1>8, <1>10, <2>1, <2>2, <2>3, <2>4 DEF TurnAppended, L
<1> QED
  BY <1>5, <1>14 DEF q, asked, told, said

\* An exchange keeps a prompt coherent: each call gets its answer.
LEMMA ExchangeStaysCoherent ==
  ASSUME NEW p, NEW n \in Nat, NEW u, Coherent(p, n, u), NEW d \in Nat,
         NEW shown \in BOOLEAN, NEW q, TurnAppended(q, p, n, d, shown)
  PROVE  Coherent(q, n + d, IF shown THEN u + 1 ELSE u)
<1> DEFINE L == Len(p)
           a == L + 1
           extra == IF shown THEN 1 ELSE 0
<1>1. /\ p \in Seq(PromptMessage) /\ L \in Nat /\ L >= 2
      /\ \A i \in 1..L : p[i].role \in {"system", "initial"} <=> i <= 2
  BY DEF Coherent, Shaped
<1>2. /\ a \in Nat /\ a = L + 1 /\ extra \in {0, 1} /\ (shown <=> extra = 1)
  BY <1>1
<1>3. /\ q \in Seq(PromptMessage) /\ Len(q) = a + d + extra
      /\ \A i \in 1..L : q[i] = p[i]
      /\ q[a].role = "assistant" /\ q[a].calls = [i \in 1..d |-> n + i]
      /\ \A i \in 1..d : q[a + i].role = "tool" /\ q[a + i].calls = <<n + i>>
      /\ shown => q[a + d + 1].role = "user"
  BY DEF TurnAppended
<1> HIDE DEF L, a, extra
<1>4. ASSUME NEW i \in 1..Len(q)
      PROVE  \/ i \in 1..L /\ q[i] = p[i]
             \/ i = a
             \/ i - a \in 1..d /\ a + (i - a) = i /\ q[i].role = "tool"
                  /\ q[i].calls = <<n + (i - a)>>
             \/ i = a + d + 1 /\ shown /\ q[i].role = "user"
  <2>1. CASE i <= L
    BY <1>3, <2>1
  <2>2. CASE i > a /\ i <= a + d
    <3>1. i - a \in 1..d /\ a + (i - a) = i
      BY <1>2, <2>2
    <3>2. q[a + (i - a)].role = "tool" /\ q[a + (i - a)].calls = <<n + (i - a)>>
      BY <1>3, <3>1
    <3> QED
      BY <3>1, <3>2
  <2>3. CASE i > a + d
    <3>1. extra = 1 /\ i = a + d + 1
      BY <1>2, <1>3, <2>3
    <3> QED
      BY <1>2, <1>3, <3>1
  <2>4. i <= L \/ i = a \/ (i > a /\ i <= a + d) \/ i > a + d
    BY <1>1, <1>2
  <2> QED
    BY <2>1, <2>2, <2>3, <2>4
<1>5. /\ \A i \in 1..L : i \in 1..Len(q)
      /\ a \in 1..Len(q) /\ \A i \in 1..d : a + i \in 1..Len(q)
      /\ shown => a + d + 1 \in 1..Len(q)
  BY <1>1, <1>2, <1>3
<1>6. Shaped(q)
  <2>1. Len(q) >= 2
    BY <1>1, <1>2, <1>3
  <2>2. ASSUME NEW i \in 1..Len(q)
        PROVE  q[i].role \in {"system", "initial"} <=> i <= 2
    <3>1. CASE i \in 1..L /\ q[i] = p[i]
      BY <1>1, <3>1
    <3>2. CASE i = a
      BY <1>1, <1>2, <1>3, <3>2
    <3>3. CASE i - a \in 1..d /\ q[i].role = "tool"
      <4>1. i > 2
        BY <1>1, <1>2, <3>3
      <4> QED
        BY <3>3, <4>1
    <3>4. CASE i = a + d + 1 /\ q[i].role = "user"
      <4>1. i > 2
        BY <1>1, <1>2, <3>4
      <4> QED
        BY <3>4, <4>1
    <3> QED
      BY <1>4, <3>1, <3>2, <3>3, <3>4
  <2> QED
    BY <1>3, <2>1, <2>2 DEF Shaped
<1>7. Cardinality(UsersOf(q)) = IF shown THEN u + 1 ELSE u
  <2>1. IsFiniteSet(UsersOf(p)) /\ UsersOf(p) \subseteq 1..L /\ Cardinality(UsersOf(p)) = u
    <3> DEFINE one == 1
    <3>1. one \in Int /\ L \in Int /\ UsersOf(p) \in SUBSET (one..L)
      BY <1>1 DEF UsersOf, L
    <3> HIDE DEF one
    <3>2. IsFiniteSet(UsersOf(p))
      BY <3>1, FS_Interval, FS_Subset
    <3> QED
      BY <3>2 DEF UsersOf, L, Coherent
  <2>2. \A i \in 1..Len(q) : IsUser(q[i]) =>
          i \in UsersOf(p) \/ (shown /\ i = a + d + 1)
    BY <1>3, <1>4 DEF IsUser, UsersOf, L
  <2>3. \A i \in UsersOf(p) : i \in UsersOf(q)
    BY <1>3, <1>5, <2>1 DEF UsersOf
  <2>4. shown => a + d + 1 \in UsersOf(q) /\ a + d + 1 \notin UsersOf(p)
    BY <1>1, <1>2, <1>3, <1>5, <2>1 DEF UsersOf, IsUser
  <2> DEFINE z == a + d + 1
             V == UsersOf(p)
  <2>5. CASE shown
    <3>1. UsersOf(q) = V \union {z}
      BY <2>2, <2>3, <2>4, <2>5 DEF UsersOf
    <3>2. z \notin V /\ IsFiniteSet(V) /\ Cardinality(V) = u
      BY <2>1, <2>4, <2>5
    <3> HIDE DEF z, V
    <3>3. Cardinality(V \union {z}) = u + 1
      BY <3>2, FS_AddElement
    <3> QED
      BY <2>5, <3>1, <3>3
  <2>6. CASE ~shown
    <3>1. UsersOf(q) = V
      BY <2>2, <2>3, <2>6 DEF UsersOf
    <3> QED
      BY <2>1, <2>6, <3>1
  <2> QED
    BY <2>5, <2>6
<1>8. /\ \A i \in ToolsOf(p) : i \in ToolsOf(q) /\ q[i] = p[i] /\ i \in 1..L
      /\ \A i \in 1..d : a + i \in ToolsOf(q) /\ q[a + i].calls = <<n + i>>
      /\ \A i \in ToolsOf(q) :
           \/ i \in ToolsOf(p) /\ q[i] = p[i]
           \/ i - a \in 1..d /\ a + (i - a) = i /\ q[i].calls = <<n + (i - a)>>
  <2>1. \A i \in ToolsOf(p) : i \in ToolsOf(q) /\ q[i] = p[i] /\ i \in 1..L
    BY <1>3, <1>5 DEF ToolsOf, L
  <2>2. \A i \in 1..d : a + i \in ToolsOf(q) /\ q[a + i].calls = <<n + i>>
    BY <1>3, <1>5 DEF ToolsOf
  <2>3. \A i \in ToolsOf(q) :
           \/ i \in ToolsOf(p) /\ q[i] = p[i]
           \/ i - a \in 1..d /\ a + (i - a) = i /\ q[i].calls = <<n + (i - a)>>
    BY <1>3, <1>4 DEF ToolsOf, L
  <2> QED
    BY <2>1, <2>2, <2>3
<1>9. /\ \A i \in ToolsOf(p) : p[i].calls = <<p[i].calls[1]>> /\ p[i].calls[1] \in 1..n
      /\ \A i, j \in ToolsOf(p) : i < j => p[i].calls[1] < p[j].calls[1]
      /\ \A i \in ToolsOf(p) : \A k \in p[i].calls[1]..n :
           \E j \in ToolsOf(p) : p[j].calls[1] = k
  BY DEF Coherent, Numbered
<1>10. \A k \in (n + 1)..(n + d) : \E j \in ToolsOf(q) : q[j].calls[1] = k
  <2> TAKE k \in (n + 1)..(n + d)
  <2>1. k - n \in 1..d /\ n + (k - n) = k
    OBVIOUS
  <2>2. a + (k - n) \in ToolsOf(q) /\ q[a + (k - n)].calls = <<n + (k - n)>>
    BY <1>8, <2>1
  <2> QED
    BY <2>1, <2>2
<1>11. Numbered(q, n + d)
  <2>1. ASSUME NEW i \in ToolsOf(q)
        PROVE  q[i].calls = <<q[i].calls[1]>> /\ q[i].calls[1] \in 1..(n + d)
    <3>1. CASE i \in ToolsOf(p) /\ q[i] = p[i]
      <4>1. \A x \in 1..n : x \in 1..(n + d)
        OBVIOUS
      <4> QED
        BY <1>9, <3>1, <4>1
    <3>2. CASE i - a \in 1..d /\ q[i].calls = <<n + (i - a)>>
      <4>1. n + (i - a) \in 1..(n + d)
        BY <3>2
      <4> QED
        BY <3>2, <4>1
    <3> QED
      BY <1>8, <3>1, <3>2
  <2>2. ASSUME NEW i \in ToolsOf(q), NEW j \in ToolsOf(q), i < j
        PROVE  q[i].calls[1] < q[j].calls[1]
    <3>1. CASE i \in ToolsOf(p) /\ j \in ToolsOf(p)
      BY <1>8, <1>9, <2>2, <3>1
    <3>2. CASE j \in ToolsOf(p) /\ i - a \in 1..d /\ a + (i - a) = i
      <4>1. j \in 1..L
        BY <1>8, <3>2
      <4> DEFINE r == i - a
      <4>2. r \in 1..d /\ i = a + r
        BY <3>2
      <4> HIDE DEF r
      <4>3. i \in Nat /\ i > L
        BY <1>1, <1>2, <4>2
      <4>4. j \in Nat /\ j <= L
        BY <1>1, <4>1
      <4> QED
        BY <1>1, <2>2, <4>3, <4>4
    <3>3. CASE i \in ToolsOf(p) /\ j - a \in 1..d /\ q[j].calls = <<n + (j - a)>>
      <4> DEFINE x == q[i].calls[1]
                 r == j - a
      <4>1. x \in 1..n
        BY <1>8, <1>9, <3>3
      <4>2. q[j].calls[1] = n + r
        BY <3>3
      <4>3. r \in 1..d
        BY <3>3
      <4> HIDE DEF x, r
      <4>4. x < n + r
        BY <4>1, <4>3
      <4> QED
        BY <4>2, <4>4 DEF x
    <3>4. CASE /\ i - a \in 1..d /\ q[i].calls = <<n + (i - a)>> /\ a + (i - a) = i
               /\ j - a \in 1..d /\ q[j].calls = <<n + (j - a)>> /\ a + (j - a) = j
      <4>1. q[i].calls[1] = n + (i - a) /\ q[j].calls[1] = n + (j - a)
        BY <3>4
      <4>2. n + (i - a) < n + (j - a)
        BY <1>2, <2>2, <3>4
      <4> QED
        BY <4>1, <4>2
    <3> QED
      BY <1>8, <3>1, <3>2, <3>3, <3>4
  <2>3. ASSUME NEW i \in ToolsOf(q), NEW k \in q[i].calls[1]..(n + d)
        PROVE  \E j \in ToolsOf(q) : q[j].calls[1] = k
    <3>1. q[i].calls[1] \in Nat
      BY <2>1
    <3>2. CASE k > n
      <4>1. k \in (n + 1)..(n + d)
        BY <3>1, <3>2
      <4> QED
        BY <4>1, <1>10
    <3>3. CASE ~(k > n)
      <4>1. ~(i - a \in 1..d /\ q[i].calls = <<n + (i - a)>>)
        BY <3>1, <3>3
      <4>2. i \in ToolsOf(p) /\ q[i] = p[i]
        BY <1>8, <4>1
      <4>3. k \in p[i].calls[1]..n
        BY <3>1, <3>3, <4>2
      <4>4. PICK j \in ToolsOf(p) : p[j].calls[1] = k
        BY <1>9, <4>2, <4>3
      <4> QED
        BY <1>8, <4>4
    <3> QED
      BY <3>2, <3>3
  <2> QED
    BY <2>1, <2>2, <2>3 DEF Numbered
<1>12. Referenced(q, n + d)
  <2>1. \A i \in CheckpointsOf(q) : i \in CheckpointsOf(p) /\ q[i] = p[i]
    BY <1>3, <1>4 DEF CheckpointsOf, IsCheckpoint, L
  <2>2. \A i \in CheckpointsOf(p) : i \in CheckpointsOf(q) /\ q[i] = p[i]
    BY <1>3, <1>5 DEF CheckpointsOf, L
  <2>3. /\ \A i, j \in CheckpointsOf(p) : i = j
        /\ \A k \in 1..n :
             \/ \E i \in ToolsOf(p) : p[i].calls[1] = k
             \/ \E i \in CheckpointsOf(p) : \E x \in 1..Len(p[i].calls) : p[i].calls[x] = k
    BY DEF Coherent, Referenced
  <2>4. ASSUME NEW k \in 1..(n + d)
        PROVE  \/ \E i \in ToolsOf(q) : q[i].calls[1] = k
               \/ \E i \in CheckpointsOf(q) : \E x \in 1..Len(q[i].calls) : q[i].calls[x] = k
    <3>1. CASE k > n
      BY <1>10, <3>1
    <3>2. CASE ~(k > n)
      <4>1. k \in 1..n
        BY <3>2
      <4>2. CASE \E i \in ToolsOf(p) : p[i].calls[1] = k
        <5>1. PICK i \in ToolsOf(p) : p[i].calls[1] = k
          BY <4>2
        <5>2. i \in ToolsOf(q) /\ q[i] = p[i]
          BY <1>8
        <5> QED
          BY <5>1, <5>2
      <4>3. CASE \E i \in CheckpointsOf(p) : \E x \in 1..Len(p[i].calls) : p[i].calls[x] = k
        <5>1. PICK i \in CheckpointsOf(p) : \E x \in 1..Len(p[i].calls) : p[i].calls[x] = k
          BY <4>3
        <5>2. i \in CheckpointsOf(q) /\ q[i] = p[i]
          BY <2>2
        <5> QED
          BY <5>1, <5>2
      <4> QED
        BY <2>3, <4>1, <4>2, <4>3
    <3> QED
      BY <3>1, <3>2
  <2> QED
    BY <2>1, <2>3, <2>4 DEF Referenced
<1>13. CallsAreAnswered(q)
  <2>1. CallsAreAnswered(p)
    BY DEF Coherent
  <2>2. ASSUME NEW i \in 1..Len(q), q[i].role = "assistant"
        PROVE  /\ i + Len(q[i].calls) <= Len(q)
               /\ \A t \in 1..Len(q[i].calls) :
                    q[i + t].role = "tool" /\ q[i + t].calls = <<q[i].calls[t]>>
    <3>1. CASE i \in 1..L /\ q[i] = p[i]
      <4> DEFINE g == Len(p[i].calls)
      <4>1. g \in Nat
        <5>1. p[i] \in PromptMessage
          BY <1>1, <3>1 DEF L
        <5> QED
          BY <5>1 DEF PromptMessage
      <4>2. i + g <= L /\ \A t \in 1..g : p[i + t].role = "tool"
                                          /\ p[i + t].calls = <<p[i].calls[t]>>
        BY <2>1, <2>2, <3>1 DEF CallsAreAnswered, L
      <4> HIDE DEF g
      <4>3. \A t \in 1..g : i + t \in 1..L
        BY <1>1, <3>1, <4>1, <4>2
      <4>4. i + g <= Len(q)
        BY <1>1, <1>2, <1>3, <3>1, <4>1, <4>2
      <4>5. \A t \in 1..g : q[i + t].role = "tool" /\ q[i + t].calls = <<q[i].calls[t]>>
        BY <1>3, <3>1, <4>2, <4>3
      <4> QED
        BY <3>1, <4>4, <4>5 DEF g
    <3>2. CASE i = a
      <4>1. Len(q[a].calls) = d /\ \A t \in 1..d : q[a].calls[t] = n + t
        BY <1>3
      <4>2. a + d <= Len(q)
        BY <1>2, <1>3
      <4> QED
        BY <1>3, <3>2, <4>1, <4>2
    <3> QED
      BY <1>4, <2>2, <3>1, <3>2
  <2>3. ASSUME NEW i \in 1..Len(q), q[i].role = "tool"
        PROVE  \E j \in 1..i - 1 : q[j].role = "assistant" /\ i - j <= Len(q[j].calls)
    <3>1. CASE i \in 1..L /\ q[i] = p[i]
      <4>1. PICK j \in 1..i - 1 : p[j].role = "assistant" /\ i - j <= Len(p[j].calls)
        BY <2>1, <2>3, <3>1 DEF CallsAreAnswered, L
      <4>2. j \in 1..L
        BY <1>1, <3>1
      <4> QED
        BY <1>3, <4>1, <4>2
    <3>2. CASE i - a \in 1..d
      <4>1. Len(q[a].calls) = d
        BY <1>3
      <4>2. a \in 1..i - 1 /\ i - a <= d
        BY <1>1, <1>2, <3>2
      <4> QED
        BY <1>3, <4>1, <4>2
    <3> QED
      BY <1>3, <1>4, <2>3, <3>1, <3>2
  <2> QED
    BY <2>2, <2>3 DEF CallsAreAnswered
<1> QED
  BY <1>6, <1>7, <1>11, <1>12, <1>13 DEF Coherent


-----------------------------------------------------------------------------
(* The prompt: a task *)

PlayStep(exchanges, budget, f, k) ==
  IF k = 0 THEN Opening ELSE Exchanged(f[k - 1], exchanges[k], budget)

Plays(f, exchanges, budget, n) == f = [k \in 0..n |-> PlayStep(exchanges, budget, f, k)]

\* The task, as a recursive function, exists ...
LEMMA PlayingExists ==
  ASSUME NEW exchanges, NEW budget, NEW n \in Nat
  PROVE  \E f : Plays(f, exchanges, budget, n)
<1> DEFINE T == {k \in 0..n : \E f : Plays(f, exchanges, budget, k)}
<1>1. 0 \in T
  <2> DEFINE f == [k \in 0..0 |-> Opening]
  <2>1. f = [k \in 0..0 |-> PlayStep(exchanges, budget, f, k)]
    BY DEF PlayStep
  <2> QED
    BY <2>1 DEF Plays
<1>2. ASSUME NEW m \in 0..(n - 1), m \in T PROVE m + 1 \in T
  <2>1. PICK f : Plays(f, exchanges, budget, m)
    BY <1>2
  <2> DEFINE g == [k \in 0..(m + 1) |->
                     IF k = m + 1 THEN PlayStep(exchanges, budget, f, k) ELSE f[k]]
  <2>2. ASSUME NEW k \in 0..(m + 1) PROVE g[k] = PlayStep(exchanges, budget, g, k)
    <3>1. k # 0 => k - 1 \in 0..(m + 1) /\ k - 1 # m + 1
      BY <1>2
    <3>2. k # 0 => g[k - 1] = f[k - 1]
      BY <3>1
    <3>3. PlayStep(exchanges, budget, g, k) = PlayStep(exchanges, budget, f, k)
      BY <3>2 DEF PlayStep
    <3>4. k # m + 1 => k \in 0..m
      BY <1>2
    <3>5. k # m + 1 => f[k] = PlayStep(exchanges, budget, f, k)
      BY <2>1, <3>4 DEF Plays
    <3> QED
      BY <3>3, <3>5
  <2>3. Plays(g, exchanges, budget, m + 1)
    BY <2>2 DEF Plays
  <2> QED
    BY <1>2, <2>3
<1>3. 0..n \subseteq T
  <2> HIDE DEF T
  <2> QED
    BY <1>1, <1>2, UpTo
<1> QED
  BY <1>3

\* ... and is what is played.
LEMMA PlayComputed ==
  ASSUME NEW exchanges, NEW budget, Len(exchanges) \in Nat
  PROVE  \E f : /\ Plays(f, exchanges, budget, Len(exchanges))
                /\ Played(exchanges, budget) = f[Len(exchanges)]
<1> DEFINE f == CHOOSE g : Plays(g, exchanges, budget, Len(exchanges))
<1>1. Plays(f, exchanges, budget, Len(exchanges))
  <2>1. \E g : Plays(g, exchanges, budget, Len(exchanges))
    BY PlayingExists
  <2> QED
    BY <2>1, Zenon
<1>2. Played(exchanges, budget) = f[Len(exchanges)]
  BY Zenon DEF Played, Plays, PlayStep
<1> HIDE DEF f
<1> QED
  BY <1>1, <1>2

\* A task after u messages of the user: it has run out, or can go on
Goes(s, u) ==
  \/ s.limit
  \/ \E n \in Nat : s.events = EventsAfter(n) /\ Coherent(s.messages, n, u)

\* The turns that ended with a message of the user, among the first k
Shown(exchanges, k) == {i \in 1..k : exchanges[i].user}

LEMMA ShownNext ==
  ASSUME NEW exchanges, NEW k \in Nat, exchanges[k + 1].user \in BOOLEAN
  PROVE  Cardinality(Shown(exchanges, k + 1)) =
           IF exchanges[k + 1].user THEN Cardinality(Shown(exchanges, k)) + 1
           ELSE Cardinality(Shown(exchanges, k))
<1> DEFINE V == Shown(exchanges, k)
           z == k + 1
<1>1. V \subseteq 1..k /\ z \notin V
  BY DEF Shown
<1>2. IsFiniteSet(V)
  <2> DEFINE one == 1
  <2>1. one \in Int /\ k \in Int /\ V \in SUBSET (one..k)
    BY <1>1
  <2> HIDE DEF one, V
  <2> QED
    BY <2>1, FS_Interval, FS_Subset
<1>3. \A i \in 1..z : i \in 1..k \/ i = z
  OBVIOUS
<1>4. z \in 1..z /\ \A i \in 1..k : i \in 1..z
  OBVIOUS
<1>5. Shown(exchanges, z) = IF exchanges[z].user THEN V \union {z} ELSE V
  <2> HIDE DEF z
  <2> QED
    BY <1>3, <1>4 DEF Shown
<1> HIDE DEF V
<1>6. Cardinality(V \union {z}) = Cardinality(V) + 1
  BY <1>1, <1>2, FS_AddElement
<1> QED
  BY <1>5, <1>6 DEF V

\* A turn of any number of calls, whose results have any size
AnyExchange == [calls : Nat, bytes : Nat, user : BOOLEAN]

LEMMA ExchangeTypes == Exchanges \subseteq AnyExchange
<1> SUFFICES ASSUME NEW e \in Exchanges PROVE e \in AnyExchange
  OBVIOUS
<1>1. \E d \in Nat, size \in Nat, shown \in BOOLEAN :
        e = [calls |-> d, bytes |-> size, user |-> shown]
  <2>1. \/ e = [calls |-> 0, bytes |-> 1, user |-> TRUE]
        \/ e = [calls |-> 1, bytes |-> 1, user |-> FALSE]
        \/ e = [calls |-> 1, bytes |-> 4, user |-> FALSE]
        \/ e = [calls |-> 2, bytes |-> 1, user |-> FALSE]
        \/ e = [calls |-> 2, bytes |-> 2, user |-> TRUE]
    BY Zenon DEF Exchanges
  <2>2. /\ 0 \in Nat /\ 1 \in Nat /\ 2 \in Nat /\ 4 \in Nat
        /\ TRUE \in BOOLEAN /\ FALSE \in BOOLEAN
    OBVIOUS
  <2> QED
    BY <2>1, <2>2, Zenon
<1> QED
  BY <1>1 DEF AnyExchange

\* A turn keeps the task going.
LEMMA TurnGoesOn ==
  ASSUME NEW s, NEW u, Goes(s, u), NEW e \in AnyExchange, NEW budget,
         s = [messages |-> s.messages, events |-> s.events, limit |-> s.limit]
  PROVE  LET t == Exchanged(s, e, budget)
         IN  /\ Goes(t, IF e.user THEN u + 1 ELSE u)
             /\ t = [messages |-> t.messages, events |-> t.events, limit |-> t.limit]
<1> DEFINE t == Exchanged(s, e, budget)
           n == Len(Results(s.events, Task))
           prompt == Prompt(s.messages, budget, s.events, Task)
           d == e.calls
           asked == [i \in 1..d |-> n + i]
           told == [i \in 1..d |-> Message("tool", e.bytes, <<n + i>>)]
           q == prompt \o <<Message("assistant", 1, asked)>> \o told
                  \o (IF e.user THEN <<Message("user", 1, <<>>)>> ELSE <<>>)
           r == s.events \o [i \in 1..d |-> ToolCompleted(n + i, n + i)]
<1>1. d \in Nat /\ e.bytes \in Nat /\ e.user \in BOOLEAN
  BY DEF AnyExchange
<1>2. t = IF s.limit \/ Bytes(prompt) > budget THEN [s EXCEPT !.limit = TRUE]
          ELSE [s EXCEPT !.messages = q, !.events = r]
  BY DEF Exchanged
<1>3. CASE s.limit \/ Bytes(prompt) > budget
  <2>1. t = [s EXCEPT !.limit = TRUE]
    BY <1>2, <1>3
  <2> HIDE DEF t, prompt
  <2>2. /\ t = [messages |-> t.messages, events |-> t.events, limit |-> t.limit]
        /\ t.limit
    BY <2>1
  <2> QED
    BY <2>2 DEF Goes, t
<1>4. CASE ~(s.limit \/ Bytes(prompt) > budget)
  <2>1. t = [s EXCEPT !.messages = q, !.events = r]
    BY <1>2, <1>4
  <2>2. PICK j \in Nat : s.events = EventsAfter(j) /\ Coherent(s.messages, j, u)
    BY <1>4 DEF Goes
  <2>3. n = j
    BY <2>2, ResultsAre
  <2>4. Coherent(prompt, j, u)
    BY <2>2, PromptIsCoherent
  <2>5. prompt \in Seq(PromptMessage)
    BY <2>4 DEF Coherent, Shaped
  <2>6. r = EventsAfter(j + d)
    <3>1. EventsAfter(j) \o [i \in 1..d |-> ToolCompleted(j + i, j + i)] = EventsAfter(j + d)
      BY <1>1, EventsNext
    <3> QED
      BY <2>2, <2>3, <3>1
  <2>7. TurnAppended(q, prompt, j, d, e.user)
    <3> DEFINE size == e.bytes
               shown == e.user
               p == prompt
    <3>1. p \in Seq(PromptMessage) /\ d \in Nat /\ size \in Nat /\ shown \in BOOLEAN
      BY <1>1, <2>5
    <3>2. q = p \o <<Message("assistant", 1, [i \in 1..d |-> j + i])>>
                \o [i \in 1..d |-> Message("tool", size, <<j + i>>)]
                \o (IF shown THEN <<Message("user", 1, <<>>)>> ELSE <<>>)
      BY <2>3
    <3> HIDE DEF p, d, size, shown, q
    <3>3. TurnAppended(p \o <<Message("assistant", 1, [i \in 1..d |-> j + i])>>
                     \o [i \in 1..d |-> Message("tool", size, <<j + i>>)]
                     \o (IF shown THEN <<Message("user", 1, <<>>)>> ELSE <<>>),
                   p, j, d, shown)
      BY <3>1, ExchangeIs
    <3>4. TurnAppended(q, p, j, d, shown)
      BY <3>2, <3>3
    <3> QED
      BY <3>4 DEF p, shown
  <2> HIDE DEF q, r, prompt, d, t, n
  <2>8. Coherent(q, j + d, IF e.user THEN u + 1 ELSE u)
    <3> DEFINE shown == e.user
    <3>1. shown \in BOOLEAN /\ TurnAppended(q, prompt, j, d, shown)
      BY <1>1, <2>7
    <3> HIDE DEF shown
    <3>2. Coherent(q, j + d, IF shown THEN u + 1 ELSE u)
      BY <1>1, <2>4, <3>1, ExchangeStaysCoherent
    <3> QED
      BY <3>2 DEF shown
  <2>9. /\ t = [messages |-> t.messages, events |-> t.events, limit |-> t.limit]
        /\ t.messages = q /\ t.events = r
    BY <2>1
  <2>10. j + d \in Nat
    BY <1>1
  <2>11. Goes(t, IF e.user THEN u + 1 ELSE u)
    BY <2>6, <2>8, <2>9, <2>10 DEF Goes
  <2> QED
    BY <2>9, <2>11 DEF t
<1> QED
  BY <1>3, <1>4

LEMMA TaskGoesOn ==
  ASSUME NEW n \in Nat, NEW exchanges \in [1..n -> AnyExchange], NEW budget
  PROVE  Goes(Played(exchanges, budget), Cardinality(Shown(exchanges, n)))
<1>1. Len(exchanges) = n
  OBVIOUS
<1>2. PICK f : /\ Plays(f, exchanges, budget, n)
               /\ Played(exchanges, budget) = f[n]
  BY <1>1, PlayComputed
<1> DEFINE fine(k) ==
             /\ Goes(f[k], Cardinality(Shown(exchanges, k)))
             /\ f[k] = [messages |-> f[k].messages, events |-> f[k].events,
                        limit |-> f[k].limit]
           T == {k \in 0..n : fine(k)}
<1>3. \A k \in 0..n : f[k] = PlayStep(exchanges, budget, f, k)
  BY <1>2 DEF Plays
<1>4. 0 \in T
  <2>1. f[0] = Opening
    BY <1>3 DEF PlayStep
  <2>2. Cardinality(Shown(exchanges, 0)) = 0
    <3>1. Shown(exchanges, 0) = {}
      BY DEF Shown
    <3> QED
      BY <3>1, FS_EmptySet
  <2>3. Goes(Opening, 0)
    BY EventsAtFirst, FirstIsCoherent DEF Goes
  <2>4. Opening = [messages |-> Opening.messages, events |-> Opening.events,
                   limit |-> Opening.limit]
    BY DEF Opening
  <2> QED
    BY <2>1, <2>2, <2>3, <2>4
<1>5. ASSUME NEW k \in 0..(n - 1), k \in T PROVE k + 1 \in T
  <2> DEFINE s == f[k]
             e == exchanges[k + 1]
             t == f[k + 1]
             u == Cardinality(Shown(exchanges, k))
  <2>1. k \in Nat /\ k + 1 \in 0..n /\ k + 1 \in 1..n /\ k + 1 # 0 /\ (k + 1) - 1 = k
    OBVIOUS
  <2>2. t = Exchanged(s, e, budget)
    BY <1>3, <2>1 DEF PlayStep
  <2>3. e \in AnyExchange
    BY <2>1
  <2>4. Goes(s, u) /\ s = [messages |-> s.messages, events |-> s.events, limit |-> s.limit]
    BY <1>5
  <2> HIDE DEF s, e, t, u
  <2>5. /\ Goes(t, IF e.user THEN u + 1 ELSE u)
        /\ t = [messages |-> t.messages, events |-> t.events, limit |-> t.limit]
    BY <2>2, <2>3, <2>4, TurnGoesOn
  <2>6. e.user \in BOOLEAN
    BY <2>3 DEF AnyExchange
  <2>7. Cardinality(Shown(exchanges, k + 1)) = IF e.user THEN u + 1 ELSE u
    BY <2>1, <2>6, ShownNext DEF e, u
  <2>8. fine(k + 1)
    BY <2>5, <2>7 DEF t
  <2> QED
    BY <2>1, <2>8
<1>6. n \in T
  <2> HIDE DEF T
  <2>1. 0..n \subseteq T
    BY <1>4, <1>5, UpTo
  <2> QED
    BY <2>1
<1> QED
  BY <1>2, <1>6

\* What coherence says of a prompt, in the words of the property
LEMMA CoherentIsReachable ==
  ASSUME NEW p, NEW n \in Nat, NEW u, Coherent(p, n, u)
  PROVE  /\ ResultsAreReachable(p, EventsAfter(n))
         /\ NewestAreKept(p, EventsAfter(n))
<1>1. Len(Results(EventsAfter(n), Task)) = n
  BY ResultsAre
<1>2. /\ \A i \in ToolsOf(p) : p[i].calls = <<p[i].calls[1]>> /\ p[i].calls[1] \in 1..n
      /\ \A i \in ToolsOf(p) : \A k \in p[i].calls[1]..n :
           \E j \in ToolsOf(p) : p[j].calls[1] = k
      /\ \A i, j \in CheckpointsOf(p) : i = j
      /\ \A k \in 1..n :
           \/ \E i \in ToolsOf(p) : p[i].calls[1] = k
           \/ \E i \in CheckpointsOf(p) : \E x \in 1..Len(p[i].calls) : p[i].calls[x] = k
  BY DEF Coherent, Numbered, Referenced
<1>3. ResultsAreReachable(p, EventsAfter(n))
  <2>1. ASSUME NEW i \in 1..Len(p), NEW j \in 1..Len(p), IsCheckpoint(p[i]), IsCheckpoint(p[j])
        PROVE  i = j
    BY <1>2, <2>1 DEF CheckpointsOf
  <2>2. ASSUME NEW k \in 1..n
        PROVE  \E i \in 1..Len(p) :
                 \/ p[i].role = "tool" /\ p[i].calls = <<k>>
                 \/ /\ IsCheckpoint(p[i])
                    /\ \E x \in 1..Len(p[i].calls) : p[i].calls[x] = k
                    /\ ReadResult(EventsAfter(n), Task, k) = k
    <3>1. CASE \E i \in ToolsOf(p) : p[i].calls[1] = k
      <4>1. PICK i \in ToolsOf(p) : p[i].calls[1] = k
        BY <3>1
      <4>2. p[i].calls = <<k>>
        BY <1>2, <4>1
      <4> QED
        BY <4>2 DEF ToolsOf
    <3>2. CASE \E i \in CheckpointsOf(p) : \E x \in 1..Len(p[i].calls) : p[i].calls[x] = k
      <4>1. ReadResult(EventsAfter(n), Task, k) = k
        BY ResultIsRead
      <4> QED
        BY <3>2, <4>1 DEF CheckpointsOf
    <3> QED
      BY <1>2, <3>1, <3>2
  <2> QED
    BY <1>1, <2>1, <2>2 DEF ResultsAreReachable
<1>4. NewestAreKept(p, EventsAfter(n))
  <2> DEFINE kept == {p[i].calls[1] : i \in {j \in 1..Len(p) : p[j].role = "tool"}}
  <2>1. kept = {p[i].calls[1] : i \in ToolsOf(p)}
    BY DEF ToolsOf
  <2> HIDE DEF kept
  <2>2. \A k \in kept : k..n \subseteq kept
    BY <1>2, <2>1
  <2>3. \A k \in kept : k..Len(Results(EventsAfter(n), Task)) \subseteq kept
    BY <1>1, <2>2
  <2> QED
    BY <2>3 DEF NewestAreKept, kept
<1> QED
  BY <1>3, <1>4

\* Whatever the turns of a task and its budget, what the model is sent keeps
\* every word of the user, whole exchanges, the newest of them, and a way back
\* to every result (context.ts, compactContext and readResultRange).
THEOREM AnyTaskKeepsAll ==
  ASSUME NEW budget, NEW n \in Nat, NEW exchanges \in [1..n -> AnyExchange],
         ~Played(exchanges, budget).limit
  PROVE  LET s == Played(exchanges, budget)
             prompt == Prompt(s.messages, budget, s.events, Task)
         IN  KeepsAll(prompt, s.events, Cardinality({i \in 1..n : exchanges[i].user}))
<1> DEFINE s == Played(exchanges, budget)
           u == Cardinality(Shown(exchanges, n))
<1>1. Goes(s, u)
  BY TaskGoesOn
<1>2. PICK k \in Nat : s.events = EventsAfter(k) /\ Coherent(s.messages, k, u)
  BY <1>1 DEF Goes
<1> DEFINE prompt == Prompt(s.messages, budget, s.events, Task)
<1> HIDE DEF s
<1>3. Coherent(prompt, k, u)
  <2>1. Coherent(Prompt(s.messages, budget, EventsAfter(k), Task), k, u)
    BY <1>2, PromptIsCoherent
  <2> QED
    BY <1>2, <2>1
<1> HIDE DEF prompt
<1>4. /\ Cardinality(UsersOf(prompt)) = u /\ CallsAreAnswered(prompt)
      /\ ResultsAreReachable(prompt, s.events) /\ NewestAreKept(prompt, s.events)
  <2>1. ResultsAreReachable(prompt, EventsAfter(k)) /\ NewestAreKept(prompt, EventsAfter(k))
    BY <1>3, CoherentIsReachable
  <2>2. Cardinality(UsersOf(prompt)) = u /\ CallsAreAnswered(prompt)
    BY <1>3 DEF Coherent
  <2> QED
    BY <1>2, <2>1, <2>2
<1> QED
  BY <1>4 DEF KeepsAll, UsersOf, Shown, s, prompt

\* The same of the turns and the budgets that the model tries
THEOREM CompactionKeepsAll == CompactionLosesNothing
<1> SUFFICES ASSUME NEW budget \in Budgets, NEW n \in 0..MaxExchanges,
                    NEW exchanges \in [1..n -> Exchanges],
                    ~Played(exchanges, budget).limit
             PROVE  LET s == Played(exchanges, budget)
                        prompt == Prompt(s.messages, budget, s.events, Task)
                    IN  KeepsAll(prompt, s.events,
                                 Cardinality({i \in 1..n : exchanges[i].user}))
  BY Zenon DEF CompactionLosesNothing
<1>1. n \in Nat
  BY ContextAssumption
<1>2. exchanges \in [1..n -> AnyExchange]
  BY ExchangeTypes
<1> QED
  BY <1>1, <1>2, AnyTaskKeepsAll, Zenon

\* Whenever a turn begins, what the model is sent lost nothing to compaction
\* (loop.ts 100-104, compactContext).
THEOREM PromptsStayCoherent == Spec => []PromptsAreCoherent
<1>1. PromptsAreCoherent
  BY CompactionKeepsAll DEF PromptsAreCoherent
<1> QED
  BY <1>1, PTL
=============================================================================

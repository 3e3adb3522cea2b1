------------------------ MODULE SourceRecoveryProofs ------------------------
(***************************************************************************)
(* What holds of a retained deletion for any number of restorations,       *)
(* disposals, failures, kills and reconciliations: its bytes are where the *)
(* log says, or at a path that the log names, and they move only for an    *)
(* operation that the log and the worktree have been told of.              *)
(***************************************************************************)
EXTENDS SourceRecovery, TLAPS

\* From the announcement of an operation to the result of its file operations
Unsettled == {"announced", "intended", "guarded", "moved", "removed"}

Guarded == {"guarded", "moved", "removed"}

\* The operation that runs has an identity, and a disposal a recorded path.
Identified ==
  pc # "idle" => op \in Operation /\ (kind = "dispose" => op \in staged)

\* What the log and the worktree hold until the result is recorded
Announced ==
  /\ pc \in Unsettled =>
       /\ entry = "unknown"
       /\ \A o \in Operation \ {op} : effects[o] = "unknown" => o \in reconciled
  /\ pc \in {"announced", "intended"} => row = {}
  /\ pc \in Guarded => row = {op}

\* Where the file operations have put the bytes
Placed ==
  /\ pc = "moved" /\ kind = "restore" => at = "source"
  /\ pc = "removed" => at = "removed"

Inv ==
  /\ TypeOK /\ Identified /\ Announced /\ Placed
  /\ BytesAreOnRecord /\ TombstonesAreTrue

LEMMA InvInit == Init => Inv
<1> SUFFICES ASSUME Init PROVE Inv
  OBVIOUS
<1>1. kills \in 0..MaxKills
  BY MaxKillsAssumption DEF Init
<1>2. effects \in [Operation -> {"absent", "unknown", "passed"}]
  BY DEF Init
<1>3. TypeOK
  BY <1>1, <1>2 DEF Init, TypeOK, Place
<1>4. Identified /\ Announced /\ Placed
  BY DEF Init, Identified, Announced, Placed, Unsettled, Guarded
<1>5. BytesAreOnRecord /\ TombstonesAreTrue
  BY DEF Init, BytesAreOnRecord, TombstonesAreTrue
<1> QED
  BY <1>3, <1>4, <1>5 DEF Inv

-----------------------------------------------------------------------------
(* Types *)

LEMMA TypeNext == TypeOK /\ Identified /\ [Next]_vars => TypeOK'
<1> SUFFICES ASSUME TypeOK, Identified, [Next]_vars PROVE TypeOK'
  OBVIOUS
<1> USE DEF fileVars, logVars, opVars, Place
<1>1. ASSUME NEW o \in Operation, NEW k \in {"restore", "dispose"}, Announce(o, k)
      PROVE  TypeOK'
  BY <1>1 DEF TypeOK, Announce, RecordStaging
<1>2. CASE Intend
  BY <1>2 DEF TypeOK, Intend
<1>3. CASE Guard
  <2>1. row' \in SUBSET Operation
    BY <1>3 DEF TypeOK, Guard, Identified
  <2> QED
    BY <1>3, <2>1 DEF TypeOK, Guard
<1>4. CASE Move
  <2>1. at' \in Place
    BY <1>4 DEF Move, Identified
  <2> QED
    BY <1>4, <2>1 DEF TypeOK, Move
<1>5. CASE Remove
  BY <1>5 DEF TypeOK, Remove
<1>6. CASE Record
  BY <1>6 DEF TypeOK, Record
<1>7. CASE Complete
  BY <1>7 DEF TypeOK, Complete
<1>8. CASE Clear
  BY <1>8 DEF TypeOK, Clear
<1>9. CASE End \/ EndFailure \/ ThrowEarly
  BY <1>9 DEF TypeOK, End, EndFailure, ThrowEarly
<1>10. CASE Throw
  BY <1>10 DEF TypeOK, Throw
<1>11. CASE RecordFailure
  <2>1. waiting' \in SUBSET Operation
    BY <1>11 DEF TypeOK, RecordFailure, Identified
  <2> QED
    BY <1>11, <2>1 DEF TypeOK, RecordFailure
<1>12. CASE CompleteFailure
  BY <1>12 DEF TypeOK, CompleteFailure
<1>13. ASSUME NEW o \in Operation, Reconcile(o) PROVE TypeOK'
  BY <1>13 DEF TypeOK, Reconcile
<1>14. CASE Kill
  <2>1. kills' \in 0..MaxKills
    BY <1>14, MaxKillsAssumption DEF TypeOK, Kill
  <2> QED
    BY <1>14, <2>1 DEF TypeOK, Kill
<1>15. CASE UserEdits
  BY <1>15 DEF TypeOK, UserEdits
<1>16. CASE UNCHANGED vars
  BY <1>16 DEF TypeOK, vars
<1> QED
  BY <1>1, <1>2, <1>3, <1>4, <1>5, <1>6, <1>7, <1>8, <1>9, <1>10, <1>11, <1>12,
     <1>13, <1>14, <1>15, <1>16 DEF Next, Step

-----------------------------------------------------------------------------
(* The operation and what is recorded of it *)

LEMMA IdentifiedNext == TypeOK /\ Identified /\ [Next]_vars => Identified'
<1> SUFFICES ASSUME TypeOK, Identified, [Next]_vars PROVE Identified'
  OBVIOUS
<1> USE DEF Identified, fileVars, logVars, opVars
<1>1. ASSUME NEW o \in Operation, NEW k \in {"restore", "dispose"}, Announce(o, k)
      PROVE  Identified'
  BY <1>1 DEF Announce, RecordStaging
<1>2. CASE Step
  BY <1>2 DEF Step, Intend, Guard, Move, Remove, Record, Complete, Clear, End,
     Throw, ThrowEarly, RecordFailure, CompleteFailure, EndFailure
<1>3. ASSUME NEW o \in Operation, Reconcile(o) PROVE Identified'
  BY <1>3 DEF Reconcile
<1>4. CASE Kill \/ UserEdits
  BY <1>4 DEF Kill, UserEdits
<1>5. CASE UNCHANGED vars
  BY <1>5 DEF vars
<1> QED
  BY <1>1, <1>2, <1>3, <1>4, <1>5 DEF Next

LEMMA AnnouncedNext ==
  TypeOK /\ Identified /\ Announced /\ [Next]_vars => Announced'
<1> SUFFICES ASSUME TypeOK, Identified, Announced, [Next]_vars PROVE Announced'
  OBVIOUS
<1> USE DEF Announced, Unsettled, Guarded, fileVars, logVars, opVars
<1>1. ASSUME NEW o \in Operation, NEW k \in {"restore", "dispose"}, Announce(o, k)
      PROVE  Announced'
  BY <1>1 DEF Announce, RecordStaging, MutationAllowed
<1>2. CASE Intend
  <2>1. \A o \in Operation \ {op} : effects'[o] = effects[o]
    BY <1>2 DEF Intend, TypeOK
  <2> QED
    BY <1>2, <2>1 DEF Intend
<1>3. CASE Guard
  BY <1>3 DEF Guard
<1>4. CASE Move \/ Remove
  BY <1>4 DEF Move, Remove
<1>5. CASE Record \/ Complete \/ Clear \/ End
  BY <1>5 DEF Record, Complete, Clear, End
<1>6. CASE Throw \/ ThrowEarly
  BY <1>6 DEF Throw, ThrowEarly
<1>7. CASE RecordFailure \/ CompleteFailure \/ EndFailure
  BY <1>7 DEF RecordFailure, CompleteFailure, EndFailure
<1>8. ASSUME NEW o \in Operation, Reconcile(o) PROVE Announced'
  BY <1>8 DEF Reconcile
<1>9. CASE Kill \/ UserEdits
  BY <1>9 DEF Kill, UserEdits
<1>10. CASE UNCHANGED vars
  BY <1>10 DEF vars
<1> QED
  BY <1>1, <1>2, <1>3, <1>4, <1>5, <1>6, <1>7, <1>8, <1>9, <1>10
     DEF Next, Step

-----------------------------------------------------------------------------
(* The bytes *)

LEMMA BytesNext ==
  TypeOK /\ Identified /\ Placed /\ BytesAreOnRecord /\ [Next]_vars
    => Placed' /\ BytesAreOnRecord'
<1> SUFFICES ASSUME TypeOK, Identified, Placed, BytesAreOnRecord, [Next]_vars
             PROVE  Placed' /\ BytesAreOnRecord'
  OBVIOUS
<1> USE DEF Placed, BytesAreOnRecord, fileVars, logVars, opVars
<1>1. ASSUME NEW o \in Operation, NEW k \in {"restore", "dispose"}, Announce(o, k)
      PROVE  Placed' /\ BytesAreOnRecord'
  BY <1>1 DEF Announce, RecordStaging
<1>2. CASE Move
  <2>1. kind = "restore" \/ kind = "dispose"
    BY DEF TypeOK
  <2> QED
    BY <1>2, <2>1 DEF Move, Identified
<1>3. CASE Remove
  BY <1>3 DEF Remove
<1>4. CASE Intend \/ Guard \/ Record \/ Complete \/ Clear \/ End
  BY <1>4 DEF Intend, Guard, Record, Complete, Clear, End
<1>5. CASE Throw \/ ThrowEarly \/ RecordFailure \/ CompleteFailure \/ EndFailure
  BY <1>5 DEF Throw, ThrowEarly, RecordFailure, CompleteFailure, EndFailure
<1>6. ASSUME NEW o \in Operation, Reconcile(o)
      PROVE  Placed' /\ BytesAreOnRecord'
  BY <1>6 DEF Reconcile
<1>7. CASE Kill \/ UserEdits
  BY <1>7 DEF Kill, UserEdits
<1>8. CASE UNCHANGED vars
  BY <1>8 DEF vars
<1> QED
  BY <1>1, <1>2, <1>3, <1>4, <1>5, <1>6, <1>7, <1>8 DEF Next, Step

\* The result is recorded after the file operation, and until the next operation
\* is announced nothing moves the bytes.
LEMMA TombstonesNext ==
  TypeOK /\ Announced /\ Placed /\ TombstonesAreTrue /\ [Next]_vars
    => TombstonesAreTrue'
<1> SUFFICES ASSUME TypeOK, Announced, Placed, TombstonesAreTrue, [Next]_vars
             PROVE  TombstonesAreTrue'
  OBVIOUS
<1> USE DEF TombstonesAreTrue, fileVars, logVars, opVars
<1>1. ASSUME NEW o \in Operation, NEW k \in {"restore", "dispose"}, Announce(o, k)
      PROVE  TombstonesAreTrue'
  BY <1>1 DEF Announce
<1>2. CASE Move \/ Remove
  BY <1>2 DEF Move, Remove, Announced, Unsettled
<1>3. CASE Record
  BY <1>3 DEF Record, TypeOK, Placed
<1>4. CASE Intend \/ Guard \/ Complete \/ Clear \/ End
  BY <1>4 DEF Intend, Guard, Complete, Clear, End
<1>5. CASE Throw \/ ThrowEarly \/ RecordFailure \/ CompleteFailure \/ EndFailure
  BY <1>5 DEF Throw, ThrowEarly, RecordFailure, CompleteFailure, EndFailure
<1>6. ASSUME NEW o \in Operation, Reconcile(o) PROVE TombstonesAreTrue'
  BY <1>6 DEF Reconcile
<1>7. CASE Kill \/ UserEdits
  BY <1>7 DEF Kill, UserEdits
<1>8. CASE UNCHANGED vars
  BY <1>8 DEF vars
<1> QED
  BY <1>1, <1>2, <1>3, <1>4, <1>5, <1>6, <1>7, <1>8 DEF Next, Step

-----------------------------------------------------------------------------
\* The invariant is inductive.
LEMMA InvNext == Inv /\ [Next]_vars => Inv'
BY TypeNext, IdentifiedNext, AnnouncedNext, BytesNext, TombstonesNext
   DEF Inv

\* Every state of the life of a retained deletion satisfies the invariant
\* (recovery.ts, restoreSource; disposal.ts, disposeSource).
THEOREM InvHolds == Spec => []Inv
<1>1. Init => Inv
  BY InvInit
<1>2. Inv /\ [Next]_vars => Inv'
  BY InvNext
<1> QED
  BY <1>1, <1>2, PTL DEF Spec

-----------------------------------------------------------------------------
\* The stages, the log, the pending table and the places stay within what the
\* code can write.
THEOREM TypesHold == Spec => []TypeOK
<1>1. Inv => TypeOK
  BY DEF Inv
<1> QED
  BY <1>1, InvHolds, PTL

\* The bytes are never at a staging path that no event names: a disposal records
\* its path before it moves them (disposal.ts, disposeSource).
THEOREM BytesStayOnRecord == Spec => []BytesAreOnRecord
<1>1. Inv => BytesAreOnRecord
  BY DEF Inv
<1> QED
  BY <1>1, InvHolds, PTL

\* What the log calls disposed is gone and what it calls restored is in place,
\* after any sequence of failures and reconciliations (recovery.ts,
\* retainedDeletions).
THEOREM TombstonesStayTrue == Spec => []TombstonesAreTrue
<1>1. Inv => TombstonesAreTrue
  BY DEF Inv
<1> QED
  BY <1>1, InvHolds, PTL

\* Only the two file operations of a guarded operation move the bytes.
LEMMA OnlyMoves == [Next]_vars /\ at' # at => Move \/ Remove
<1> SUFFICES ASSUME [Next]_vars, at' # at PROVE Move \/ Remove
  OBVIOUS
<1> USE DEF fileVars, logVars, opVars
<1>1. ASSUME NEW o \in Operation, NEW k \in {"restore", "dispose"}, Announce(o, k)
      PROVE  FALSE
  BY <1>1 DEF Announce
<1>2. CASE Intend \/ Guard \/ Record \/ Complete \/ Clear \/ End
  BY <1>2 DEF Intend, Guard, Record, Complete, Clear, End
<1>3. CASE Throw \/ ThrowEarly \/ RecordFailure \/ CompleteFailure \/ EndFailure
  BY <1>3 DEF Throw, ThrowEarly, RecordFailure, CompleteFailure, EndFailure
<1>4. ASSUME NEW o \in Operation, Reconcile(o) PROVE FALSE
  BY <1>4 DEF Reconcile
<1>5. CASE Kill \/ UserEdits \/ UNCHANGED vars
  BY <1>5 DEF Kill, UserEdits, vars
<1> QED
  BY <1>1, <1>2, <1>3, <1>4, <1>5 DEF Next, Step

\* The bytes move only for an operation that the log and the pending table know,
\* while no other operation waits for its reconciliation (recovery.ts,
\* restoreSource; disposal.ts, disposeSource).
THEOREM MovesStayGuarded == Spec => MovesAreGuarded
<1>1. Inv /\ [Next]_vars =>
        (at' # at =>
           /\ row = {op}
           /\ entry = "unknown"
           /\ \A o \in Operation \ {op} : effects[o] = "unknown" => o \in reconciled)
  <2> SUFFICES ASSUME Inv, [Next]_vars, at' # at
               PROVE  /\ row = {op}
                      /\ entry = "unknown"
                      /\ \A o \in Operation \ {op} :
                           effects[o] = "unknown" => o \in reconciled
    OBVIOUS
  <2>1. pc \in Guarded
    BY OnlyMoves DEF Move, Remove, Guarded
  <2> QED
    BY <2>1 DEF Inv, Announced, Unsettled, Guarded
<1> QED
  BY <1>1, InvHolds, PTL DEF Spec, MovesAreGuarded
=============================================================================

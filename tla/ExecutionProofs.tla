-------------------------- MODULE ExecutionProofs --------------------------
(***************************************************************************)
(* What holds of the execution of actions for every text, setting and      *)
(* number of calls, edits and kills: nothing starts without an authority   *)
(* that still stands, a file of the user is never lost, what is            *)
(* overwritten was approved, and a reported success is true.               *)
(***************************************************************************)
EXTENDS Execution, TLAPS

\* The stages before a call has created its file
Early == {"reading", "read", "asking", "cleared", "rereading", "reread", "opening"}

\* Fresh inodes are enough, and nobody has one before it is created.
Numbering ==
  /\ fresh <= 2 + edits + calls
  /\ pc \in Early => fresh <= 1 + edits + calls
  /\ entry < fresh /\ entry \notin retained
  /\ \A i \in retained : i < fresh
  /\ \A i \in Inode : i >= fresh => text[i] = "absent"

\* The policy holds what the user gave and has not used or revoked.
Faithful == once = approved /\ grant = granted

\* What the stages of a mutation know of their files
Mutating == {"opening", "checked", "written", "reopened", "moved", "restoring"}

Stages ==
  /\ pc \in Mutating => action.tool \in Mutation
  /\ pc \in {"moved", "restoring"} => action.tool = "delete_file"
  /\ pc \in {"written", "reopened"} => action.tool # "delete_file"
  /\ pc \in {"running", "confirming"} => action.tool \in Process
  /\ pc \in {"moved", "restoring"} => moved \in retained
  /\ pc \in {"checked", "written", "reopened"} => fd \in Inode /\ fd < fresh
  /\ pc = "checked" /\ ~raced =>
       text[fd] = IF Creates THEN "absent" ELSE prepared.before
  /\ pc \in {"written", "reopened"} /\ ~raced => text[fd] = "agent"

Inv == TypeOK /\ Numbering /\ Faithful /\ Stages /\ UserFileIsKept /\ PassedIsTrue

LEMMA Texts ==
  /\ "absent" \in Text /\ "agent" \in Text /\ "torn" \in Text
  /\ UserText \subseteq Text
BY DEF Text

LEMMA Bounds == MaxCalls \in Nat /\ MaxEdits \in Nat /\ MaxKills \in Nat
BY BoundsAssumption

LEMMA NoFileIsNone == NoFile \notin Inode
BY Bounds DEF Inode, NoFile

LEMMA StageNames ==
  /\ "idle" \in Stage /\ "reading" \in Stage /\ "read" \in Stage
  /\ "asking" \in Stage /\ "confirming" \in Stage /\ "cleared" \in Stage
  /\ "rereading" \in Stage /\ "reread" \in Stage /\ "opening" \in Stage
  /\ "checked" \in Stage /\ "written" \in Stage /\ "reopened" \in Stage
  /\ "moved" \in Stage /\ "restoring" \in Stage /\ "running" \in Stage
BY DEF Stage, Waiting

LEMMA NoGrantType == NoGrant \in Grant
BY SettingAssumption DEF NoGrant, Grant

LEMMA InvInit == Init => Inv
<1> SUFFICES ASSUME Init PROVE Inv
  OBVIOUS
<1> USE DEF Init
<1>1. TypeOK
  <2>1. 1 \in Inode /\ 2 \in Inode \union {MaxEdits + MaxCalls + 2}
    BY Bounds DEF Inode
  <2>2. text \in [Inode -> Text]
    BY TextAssumption DEF Text
  <2>3. settings \in Setting
    BY SettingAssumption
  <2>4. grant \in Grant /\ granted \in Grant
    BY <2>3, NoGrantType DEF Grant, Tool, Mutation, Process
  <2>5. prepared \in Identity /\ action \in [tool : Tool, before : Text]
    BY <2>3, Texts DEF Identity, Tool, Process
  <2>6. calls \in 0..MaxCalls /\ edits \in 0..MaxEdits /\ kills \in 0..MaxKills
    BY Bounds
  <2> QED
    BY <2>1, <2>2, <2>3, <2>4, <2>5, <2>6, StageNames DEF TypeOK
<1>2. Numbering
  BY DEF Numbering, Inode, Early
<1>3. Faithful /\ Stages /\ UserFileIsKept /\ PassedIsTrue
  BY DEF Faithful, Stages, Mutating, UserFileIsKept, PassedIsTrue
<1> QED
  BY <1>1, <1>2, <1>3 DEF Inv

-----------------------------------------------------------------------------
(* Types *)

LEMMA TypeNext == TypeOK /\ Numbering /\ Stages /\ [Next]_vars => TypeOK'
<1> SUFFICES ASSUME TypeOK, Numbering, Stages
             PROVE  [Next]_vars => TypeOK'
  OBVIOUS
<1> USE Texts, NoGrantType, StageNames
    DEF diskVars, policyVars, mutationVars, childVars, childStep
<1>0. /\ calls \in 0..MaxCalls /\ edits \in 0..MaxEdits /\ kills \in 0..MaxKills
      /\ fresh \in Inode \union {MaxEdits + MaxCalls + 2}
  BY DEF TypeOK
<1>1. ASSUME NEW tool \in Tool, NEW before \in UserText \union {"agent"},
             Propose(tool, before)
      PROVE  TypeOK'
  <2>1. calls' \in 0..MaxCalls
    BY <1>1, <1>0, Bounds DEF Propose
  <2>2. action' \in [tool : Tool, before : Text]
    BY <1>1 DEF TypeOK, Propose
  <2> QED
    BY <1>1, <2>1, <2>2 DEF TypeOK, Propose, NoFile
<1>2. CASE Approve
  BY <1>2 DEF TypeOK, Approve, ApproveOnce
<1>3. CASE Deny
  BY <1>3 DEF TypeOK, Deny, Throws, Ends, EndsEditor, RevokeAll, RevokePolicy
<1>4. CASE Revoke
  BY <1>4 DEF TypeOK, Revoke, RevokeAll, RevokePolicy
<1>5. CASE Cancel
  BY <1>5 DEF TypeOK, Cancel
<1>6. ASSUME NEW t \in UserText, SaveInPlace(t) PROVE TypeOK'
  <2>1. edits' \in 0..MaxEdits
    BY <1>6, <1>0, Bounds DEF SaveInPlace, Edits
  <2> QED
    BY <1>6, <2>1 DEF TypeOK, SaveInPlace, Edits
<1>7. ASSUME NEW t \in UserText, SaveByRename(t) PROVE TypeOK'
  <2>1. edits' \in 0..MaxEdits
    BY <1>7, <1>0, Bounds DEF SaveByRename, Edits
  <2>2. fresh \in Inode /\ fresh' \in Inode \union {MaxEdits + MaxCalls + 2}
    BY <1>7, <1>0, Bounds DEF SaveByRename, Edits, Numbering, Inode
  <2> QED
    BY <1>7, <2>1, <2>2 DEF TypeOK, SaveByRename, Edits
<1>8. CASE Remove
  <2>1. edits' \in 0..MaxEdits
    BY <1>8, <1>0, Bounds DEF Remove, Edits
  <2> QED
    BY <1>8, <2>1 DEF TypeOK, Remove, Edits
<1>9. CASE ChangeSettings
  <2>1. edits' \in 0..MaxEdits
    BY <1>9, <1>0, Bounds DEF ChangeSettings, Edits
  <2> QED
    BY <1>9, <2>1 DEF TypeOK, ChangeSettings, Edits
<1>10. CASE ReadScope
  <2>1. [tool |-> action.tool, before |-> action.before,
         inode |-> IF action.tool \in Process THEN NoFile ELSE entry,
         settings |-> settings] \in Identity
    BY DEF TypeOK, Identity
  <2> QED
    BY <1>10, <2>1 DEF TypeOK, ReadScope, Throws, Ends, EndsEditor, RevokeAll,
       RevokePolicy
<1>11. CASE PrepareFirst
  BY <1>11 DEF TypeOK, PrepareFirst, Bound, Here, Identity, NoFile, Waiting,
     Throws, Ends, EndsEditor, RevokeAll, RevokePolicy
<1>12. CASE Request
  BY <1>12 DEF TypeOK, Request, Throws, Ends, EndsEditor, RevokeAll,
     RevokePolicy
<1>13. CASE Begin
  BY <1>13 DEF TypeOK, Begin, Spend, Consume, Bound, Here, Identity, NoFile,
     Throws, Ends, EndsEditor, RevokeAll, RevokePolicy
<1>14. CASE Open
  <2>1. fresh \in Inode /\ fresh + 1 \in Inode \union {MaxEdits + MaxCalls + 2}
    BY <1>14, <1>0, Bounds DEF Open, Numbering, Inode, Early
  <2> QED
    BY <1>14, <2>1 DEF TypeOK, Open, Throws, Ends, EndsEditor, RevokeAll,
       RevokePolicy
<1>15. CASE Write
  BY <1>15 DEF TypeOK, Write, Stages
<1>16. CASE WriteFails
  BY <1>16 DEF TypeOK, WriteFails, Stages, Throws, Ends, EndsEditor, RevokeAll,
     RevokePolicy
<1>17. CASE Reopen
  BY <1>17 DEF TypeOK, Reopen, Throws, Ends, EndsEditor, RevokeAll, RevokePolicy
<1>18. CASE Settle
  BY <1>18 DEF TypeOK, Settle, Ends
<1>19. CASE Move
  BY <1>19 DEF TypeOK, Move, NoFile, Throws, Ends, EndsEditor, RevokeAll,
     RevokePolicy
<1>20. CASE VerifyMove
  BY <1>20 DEF TypeOK, VerifyMove, Ends
<1>21. CASE MoveBack
  BY <1>21 DEF TypeOK, MoveBack, Ends
<1>22. CASE Close
  BY <1>22 DEF TypeOK, Close, Outcome, Throws, Ends, EndsEditor, RevokeAll,
     RevokePolicy
<1>23. CASE AwaitReturn
  BY <1>23 DEF TypeOK, AwaitReturn
<1>24. CASE Exit \/ Detach \/ Release \/ Escalate
  BY <1>24 DEF TypeOK, Exit, Detach, Release, Escalate
<1>25. CASE SpawnFails \/ ConfirmReturn
  BY <1>25 DEF TypeOK, SpawnFails, ConfirmReturn, Outcome, Throws, Ends,
     EndsEditor, RevokeAll, RevokePolicy
<1>26. CASE Kill
  <2>1. kills' \in 0..MaxKills
    BY <1>26, <1>0, Bounds DEF Kill
  <2>2. text' \in [Inode -> Text]
    BY <1>26 DEF TypeOK, Kill, Stages
  <2> QED
    BY <1>26, <2>1, <2>2 DEF TypeOK, Kill, RevokeAll, RevokePolicy
<1>27. ASSUME NEW why \in {"timeout", "cancelled", "output limit"}, Stop(why)
       PROVE  TypeOK'
  <2>1. reason' \in {"none", "timeout", "cancelled", "output limit"}
    BY <1>27 DEF Stop
  <2> QED
    BY <1>27, <2>1 DEF TypeOK, Stop
<1>28. CASE UNCHANGED vars
  BY <1>28 DEF TypeOK, vars
<1> QED
  BY <1>1, <1>2, <1>3, <1>4, <1>5, <1>6, <1>7, <1>8, <1>9, <1>10, <1>11, <1>12,
     <1>13, <1>14, <1>15, <1>16, <1>17, <1>18, <1>19, <1>20, <1>21, <1>22,
     <1>23, <1>24, <1>25, <1>26, <1>27, <1>28
     DEF Next, Proposals, User, Harness

-----------------------------------------------------------------------------
(* Numbering *)

LEMMA Numbers ==
  TypeOK => /\ calls \in Nat /\ edits \in Nat /\ fresh \in Nat \ {0}
            /\ entry \in Nat /\ NoFile = 0
            /\ Inode \subseteq Nat \ {0} /\ retained \subseteq Inode
            /\ text \in [Inode -> Text]
<1> SUFFICES ASSUME TypeOK
             PROVE  /\ calls \in Nat /\ edits \in Nat /\ fresh \in Nat \ {0}
                    /\ entry \in Nat /\ NoFile = 0
                    /\ Inode \subseteq Nat \ {0} /\ retained \subseteq Inode
                    /\ text \in [Inode -> Text]
  OBVIOUS
<1>1. /\ Inode \subseteq Nat \ {0} /\ NoFile = 0
      /\ MaxEdits + MaxCalls + 2 \in Nat \ {0}
  BY Bounds DEF Inode, NoFile
<1>2. /\ fresh \in Inode \union {MaxEdits + MaxCalls + 2}
      /\ entry \in Inode \union {NoFile} /\ retained \subseteq Inode
      /\ text \in [Inode -> Text]
      /\ calls \in 0..MaxCalls /\ edits \in 0..MaxEdits
  BY DEF TypeOK
<1> QED
  BY <1>1, <1>2, Bounds

\* A call that has not created its file finds a fresh inode.
LEMMA FreshIsFree == TypeOK /\ Numbering /\ pc \in Early => fresh \in Inode
<1> SUFFICES ASSUME TypeOK, Numbering, pc \in Early PROVE fresh \in Inode
  OBVIOUS
<1>1. fresh <= 1 + edits + calls
  BY DEF Numbering
<1>2. calls \in 0..MaxCalls /\ edits \in 0..MaxEdits
  BY DEF TypeOK
<1> QED
  BY <1>1, <1>2, Numbers, Bounds DEF Inode

LEMMA NumberingNext ==
  TypeOK /\ Numbering /\ Stages /\ [Next]_vars => Numbering'
<1> SUFFICES ASSUME TypeOK, Numbering, Stages
             PROVE  [Next]_vars => Numbering'
  OBVIOUS
<1> USE DEF diskVars, policyVars, mutationVars, childVars, childStep
<1>a. ASSUME UNCHANGED <<fresh, edits, calls, entry, retained, text>>,
             pc' \in Early => pc \in Early
      PROVE  Numbering'
  BY <1>a DEF Numbering
<1>1. ASSUME NEW tool \in Tool, NEW before \in UserText \union {"agent"},
             Propose(tool, before)
      PROVE  Numbering'
  BY <1>1, Numbers DEF Propose, Numbering, Early
<1>2. CASE Approve \/ Deny \/ Revoke \/ Cancel \/ Request \/ Begin
  BY <1>2, <1>a DEF Approve, Deny, Revoke, Cancel, Request, Begin, Early,
     Throws, Ends
<1>3. ASSUME NEW t \in UserText, SaveInPlace(t) PROVE Numbering'
  BY <1>3, Numbers DEF SaveInPlace, Edits, Numbering
<1>4. ASSUME NEW t \in UserText, SaveByRename(t) PROVE Numbering'
  <2>1. /\ entry' = fresh /\ fresh' = fresh + 1 /\ edits' = edits + 1
        /\ text' = [text EXCEPT ![fresh] = t]
        /\ UNCHANGED <<retained, calls, pc>>
    BY <1>4 DEF SaveByRename, Edits
  <2>2. fresh \notin retained
    BY Numbers DEF Numbering
  <2>3. \A i \in Inode : i >= fresh' => text'[i] = "absent"
    BY <2>1, Numbers DEF Numbering
  <2> QED
    BY <2>1, <2>2, <2>3, Numbers DEF Numbering
<1>5. CASE Remove
  <2>1. /\ entry' = NoFile /\ edits' = edits + 1
        /\ UNCHANGED <<text, retained, fresh, calls, pc>>
    BY <1>5 DEF Remove, Edits
  <2> QED
    BY <2>1, Numbers DEF Numbering
<1>6. CASE ChangeSettings
  BY <1>6, Numbers DEF ChangeSettings, Edits, Numbering
<1>7. CASE ReadScope \/ PrepareFirst
  BY <1>7, <1>a DEF ReadScope, PrepareFirst, Early, Throws, Ends
<1>8. CASE Open
  <2>1. /\ UNCHANGED <<retained, text, edits, calls>>
        /\ pc = "opening" /\ pc' \notin Early
    BY <1>8 DEF Open, Throws, Ends, Early
  <2>2. \/ entry' = fresh /\ fresh' = fresh + 1
        \/ UNCHANGED <<entry, fresh>>
    BY <1>8 DEF Open
  <2>3. pc \in Early
    BY <2>1 DEF Early
  <2>4. fresh \notin retained
    BY Numbers DEF Numbering
  <2> QED
    BY <2>1, <2>2, <2>3, <2>4, Numbers DEF Numbering
<1>9. CASE Write \/ WriteFails
  <2>1. /\ fd \in Inode /\ fd < fresh /\ pc' \notin Early
        /\ UNCHANGED <<entry, retained, fresh, edits, calls>>
    BY <1>9 DEF Write, WriteFails, Stages, Throws, Ends, Early
  <2>2. \A i \in Inode \ {fd} : text'[i] = text[i]
    BY <1>9, Numbers DEF Write, WriteFails
  <2>3. \A i \in Inode : i >= fresh' => text'[i] = "absent"
    BY <2>1, <2>2, Numbers DEF Numbering
  <2> QED
    BY <2>1, <2>3, Numbers DEF Numbering
<1>10. CASE Reopen \/ Settle \/ VerifyMove
  BY <1>10, <1>a DEF Reopen, Settle, VerifyMove, Early, Throws, Ends
<1>11. CASE Move
  <2>1. /\ UNCHANGED <<text, fresh, edits, calls>>
        /\ pc' \notin Early
    BY <1>11 DEF Move, Throws, Ends, Early
  <2>2. \/ entry' = NoFile /\ retained' = retained \union {entry} /\ entry # NoFile
        \/ UNCHANGED <<entry, retained>>
    BY <1>11 DEF Move
  <2>3. NoFile \notin retained'
    BY <2>2, NoFileIsNone DEF TypeOK
  <2>4. entry' < fresh' /\ entry' \notin retained'
    BY <2>1, <2>2, <2>3, Numbers DEF Numbering
  <2>5. \A i \in retained' : i < fresh'
    BY <2>1, <2>2 DEF Numbering
  <2> QED
    BY <2>1, <2>4, <2>5 DEF Numbering
<1>12. CASE MoveBack
  <2>1. /\ moved \in retained /\ pc' \notin Early
        /\ UNCHANGED <<text, fresh, edits, calls>>
    BY <1>12 DEF MoveBack, Stages, Ends, Early
  <2>2. \/ entry' = moved /\ retained' = retained \ {moved}
        \/ UNCHANGED <<entry, retained>>
    BY <1>12 DEF MoveBack
  <2>3. entry' < fresh' /\ entry' \notin retained'
    BY <2>1, <2>2 DEF Numbering
  <2>4. \A i \in retained' : i < fresh'
    BY <2>1, <2>2 DEF Numbering
  <2> QED
    BY <2>1, <2>3, <2>4 DEF Numbering
<1>13. CASE Close \/ AwaitReturn \/ SpawnFails \/ ConfirmReturn
  BY <1>13, <1>a DEF Close, AwaitReturn, SpawnFails, ConfirmReturn, Early,
     Throws, Ends
<1>14. CASE Exit \/ Detach \/ Release \/ Escalate
  BY <1>14, <1>a DEF Exit, Detach, Release, Escalate
<1>15. CASE Kill
  BY <1>15, Numbers DEF Kill, Stages, Numbering, Early
<1>16. ASSUME NEW why \in {"timeout", "cancelled", "output limit"}, Stop(why)
       PROVE  Numbering'
  BY <1>16, <1>a DEF Stop
<1>17. CASE UNCHANGED vars
  BY <1>17, <1>a DEF vars
<1> QED
  BY <1>1, <1>2, <1>3, <1>4, <1>5, <1>6, <1>7, <1>8, <1>9, <1>10, <1>11, <1>12,
     <1>13, <1>14, <1>15, <1>16, <1>17
     DEF Next, Proposals, User, Harness

-----------------------------------------------------------------------------
(* Authority *)

LEMMA FaithfulNext == Faithful /\ [Next]_vars => Faithful'
<1> SUFFICES ASSUME Faithful
             PROVE  [Next]_vars => Faithful'
  OBVIOUS
<1> USE DEF Faithful, diskVars, policyVars, mutationVars, childVars, childStep,
            Throws, Ends, EndsEditor, RevokeAll, RevokePolicy
<1>1. ASSUME NEW tool \in Tool, NEW before \in UserText \union {"agent"},
             Propose(tool, before)
      PROVE  Faithful'
  BY <1>1 DEF Propose
<1>2. CASE Approve
  BY <1>2 DEF Approve, ApproveOnce
<1>3. CASE Deny \/ Revoke \/ Cancel \/ Request
  BY <1>3 DEF Deny, Revoke, Cancel, Request
<1>4. CASE User
  BY <1>4 DEF User, SaveInPlace, SaveByRename, Remove, ChangeSettings, Edits
<1>5. CASE ReadScope \/ PrepareFirst
  BY <1>5 DEF ReadScope, PrepareFirst
<1>6. CASE Begin
  BY <1>6 DEF Begin, Spend, Consume
<1>7. CASE Open \/ Write \/ WriteFails \/ Reopen \/ Settle
  BY <1>7 DEF Open, Write, WriteFails, Reopen, Settle
<1>8. CASE Move \/ VerifyMove \/ MoveBack
  BY <1>8 DEF Move, VerifyMove, MoveBack
<1>9. CASE Close \/ AwaitReturn \/ SpawnFails \/ ConfirmReturn
  BY <1>9 DEF Close, AwaitReturn, SpawnFails, ConfirmReturn
<1>10. CASE Exit \/ Detach \/ Release \/ Escalate \/ Kill
  BY <1>10 DEF Exit, Detach, Release, Escalate, Kill
<1>11. ASSUME NEW why \in {"timeout", "cancelled", "output limit"}, Stop(why)
       PROVE  Faithful'
  BY <1>11 DEF Stop
<1>12. CASE UNCHANGED vars
  BY <1>12 DEF vars
<1> QED
  BY <1>1, <1>2, <1>3, <1>4, <1>5, <1>6, <1>7, <1>8, <1>9, <1>10, <1>11, <1>12
     DEF Next, Proposals, Harness

-----------------------------------------------------------------------------
(* The user's files *)

LEMMA KeptNext ==
  TypeOK /\ Numbering /\ Stages /\ UserFileIsKept /\ [Next]_vars => UserFileIsKept'
<1> SUFFICES ASSUME TypeOK, Stages, UserFileIsKept
             PROVE  [Next]_vars => UserFileIsKept'
  OBVIOUS
<1> USE DEF UserFileIsKept, diskVars, policyVars, mutationVars, childVars, childStep
<1>a. kept \subseteq Inode /\ NoFile \notin Inode
  <2>1. NoFile \notin Inode
    BY Bounds DEF Inode, NoFile
  <2> QED
    BY <2>1 DEF TypeOK
<1>1. ASSUME NEW tool \in Tool, NEW before \in UserText \union {"agent"},
             Propose(tool, before)
      PROVE  UserFileIsKept'
  BY <1>1 DEF Propose
<1>2. CASE Approve \/ Deny \/ Revoke \/ Cancel \/ Request \/ Begin
  BY <1>2 DEF Approve, Deny, Revoke, Cancel, Request, Begin
<1>3. CASE User
  BY <1>3, <1>a DEF User, SaveInPlace, SaveByRename, Remove, ChangeSettings,
     Edits
<1>4. CASE ReadScope \/ PrepareFirst
  BY <1>4 DEF ReadScope, PrepareFirst
<1>5. CASE Open
  BY <1>5, <1>a DEF Open, CanOpen
<1>6. CASE Write \/ WriteFails \/ Reopen \/ Settle \/ VerifyMove
  BY <1>6 DEF Write, WriteFails, Reopen, Settle, VerifyMove
<1>7. CASE Move
  BY <1>7, <1>a DEF Move
<1>8. CASE MoveBack
  BY <1>8, <1>a DEF MoveBack, MayMoveBack
<1>9. CASE Close \/ AwaitReturn \/ SpawnFails \/ ConfirmReturn
  BY <1>9 DEF Close, AwaitReturn, SpawnFails, ConfirmReturn
<1>10. CASE Exit \/ Detach \/ Release \/ Escalate \/ Kill
  BY <1>10 DEF Exit, Detach, Release, Escalate, Kill
<1>11. ASSUME NEW why \in {"timeout", "cancelled", "output limit"}, Stop(why)
       PROVE  UserFileIsKept'
  BY <1>11 DEF Stop
<1>12. CASE UNCHANGED vars
  BY <1>12 DEF vars
<1> QED
  BY <1>1, <1>2, <1>3, <1>4, <1>5, <1>6, <1>7, <1>8, <1>9, <1>10, <1>11, <1>12
     DEF Next, Proposals, Harness

-----------------------------------------------------------------------------
(* Stages *)

LEMMA StagesNext ==
  TypeOK /\ Numbering /\ Stages /\ [Next]_vars => Stages'
<1> SUFFICES ASSUME TypeOK, Numbering, Stages
             PROVE  [Next]_vars => Stages'
  OBVIOUS
<1> USE DEF diskVars, policyVars, mutationVars, childVars, childStep
<1>a. ASSUME pc' \in {"idle"} \union (Early \ {"opening"})
      PROVE  Stages'
  BY <1>a DEF Stages, Mutating, Early
<1>b. ASSUME UNCHANGED <<pc, action, prepared, moved, retained, fd, fresh,
                        raced, text>>
      PROVE  Stages'
  BY <1>b DEF Stages, Creates
<1>1. ASSUME NEW tool \in Tool, NEW before \in UserText \union {"agent"},
             Propose(tool, before)
      PROVE  Stages'
  BY <1>1, <1>a DEF Propose, Early
<1>2. CASE Approve \/ Deny \/ Revoke \/ Request \/ ReadScope \/ PrepareFirst
  BY <1>2, <1>a DEF Approve, Deny, Revoke, Request, ReadScope, PrepareFirst,
     Early, Throws, Ends
<1>3. CASE Cancel \/ ChangeSettings
  BY <1>3, <1>b DEF Cancel, ChangeSettings, Edits
<1>4. CASE (\E t \in UserText : SaveInPlace(t) \/ SaveByRename(t)) \/ Remove
  <2>1. raced' /\ UNCHANGED <<pc, action, prepared, moved, retained, fd>>
    BY <1>4 DEF SaveInPlace, SaveByRename, Remove, Edits
  <2>2. fd \in Inode /\ fd < fresh => fd < fresh'
    <3>1. fresh' = fresh \/ fresh' = fresh + 1
      BY <1>4 DEF SaveInPlace, SaveByRename, Remove
    <3> QED
      BY <3>1, Numbers
  <2> QED
    BY <2>1, <2>2 DEF Stages
<1>5. CASE Begin
  <2>1. action.tool \in Mutation \union Process
    BY DEF TypeOK, Tool
  <2>2. \/ pc' = "idle"
        \/ pc' = "running" /\ action'.tool \in Process
        \/ pc' = "opening" /\ action'.tool \in Mutation
    BY <1>5, <2>1 DEF Begin, Throws, Ends
  <2> QED
    BY <2>2 DEF Stages, Mutating
<1>6. CASE Open
  <2>1. CASE ~CanOpen
    BY <1>6, <2>1, <1>a DEF Open, Throws, Ends
  <2>2. CASE CanOpen
    <3>1. /\ pc = "opening" /\ pc' = "checked" /\ ~raced'
          /\ UNCHANGED <<action, prepared, text, retained>>
          /\ fd' = IF Creates THEN fresh ELSE entry
          /\ fresh' = IF Creates THEN fresh + 1 ELSE fresh
      BY <1>6, <2>2 DEF Open
    <3>2. pc \in Early
      BY <3>1 DEF Early
    <3>3. /\ fresh \in Inode
          /\ ~Creates => entry \in Inode /\ entry < fresh
      BY <3>2, <2>2, FreshIsFree DEF CanOpen, ChecksOut, TypeOK, Numbering
    <3>4. fd' \in Inode /\ fd' < fresh'
      BY <3>1, <3>3, Numbers
    <3>5. text'[fd'] = IF Creates THEN "absent" ELSE prepared.before
      BY <3>1, <3>3, <2>2, Numbers DEF CanOpen, ChecksOut, Here, Numbering
    <3>6. action'.tool \in Mutation
      BY <3>1 DEF Stages, Mutating
    <3> QED
      BY <3>1, <3>4, <3>5, <3>6 DEF Stages, Creates
  <2> QED
    BY <2>1, <2>2
<1>7. CASE Write
  <2>1. /\ pc = "checked" /\ pc' = "written" /\ action.tool # "delete_file"
        /\ text' = [text EXCEPT ![fd] = "agent"]
        /\ UNCHANGED <<action, fd, fresh>>
    BY <1>7 DEF Write
  <2>2. fd \in Inode /\ fd < fresh /\ action.tool \in Mutation
    BY <2>1 DEF Stages, Mutating
  <2>3. text'[fd] = "agent"
    BY <2>1, <2>2 DEF TypeOK
  <2> QED
    BY <2>1, <2>2, <2>3 DEF Stages
<1>8. CASE WriteFails \/ Settle \/ MoveBack \/ Kill
  BY <1>8, <1>a DEF WriteFails, Settle, MoveBack, Kill, Throws, Ends
<1>9. CASE Reopen
  <2>1. CASE entry = fd
    BY <1>9, <2>1 DEF Reopen, Stages, Mutating
  <2>2. CASE entry # fd
    BY <1>9, <2>2, <1>a DEF Reopen, Throws, Ends
  <2> QED
    BY <2>1, <2>2
<1>10. CASE Move
  <2>1. CASE entry = NoFile
    BY <1>10, <2>1, <1>a DEF Move, Throws, Ends
  <2>2. CASE entry # NoFile
    <3>1. pc' = "moved" /\ action'.tool = "delete_file" /\ moved' \in retained'
      BY <1>10, <2>2 DEF Move
    <3> QED
      BY <3>1 DEF Stages, Mutation, Mutating
  <2> QED
    BY <2>1, <2>2
<1>11. CASE VerifyMove
  <2>1. CASE ApprovedMove
    BY <1>11, <2>1, <1>a DEF VerifyMove, Ends
  <2>2. CASE ~ApprovedMove
    BY <1>11, <2>2 DEF VerifyMove, Stages, Mutating
  <2> QED
    BY <2>1, <2>2
<1>12. CASE Close \/ SpawnFails \/ ConfirmReturn
  BY <1>12, <1>a DEF Close, SpawnFails, ConfirmReturn, Throws, Ends
<1>13. CASE AwaitReturn
  BY <1>13 DEF AwaitReturn, Stages, Mutating, Process
<1>14. CASE Exit \/ Detach \/ Release \/ Escalate
  BY <1>14, <1>b DEF Exit, Detach, Release, Escalate
<1>15. ASSUME NEW why \in {"timeout", "cancelled", "output limit"}, Stop(why)
       PROVE  Stages'
  BY <1>15, <1>b DEF Stop
<1>16. CASE UNCHANGED vars
  BY <1>16, <1>b DEF vars
<1> QED
  BY <1>1, <1>2, <1>3, <1>4, <1>5, <1>6, <1>7, <1>8, <1>9, <1>10, <1>11, <1>12,
     <1>13, <1>14, <1>15, <1>16
     DEF Next, Proposals, User, Harness

-----------------------------------------------------------------------------
(* Results *)

LEMMA PassedNext ==
  TypeOK /\ Numbering /\ Stages /\ PassedIsTrue /\ [Next]_vars => PassedIsTrue'
<1> SUFFICES ASSUME TypeOK, Numbering, Stages, PassedIsTrue
             PROVE  [Next]_vars => PassedIsTrue'
  OBVIOUS
<1> USE DEF diskVars, policyVars, mutationVars, childVars, childStep
<1>a. ASSUME pc' # "idle" \/ result' # "passed" PROVE PassedIsTrue'
  BY <1>a DEF PassedIsTrue
<1>b. ASSUME UNCHANGED <<pc, result, action, prepared, moved, retained, text,
                        raced, entry, fd>>
      PROVE  PassedIsTrue'
  BY <1>b DEF PassedIsTrue
<1>c. ASSUME action'.tool \in Process PROVE PassedIsTrue'
  BY <1>c DEF PassedIsTrue, Process
<1>1. ASSUME NEW tool \in Tool, NEW before \in UserText \union {"agent"},
             Propose(tool, before)
      PROVE  PassedIsTrue'
  BY <1>1, <1>a DEF Propose
<1>2. CASE Approve \/ Deny \/ Request \/ ReadScope \/ PrepareFirst \/ Begin
  BY <1>2, <1>a DEF Approve, Deny, Request, ReadScope, PrepareFirst, Begin,
     Throws, Ends
<1>3. CASE Revoke \/ Cancel \/ ChangeSettings
  BY <1>3, <1>b DEF Revoke, Cancel, ChangeSettings, Edits
<1>4. ASSUME NEW t \in UserText, SaveInPlace(t) \/ SaveByRename(t)
      PROVE  PassedIsTrue'
  <2>1. raced' /\ UNCHANGED <<pc, result, action, prepared, moved, retained>>
    BY <1>4 DEF SaveInPlace, SaveByRename, Edits
  <2>2. moved \in retained => moved # entry /\ moved # fresh
    BY Numbers DEF Numbering
  <2>3. moved \in retained => text'[moved] = text[moved]
    BY <1>4, <2>2 DEF SaveInPlace, SaveByRename, TypeOK
  <2> QED
    BY <2>1, <2>3 DEF PassedIsTrue
<1>5. CASE Remove
  BY <1>5 DEF Remove, Edits, PassedIsTrue
<1>6. CASE Open \/ Write \/ WriteFails \/ Reopen \/ Move \/ MoveBack \/ Kill
  BY <1>6, <1>a DEF Open, Write, WriteFails, Reopen, Move, MoveBack, Kill,
     Throws, Ends
<1>7. CASE Settle
  <2>1. /\ pc = "reopened" /\ action.tool # "delete_file"
        /\ UNCHANGED <<action, raced, entry, fd, text>>
        /\ result' = IF entry = fd THEN "passed" ELSE "unknown"
    BY <1>7 DEF Settle, Stages, Ends
  <2>2. raced \/ text[fd] = "agent"
    BY <2>1 DEF Stages
  <2> QED
    BY <2>1, <2>2 DEF PassedIsTrue
<1>8. CASE VerifyMove
  <2>1. CASE ~ApprovedMove
    BY <1>8, <2>1, <1>a DEF VerifyMove
  <2>2. CASE ApprovedMove
    <3>1. /\ pc = "moved" /\ action.tool = "delete_file" /\ moved \in retained
          /\ UNCHANGED <<action, prepared, moved, retained, text>>
      BY <1>8, <2>2 DEF VerifyMove, Stages, Ends
    <3> QED
      BY <2>2, <3>1 DEF PassedIsTrue, ApprovedMove
  <2> QED
    BY <2>1, <2>2
<1>9. CASE Close \/ AwaitReturn \/ SpawnFails \/ ConfirmReturn
  <2>1. action'.tool \in Process
    BY <1>9 DEF Close, AwaitReturn, SpawnFails, ConfirmReturn, Stages, Exited,
       Throws, Ends
  <2> QED
    BY <2>1, <1>c
<1>10. CASE Exit \/ Detach \/ Release \/ Escalate
  BY <1>10, <1>b DEF Exit, Detach, Release, Escalate
<1>11. ASSUME NEW why \in {"timeout", "cancelled", "output limit"}, Stop(why)
       PROVE  PassedIsTrue'
  BY <1>11, <1>b DEF Stop
<1>12. CASE UNCHANGED vars
  BY <1>12, <1>b DEF vars
<1> QED
  BY <1>1, <1>2, <1>3, <1>4, <1>5, <1>6, <1>7, <1>8, <1>9, <1>10, <1>11, <1>12
     DEF Next, Proposals, User, Harness

-----------------------------------------------------------------------------
\* The inductive invariant, of every reachable state
THEOREM InvHolds == Spec => []Inv
<1>1. Inv /\ [Next]_vars => Inv'
  BY TypeNext, NumberingNext, FaithfulNext, StagesNext, KeptNext, PassedNext
     DEF Inv
<1> QED
  BY <1>1, InvInit, PTL DEF Spec

\* The user's files are kept, whatever the harness does to the path and
\* wherever it is killed (mutateFile, AnchoredFiles.move).
THEOREM UserFilesAreKept == Spec => []UserFileIsKept
<1>1. Inv => UserFileIsKept
  BY DEF Inv
<1> QED
  BY <1>1, InvHolds, PTL

\* A reported success is what was approved (mutateFile).
THEOREM ReportsAreTrue == Spec => []PassedIsTrue
<1>1. Inv => PassedIsTrue
  BY DEF Inv
<1> QED
  BY <1>1, InvHolds, PTL

\* Every variable has its type; fresh inodes never run out (mutateFile).
THEOREM TypesHold == Spec => []TypeOK
<1>1. Inv => TypeOK
  BY DEF Inv
<1> QED
  BY <1>1, InvHolds, PTL

\* Nothing starts on an authority that was used, revoked, or given for
\* something else (ToolRuntime.execute, ExecutionPolicy.consume).
THEOREM AuthorityStands == Spec => StartsAreAuthorised
<1>1. Inv /\ [Next]_vars =>
        [Starts => prepared' \in approved \/ Covers(granted, prepared')]_vars
  <2> SUFFICES ASSUME Inv, Next, Starts
               PROVE  prepared' \in approved \/ Covers(granted, prepared')
    OBVIOUS
  <2>1. Begin
    BY DEF Next, Proposals, Harness, User, Starts, Propose, Approve, Deny,
       Revoke, Cancel, SaveInPlace, SaveByRename, Remove, ChangeSettings,
       Edits, ReadScope, PrepareFirst, Request, Open, Write, WriteFails,
       Reopen, Settle, Move, VerifyMove, MoveBack, Close, AwaitReturn, Exit,
       Detach, Release, Escalate, SpawnFails, ConfirmReturn, Kill, Stop,
       Exited, Stoppable, Throws, Ends
  <2>2. Allows(Bound) /\ prepared' = Bound
    BY <2>1 DEF Begin, Throws, Ends, Starts
  <2> QED
    BY <2>2 DEF Allows, Inv, Faithful
<1> QED
  BY <1>1, InvHolds, PTL DEF Spec, StartsAreAuthorised

\* What a mutation overwrites was approved, unless the user saved it after the
\* last check (prepareAction, mutateFile).
THEOREM OverwrittenTextIsRead == Spec => UserTextIsRead
<1>1. Inv => [Overwrites =>
                raced \/ text[fd] = IF Creates THEN "absent"
                                    ELSE prepared.before]_vars
  BY DEF Inv, Stages, Overwrites
<1> QED
  BY <1>1, InvHolds, PTL DEF UserTextIsRead
=============================================================================

----------------------------- MODULE Execution -----------------------------
(***************************************************************************)
(* How one action that the model proposes becomes a change of the worktree *)
(* while the user keeps working in it:                                     *)
(*  - an action is prepared: bound to the settings, the file and the bytes *)
(*    it is about (src/packages/tools/policy.ts, mutation-path.ts);        *)
(*  - the user approves what was prepared, once, or gave a development     *)
(*    grant before; the runtime prepares the action again and consumes the *)
(*    approval (src/packages/agent/loop.ts, src/packages/tools/runtime.ts);*)
(*  - a file mutation runs as a series of system calls with the user's     *)
(*    editor between any two of them (file-mutations.ts,                   *)
(*    anchored-files.ts); a command runs as a process group that is        *)
(*    stopped by a signal (runtime.ts);                                    *)
(*  - the user's own editor is launched the same way (editor.ts).          *)
(*                                                                         *)
(* There is one path, which is also the entry file of the command and of   *)
(* the editor.  The lease, the effect's events and its pending row are in  *)
(* EffectGuard; here an execution that throws ends "unknown".              *)
(***************************************************************************)
EXTENDS Naturals, FiniteSets

CONSTANTS
  UserText,  \* what the user writes into the file
  Setting,   \* contents of the settings files that apply to the action
  MaxCalls,  \* bound on proposed actions
  MaxEdits,  \* bound on what the user does to the worktree
  MaxKills   \* bound on killed harness processes

ASSUME BoundsAssumption == {MaxCalls, MaxEdits, MaxKills} \subseteq Nat
ASSUME TextAssumption ==
  UserText # {} /\ UserText \intersect {"absent", "agent", "torn"} = {}
ASSUME SettingAssumption == Setting # {}

Inode == 1 .. MaxEdits + MaxCalls + 1  \* every new file has a fresh one
NoFile == 0
Text == UserText \union {"absent", "agent", "torn"}
Mutation == {"create_file", "delete_file", "apply_patch"}
Process == {"run_command", "editor"}
Tool == Mutation \union Process

\* PreparedAction: what its identity binds.  A mutation is bound to the inode of
\* its path and to beforeDigest, a process to the digest of its entry file.
Identity == [tool : Tool, inode : Inode \union {NoFile}, before : Text,
             settings : Setting]

\* ExecutionPolicy.development.  Its revision is left out: revoke() also drops
\* the grant, so that a grant of an earlier revision never exists.
Grant == [tools : SUBSET Tool, settings : Setting]
NoGrant == [tools |-> {}, settings |-> CHOOSE s \in Setting : TRUE]

VARIABLES
  entry,     \* inode at the path
  retained,  \* inodes under .mavona/recovery
  text,      \* what each inode holds
  fresh,     \* the next inode
  settings,  \* the settings files
  once,      \* ExecutionPolicy.once
  grant,     \* ExecutionPolicy.development
  pc, action, prepared,  \* the harness: stage, action, its last preparation
  fd,        \* inode it holds open
  moved,     \* inode it moved to the recovery path
  child,     \* its child process: "none", "alive", or how it exited
  held,      \* a descendant outside the process group holds the output pipes
  reason,    \* why the child is being stopped
  result,    \* ToolResult.state of the last execution
  cancelled, \* the AbortSignal
  approved,  \* history: approvals given, neither used nor revoked
  granted,   \* history: the grant the user gave and has not revoked
  kept,      \* history: files of the user that the user has not removed
  raced,     \* history: the user touched the path since the harness checked it
  calls, edits, kills

diskVars == <<entry, retained, text, fresh, settings, kept, raced, edits>>
policyVars == <<once, grant, approved, granted>>
mutationVars == <<fd, moved>>
childVars == <<child, held, reason>>
vars == <<diskVars, policyVars, mutationVars, childVars, pc, action, prepared,
          result, cancelled, calls, kills>>

Waiting == {"asking", "confirming"}
Stage == {"idle", "reading", "read", "cleared", "rereading", "reread",
          "opening", "checked", "written", "reopened", "moved", "restoring",
          "running"} \union Waiting

TypeOK ==
  /\ entry \in Inode \union {NoFile} /\ retained \subseteq Inode
  /\ text \in [Inode -> Text] /\ fresh \in Inode \union {MaxEdits + MaxCalls + 2}
  /\ settings \in Setting
  /\ once \subseteq Identity /\ approved \subseteq Identity
  /\ grant \in Grant /\ granted \in Grant
  /\ pc \in Stage /\ prepared \in Identity
  /\ action \in [tool : Tool, before : Text]
  /\ fd \in Inode \union {NoFile} /\ moved \in Inode \union {NoFile}
  /\ child \in {"none", "alive", "zero", "nonzero"} /\ held \in BOOLEAN
  /\ reason \in {"none", "timeout", "cancelled", "output limit"}
  /\ result \in {"passed", "failed", "unknown"} /\ cancelled \in BOOLEAN
  /\ kept \subseteq Inode /\ raced \in BOOLEAN
  /\ calls \in 0..MaxCalls /\ edits \in 0..MaxEdits /\ kills \in 0..MaxKills

\* The path holds a file of the user.  Headless, run.ts turns --allow-write and
\* --allow-command into a grant for the settings of that moment.
Init ==
  /\ entry = 1 /\ fresh = 2 /\ retained = {} /\ kept = {1}
  /\ text = [i \in Inode |-> IF i = 1 THEN CHOOSE t \in UserText : TRUE ELSE "absent"]
  /\ settings = CHOOSE s \in Setting : TRUE
  /\ grant \in {NoGrant} \union
       [tools : {Mutation, {"run_command"}}, settings : {settings}]
  /\ granted = grant
  /\ once = {} /\ approved = {}
  /\ pc = "idle"
  /\ action = [tool |-> "editor", before |-> "absent"]
  /\ prepared = [tool |-> "editor", inode |-> NoFile, before |-> "absent",
                 settings |-> settings]
  /\ fd = NoFile /\ moved = NoFile
  /\ child = "none" /\ held = FALSE /\ reason = "none"
  /\ result = "unknown" /\ cancelled = FALSE /\ raced = FALSE
  /\ calls = 0 /\ edits = 0 /\ kills = 0

-----------------------------------------------------------------------------
(* The user and other programs *)

Here == IF entry = NoFile THEN "absent" ELSE text[entry]

Edits ==
  /\ edits < MaxEdits
  /\ edits' = edits + 1
  /\ UNCHANGED <<retained, policyVars, mutationVars, childVars, pc, action,
                 prepared, result, cancelled, calls, kills>>

\* An editor writes into the file that is there.
SaveInPlace(t) ==
  /\ Edits /\ entry # NoFile
  /\ text' = [text EXCEPT ![entry] = t]
  /\ raced' = TRUE
  /\ UNCHANGED <<entry, fresh, settings, kept>>

\* An editor renames a new file over the path, or creates one.
SaveByRename(t) ==
  /\ Edits
  /\ text' = [text EXCEPT ![fresh] = t]
  /\ entry' = fresh /\ fresh' = fresh + 1
  /\ kept' = (kept \ {entry}) \union {fresh}
  /\ raced' = TRUE
  /\ UNCHANGED settings

Remove ==
  /\ Edits /\ entry # NoFile
  /\ entry' = NoFile
  /\ kept' = kept \ {entry}
  /\ raced' = TRUE
  /\ UNCHANGED <<text, fresh, settings>>

ChangeSettings ==
  /\ Edits
  /\ settings' \in Setting \ {settings}
  /\ UNCHANGED <<entry, text, fresh, kept, raced>>

User ==
  \/ \E t \in UserText : SaveInPlace(t) \/ SaveByRename(t)
  \/ Remove
  \/ ChangeSettings

Cancel ==
  /\ pc # "idle" /\ ~cancelled
  /\ cancelled' = TRUE
  /\ UNCHANGED <<diskVars, policyVars, mutationVars, childVars, pc, action,
                 prepared, result, calls, kills>>

-----------------------------------------------------------------------------
(* ExecutionPolicy *)

Covers(g, i) == i.tool \in g.tools /\ g.settings = i.settings

Allows(i) == i \in once \/ Covers(grant, i)

ApproveOnce(i) == once' = once \union {i} /\ approved' = approved \union {i}

\* A faulty variant: the approval is not spent.
ConsumeKeeps(i) == UNCHANGED once

Consume(i) == once' = once \ {i}

RevokePolicy == once' = {} /\ grant' = NoGrant

RevokeAll == RevokePolicy /\ approved' = {} /\ granted' = NoGrant

\* /revoke, a change of the connection, a reconciliation: only between actions
Revoke ==
  /\ pc = "idle" /\ (once # {} \/ grant # NoGrant)
  /\ RevokeAll
  /\ UNCHANGED <<diskVars, mutationVars, childVars, pc, action, prepared,
                 result, cancelled, calls, kills>>

-----------------------------------------------------------------------------
(* prepareAction, first for the approval and again for the execution *)

Leased == pc \notin {"idle", "reading", "read", "asking", "cleared"}

\* The finally of editorHandoff revokes every authority.
EndsEditor ==
  IF action.tool = "editor" /\ Leased THEN RevokeAll ELSE UNCHANGED policyVars

Ends(outcome) ==
  /\ pc' = "idle" /\ result' = outcome
  /\ child' = "none" /\ held' = FALSE /\ reason' = "none"
  /\ UNCHANGED <<action, prepared, cancelled, calls, kills>>

Throws == Ends("unknown") /\ EndsEditor

\* A tool call of the model; beforeDigest is what it says it has read.
Propose(tool, before) ==
  /\ pc = "idle" /\ calls < MaxCalls
  /\ calls' = calls + 1
  /\ pc' = "reading"
  /\ action' = [tool |-> tool, before |-> before]
  /\ fd' = NoFile /\ moved' = NoFile
  /\ cancelled' = FALSE /\ result' = "unknown"
  /\ UNCHANGED <<diskVars, policyVars, childVars, prepared, kills>>

\* mutationScope refuses a creation of what exists and a change of what does not.
InScope ==
  \/ action.tool \in Process
  \/ action.tool = "create_file" /\ entry = NoFile
  \/ action.tool \in {"delete_file", "apply_patch"} /\ entry # NoFile

\* settingsDigest and mutationScope
ReadScope ==
  /\ pc \in {"reading", "rereading"}
  /\ UNCHANGED <<diskVars, mutationVars>>
  /\ IF InScope
     THEN /\ pc' = IF pc = "reading" THEN "read" ELSE "reread"
          /\ prepared' =
               [tool |-> action.tool, before |-> action.before,
                inode |-> IF action.tool \in Process THEN NoFile ELSE entry,
                settings |-> settings]
          /\ UNCHANGED <<policyVars, childVars, action, result, cancelled,
                         calls, kills>>
     ELSE Throws

\* readSource: a mutation of other bytes than the proposed ones is stale; a
\* process is bound to the bytes its entry file has now.
Stale ==
  action.tool \in {"delete_file", "apply_patch"} /\ Here # action.before

Bound ==
  IF action.tool \in Process THEN [prepared EXCEPT !.before = Here] ELSE prepared

\* ... after which the loop asks for what the policy does not allow.
PrepareFirst ==
  /\ pc = "read"
  /\ UNCHANGED <<diskVars, mutationVars>>
  /\ IF Stale
     THEN Throws
     ELSE /\ prepared' = Bound
          /\ pc' = IF Allows(Bound) THEN "cleared" ELSE "asking"
          /\ UNCHANGED <<policyVars, childVars, action, result, cancelled,
                         calls, kills>>

Approve ==
  /\ pc = "asking" /\ ~cancelled
  /\ ApproveOnce(prepared)
  /\ pc' = "cleared"
  /\ UNCHANGED <<diskVars, mutationVars, childVars, grant, granted, action,
                 prepared, result, cancelled, calls, kills>>

\* A denial, or the cancellation that answers for the user
Deny ==
  /\ pc = "asking"
  /\ Throws
  /\ UNCHANGED <<diskVars, mutationVars>>

\* effect.requested and its row, or the editor's lease
Request ==
  /\ pc = "cleared"
  /\ UNCHANGED <<diskVars, mutationVars>>
  /\ IF cancelled
     THEN Throws
     ELSE /\ pc' = "rereading"
          /\ UNCHANGED <<policyVars, childVars, action, prepared, result,
                         cancelled, calls, kills>>

\* The grants that are left when an execution starts: the editor's handoff
\* revokes all of them, since the user is about to edit.
Spend(i) ==
  IF action.tool = "editor"
  THEN RevokeAll
  ELSE /\ Consume(i)
       /\ approved' = approved \ {i}
       /\ UNCHANGED <<grant, granted>>

\* The runtime prepares the action again and consumes the approval.
Begin ==
  /\ pc = "reread"
  /\ UNCHANGED <<diskVars, mutationVars>>
  /\ IF Stale \/ ~Allows(Bound)
     THEN Throws
     ELSE /\ prepared' = Bound
          /\ Spend(Bound)
          /\ pc' = IF action.tool \in Process THEN "running" ELSE "opening"
          /\ child' = IF action.tool \in Process THEN "alive" ELSE "none"
          /\ UNCHANGED <<held, reason, action, result, cancelled, calls, kills>>

-----------------------------------------------------------------------------
(* mutateFile *)

\* A faulty variant: the file is checked, but not its bytes.
ChecksInodeOnly == entry # NoFile /\ entry = prepared.inode

\* AnchoredFiles.matches and the digest of the open file
ChecksOut == entry # NoFile /\ entry = prepared.inode /\ Here = prepared.before

Creates == action.tool = "create_file"

CanOpen == ~cancelled /\ IF Creates THEN entry = NoFile ELSE ChecksOut

\* An exclusive creation, or an open of what was approved
Open ==
  /\ pc = "opening"
  /\ IF CanOpen
     THEN /\ fd' = IF Creates THEN fresh ELSE entry
          /\ entry' = fd'
          /\ fresh' = IF Creates THEN fresh + 1 ELSE fresh
          /\ raced' = FALSE
          /\ pc' = "checked"
          /\ UNCHANGED <<policyVars, childVars, result>>
     ELSE /\ Throws
          /\ UNCHANGED <<entry, fresh, fd, raced>>
  /\ UNCHANGED <<retained, text, settings, kept, edits, moved, action, prepared,
                 cancelled, calls, kills>>

\* A creation or a patch writes through the descriptor it holds.
Write ==
  /\ pc = "checked" /\ action.tool # "delete_file"
  /\ text' = [text EXCEPT ![fd] = "agent"]
  /\ pc' = "written"
  /\ UNCHANGED <<entry, retained, fresh, settings, kept, raced, edits,
                 policyVars, mutationVars, childVars, action, prepared, result,
                 cancelled, calls, kills>>

\* A full disk leaves a part of it.
WriteFails ==
  /\ pc = "checked" /\ action.tool # "delete_file"
  /\ text' = [text EXCEPT ![fd] = "torn"]
  /\ Throws
  /\ UNCHANGED <<entry, retained, fresh, settings, kept, raced, edits,
                 mutationVars>>

\* The path is opened again to see whether it still names what was written.
Reopen ==
  /\ pc = "written"
  /\ UNCHANGED <<diskVars, mutationVars>>
  /\ IF entry = fd
     THEN /\ pc' = "reopened"
          /\ UNCHANGED <<policyVars, childVars, action, prepared, result,
                         cancelled, calls, kills>>
     ELSE Throws

\* ... and resolved once more from the root of the checkout.
Settle ==
  /\ pc = "reopened"
  /\ Ends(IF entry = fd THEN "passed" ELSE "unknown")
  /\ UNCHANGED <<diskVars, mutationVars, policyVars>>

\* A deletion moves whatever is at the path to a fresh recovery path.
Move ==
  /\ pc = "checked" /\ action.tool = "delete_file"
  /\ IF entry = NoFile
     THEN Throws /\ UNCHANGED <<entry, retained, moved>>
     ELSE /\ moved' = entry
          /\ retained' = retained \union {entry}
          /\ entry' = NoFile
          /\ pc' = "moved"
          /\ UNCHANGED <<policyVars, childVars, action, prepared, result,
                         cancelled, calls, kills>>
  /\ UNCHANGED <<text, fresh, settings, kept, raced, edits, fd>>

\* A faulty variant: the moved file is not read again.
SameInode == moved = prepared.inode

ApprovedMove == moved = prepared.inode /\ text[moved] = prepared.before

VerifyMove ==
  /\ pc = "moved"
  /\ UNCHANGED <<diskVars, mutationVars>>
  /\ IF ApprovedMove
     THEN Ends("passed") /\ UNCHANGED policyVars
     ELSE /\ pc' = "restoring"
          /\ UNCHANGED <<policyVars, childVars, action, prepared, result,
                         cancelled, calls, kills>>

\* A faulty variant: the file is moved back over what is at the path by now.
MoveOver == TRUE

\* renameat2 with RENAME_NOREPLACE
MayMoveBack == entry = NoFile

\* A file that was not approved goes back, unless the path is taken by now.
MoveBack ==
  /\ pc = "restoring"
  /\ IF MayMoveBack
     THEN entry' = moved /\ retained' = retained \ {moved}
     ELSE UNCHANGED <<entry, retained>>
  /\ Ends("unknown")
  /\ UNCHANGED <<text, fresh, settings, kept, raced, edits, policyVars,
                 mutationVars>>

-----------------------------------------------------------------------------
(* A child process: a command of the model, or the user's editor *)

childStep == <<diskVars, policyVars, mutationVars, action, prepared, result,
               cancelled, calls, kills>>

\* The child exits by itself, or because of SIGTERM.
Exit ==
  /\ child = "alive"
  /\ child' \in {"zero", "nonzero"}
  /\ UNCHANGED <<childStep, pc, held, reason>>

\* A descendant leaves the process group and keeps the output open ...
Detach ==
  /\ child = "alive" /\ action.tool = "run_command" /\ ~held
  /\ held' = TRUE
  /\ UNCHANGED <<childStep, pc, child, reason>>

\* ... until it ends.
Release ==
  /\ held
  /\ held' = FALSE
  /\ UNCHANGED <<childStep, pc, child, reason>>

Stoppable == pc = "running" /\ reason = "none"

\* The first reason wins; SIGTERM goes to the group.
Stop(why) ==
  /\ Stoppable
  /\ why = "cancelled" => cancelled
  /\ why = "output limit" => action.tool = "run_command"
  /\ reason' = why
  /\ UNCHANGED <<childStep, pc, child, held>>

\* A faulty variant: no SIGKILL follows.
NoEscalation == FALSE /\ UNCHANGED vars

\* SIGKILL, 250 ms later
Escalate ==
  /\ reason # "none" /\ child = "alive"
  /\ child' = "nonzero"
  /\ UNCHANGED <<childStep, pc, held, reason>>

Exited == pc = "running" /\ child \in {"zero", "nonzero"} /\ ~held

Outcome ==
  IF reason # "none" THEN "unknown" ELSE IF child = "zero" THEN "passed" ELSE "failed"

\* The "close" event: the child is gone and its pipes are closed.
Close ==
  /\ Exited
  /\ Ends(Outcome)
  /\ EndsEditor
  /\ UNCHANGED <<diskVars, mutationVars>>

\* A window editor returns at once; the user says when the file is saved.
AwaitReturn ==
  /\ Exited /\ action.tool = "editor"
  /\ pc' = "confirming"
  /\ UNCHANGED <<childStep, child, held, reason>>

ConfirmReturn ==
  /\ pc = "confirming"
  /\ Ends(Outcome) \/ Ends("unknown")  \* the latter: the confirmation throws
  /\ EndsEditor
  /\ UNCHANGED <<diskVars, mutationVars>>

\* The "error" event: nothing was started.
SpawnFails ==
  /\ pc = "running" /\ child = "alive" /\ ~held
  /\ Throws
  /\ UNCHANGED <<diskVars, mutationVars>>

-----------------------------------------------------------------------------
\* The harness is killed: its policy is gone, a write may be incomplete, and a
\* moved file stays where it is.
Kill ==
  /\ pc # "idle" /\ kills < MaxKills
  /\ kills' = kills + 1
  /\ pc' = "idle" /\ result' = "unknown"
  /\ child' = "none" /\ held' = FALSE /\ reason' = "none"
  /\ RevokeAll
  /\ \/ UNCHANGED text
     \/ pc = "checked" /\ action.tool # "delete_file"
        /\ text' = [text EXCEPT ![fd] = "torn"]
  /\ UNCHANGED <<entry, retained, fresh, settings, kept, raced, edits,
                 mutationVars, action, prepared, cancelled, calls>>

Proposals == \E tool \in Tool, before \in UserText \union {"agent"} :
               /\ tool \notin {"delete_file", "apply_patch"} => before = "agent"
               /\ Propose(tool, before)

\* What the harness does by itself
Harness ==
  \/ ReadScope \/ PrepareFirst \/ Request \/ Begin
  \/ Open \/ Write \/ WriteFails \/ Reopen \/ Settle \/ Move \/ VerifyMove
  \/ MoveBack \/ Close \/ AwaitReturn

Next ==
  \/ Proposals \/ Approve \/ Deny \/ Revoke \/ Cancel \/ User \/ Harness
  \/ Exit \/ Detach \/ Release \/ Escalate \/ SpawnFails \/ ConfirmReturn \/ Kill
  \/ \E why \in {"timeout", "cancelled", "output limit"} : Stop(why)

Spec == Init /\ [][Next]_vars

\* The harness runs, and so do its timers; nothing is assumed of the user, of
\* the child or of its descendants.
FairSpec ==
  /\ Spec
  /\ WF_vars(Harness) /\ WF_vars(Stop("timeout")) /\ WF_vars(Escalate)

-----------------------------------------------------------------------------
(* Properties *)

\* A file that the user has made and not removed is at its path or under
\* .mavona/recovery, whatever the harness does to the path, wherever it is
\* killed (mutateFile; AnchoredFiles.move never replaces).
UserFileIsKept == \A i \in kept : i = entry \/ i \in retained

\* A mutation that reports success did what was approved: a deletion retains
\* the approved bytes of the approved file, even when the user saved between
\* the check and the move; a written file is at its path (mutateFile).
PassedIsTrue ==
  pc = "idle" /\ result = "passed" =>
    /\ action.tool = "delete_file" =>
         /\ moved = prepared.inode /\ moved \in retained
         /\ text[moved] = prepared.before
    /\ action.tool \in {"create_file", "apply_patch"} =>
         raced \/ (entry = fd /\ text[fd] = "agent")

\* Nothing starts on an approval that was used or revoked before, that was given
\* for other bytes, another file or other settings, or on a grant that was revoked
\* or given under other settings: not after a first preparation went stale, an
\* execution threw or the user's editor was open
\* (ToolRuntime.execute, ExecutionPolicy.consume, editorHandoff).
Starts == pc = "reread" /\ pc' \in {"opening", "running"}

StartsAreAuthorised ==
  [][Starts => prepared' \in approved \/ Covers(granted, prepared')]_vars

\* What a mutation overwrites are the bytes that were approved: the user's text is
\* lost only when it is saved between the last check and the write
\* (prepareAction, mutateFile).
Overwrites ==
  pc = "checked" /\ edits' = edits /\ \E i \in Inode : text'[i] # text[i]

UserTextIsRead ==
  [][Overwrites => raced \/ text[fd] = IF Creates THEN "absent" ELSE prepared.before]_vars

\* Every execution returns, a stopped one too, once no descendant outside the
\* process group holds its output (ToolRuntime.execute, editorHandoff).
ExecutionEnds ==
  <>[](~held) => (pc \notin Waiting \union {"idle"} ~> pc \in Waiting \union {"idle"})

=============================================================================

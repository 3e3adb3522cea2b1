# Mavona in TLA+

Mavona is a Rails coding harness: a terminal program that lets a language model
read and change a checkout under the user's approval, verifies the result with
commands the model does not choose, and records everything in a per-session
event log. This directory models the parts in which ordering, failure and
concurrency decide correctness, checks them with TLC on small instances, and
proves the most important facts with TLAPS for instances of any size.

Paths below are relative to `src/packages/` unless they start with `docs/`.

## 1. Inventory

| Component | State | Operations | Interacts with | Hard behaviour | What makes it correct |
|---|---|---|---|---|---|
| Worktree lease (`tools/worktree.ts`) | lock of `mutable.sqlite` (dies with its process), durable table `pending_effects` | acquire, beginEffect, completeEffect, reconcileEffect, close | agent loop, disposal, restoration, editor, live inspection, reconciliation | sessions of several processes share one checkout; a killed process leaves rows | work on the tree is always behind a row; a row can always be cleared, and only after its log accounts for it |
| Effect ledger (`domain/task.ts`) | `effects`, `reconciledEffects`, `mutationAllowed`, replayed from events | replay, correctness | every writer of events | log and lease database have no common transaction; a failure handler may withdraw a recorded result | no log claims an outcome that no process returned; unknown is never inferred to be a success |
| Reconciliation (`sessions/reconciliation.ts`) | none of its own | reconcileEffect | store, lease | killed between the acknowledgement and the deletion of the row | repeating it succeeds |
| Session store (`sessions/store.ts`, `files.ts`) | `events.jsonl`, `projection.sqlite`, lock of `writer.sqlite`, memory | open (lock, load, repair, rebuild), append, close, unlocked read | everything | torn writes, fsync errors, power loss, duplicates, readers without the lock | acknowledged events survive; the log stays readable; copies agree |
| Session lifecycle (`sessions/lifecycle.ts`) | session directories | create, resume, fork, read history | store | a fork copies the history of pending effects | both sessions stay reconcilable |
| Recovery and disposal (`tools/recovery.ts`, `disposal.ts`) | retained copies, staging paths, entries replayed from events | restore, prepare, dispose | lease, store, anchored files | three writes and up to two file moves, killed anywhere | bytes are never where the log does not know |
| File mutations (`tools/file-mutations.ts`, `anchored-files.ts`, `mutation-path.ts`, `openat.c`) | the file, its inode, the recovery directory | create, patch, delete | policy, runtime | an editor writes the same path | user bytes are kept; a replaced path is reported unknown |
| Execution policy (`tools/policy.ts`) | one-shot grants, a development grant, a revision | prepare, approveOnce, grant, revoke, allows, consume | loop, runtime, controller | the world changes between approval and consumption | what runs is what was approved, once |
| Command runtime (`tools/runtime.ts`) | a detached child, output counters, the first reason to stop | execute, stop | loop | timeout, abort, output limit and exit race | a stopped command is unknown, never passed |
| Agent loop (`agent/loop.ts`) | turns, calls, repairs, checks, captures | runTask, execute, finish | all of the above, provider | edits, cancellation, deadline at any await | verified means checked on the last captured tree; bounded; stops after unknown |
| Repository state (`tools/repository-state.ts`) | none | capture | loop, reconciliation | a partial capture; files that Git does not list | a partial capture is never fresh |
| Verification selection and adoption (`verification/*.ts`) | reviewed digests | select, review, accept | loop, controller | configuration changes between review and use; criteria and fingerprints come from different lists of files | changed criteria are not used silently |
| Inspection service (`app-inspection/service.ts`, `lifecycle.ts`) | report state, page, closing promise, authorization, events | start, perform, run, takeover, resume, import, complete, stop | live inspection, browser | user calls while a step is awaited; an abort while the browser launches | a takeover holds until a fresh observation; every browser is closed |
| Task and live inspections (`agent/inspection.ts`, `live-inspection.ts`) | an effect, the lease, the server | start, capture, takeover, stop | service, store, lease | failure after completion; stop races steps | one outcome per effect |
| Inspection evidence and artifacts (rest of `app-inspection/`) | files of a report | compare, export, rerun, render | service | bounded I/O | containment, honest comparison |
| Providers (`providers/`) | capability cache, credentials, selection | resolve, stream, collectTurn | loop, controller | streams that are cut, truncated or out of order; expiry and rotation of credentials | half a tool call is never executed; a stale capability is not used |
| Agent context (`agent/context.ts`) | the messages of a task | compactContext, readResultRange | loop, provider | compaction again and again while the task goes on | calls stay with their results; every result can be read again |
| Rails discovery (`rails/`) | content-addressed cache | discover, route, probe | loop | cache vs. tree | a cached fact is of the tree it names |
| Terminal interface (`tui/`) | running task, approval slot, live inspection, session | submit, cancel, resolveApproval | everything | commands while a task runs | one task; every approval is answered |
| Command line (`cli/`) | none | run, resume, list, reconcile, ... | everything | exit codes | exit code reflects the outcome |
| Retention and export (`sessions/retention.ts`, `export-*.ts`, `checkpoint.ts`, `metadata.ts`) | session directories | prune, publish | store | pruning next to a writer | a live session is never pruned |
| Evaluation, distribution, fixtures, scripts, probes | none that the program uses | build and benchmark | none | none | not modelled |

`PROJECT.json` lists the same parts with what is modelled of each, and every
hazard of the code with its line and the properties that cover it.

## 2. Modules

| Module | Models | Corresponds to the code as follows |
|---|---|---|
| `EffectPromise` | abstract: an effect is exposed before it touches the tree, and its exposure ends only after it is settled | the promise that worktree.ts and task.ts keep together |
| `EffectGuard` | sessions, their logs (the ledger), the lease, the pending rows, the processes and their children | `pc[s]` is the place of a process between two durable writes of `execute`, a recovery, `runTask`'s ending or `reconcileEffect`, or the question it waits for; one action per write; `recovering` are the sessions that restore or dispose, whose failure handler is `Withdraw`; `Crash` at any place; `touching` is the set of children that still run, with or without their harness |
| `EffectGuardProofs` | theorems | |
| `DurableLog` | abstract: a sequence whose promised prefix survives | what callers of `append` assume |
| `SessionLog` | one session directory, the writers that open it in turn, unlocked readers | `lines`, `torn`, `synced` are the file as the kernel and the disk know it, `torn` the number of pieces of lines at its end, which the next line written is glued to; `mem` and `projection` are the store's copies; the steps of the constructor and of `append` are actions |
| `MCSessionLog` | instances for TLC | |
| `SessionLogProofs` | theorems | |
| `SourceRecovery` | one retained deletion and the operations on it | `entry`, `alternate`, `waiting` are what `retainedDeletions` replays; `at` is where the bytes really are; the steps of `restoreSource` and `disposeSource` and their catches are actions |
| `MCSourceRecovery` | instances for TLC | |
| `SourceRecoveryProofs` | theorems | |
| `TaskLoop` | `runTask`: turns, tools, verification, repair, conclusion | `phase` is the await at which the task is suspended; `tree` is the real tree, `latest`, `verified`, `snapshot` are what the code captured of it; the phases `review`, `call` and `checkCall` wait for an answer of the user |
| `ProviderTurn` | one response of the model: transport, the adapters of three protocols, `collectTurn` | functions of a stream; `OpenAI`, `Anthropic` and `Compatible` are the switch statements of the adapters, `Collect` and `Concluded` the loop and the tail of `collectTurn`; a stage stops at the first error, as the generators do |
| `PromptContext` | the messages of a task, their compaction, the results that are read again | functions of the exchanges; `CompactContext` and `ReadResult` carry the source's names, `Prompt` is the head of a turn |
| `MCTaskLoop` | instances of the three for TLC | |
| `TaskLoopProofs` | theorems about the three | |
| `Controller` | the commands of a terminal session: entering, becoming active, asking, cancelling, ending, leaving | `active` and `slot` are the fields of `TuiController`, `busy` the signal of `Screen`; `stage[c]` is the await at which command c is suspended; `Kind` groups the commands of `submit` by when they take `active`; `Palette` says which come from outside the composer |
| `MCController` | instances for TLC | |
| `ControllerProofs` | theorems | |
| `Inspection` | one browser inspection: the service under a live host, driven by commands that overlap, or under the run of a saved flow | `host` and `op[a]` are the awaits at which the host and each command are suspended; `state`, `status`, `checks` are fields of the report; `page`, `server`, `lease`, `row` are the things that must be released; every `catch` and `finally` is an action; `closing` is the browser that closes, `overtaken` says that a stop met an import |
| `MCInspection` | instances for TLC | |
| `InspectionProofs` | theorems | |
| `Execution` | one action from its preparation over its approval and its second preparation to the system calls of the mutation, or to the process group of the command or the editor | `pc` is the await or the system call that is next; `entry` and `text` are the path and what each inode holds; `once` and `grant` are the policy's fields; the user's edits are actions of their own between any two steps |
| `ExecutionProofs` | theorems | |
| `Intake` | what a task is given before it owns the worktree: inventory, parsed routes, nominated files, checks and what they depend on | the variables are the values that `inspectRepository`, `parseRubyFiles`, `routeTask` and `selectVerifiers` return, read at different moments from a worktree the user edits |
| `Acceptance` | fingerprints taken file by file, the captured criteria, their comparison with the baseline, review and adoption, around a task | `at`, `listed`, `snap` and `whole` are the locals of `captureRepositoryState`, `Tracked` and `Ignored` what Git knows of the files; `chosen` has the digests of the criteria; `baseline` and `review` are the last such events of the log |
| `MCAcceptance` | a small Rails application for TLC | |
| `AcceptanceProofs` | theorems about `Intake` and `Acceptance` | |

Definitions introduced by "A faulty variant" are plausible bugs. No
specification uses them; each property is shown to fail when one of them takes
the place of the definition that follows it, so that no property holds for the
wrong reason.

How they compose. `EffectGuard` instantiates `EffectPromise`, `SessionLog`
instantiates `DurableLog`: these are refinements that TLC checks and TLAPS proves. `Acceptance` extends `Intake`: one task, from the
discovery to the verdict. The others divide a task among themselves at the
places where one hands over to the other:

- `SourceRecovery` takes an append as one step, which `DurableLog` justifies,
  and its row follows the same protocol as in `EffectGuard`;
- `TaskLoop` takes an execution as a start and an end with `mutationAllowed`;
  its durable writes are in `EffectGuard`, its system calls in `Execution`. It
  takes a turn as a number of tool calls: what is sent is `PromptContext`'s,
  what comes back `ProviderTurn`'s, and both are checked in its run. It has the
  comparison of the worktree with the last `repository.snapshot` and takes the
  review of the criteria as a choice, which `Acceptance` opens up;
- `Controller` sees a task, and `Inspection` a command of the terminal, only as
  the awaits of one command.

## 3. What the runs check

| Run | Instance | Question |
|---|---|---|
| `EffectGuard` | 2 sessions, 2 effects of tasks or recoveries, 1 kill; processes fair where they do not wait, for one row a user who keeps reconciling | Do effects never overlap, do starts find a settled tree, does no log claim what no process returned; is `EffectPromise` implemented? Is the worktree released, and every pending row cleared in the end, if questions are answered and commands end? |
| `SessionLog` | 2 writers, 1 reader, 4 events, 3 lines, 2 crashes, 1 duplicate | Is the log gapless, its lines whole and within the budget of its readers; do its copies agree, are unlocked reads consistent; is `DurableLog` implemented, so that what was acknowledged survives? |
| `SourceRecovery` | 3 operations, 3 kills | Are the bytes on record, tombstones true, moves guarded? |
| `SourceRecovery_interrupted` | the same | refuted: is an interrupted entry always reconcilable, or at least its copy at an inspected path? |
| `TaskLoop` | 2 tasks, 3 turns, 4 calls, batches of 2, 1 repair, 2 versions of the tree, 1 required and 1 advisory verifier, fair where the task does not wait; streams of up to 2 calls (3 without a fault) in 3 protocols; 5 exchanges against 4 budgets | Does a correct task mean fresh checks of the last tree; do budgets hold; does nothing run after an unknown effect; does a repair follow a fresh failure; does every task end whose waits end? Do only whole tool calls come out of a stream; does the model get messages that belong together? |
| `TaskLoop_cancelled` | 1 task, 4 calls, 3 versions | refuted: does a task that the user's cancellation stopped never exit as verified? |
| `Controller` | 5 commands, the task and the disposal composed, the others from the palette; fair | Is the shown request waited for? Until two commands overlap (`Orderly`): does Ctrl+C reach what works, is every waiting request shown, is nothing at work left behind? Does what was interrupted end? |
| `Controller_cancel` | a task and a shortcut | refuted: can a running task always be cancelled? |
| `Inspection` | a flow of 3 steps; a live inspection with 4 commands, 2 at a time; fair where the host does not wait | Does a browser run only behind its row and the lease; is passed earned; is an outcome final; does a takeover hold; does every inspection whose waits end, end with the browser closed? |
| `Execution` | 2 actions, 2 texts, 2 settings, 2 edits, 1 kill; fair | Is a file of the user kept, is reported success true, does nothing start without an authority that stands, is overwritten text what was approved, does an execution end? |
| `Acceptance` | 5 files, inventory of 4, context of 2, 2 edits by the user and 1 by the model, 1 task on no or an earlier baseline; 3 files tracked, 1 ignored by Git and 1 neither | Is the context the best ranked; does the baseline change only to what the user approved; was a verified task judged on the baseline, as far as Git lists its criteria? |
| `Acceptance_ignored` | the same, no edits by the user | refuted: is a criterion that the model changed always reviewed? |

### Bounds

The theorems of section 5 hold for every value of the constants, and so remove the
bounds on the safety properties of every run. What follows says
why the instances are large enough for TLC to meet the interesting cases.

- Two sessions are the owner of a row and the one that wants the worktree, or a
  session and its fork; two effects are the one that was lost and the one that
  follows.
- One kill interrupts an effect or its reconciliation; what is then retried may
  still fail as often as its steps throw. Two crashes in
  `SessionLog` let a crash hit the recovery from the first. Three kills and
  three operations in `SourceRecovery` let each operation be interrupted.
- `MaxLines` is the store's history limit: three lines make the limit happen
  next to a duplicate and a torn tail, and a log beyond the budget of its readers. Four events are one more than fit.
- Two tasks are needed because `snapshot` and `mutationAllowed` outlive a task.
  Three turns are the smallest number that allows a tool, a conclusion and a
  repair; the budget of four calls is exhausted in some behaviours and not in
  others; two versions are the tree before and after a change at any moment.
- A stream has one fault, since every stage reads record by record and the
  properties are about one call or a pair; `TaskLoopProofs` has any number of them.
  Five exchanges and the budgets from 6 to 15 make a task compact twice and more, and stop at its limit.
- `Controller` has one command of each kind, since commands of one kind differ
  in nothing; the task asks twice so that a request can follow an answer.
- `Inspection`: two live commands make an overlap, four let a takeover, a
  resume and a step follow each other next to another command.
- `Execution`: two actions, since an approval of the first may be used by the
  second; two edits replace a file and change it.
- `Acceptance`: two edits by the user are one before and one during
  verification. The inventory and the context are smaller than the tree, so that
  both are cut. The configuration is a file that Git lists while it is there, the
  settings of the tests one that it never lists, the test one that it lists also when
  it is gone.

### Deadlock

Every run has `CHECK_DEADLOCK FALSE`: the bounds above (identities, kills,
tasks, versions) run out and the system then legitimately stops. That a running
process always gets on is what the liveness properties say.

### Fairness

Three kinds of waits have no bound in the code: the answer of the user, which the
deadline of a task does not reach (`tui/controller.ts`:86-93, `agent/loop.ts`:51, 88);
the close event of a command or a server, whose pipes a descendant may hold after it
was killed (`tools/runtime.ts`:23, `app-inspection/lifecycle.ts`:14); and the browser,
some calls of which have no timeout (`app-inspection/page-evidence.ts`:7,
`service.ts`:134). `Waiting` names them in each module. No fairness is assumed of them:
that each ends, `EveryWaitEnds`, is a hypothesis of the liveness properties themselves,
and a behaviour that waits for ever is allowed by the specification.

- `ProcessFairness` (EffectGuard) and `FairSpec` (TaskLoop): a process that does not
  wait takes its next step, a read or a write of its own; a turn of the model ends by
  the deadline. Weak fairness is enough: no other process disables these steps,
  except by killing the process.
- `UserFairness(r)` (EffectGuard): from some time on the session of row r is
  open, and if its reconciliation is possible again and again, it is tried until it
  succeeds. This is strong fairness over the three steps of the attempt, since other
  sessions take the lease in between and an attempt may throw. It is a hypothesis
  of `GuardsAreCleared` and of nothing else.
- `FairSpec` (Controller): the awaited work of a command ends. Nobody need answer
  a request: that cancellation does not depend on it is what `CancelEnds` says.
- `FairSpec` (Inspection): the host goes on where it waits for nothing. Nothing is
  assumed of the browser, of commands or of the user.
- `FairSpec` (Execution): the harness takes its next step, and its two timers
  fire. Nothing is assumed of the child: `ExecutionEnds` is conditional on
  descendants outside its process group, which may hold its output for ever.
- The other specifications are safety only.

## 4. What the code does against its documents

The first five are each shown by a run that TLC ends with a counterexample, and are
quoted in `PROJECT.json`.

1. **An interrupted recovery that cannot be reconciled** (`InterruptedWorkIsRecoverable`).
   `disposeSource` and `restoreSource` announce their operation before they
   append `effect.requested`. Killed in between, the entry is unknown and waits
   for an effect that `reconcileEffect` rejects as not found.
2. **A lost staging path** (the same property). An entry holds one
   alternate path. After two disposals interrupted one after the other the
   location of the bytes may be one that is no longer inspected. The log still
   has it (`BytesAreOnRecord` holds), the program does not look there. The property
   asks for one way back or the other; the counterexample has neither.
3. **Cancelled, but verified with exit code 0** (`StoppedTaskIsNotVerified`).
   A cancellation that stops an advisory verifier, after the required ones
   passed, ends the loop over the verifiers through `mutationAllowed`; the
   conclusion does not look at the signal.
4. **A running task that Ctrl+C does not reach** (`RunningTaskIsCancellable`).
   A command from the palette or a shortcut that starts while a task is in its
   first awaits clears `active` when it ends, though the task has become the
   active one.
5. **A changed criterion without a review** (`CriteriaAreReviewed`). The inventory,
   and so the criteria, come from a walk of the directory; the fingerprint comes
   from Git, which leaves out what it is told to ignore; and a criterion without an
   entry in the fingerprint is passed over. A model that changes an ignored `.rspec`
   is judged with it.

Four more are behaviours of the models that a property of a passing run names as its
exception. They have no run of their own:

6. **An unknown effect without its row** (`withdrawn`, excepted by
   `StartsOnSettledWorktree`; "Unknown outcomes retain it",
   `docs/specs/ARCHITECTURE.md`:187). A restoration
   records its result, deletes its row and has two more events to append. If one
   of them fails, the failure handler records a second result, unknown, and the
   row does not return: only the log of this session knows that the worktree is
   unsettled.
7. **An import that the report does not have** (`overtaken`, excepted by
   `PassedIsEarned`; "final report association",
   `docs/RELEASE_ACCEPTANCE.md`:522). A stop is
   refused while a command is active, but another command that ends clears that.
   A stop then meets the import, which records its image after the report.
8. **A takeover that a capture ends** (`raced`, excepted by `TakeoverHolds`;
   "Takeover blocks all Mavona capture/action/assertion operations",
   `docs/RELEASE_ACCEPTANCE.md`:518). A capture that is under
   way when the takeover begins puts the inspection back to ready when it
   returns, and captures are accepted while the user is in control.
9. **A removed test without a review** (`CaptureFails`;
   `docs/RELEASE_ACCEPTANCE.md`:291). A tracked file that
   is gone has an entry in the fingerprint, and capturing the criteria throws on
   it: the task ends in an error, and there is no review to adopt. Nothing is
   accepted silently, but the documented way forward is not there.

In 4 and 7 the commands overlap. As long as none does, the run `Controller` and the
theorems show that this cannot happen, and the proved `OneComposedCommand` that an
overlap needs a command from the palette: the composer waits, `submit` for the
palette does not. After an overlap a request can also lose its place on the
screen to another: its promise is never resolved (`hazards`, controller.ts:92).

## 5. What is proved

`EffectGuardProofs` proves for any sets of sessions and effects and any number
of killed processes, from the assumptions that `NoSession` and `NoEffect` are not
sessions or effects and that `MaxCrashes` is a natural number:

- `IndInvariant`: `Spec => []IndInv`. The safety properties are not inductive:
  that a row is reconcilable says nothing of the process that is about to insert
  it. `IndInv` adds what each stage of a process knows (`Stage`): who holds the
  lease, which effect is in the log, which row is in the table; that there is at
  most one row; and that what began is accounted for, exposed or
  withdrawn (`RunInv`), which is what a kill or a failed recovery leaves behind. One lemma per action, one step per
  conjunct.
- From it: `TypeCorrect`, `GuardStaysReconcilable`, `TouchStaysGuarded`,
  `EffectsDoNotOverlap`, `NothingInferred` (invariants); `StartsAreOnSettledWorktree`,
  `RowsAreClearedByOwner` (action properties).
- `EffectGuardKeepsPromise`: every behaviour implements `EffectPromise`; each
  step is a step of the promise or a stutter. The lemma `OneRow`, that all rows
  are the same row, makes the mapping of a deleted row exact.

`ControllerProofs` proves for any set of commands, kinds and numbers of requests,
from `CommandAssumption` and `NoneAssumption`:

- `TypesHold`, `ShownIsAlwaysWaitedFor`, `OneComposedCommandHolds` and
  `OrderlyHolds`. The
  inductive `Inv` adds that the composer waits for each of its unfinished commands,
  that a command on its way to a request has one left, and that an unfinished
  command is alone as long as none has overlapped.
- The four parts of `Orderly` (`ActiveIsAtWorkHolds`, `AskerIsShownHolds`,
  `InterruptedAskNothingHolds`, `NothingAtWorkIsLeftHolds`) need `Reached`: what
  was interrupted is aborted, an aborted command has started and is not in the
  slot, and the active command is at work.

`ExecutionProofs` proves for any texts, settings and numbers of calls, edits and
kills, from `BoundsAssumption`, `TextAssumption` and `SettingAssumption`:

- `InvHolds`: `Spec => []Inv`. `UserFileIsKept` and `PassedIsTrue` are not
  inductive. `Numbering` adds that inodes are handed out once and suffice,
  `Faithful` that the policy holds what the user gave and has not used or
  revoked, `Stages` what a mutation knows of its file at each system call: which
  inode it holds and, unless the user saved into it, which bytes.
- `UserFilesAreKept`, `ReportsAreTrue` and `TypesHold` from it;
  `AuthorityStands` and `OverwrittenTextIsRead`, the action properties, from
  `Faithful` and `Stages`.

`SourceRecoveryProofs` proves for any number of operations and kills, from
`NoOperationAssumption`, `MaxKillsAssumption` and `PlaceAssumption` (a random
staging path is none of the other places of the bytes):

- `InvHolds`. The properties say where the bytes are between operations; `Inv`
  adds what is true while one runs: it has an identity and, if it disposes, a
  recorded path (`Identified`); its entry is unknown and every other operation is
  accounted for, with a row or not depending on the step (`Announced`); and where
  its system calls have put the bytes (`Placed`).
- `TypesHold`, `BytesStayOnRecord`, `TombstonesStayTrue` from it, and `MovesStayGuarded`, the action property, from `Announced`.

`TaskLoopProofs` proves for any verifiers, budgets, tasks and versions, from
`VerifierAssumption` and `OrderAssumption`:

- `InvHolds`. `PassedMeansCheckedOnLatest` is about the end of a task, when the
  verifiers are long past. `Inv` carries it there: versions only grow and a
  verifier starts on the one to verify or a later one (`Versions`); verifiers
  that are still in the queue are not fresh and distinct (`Pending`); a fresh
  check is of the version to verify, which is the last captured (`FreshIsCurrent`).
  `Accounted` counts executions against calls, `Undisturbed` says in which phases
  no effect is unknown.
- `CorrectIsChecked` and `BudgetHolds` from it; the action properties
  `UnknownStopsExecution` from `Undisturbed` and `RepairIsObjective` from
  `FreshIsCurrent`.
- `OrderAssumption`, that the verifiers of a task have distinct identities, was
  found by the proof: `check` has one result per identity. `agent/loop.ts`:54
  rejects a given list that repeats one; for selected checks see section 6.

`TaskLoopProofs` also proves of one response, for any identities, any tools, any
bound on its calls and all three protocols, from `ProviderAssumption` and `WordAssumption`
(the words with which the model marks what is missing and what is contradicted
are not said by a provider; the code has no such words):

- `WholeCallsFromAnyStream`, for every sequence of records and not only for those
  with one fault, which the run checks. `Understood` relates the first k records
  to the state of the adapter and of the collector that reads its events: the
  calls gathered are those that were opened, under the identity they were opened
  with, and up to two pieces of their arguments are in the order they came. Its
  induction step has a lemma for each adapter (`OpenAIReacts`, `AnthropicReacts`,
  `CompatibleReacts`): a record is handed on, absorbed, or ends the stream, with
  an error or with the response.
- `AllCallsHandedOver`, that a response without a fault arrives, by induction over
  its calls (`HeardAll`).
- `CallsStayWhole`, that `CallsAreWhole` is an invariant of the loop, from both: the
  streams with a fault are sequences of records (`StreamsOfRecords`).

And of the prompts of a task, for any budget, any sizes of its first message and any
number of turns, each of any number of calls with results of any size, from
`ContextAssumption`:

- `AnyTaskKeepsAll`, by induction over the turns (`TaskGoesOn`). What a prompt must
  keep is not inductive: `Coherent` adds that the instructions and the task are the
  first two messages and only those (`Shaped`), that the results in the prompt are the
  newest of the task in their order (`Numbered`), and that all others are in the one
  checkpoint (`Referenced`). A turn keeps it (`ExchangeStaysCoherent`), and so does a
  compaction that starts a group at an assistant message (`CompactStaysCoherent`):
  what is kept from there on keeps its order, so that answers stay next to their
  calls.
- The log is known exactly (`EventsAfter`): the n-th result of a task is the n-th
  completion after its start, so `readResultRange` finds this very result although an
  earlier task used the same identity (`ResultIsRead`).
- `Selected` is given by the places that are selected; that its first, second and
  further places are in order and consecutive where the places are is proved by
  induction over the places (`PlacesInOrder`, `Consecutive`).
- `CompactionKeepsAll`, the same of the turns that the model enumerates, and
  `PromptsStayCoherent`, that it holds whenever the loop begins a turn.

`SessionLogProofs` proves for any number of processes, readers, events, crashes
and duplicates, from `BoundsAssumption`, `NoProcAssumption` and
`MixedAssumption` (bytes of two versions of a file are not a log):

- Facts about `Events`, the recursive function that `load` is: what it makes of a
  longer log (`EventsOfAppend`, `EventsOfNext`), that it only grows
  (`EventsGrow`) and that what it returns are lines. The library's induction rule
  takes an operator as a parameter; `UpTo` states induction for
  a set instead (a set with 0 that is closed under successor has every number up
  to n), and is proved from the least element that a well-founded order gives.
- `InvHolds`. To the three properties `Inv` adds what a process knows of the file
  at each step of `append` (`Appending`), that identities and lines are bounded
  (`Numbered`), that acknowledged events are in the synchronized part (`Kept`)
  and what a reader has seen (`Reading`).
- `LogKeepsReadable` (no owner writes before it has cut a torn tail, so that no line
  is glued; and without duplicates from outside, the log stays within the budget of
  its readers, which a copy of its prefix does too: `FitsUncopied`), `CopiesAgree`, `ReadersSeeHistory` and `TypesHold` from it.
- `SessionIsDurable`: `Spec => ImplementsDurableLog`. Each step of the store leaves
  the log and the promise alone (`LogRests`), writes one event (`LogWrites`),
  acknowledges it (`LogPromises`) or loses a suffix that was not promised
  (`LogLoses`).

`InspectionProofs` proves for any flow, any commands and any number of them, from
`FlowAssumption` and `CommandAssumption`:

- `InvHolds`. `Inv` says what each await of the host means: which stages belong to
  which host (`Hosted`), in which there may be a browser and must be a row and a
  lease (`Covered`), where the outcome is still open (`Undecided`), that a report
  of a completed inspection has all its items, and nothing under way could add one
  unless the stop met an import (`Complete`), that the status of a run follows its checks up to the exit code
  (`Judged`), and what a takeover excludes (`Controlled`).
- `BrowserStaysCovered`, `PassedStaysEarned`, `TakeoverStays` and `TypesHold` from
  it; `OutcomeStaysFinal`, the action property, from `Undecided`: the handler that
  completes a second time finds no outcome or the one it records.

`AcceptanceProofs` proves for any files, kinds, inventory, configuration and any
number of edits and tasks, from `BoundsAssumption`, `OrderAssumption` (the files
are in the order of their paths, without repetition), `LimitsAssumption`,
`InitialAssumption`, `GitAssumption` (a tracked file is not ignored) and
`VersionAssumption`:

- `NominationsAreRanked`: the nominations are the files with evidence, each once, in the
  order of their rank and path. `Place` counts the files that come before one; that it
  numbers them without a gap is what makes the ranking a sort.
- `Invariance`. `BaselineIsReviewed` is about the moment of adoption, `VerifiedOnBaseline`
  about the end of a task; `Inv` carries what they need through the steps between:
  what is about to become the baseline was approved (`Approved`); which stages belong
  to which capture (`Staged`); with no edit since verification began every fingerprint
  is what Git lists of the worktree (`Taken`, `Undisturbed`), with one, it came after the checks or the capture
  that follows them sees it (`EditedOnce`); and where the criteria that are verified
  are: under review, being adopted, or on record (`Traced`).
- `ContextRanked`, `AcceptanceTypes` and `VerifiedOnBaselineHolds` from it, the last
  for the criteria that Git does not ignore (number 5 of section 4 is the rest);
  `BaselineReviewed`, the action property, from `Approved`.

Only model-checked:

- All liveness (`LeaseIsReleased`, `GuardsAreCleared`, `TaskEnds`, `CancelEnds`,
  `InspectionEnds`, `ExecutionEnds`): it needs fairness and `ENABLED`, out of the
  prover's reach.
- The refuted properties, of course.

The proofs also showed where definitions said less than the code: where the guards
of a `CASE` overlap, TLA+ leaves the choice open (TLC takes the first, like the
code's `if ... else if`). Such definitions are now chains of `IF`.

## 6. What is abstracted, what is left out

- Payloads, digests, redaction, messages and layout. A tree is a version
  number, an event an identity and a sequence number. A tree that changes and
  changes back is not seen by the code's digests; the model's versions do
  not come back.
- Time. Timeouts are outcomes that may happen at any moment.
- SQLite: a statement is atomic and durable; the exclusive lock dies with its
  process (as the code relies on).
- A kill ends the harness, not its children.
- Two configured checks with the same command, directory and scope get the same
  identity from `verification/selection.ts`. The loop runs both, records both
  results under the first and leaves the second unknown, so that the task cannot
  pass. `TaskLoop` has distinct ones (`OrderAssumption`).
- Approvals in `TaskLoop` are given, denied or cancelled; what they bind is in
  `Execution`.
- In `Execution` there is one path. Its parent directories and the root are not
  replaced, the user does not touch `.mavona/recovery`, a grant names tools
  instead of argument arrays and paths, and the policy's revision is left out,
  because a revocation drops the grant as well. A write may be torn by a full
  disk or a kill; the torn file is the user's to find (`PassedIsTrue` says that
  it is not called a success). Text saved between the last check and a write in
  place is lost; the properties say that nothing else is.
- In `Acceptance` the index of Git does not change: no file is added, removed or
  committed there during a task. A fingerprint fails only because a file changed under it, or
  with its process; a baseline of an earlier task is there in the initial
  state. Two edits that cancel out between two fingerprints are not seen by the
  code, and `VerifiedOnBaseline` leaves them out (`since < 2`).
- `Intake` has one Rails root, and which words of a task match which path is a
  constant. The planning mode of a task, which only words its instructions, is left
  out. The runtime probe is a tool call like the others.
- `Inspection` counts what is recorded instead of describing it. A step that is
  under way when a takeover begins makes the inspection ready again when it
  returns: `TakeoverHolds` is about the takeovers that met no step. A recording is
  finished once, so that one `close` of an inspection may reject; the rejection of the
  `stop` that an abort starts is not handled by the code and not modelled.
- `ProviderTurn` leaves out text, usage, sizes, the schema of arguments and a
  call without an identity; the arguments are a document in two pieces.
  `PromptContext` leaves out the brackets of the JSON text.
- In `Controller` a command is given once, and its work is the moments at which
  it touches the shared state. A task that is left in its first awaits is not
  covered by `NothingAtWorkIsLeft`: it fails later on the closed store. The
  worktree lease keeps two commands from working on the tree (`EffectGuard`) and
  is not repeated here: a command that does not get it ends.
- In `SourceRecovery` the user's edits of the recovery directory are the
  possibility that an operation throws; a restored file belongs to the user and
  is not followed further.

Not modelled, and why: the source tools and the command line (reads, parsing and
one call of the components above), inspection evidence and artifacts (bounded
file I/O and rendering), retention and export (moves of sessions without a
writer; the lock that keeps writers out is in `SessionLog`), the registry,
credentials and selection of providers, the evaluation harness, distribution and
fixtures. `PROJECT.json` has the list.

## 7. Plan

Done: `EffectPromise`, `EffectGuard`, `Controller`, `DurableLog`, `SessionLog`,
`SourceRecovery`, `TaskLoop`, `ProviderTurn`, `PromptContext`, `Inspection`,
`Execution`, `Intake` and `Acceptance`, all with proofs: every safety property of a
run that passes is a theorem.

Next, of the model: the limits of the history next to the obligation to complete
and to reconcile; retention next to a writer; the expiry of capabilities next to
their use; the pending row of the editor; executions of `TaskLoop` as effects of
`EffectGuard`.

## Running

    tlc -workers 2 -config EffectGuard.cfg EffectGuard
    tlc -workers 2 -config TaskLoop.cfg MCTaskLoop
    for m in *Proofs.tla; do tlapm $m; done

The configurations are named after their runs; `PROJECT.json` names the module
of each.

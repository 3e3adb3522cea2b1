----------------------------- MODULE Acceptance -----------------------------
(***************************************************************************)
(* Whether a verified task was judged by the checks that the user accepted:*)
(* the fingerprint of the worktree (src/packages/tools/repository-state.ts)*)
(* and the acceptance criteria, which are captured, compared with the      *)
(* baseline on record, reviewed by the user and adopted                    *)
(* (src/packages/verification/adoption.ts), around the task of             *)
(* src/packages/agent/loop.ts that Intake prepares.                        *)
(*                                                                         *)
(* A fingerprint is taken file by file while the user edits.  TaskLoop has *)
(* the budgets, the effects and the repair of a task; the digest of a      *)
(* fingerprint is the fingerprint itself.                                  *)
(***************************************************************************)
EXTENDS Intake

CONSTANTS
  Tracked,        \* files in the index of Git
  Ignored,        \* files outside it that Git is told to ignore
  InitialContent, \* the worktree at first
  MaxEdits,       \* bound on edits by the user
  MaxWork,        \* bound on edits by the model
  MaxTasks        \* bound on tasks

ASSUME BoundsAssumption == {MaxEdits, MaxWork, MaxTasks} \subseteq Nat

\* What Git tracks and ignores does not change.
ASSUME GitAssumption ==
  Tracked \subseteq File /\ Ignored \subseteq File /\ Tracked \intersect Ignored = {}

ASSUME VersionAssumption == "unlisted" \notin Version

ASSUME InitialAssumption == InitialContent \in [File -> Content]

VARIABLES
  purpose,   \* what the fingerprint is taken for
  at,        \* index of the next path to read
  listed,    \* paths that Git listed when the fingerprint began
  snap,      \* the fingerprint: RepositoryState.files
  whole,     \* RepositoryState.status: no file changed while it was read
  current,   \* the captured acceptance criteria
  given,     \* the caller gave the checks
  adopting,  \* the review being adopted
  verifying, \* the fingerprint at the start of verification
  ranOn,     \* history: the worktree when the checks ran
  passed,    \* their result
  since,     \* history: edits since the fingerprint that verification begins with
  baseline,  \* the last acceptance.baseline event
  review,    \* the last acceptance.review.requested event
  status,    \* how the last task ended
  reviews,   \* history: reviews on record
  accepted,  \* history: criteria that the user approved
  edits, work, tasks

\* What runTask, or an adoption, has in memory
localVars == <<intakeVars, purpose, at, listed, snap, whole, current, given,
               adopting, verifying, ranOn, passed>>
logVars == <<baseline, review, reviews, accepted>>
countVars == <<edits, work, tasks>>
vars == <<content, stage, localVars, since, logVars, status, countVars>>

\* Criteria: a file that is not among them is "absent".  A fingerprint has an entry
\* "absent" for a listed file that is gone, and none for an "unlisted" one.
Criteria == [File -> Content]
Fingerprint == [File -> Content \union {"unlisted"}]
Review == [before : Criteria, after : Criteria, state : Fingerprint]
NoReview == [before |-> Nothing, after |-> Nothing, state |-> Nothing]
NoBaseline == [f \in File |-> "none"]

TypeOK ==
  /\ IntakeTypeOK
  /\ stage \in {"idle", "inspect", "inspected", "parsed", "refused", "routed",
                "list", "read", "capture", "select", "asking", "adopt",
                "adopted", "appended", "working", "run"}
  /\ purpose \in {"start", "verify", "after", "adopt start", "adopt verify",
                  "adopt idle"}
  /\ at \in 1 .. Len(Order) + 1
  /\ listed \subseteq File /\ snap \in Fingerprint /\ current \in Criteria
  /\ {whole, given, passed} \subseteq BOOLEAN
  /\ baseline \in Criteria \union {NoBaseline}
  /\ review \in Review /\ adopting \in Review
  /\ verifying \in Fingerprint /\ ranOn \in Criteria
  /\ status \in {"none", "ended", "acceptance_changed", "verified", "unverified"}

\* A session with no task so far, or with one that left its baseline
FirstBaseline ==
  [f \in File |-> IF Kind[f] \in {"test", "helper", "config"} /\ f \notin Ignored
                  THEN InitialContent[f] ELSE "absent"]

Init ==
  /\ content = InitialContent
  /\ stage = "idle" /\ status = "none" /\ IntakeInit /\ since = 0
  /\ purpose = "start" /\ at = 1 /\ listed = {} /\ snap = Nothing /\ whole = TRUE
  /\ current = Nothing /\ given = FALSE /\ adopting = NoReview
  /\ verifying = Nothing /\ ranOn = Nothing /\ passed = FALSE
  /\ baseline \in {NoBaseline, FirstBaseline} /\ review = NoReview
  /\ reviews = {} /\ accepted = {}
  /\ edits = 0 /\ work = 0 /\ tasks = 0

-----------------------------------------------------------------------------
(* The user and the model *)

\* The user, or a program the user runs, changes, adds or removes a file.
Edit(f) ==
  /\ edits < MaxEdits
  /\ edits' = edits + 1
  /\ since' = IF stage = "idle" THEN since ELSE since + 1
  /\ content' \in {[content EXCEPT ![f] = v] : v \in Content \ {content[f]}}
  /\ UNCHANGED <<stage, localVars, logVars, status, work, tasks>>

\* An approved effect of the task: a test file is as good a target as any.
Work(f) ==
  /\ stage = "working" /\ work < MaxWork
  /\ work' = work + 1
  /\ content' \in {[content EXCEPT ![f] = v] : v \in Content \ {content[f]}}
  /\ UNCHANGED <<stage, localVars, since, logVars, status, edits, tasks>>

StartTask(g) ==
  /\ stage = "idle" /\ tasks < MaxTasks
  /\ tasks' = tasks + 1
  /\ stage' = "inspect" /\ given' = g /\ status' = "none"
  /\ UNCHANGED <<content, intakeVars, purpose, at, listed, snap, whole, current,
                 adopting, verifying, ranOn, passed, since, logVars, edits, work>>

\* The steps of Intake
Prepare ==
  /\ Inspect \/ ParseRoutes \/ Route
  /\ UNCHANGED <<purpose, at, listed, snap, whole, current, given, adopting,
                 verifying, ranOn, passed, since, logVars, status, countVars>>

Forget ==
  /\ ForgetIntake
  /\ purpose' = "start" /\ at' = 1 /\ listed' = {} /\ snap' = Nothing
  /\ whole' = TRUE /\ current' = Nothing /\ given' = FALSE
  /\ adopting' = NoReview /\ verifying' = Nothing /\ ranOn' = Nothing
  /\ passed' = FALSE

\* runTask returns: what it had in memory is gone.
Return(outcome) ==
  /\ stage' = "idle" /\ status' = outcome
  /\ Forget /\ since' = 0
  /\ UNCHANGED <<content, countVars>>

Refused ==
  /\ stage = "refused"
  /\ Return("ended")
  /\ UNCHANGED logVars

-----------------------------------------------------------------------------
(* captureRepositoryState *)

BeginCapture(why) == purpose' = why /\ stage' = "list"

TakeLease ==
  /\ stage = "routed"
  /\ BeginCapture("start")
  /\ UNCHANGED <<content, intakeVars, at, listed, snap, whole, current, given,
                 adopting, verifying, ranOn, passed, since, logVars, status,
                 countVars>>

\* Git lists the files of its index, gone or not, and the others that it is not told
\* to ignore (ls-files --stage; ls-files --others --exclude-standard).
Listed(worktree) ==
  Tracked \union {f \in File \ Ignored : worktree[f] # "absent"}

List ==
  /\ stage = "list"
  /\ listed' = Listed(content) /\ snap' = Nothing /\ at' = 1
  /\ stage' = "read"
  /\ since' = IF purpose = "verify" THEN 0 ELSE since
  /\ UNCHANGED <<content, intakeVars, purpose, whole, current, given, adopting,
                 verifying, ranOn, passed, logVars, status, countVars>>

AfterCapture ==
  CASE purpose = "start" -> "select"
    [] purpose = "after" -> "run"
    [] OTHER -> "capture"

\* The listed files are read in turn.  One that changes while it is read, or that
\* exceeds the byte budget, makes the fingerprint incomplete; what is recorded of
\* it does not matter then.
ReadFile ==
  /\ stage = "read"
  /\ IF at <= Len(Order)
     THEN /\ snap' = [snap EXCEPT ![Order[at]] =
                        IF Order[at] \in listed THEN content[Order[at]] ELSE "unlisted"]
          /\ at' = at + 1
          /\ UNCHANGED <<stage, whole, listed>>
     ELSE /\ whole' \in BOOLEAN
          /\ stage' = AfterCapture
          /\ listed' = {} /\ at' = 1
          /\ UNCHANGED snap
  /\ UNCHANGED <<content, intakeVars, purpose, current, given, adopting,
                 verifying, ranOn, passed, since, logVars, status, countVars>>

ChooseChecks ==
  /\ stage = "select"
  /\ IF ~given /\ SelectionFails
     THEN Return("ended")
     ELSE /\ Select(given)
          /\ stage' = "capture"
          /\ UNCHANGED <<content, purpose, at, listed, snap, whole, current, given,
                         adopting, verifying, ranOn, passed, since, status,
                         countVars>>
  /\ UNCHANGED logVars

-----------------------------------------------------------------------------
(* captureAcceptance and reviewAcceptance *)

Prior == IF baseline = NoBaseline THEN Nothing ELSE baseline

\* The test files, what the checks depend on, and what was captured before; an
\* adoption looks at the files of its review instead of the checks.
AcceptancePaths ==
  Tests \union
    IF purpose \in {"start", "verify"}
    THEN criteria \union {f \in File : Prior[f] # "absent"}
    ELSE {f \in File : adopting.after[f] # "absent"}

\* A path without an entry in the fingerprint is passed over.
Entry(f) == IF snap[f] = "unlisted" THEN "absent" ELSE snap[f]

Captured == [f \in File |-> IF f \in AcceptancePaths THEN Entry(f) ELSE "absent"]

\* The others are read again: each must be there and be what the fingerprint says, so
\* that a tracked criterion that is gone ends the task without a review.
CaptureFails ==
  \/ ~whole
  \/ \E f \in AcceptancePaths :
       snap[f] # "unlisted" /\ (content[f] = "absent" \/ content[f] # snap[f])

\* A faulty variant: the criteria are reviewed only when a task begins.
NoReviewLater == baseline \in {NoBaseline, Captured} \/ purpose = "verify"

NeedsNoReview == baseline \in {NoBaseline, Captured}

NewReview == [before |-> Prior, after |-> Captured, state |-> snap]

ReviewAcceptance ==
  /\ stage = "capture" /\ purpose \in {"start", "verify"}
  /\ IF CaptureFails
     THEN Return("ended") /\ UNCHANGED <<baseline, review, reviews>>
     ELSE /\ current' = Captured
          /\ verifying' = IF purpose = "verify" THEN snap ELSE verifying
          /\ IF NeedsNoReview
             THEN /\ baseline' = IF baseline = NoBaseline THEN Captured ELSE baseline
                  /\ stage' = IF purpose = "start" THEN "working" ELSE "run"
                  /\ UNCHANGED <<review, reviews>>
             ELSE /\ review' = NewReview
                  /\ reviews' = reviews \union {NewReview}
                  /\ stage' = "asking"
                  /\ UNCHANGED baseline
          /\ UNCHANGED <<content, intakeVars, purpose, at, listed, snap, whole,
                         given, adopting, ranOn, passed, since, status, countVars>>
  /\ UNCHANGED accepted

\* The user adopts the review within the task ...
Adopt ==
  /\ stage = "asking"
  /\ accepted' = accepted \union {review.after}
  /\ adopting' = review
  /\ BeginCapture(IF purpose = "start" THEN "adopt start" ELSE "adopt verify")
  /\ UNCHANGED <<content, intakeVars, at, listed, snap, whole, current, given,
                 verifying, ranOn, passed, since, baseline, review, reviews,
                 status, countVars>>

\* ... or does not, and the task ends.
Decline ==
  /\ stage = "asking"
  /\ Return("acceptance_changed")
  /\ UNCHANGED logVars

\* /adopt with the identity of a review that the user has read
\* (adoptRecordedAcceptance): only the latest one.
AdoptRecorded(r) ==
  /\ stage = "idle" /\ r = review
  /\ accepted' = accepted \union {r.after}
  /\ adopting' = review
  /\ BeginCapture("adopt idle")
  /\ UNCHANGED <<content, intakeVars, at, listed, snap, whole, current, given,
                 verifying, ranOn, passed, since, baseline, review, reviews,
                 status, countVars>>

-----------------------------------------------------------------------------
(* adoptAcceptance *)

\* A faulty variant: what is there now is adopted.
IncompleteOnly == CaptureFails

ReviewIsStale ==
  CaptureFails \/ snap # adopting.state \/ Captured # adopting.after

CheckReview ==
  /\ stage = "capture" /\ purpose \in {"adopt start", "adopt verify", "adopt idle"}
  /\ IF ReviewIsStale
     THEN Return(IF purpose = "adopt idle" THEN status ELSE "ended")
     ELSE /\ stage' = "adopt" /\ current' = Captured
          /\ UNCHANGED <<content, intakeVars, purpose, at, listed, snap, whole,
                         given, adopting, verifying, ranOn, passed, since, status,
                         countVars>>
  /\ UNCHANGED logVars

\* acceptance.adopted
RecordAdoption ==
  /\ stage = "adopt"
  /\ stage' = "adopted"
  /\ UNCHANGED <<content, localVars, since, logVars, status, countVars>>

\* acceptance.baseline
RecordBaseline ==
  /\ stage = "adopted"
  /\ baseline' = current
  /\ stage' = "appended"
  /\ UNCHANGED <<content, localVars, since, review, reviews, accepted, status,
                 countVars>>

\* verification.invalidated, and the task goes on
Adopted ==
  /\ stage = "appended"
  /\ IF purpose = "adopt idle"
     THEN Return(status)
     ELSE /\ stage' = IF purpose = "adopt start" THEN "working" ELSE "run"
          /\ UNCHANGED <<content, localVars, since, status, countVars>>
  /\ UNCHANGED logVars

-----------------------------------------------------------------------------
(* The independent checks *)

BeginVerification ==
  /\ stage = "working"
  /\ BeginCapture("verify")
  /\ UNCHANGED <<content, intakeVars, at, listed, snap, whole, current, given,
                 adopting, verifying, ranOn, passed, since, logVars, status,
                 countVars>>

\* The checks run, if there are any, on what is there; then the worktree is
\* captured again.
RunChecks ==
  /\ stage = "run" /\ purpose # "after"
  /\ IF checks
     THEN /\ ranOn' = content /\ passed' \in BOOLEAN
          /\ BeginCapture("after")
          /\ UNCHANGED <<content, intakeVars, at, listed, snap, whole, current,
                         given, adopting, verifying, since, status, countVars>>
     ELSE Return("unverified")
  /\ UNCHANGED logVars

Fresh == whole /\ snap = verifying

Conclude ==
  /\ stage = "run" /\ purpose = "after"
  /\ Return(IF Fresh /\ passed THEN "verified" ELSE "unverified")
  /\ UNCHANGED logVars

\* The process is killed or the operation cancelled; the log remains.
Kill ==
  /\ stage # "idle"
  /\ Return("ended")
  /\ UNCHANGED logVars

Next ==
  \/ \E f \in File : Edit(f) \/ Work(f)
  \/ \E g \in BOOLEAN : StartTask(g)
  \/ \E r \in reviews : AdoptRecorded(r)
  \/ Prepare \/ Refused \/ TakeLease \/ List \/ ReadFile \/ ChooseChecks
  \/ ReviewAcceptance \/ Adopt \/ Decline \/ CheckReview \/ RecordAdoption
  \/ RecordBaseline \/ Adopted \/ BeginVerification \/ RunChecks \/ Conclude
  \/ Kill

Spec == Init /\ [][Next]_vars

-----------------------------------------------------------------------------
(* Properties *)

\* After the first capture, the baseline changes only to criteria that the user
\* approved, byte for byte: not to what an edit, a later review or a killed adoption
\* left there (adoptAcceptance, adoptRecordedAcceptance).
BaselineIsReviewed ==
  [][baseline = NoBaseline \/ baseline' \in accepted]_baseline

\* What the checks ran on is what the baseline says of it.
RanOnBaseline(files) == \A f \in files : ranOn[f] = baseline[f]

\* A task is verified only by checks that ran on the baseline: no edit of a test, of
\* a helper or of the configuration the checks depend on, made by the model before
\* verification or by the user at one moment of it, is behind a verified result.
\* (Two edits may cancel out between two fingerprints, and files that Git ignores are
\* in no fingerprint.)  (runTask, reviewAcceptance)
VerifiedOnBaseline ==
  [][status' = "verified" /\ since < 2 =>
       RanOnBaseline((Tests \union criteria) \ Ignored)]_status

\* The documents' claim: a criterion that changed since the checks were chosen was
\* reviewed, ignored by Git or not, so that it is on the baseline of a verified task.
\* (captureAcceptance)
CriteriaAreReviewed ==
  [][status' = "verified" /\ since = 0 =>
       RanOnBaseline({f \in criteria : ranOn[f] # chosen[f]})]_status

=============================================================================

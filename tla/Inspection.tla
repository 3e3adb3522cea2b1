----------------------------- MODULE Inspection -----------------------------
(***************************************************************************)
(* One browser inspection: the service that owns the browser               *)
(* (app-inspection/service.ts) under one of its two hosts.  "live" is      *)
(* LiveInspection (agent/live-inspection.ts), which the terminal drives    *)
(* with commands that may overlap; "run" is runInspection                  *)
(* (agent/inspection.ts), which performs the steps of a saved flow and may *)
(* be aborted at any await.                                                *)
(*                                                                         *)
(* An action is what happens between two awaits.  The content of pages,    *)
(* images and events is abstracted to the number of recorded items.        *)
(***************************************************************************)
EXTENDS Naturals, Sequences

CONSTANTS
  Command,      \* live commands that may be under way at the same time
  Flow,         \* the kinds of the steps of the saved flow
  MaxCommands   \* bound: live commands that are begun

StepKind == {"observe", "capture", "act", "assert"}
Runner == "runner"      \* runInspection as the one that performs steps

ASSUME FlowAssumption == Flow \in Seq(StepKind)
ASSUME CommandAssumption == Runner \notin Command /\ MaxCommands \in Nat

VARIABLES
  mode,       \* "live" or "run"
  host,       \* where the host is
  started,    \* live: LiveInspection.start has returned
  finalized,  \* effectFinalized, finalized
  state, status, cancelled, checks,   \* report.state, report.status, ...
  items,      \* number of evidence items and events in the session log
  page,       \* "none", or "open" while the browser runs
  closing,    \* the promise of close() is pending
  server, lease, row,     \* server handle, worktree lease, pending effect
  outcome,    \* the state of effect.completed
  report,     \* the snapshot that is written and recorded
  exit,       \* the exit code of a run
  op,         \* what each command, or the runner, is awaiting
  step,       \* index of the step of the flow
  begun,      \* live commands begun so far
  aborted, expired, broken,   \* the signal, an expiry, a log that refuses writes
  inControl, raced, \* history: takeover not ended by a resume; a takeover met a step
  overtaken         \* history: a stop met an import under way

service == <<state, status, cancelled, checks>>
browser == <<page, closing>>
effect == <<server, lease, row, outcome, finalized>>
flags == <<aborted, expired, broken>>
history == <<inControl, raced, overtaken>>
fixed == <<mode, started>>
vars == <<fixed, host, service, items, browser, effect, report, exit, op, step,
          begun, flags, history>>

Actor == Command \union {Runner}
Status == {"passed", "failed", "unknown"}
State == {"idle", "starting", "ready", "running", "manual takeover",
          "completed", "failed", "cancelled", "awaiting approval"}
Host == {"idle", "attaching", "launching", "opening", "refused", "ready",
         "stepping", "ending", "reporting", "throwing", "cleaning", "failing",
         "done", "leaking"}
Operation == {"idle", "takeover", "resume", "import", "acting"} \union StepKind
NoReport == [state |-> "idle", status |-> "unknown", items |-> 0]

Init ==
  /\ mode \in {"live", "run"}
  /\ host = "idle" /\ started = FALSE /\ finalized = FALSE
  /\ state = "idle" /\ status = "unknown" /\ cancelled = FALSE /\ checks = {}
  /\ items = 0 /\ page = "none" /\ closing = FALSE
  /\ server = "none" /\ lease = FALSE /\ row = FALSE /\ outcome = "none"
  /\ report = NoReport /\ exit = "none"
  /\ op = [a \in Actor |-> "idle"] /\ step = 1 /\ begun = 0
  /\ aborted = FALSE /\ expired = FALSE /\ broken = FALSE
  /\ inControl = FALSE /\ raced = FALSE /\ overtaken = FALSE

-----------------------------------------------------------------------------
(* The service *)

Authorized == ~cancelled /\ ~expired

\* The event and evidence sinks append to the session log, or throw.
Recorded(n) == ~broken /\ items' = items + n

\* close(): one promise for all callers; nothing to await without a browser.
CloseBegins == closing' = (page = "open")

BrowserCloses ==
  /\ closing
  /\ page' = "none" /\ closing' = FALSE
  /\ UNCHANGED <<fixed, host, service, items, effect, report, exit, op, step,
                 begun, flags, history>>

\* stop(true), up to the await of close
ServiceCancelled ==
  cancelled' = TRUE /\ state' = "cancelled" /\ status' = "unknown"

Aggregate(c) ==
  IF "failed" \in c THEN "failed"
  ELSE IF c = {"passed"} THEN "passed" ELSE "unknown"

Idle(a) == op' = [op EXCEPT ![a] = "idle"]

\* A faulty variant: the browser is used during a takeover.
NeverPaused == FALSE

Paused == state = "manual takeover"

\* perform(), up to its first await
Perform(a, k) ==
  /\ Authorized /\ ~Paused
  /\ Recorded(1)
  /\ op' = [op EXCEPT ![a] = k]

\* act(), after the observation it starts from: it asks again whether it may.
Act(a) ==
  /\ op[a] = "act"
  /\ Authorized /\ ~Paused /\ page = "open"
  /\ state' = "running"
  /\ op' = [op EXCEPT ![a] = "acting"]
  /\ UNCHANGED <<fixed, host, status, cancelled, checks, items, browser, effect,
                 report, exit, step, begun, flags, history>>

\* The awaited answer of the page arrives: evidence and result are recorded and
\* the state becomes ready, whatever it has become meanwhile.  An assertion
\* turns the loss of its page into an unknown check.
Performed(a) ==
  /\ \/ /\ op[a] \in {"observe", "capture", "acting"}
        /\ page = "open"
        /\ op[a] = "acting" => ~cancelled
        /\ checks' = checks
     \/ /\ op[a] = "assert"
        /\ \E s \in Status :
             /\ page = "none" => s = "unknown"
             /\ checks' = checks \union {s}
  /\ Recorded(2)
  /\ state' = "ready"
  /\ Idle(a)
  /\ step' = IF a = Runner THEN step + 1 ELSE step
  /\ UNCHANGED <<fixed, host, status, cancelled, browser, effect, report, exit,
                 begun, flags, history>>

-----------------------------------------------------------------------------
(* Starting, common to both hosts *)

\* The lease is held, effect.requested is in the log and the row is pending.
Start ==
  /\ host = "idle" /\ ~broken /\ ~aborted
  /\ host' = "attaching"
  /\ lease' = TRUE /\ row' = TRUE
  /\ UNCHANGED <<fixed, service, items, browser, server, outcome, finalized,
                 report, exit, op, step, begun, flags, history>>

\* A faulty variant: the handler of a run does not ask what was recorded.
NeverSettled == broken

\* No outcome is recorded: it has been, or the log refuses it.
Settled == broken \/ finalized

\* The failure handlers: the effect is completed unless that was done, and the
\* row goes unless the outcome is unknown or the table fails.  The handler of
\* LiveInspection.start itself throws when the log refuses the outcome, and
\* then releases nothing.
Catch(o) ==
  /\ IF Settled
     THEN UNCHANGED <<outcome, row, finalized>>
     ELSE /\ outcome' = o /\ finalized' = TRUE
          /\ row' \in {TRUE, o = "unknown"}
  /\ host' = IF mode = "live" /\ broken THEN "leaking" ELSE "cleaning"

\* attachServer or an owned server, then service.start resets the service.
Attach ==
  /\ host = "attaching"
  /\ server' \in {"attached", "owned"}
  /\ IF aborted
     THEN /\ ServiceCancelled
          /\ Catch("unknown")
     ELSE /\ state' = "starting" /\ status' = "unknown" /\ cancelled' = FALSE
          /\ host' = "launching"
          /\ UNCHANGED <<row, outcome, finalized>>
  /\ UNCHANGED <<fixed, checks, items, browser, lease, report, exit, op, step,
                 begun, flags, history>>

\* ServerUnavailableError, or a server that does not start
AttachFails ==
  /\ host = "attaching"
  /\ \E o \in {"failed", "unknown"} : Catch(o)
  /\ IF mode = "live" /\ ~broken THEN ServiceCancelled
     ELSE UNCHANGED <<state, status, cancelled>>
  /\ UNCHANGED <<fixed, checks, items, browser, server, lease, report, exit, op,
                 step, begun, flags, history>>

\* The browser is there; a stop that came before found nothing to close.
Launch ==
  /\ host = "launching"
  /\ page' = "open"
  /\ host' = "opening"
  /\ UNCHANGED <<fixed, service, items, closing, effect, report, exit, op, step,
                 begun, flags, history>>

Ready ==
  /\ host = "opening" /\ page = "open"
  /\ state' = "ready"
  /\ host' = IF mode = "live" THEN "ready" ELSE "stepping"
  /\ started' = (mode = "live")
  /\ UNCHANGED <<mode, status, cancelled, checks, items, browser, effect, report,
                 exit, op, step, begun, flags, history>>

\* The start throws at any await: an expiry, no browser, a closed page.
Refuse ==
  /\ host \in {"launching", "opening"}
  /\ state' = "awaiting approval"
  /\ CloseBegins
  /\ host' = "refused"
  /\ UNCHANGED <<fixed, status, cancelled, checks, items, page, effect, report,
                 exit, op, step, begun, flags, history>>

Asserts == {i \in 1..Len(Flow) : Flow[i] = "assert"}

\* live: stop(true).  run: every assertion is recorded as not run.
Refused ==
  /\ host = "refused" /\ ~closing
  /\ IF mode = "live"
     THEN /\ ServiceCancelled /\ CloseBegins
          /\ host' = "ending"
          /\ UNCHANGED <<checks, items, report, effect>>
     ELSE /\ UNCHANGED <<state, status, cancelled, closing, server, lease>>
          /\ IF broken /\ Asserts # {}
             THEN Catch("unknown") /\ UNCHANGED <<checks, items, report>>
             ELSE /\ checks' = {"unknown" : i \in Asserts}
                  /\ items' = items + (IF Asserts = {} THEN 0 ELSE 1)
                  /\ report' = [state |-> state, status |-> status, items |-> items']
                  /\ host' = "reporting"
                  /\ UNCHANGED <<row, outcome, finalized>>
  /\ UNCHANGED <<fixed, page, exit, op, step, begun, flags, history>>

-----------------------------------------------------------------------------
(* The steps of a saved flow *)

RunStep ==
  /\ host = "stepping" /\ op[Runner] = "idle" /\ step <= Len(Flow)
  /\ Perform(Runner, Flow[step])
  /\ UNCHANGED <<fixed, host, service, browser, effect, report, exit, step,
                 begun, flags, history>>

\* A faulty variant: the finally block does not close the browser.
FinallyOpen(s, c, n) ==
  LET missing == \E i \in Asserts : i >= n IN
  /\ checks' = IF missing THEN c \union {"unknown"} ELSE c
  /\ items' = IF missing THEN items + 1 ELSE items
  /\ status' = IF "failed" \in c THEN "failed" ELSE s
  /\ host' = "ending"
  /\ UNCHANGED <<closing, row, outcome, finalized>>

\* run()'s finally: the assertions from step n on are recorded as not run, and
\* a log that refuses them skips the close.
Finally(s, c, n) ==
  LET missing == \E i \in Asserts : i >= n IN
  IF broken /\ missing
  THEN /\ status' = s /\ checks' = c
       /\ Catch("unknown")
       /\ UNCHANGED <<items, closing>>
  ELSE /\ checks' = IF missing THEN c \union {"unknown"} ELSE c
       /\ items' = IF missing THEN items + 1 ELSE items
       /\ status' = IF "failed" \in c THEN "failed" ELSE s
       /\ CloseBegins
       /\ host' = "ending"
       /\ UNCHANGED <<row, outcome, finalized>>

\* A step is refused at once, or throws.  An assertion throws only when the log
\* refuses its check, which the report has then.
RunThrows ==
  /\ host = "stepping" /\ step <= Len(Flow)
  /\ state' = IF cancelled THEN "cancelled" ELSE "failed"
  /\ \/ /\ op[Runner] = "idle" /\ (~Authorized \/ broken)
        /\ Finally("unknown", checks, step)
     \/ /\ op[Runner] \notin {"idle", "assert"}
        /\ Finally("unknown", checks, step)
     \/ /\ op[Runner] = "assert" /\ broken
        /\ \E s \in Status : Finally("unknown", checks \union {s}, step + 1)
  /\ Idle(Runner)
  /\ UNCHANGED <<fixed, cancelled, page, server, lease, report, exit, step,
                 begun, flags, history>>

RunCompletes ==
  /\ host = "stepping" /\ op[Runner] = "idle" /\ step > Len(Flow)
  /\ state' = IF cancelled THEN "cancelled" ELSE "completed"
  /\ Finally(Aggregate(checks), checks, step)
  /\ UNCHANGED <<fixed, cancelled, page, server, lease, report, exit, op, step,
                 begun, flags, history>>

\* The signal of the run: service.stop(true) while the listener is there.
Abort ==
  /\ mode = "run" /\ ~aborted /\ host \notin {"done", "leaking"}
  /\ aborted' = TRUE
  /\ IF host \in {"launching", "opening", "refused", "stepping", "ending", "reporting", "throwing"}
     THEN ServiceCancelled /\ CloseBegins
     ELSE UNCHANGED <<state, status, cancelled, closing>>
  /\ UNCHANGED <<fixed, host, checks, items, page, effect, report, exit, op, step,
                 begun, expired, broken, history>>

-----------------------------------------------------------------------------
(* The commands of a live inspection *)

\* The terminal has a live inspection.
MayBegin(c) ==
  mode = "live" /\ host = "ready" /\ op[c] = "idle" /\ begun < MaxCommands

Capture(c) ==
  /\ MayBegin(c)
  /\ Perform(c, "capture")
  /\ begun' = begun + 1
  /\ UNCHANGED <<fixed, host, service, browser, effect, report, exit, step,
                 flags, history>>

\* The state changes before the window is brought to the front.
Takeover(c) ==
  /\ MayBegin(c)
  /\ Authorized /\ page = "open"
  /\ Recorded(1)
  /\ state' = "manual takeover"
  /\ op' = [op EXCEPT ![c] = "takeover"]
  /\ inControl' = TRUE
  /\ raced' = (raced \/ \E a \in Command : op[a] \in {"capture", "resume"})
  /\ begun' = begun + 1
  /\ UNCHANGED <<fixed, host, status, cancelled, checks, browser, effect, report,
                 exit, step, flags, overtaken>>

TakenOver(c) ==
  /\ op[c] = "takeover" /\ page = "open"
  /\ Recorded(1)
  /\ Idle(c)
  /\ UNCHANGED <<fixed, host, service, browser, effect, report, exit, step,
                 begun, flags, history>>

Resume(c) ==
  /\ MayBegin(c)
  /\ Authorized /\ state = "manual takeover"
  /\ Recorded(1)
  /\ op' = [op EXCEPT ![c] = "resume"]
  /\ begun' = begun + 1
  /\ UNCHANGED <<fixed, host, service, browser, effect, report, exit, step,
                 flags, history>>

\* A fresh observation has been recorded.
Resumed(c) ==
  /\ op[c] = "resume" /\ page = "open"
  /\ Recorded(2)
  /\ state' = "ready"
  /\ Idle(c)
  /\ inControl' = FALSE
  /\ UNCHANGED <<fixed, host, status, cancelled, checks, browser, effect, report,
                 exit, step, begun, flags, raced, overtaken>>

\* An image from the checkout needs no browser, only the authorization.
Import(c) ==
  /\ MayBegin(c)
  /\ Authorized
  /\ op' = [op EXCEPT ![c] = "import"]
  /\ begun' = begun + 1
  /\ UNCHANGED <<fixed, host, service, items, browser, effect, report, exit,
                 step, flags, history>>

Imported(c) ==
  /\ op[c] = "import"
  /\ Recorded(2)
  /\ Idle(c)
  /\ UNCHANGED <<fixed, host, service, browser, effect, report, exit, step,
                 begun, flags, history>>

\* A command rejects; the state is what it was.
Throws(c) ==
  /\ op[c] # "idle"
  /\ Idle(c)
  /\ UNCHANGED <<fixed, host, service, items, browser, effect, report, exit,
                 step, begun, flags, history>>

\* LiveInspection.stop from /app stop, or with cancel from Ctrl+C; a
\* takeover that was not resumed makes it a cancellation.  An import is the
\* active command, but any command begun before it and ended since has cleared
\* that, so a stop may meet it.
Stop(cancel) ==
  /\ mode = "live" /\ host = "ready"
  /\ IF cancel \/ state = "manual takeover"
     THEN ServiceCancelled
     ELSE state' = "completed" /\ status' = Aggregate(checks) /\ cancelled' = cancelled
  /\ CloseBegins
  /\ host' = "ending"
  /\ overtaken' = (overtaken \/ \E c \in Command : op[c] = "import")
  /\ UNCHANGED <<fixed, checks, items, page, effect, report, exit, op, step,
                 begun, flags, inControl, raced>>

-----------------------------------------------------------------------------
(* Ending, common to both hosts *)

\* A faulty variant: the report is taken while the browser still closes.
SnapshotEarly ==
  /\ host = "ending"
  /\ report' = [state |-> state, status |-> status, items |-> items]
  /\ host' = "reporting"
  /\ UNCHANGED <<fixed, service, items, browser, effect, exit, op, step, begun,
                 flags, history>>

\* The report is a copy of what the service has when the browser is closed.
Snapshot ==
  /\ host = "ending" /\ ~closing
  /\ report' = [state |-> state, status |-> status, items |-> items]
  /\ host' = "reporting"
  /\ UNCHANGED <<fixed, service, items, browser, effect, exit, op, step, begun,
                 flags, history>>

ExitCode ==
  IF aborted THEN "130"
  ELSE CASE report.status = "passed" -> "0"
         [] report.status = "failed" -> "3"
         [] OTHER -> "4"

\* A faulty variant: the state of the report is taken for the outcome.
ResultState == report.state

Result ==
  IF report.state = "completed" /\ ~aborted THEN "passed" ELSE "unknown"

\* The files are written; the log has flow, report, summary and outcome before
\* the row is completed.  The table may fail: then the row stays, and a run
\* goes to its handler.
Report ==
  /\ host = "reporting" /\ ~broken
  /\ outcome' = Result
  /\ \/ /\ row' = (Result = "unknown")
        /\ finalized' = TRUE
        /\ exit' = IF mode = "run" THEN ExitCode ELSE exit
        /\ host' = "cleaning"
     \/ /\ row' = TRUE
        /\ finalized' = (mode = "run")
        /\ exit' = exit
        /\ host' = IF mode = "run" THEN "throwing" ELSE "cleaning"
  /\ UNCHANGED <<fixed, service, items, browser, server, lease, report, op, step,
                 begun, flags, history>>

Throwing ==
  /\ host = "throwing"
  /\ Catch("unknown")
  /\ UNCHANGED <<fixed, service, items, browser, server, lease, report, exit, op,
                 step, begun, flags, history>>

\* A faulty variant: what follows the report is not in a finally block.
ReportFailsHard ==
  /\ host = "reporting"
  /\ host' = "done"
  /\ UNCHANGED <<fixed, service, items, browser, effect, report, exit, op, step,
                 begun, flags, history>>

\* A write of the report fails, or the log refuses it.
ReportFails ==
  /\ host = "reporting"
  /\ IF mode = "run" THEN Catch("unknown")
     ELSE host' = "cleaning" /\ UNCHANGED <<row, outcome, finalized>>
  /\ UNCHANGED <<fixed, service, items, browser, server, lease, report, exit, op,
                 step, begun, flags, history>>

\* service.stop(false) in the finally blocks
CloseAgain ==
  /\ host = "cleaning" /\ page = "open" /\ ~closing
  /\ closing' = TRUE
  /\ UNCHANGED <<fixed, host, service, items, page, effect, report, exit, op,
                 step, begun, flags, history>>

\* The server stops and the lease closes.  A start that failed while it stopped
\* the inspection goes on to its handler.
Clean ==
  /\ host = "cleaning" /\ page = "none"
  /\ server' = "none" /\ lease' = FALSE
  /\ host' = IF mode = "live" /\ ~started /\ ~finalized THEN "failing" ELSE "done"
  /\ UNCHANGED <<fixed, service, items, browser, row, outcome, finalized, report,
                 exit, op, step, begun, flags, history>>

\* The browser is closed, but the recording cannot be finished and close()
\* rejects.  Who awaits it fails: a run and a failed start go to their handlers,
\* a stop to its finally block, and a finally block ends there, with the server
\* and the lease as they are.
CloseThrows ==
  /\ closing
  /\ page' = "none" /\ closing' = FALSE
  /\ IF host = "refused" \/ (host = "ending" /\ mode = "run")
     THEN /\ Catch("unknown")
          /\ IF mode = "live" /\ ~broken THEN ServiceCancelled
             ELSE UNCHANGED <<state, status, cancelled>>
     ELSE /\ host' = CASE host = "ending" -> "cleaning"
                       [] host = "cleaning" -> "leaking"
                       [] OTHER -> host
          /\ UNCHANGED <<state, status, cancelled, row, outcome, finalized>>
  /\ UNCHANGED <<fixed, checks, items, server, lease, report, exit, op, step,
                 begun, flags, history>>

\* The handler of LiveInspection.start completes the effect, perhaps again; its
\* completeEffect meets a closed table.
FailStart ==
  /\ host = "failing"
  /\ outcome' = IF broken THEN outcome ELSE "unknown"
  /\ finalized' = TRUE
  /\ host' = "done"
  /\ UNCHANGED <<fixed, service, items, browser, server, lease, row, report,
                 exit, op, step, begun, flags, history>>

\* The grant, the saved login or the time budget ends.
Expire ==
  /\ host # "idle" /\ ~expired
  /\ expired' = TRUE
  /\ UNCHANGED <<fixed, host, service, items, browser, effect, report, exit, op,
                 step, begun, aborted, broken, history>>

\* A write to the session log fails; the store refuses all later ones.
LogBreaks ==
  /\ ~broken
  /\ broken' = TRUE
  /\ UNCHANGED <<fixed, host, service, items, browser, effect, report, exit, op,
                 step, begun, aborted, expired, history>>

HostStep ==
  \/ Attach \/ AttachFails \/ Launch \/ Ready \/ Refuse \/ Refused
  \/ RunStep \/ Act(Runner) \/ Performed(Runner) \/ RunThrows \/ RunCompletes
  \/ Snapshot \/ Report \/ ReportFails \/ Throwing \/ CloseAgain \/ Clean \/ FailStart

LiveStep ==
  \E c \in Command :
    \/ Capture(c) \/ (op[c] = "capture" /\ Performed(c))
    \/ Takeover(c) \/ TakenOver(c) \/ Resume(c) \/ Resumed(c)
    \/ Import(c) \/ Imported(c) \/ Throws(c)

Next ==
  \/ Start \/ HostStep \/ LiveStep \/ BrowserCloses \/ CloseThrows
  \/ \E cancel \in BOOLEAN : Stop(cancel)
  \/ Abort \/ Expire \/ LogBreaks

Spec == Init /\ [][Next]_vars

\* What the host awaits of others, without a bound of its own: the server and
\* the browser to start, a page to answer, the browser to close, an owned server
\* to close its streams.
Waiting ==
  \/ host \in {"attaching", "launching", "opening"}
  \/ host = "stepping" /\ op[Runner] # "idle"
  \/ closing
  \/ host = "cleaning" /\ page = "none" /\ server = "owned"

\* What is left runs by itself.
FairSpec == Spec /\ WF_vars(~Waiting /\ HostStep)

-----------------------------------------------------------------------------
(* Properties *)

TypeOK ==
  /\ mode \in {"live", "run"} /\ host \in Host
  /\ started \in BOOLEAN /\ finalized \in BOOLEAN /\ cancelled \in BOOLEAN
  /\ closing \in BOOLEAN /\ lease \in BOOLEAN /\ row \in BOOLEAN
  /\ aborted \in BOOLEAN /\ expired \in BOOLEAN /\ broken \in BOOLEAN
  /\ inControl \in BOOLEAN /\ raced \in BOOLEAN /\ overtaken \in BOOLEAN
  /\ state \in State /\ status \in Status /\ checks \subseteq Status
  /\ items \in Nat /\ page \in {"none", "open"}
  /\ server \in {"none", "attached", "owned"}
  /\ outcome \in {"none"} \union Status
  /\ report \in [state : State, status : Status, items : Nat]
  /\ exit \in {"none", "0", "3", "4", "130"}
  /\ op \in [Actor -> Operation] /\ step \in 1..Len(Flow) + 1
  /\ begun \in 0..MaxCommands

\* However a start, a stop, an abort and the answers of the browser interleave,
\* a browser runs only behind the pending row of its effect, and a browser or
\* an owned server only while the worktree is leased (service.ts close,
\* live-inspection.ts, inspection.ts finally).
BrowserIsCovered ==
  /\ page = "open" => row /\ lease
  /\ server = "owned" => lease

\* An effect is recorded as passed only with a report that has everything the
\* log has of the inspection, unless the stop met an import; and a run exits
\* with 0 only when every step was performed, every assertion passed and nobody
\* aborted it (live-inspection.ts:33, inspection.ts:28-29).
PassedIsEarned ==
  /\ outcome = "passed" /\ ~overtaken => report.items = items
  /\ exit = "0" =>
       outcome = "passed" /\ step > Len(Flow) /\ checks = {"passed"}

\* The failure handlers may complete an effect a second time, but never change
\* what the log says of it (live-inspection.ts:21, inspection.ts:30).
OutcomeIsFinal == [][outcome # "none" => outcome' = outcome]_vars

\* A takeover that met no step under way lasts until a resume with a fresh
\* observation or the stop, and an inspection that ends before the resume does
\* not pass (service.ts:139-145, live-inspection.ts:33).
TakeoverHolds ==
  inControl /\ ~raced =>
    /\ host = "ready" => state = "manual takeover"
    /\ outcome # "passed"

\* The server, the browser and the page answer each time, and what is closed
\* gets closed; nothing in the code bounds these waits.
EveryWaitEnds == []<>~Waiting

Released == host = "done" /\ page = "none" /\ server = "none" /\ ~lease
Leaked == host = "leaking" /\ page = "none"

\* If every wait ends, every run, and every live inspection that is stopped, ends
\* with the browser closed, the server stopped and the lease free, or where its
\* own clean-up failed (live-inspection.ts:21, 34, inspection.ts:31).
InspectionEnds ==
  EveryWaitEnds =>
    /\ (mode = "run" /\ host # "idle") ~> (Released \/ Leaked)
    /\ (mode = "live" /\ host \notin {"idle", "ready"}) ~>
         (host = "ready" \/ Released \/ Leaked)
=============================================================================

-------------------------- MODULE InspectionProofs --------------------------
(***************************************************************************)
(* What holds of a browser inspection for any number of live commands, any *)
(* saved flow and every interleaving of a start, a stop, an abort, an      *)
(* expiry and the answers of the browser: the browser never outlives its   *)
(* pending effect and its lease, the outcome is recorded once, and neither *)
(* a takeover nor a late answer ends in an inspection that passed.         *)
(***************************************************************************)
EXTENDS Inspection, TLAPS

-----------------------------------------------------------------------------
(* The invariant *)

\* Which host the stages belong to, and who awaits what in them
Hosted ==
  /\ host = "ready" => started
  /\ started => mode = "live"
  /\ host \in {"idle", "attaching", "launching", "opening", "refused"} => ~started
  /\ host \in {"stepping", "throwing"} => mode = "run"
  /\ host = "failing" => mode = "live" /\ ~started
  /\ op[Runner] \in {"idle", "acting"} \union StepKind
  /\ op[Runner] # "idle" => host = "stepping" /\ step <= Len(Flow)
  /\ \A c \in Command :
       /\ op[c] \in {"idle", "capture", "takeover", "resume", "import"}
       /\ op[c] # "idle" => started

\* The stages with a browser come before the row and the lease go, and nothing
\* is reported before the browser is closed.
Covered ==
  /\ host \in {"idle", "attaching", "launching", "reporting", "throwing",
               "failing", "done", "leaking"} => page = "none"
  /\ host \in {"refused", "ending"} /\ page = "open" => closing
  /\ host \notin {"idle", "failing", "done"} => lease
  /\ host \notin {"idle", "cleaning", "failing", "done", "leaking"} => row

\* No outcome is recorded before the report, and a start that failed reports a
\* cancelled inspection, which its handler may record again.
Undecided ==
  /\ host \notin {"throwing", "cleaning", "failing", "done", "leaking"} =>
       outcome = "none" /\ ~finalized
  /\ host = "throwing" => finalized
  /\ mode = "live" /\ ~started =>
       /\ host = "ending" => state = "cancelled"
       /\ host = "reporting" => report.state = "cancelled"
       /\ host = "cleaning" /\ ~finalized => outcome \in {"none", "unknown"}
  /\ host = "failing" => outcome \in {"none", "unknown"}

\* A report of a completed inspection has all its items, and there is nothing
\* under way that could add one, unless the stop met an import.
Complete ==
  /\ report.state = "completed" =>
       /\ host \in {"reporting", "throwing", "cleaning", "failing", "done", "leaking"}
       /\ page = "none"
       /\ ~overtaken => report.items = items /\ \A c \in Command : op[c] # "import"
  /\ host = "ending" /\ state = "completed" /\ ~overtaken =>
       \A c \in Command : op[c] # "import"
  /\ outcome = "passed" => report.state = "completed"

\* Every step of the flow was performed and every assertion passed.
AllPassed == step > Len(Flow) /\ checks = {"passed"}

\* The status of a run follows its checks at every stage up to the exit code.
Judged ==
  /\ mode = "run" =>
       /\ ~aborted => ~cancelled
       /\ host \in {"idle", "attaching", "launching", "opening", "refused", "stepping"} =>
            status = "unknown"
       /\ host = "ending" /\ status = "passed" =>
            AllPassed /\ (state = "completed" \/ aborted)
       /\ host = "reporting" /\ report.status = "passed" =>
            AllPassed /\ (report.state = "completed" \/ aborted)
  /\ exit = "0" =>
       /\ mode = "run" /\ host \in {"cleaning", "done", "leaking"}
       /\ outcome = "passed" /\ AllPassed

\* A takeover that met nothing under way
Controlled ==
  /\ inControl => started
  /\ inControl /\ ~raced =>
       /\ \A c \in Command : op[c] # "capture"
       /\ host = "ready" => state = "manual takeover"
       /\ host = "ending" => state # "completed"
       /\ report.state # "completed"

Inv ==
  /\ TypeOK /\ BrowserIsCovered
  /\ Hosted /\ Covered /\ Undecided /\ Complete /\ Judged /\ Controlled

-----------------------------------------------------------------------------
(* Every step keeps the invariant *)

LEMMA Sizes ==
  /\ Len(Flow) \in Nat /\ MaxCommands \in Nat /\ Runner \notin Command
  /\ \A i \in 1..Len(Flow) : Flow[i] \in StepKind
BY FlowAssumption, CommandAssumption

LEMMA Counts ==
  Inv => /\ items \in Nat /\ begun \in 0..MaxCommands /\ MaxCommands \in Nat
         /\ step \in 1..Len(Flow) + 1 /\ Len(Flow) \in Nat
BY Sizes DEF Inv, TypeOK

\* A command that begins counts.
LEMMA Begun ==
  ASSUME Inv, NEW c \in Command, Capture(c) \/ Takeover(c) \/ Resume(c) \/ Import(c)
  PROVE  items' \in Nat /\ begun' \in 0..MaxCommands
<1>1. begun < MaxCommands /\ begun' = begun + 1 /\ items' \in {items, items + 1}
  BY DEF Capture, Takeover, Resume, Import, Perform, Recorded, MayBegin
<1> QED
  BY <1>1, Counts

LEMMA StartKeeps ==
  ASSUME Inv, Start
  PROVE  Inv'
<1> USE DEF Start, service, browser, flags, history, fixed
<1>1. TypeOK'
  <2>1. lease' \in BOOLEAN /\ row' \in BOOLEAN
    BY DEF Inv, TypeOK
  <2>2. host' \in Host
    BY DEF Inv, TypeOK, Host
  <2>3. UNCHANGED <<mode, started, finalized, cancelled, closing, aborted, expired,
                   broken, inControl, raced, overtaken, state, status, checks, items,
                   page, server, outcome, report, exit, op, step, begun>>
    OBVIOUS
  <2> QED
    BY <2>1, <2>2, <2>3 DEF Inv, TypeOK
<1>2. Hosted'
  BY Sizes DEF Inv, TypeOK, Hosted, Actor, StepKind
<1>3. BrowserIsCovered' /\ Covered'
  BY DEF Inv, TypeOK, Hosted, BrowserIsCovered, Covered
<1>4. Undecided'
  BY DEF Inv, TypeOK, Hosted, Undecided
<1>5. Complete'
  BY Sizes DEF Inv, TypeOK, Hosted, Covered, Undecided, Complete, Actor
<1>6. Judged'
  BY DEF Inv, TypeOK, Hosted, Undecided, Judged, AllPassed
<1>7. Controlled'
  BY Sizes DEF Inv, TypeOK, Hosted, Undecided, Complete, Controlled, Actor
<1> QED
  BY <1>1, <1>2, <1>3, <1>4, <1>5, <1>6, <1>7 DEF Inv

LEMMA AttachKeeps ==
  ASSUME Inv, Attach
  PROVE  Inv'
<1> USE DEF Attach, ServiceCancelled, Catch, Settled, browser, flags, history, fixed
<1>1. TypeOK'
  <2>1. /\ finalized' \in BOOLEAN /\ cancelled' \in BOOLEAN
        /\ row' \in BOOLEAN
    BY DEF Inv, TypeOK
  <2>2. /\ host' \in Host /\ state' \in State /\ status' \in Status
        /\ server' \in {"none", "attached", "owned"}
        /\ outcome' \in {"none"} \union Status
    BY DEF Inv, TypeOK, Host, State, Status
  <2>3. UNCHANGED <<mode, started, closing, lease, aborted, expired, broken,
                   inControl, raced, overtaken, checks, items, page, report, exit, op,
                   step, begun>>
    OBVIOUS
  <2> QED
    BY <2>1, <2>2, <2>3 DEF Inv, TypeOK
<1>2. Hosted'
  BY Sizes DEF Inv, TypeOK, Hosted, Actor, StepKind
<1>3. BrowserIsCovered' /\ Covered'
  BY DEF Inv, TypeOK, Hosted, BrowserIsCovered, Covered
<1>4. Undecided'
  BY DEF Inv, TypeOK, Hosted, Undecided
<1>5. Complete'
  BY Sizes DEF Inv, TypeOK, Hosted, Covered, Undecided, Complete, Actor
<1>6. Judged'
  BY DEF Inv, TypeOK, Hosted, Undecided, Judged, AllPassed
<1>7. Controlled'
  BY Sizes DEF Inv, TypeOK, Hosted, Undecided, Complete, Controlled, Actor
<1> QED
  BY <1>1, <1>2, <1>3, <1>4, <1>5, <1>6, <1>7 DEF Inv

LEMMA AttachFailsKeeps ==
  ASSUME Inv, AttachFails
  PROVE  Inv'
<1> USE DEF AttachFails, ServiceCancelled, Catch, Settled, browser, flags, history, fixed
<1>1. TypeOK'
  <2>1. /\ finalized' \in BOOLEAN /\ cancelled' \in BOOLEAN
        /\ row' \in BOOLEAN
    BY DEF Inv, TypeOK
  <2>2. /\ host' \in Host /\ state' \in State /\ status' \in Status
        /\ outcome' \in {"none"} \union Status
    BY DEF Inv, TypeOK, Host, State, Status
  <2>3. UNCHANGED <<mode, started, closing, lease, aborted, expired, broken,
                   inControl, raced, overtaken, checks, items, page, server, report,
                   exit, op, step, begun>>
    OBVIOUS
  <2> QED
    BY <2>1, <2>2, <2>3 DEF Inv, TypeOK
<1>2. Hosted'
  BY Sizes DEF Inv, TypeOK, Hosted, Actor, StepKind
<1>3. BrowserIsCovered' /\ Covered'
  BY DEF Inv, TypeOK, Hosted, BrowserIsCovered, Covered
<1>4. Undecided'
  BY DEF Inv, TypeOK, Hosted, Undecided
<1>5. Complete'
  BY Sizes DEF Inv, TypeOK, Hosted, Covered, Undecided, Complete, Actor
<1>6. Judged'
  BY DEF Inv, TypeOK, Hosted, Undecided, Judged, AllPassed
<1>7. Controlled'
  BY Sizes DEF Inv, TypeOK, Hosted, Undecided, Complete, Controlled, Actor
<1> QED
  BY <1>1, <1>2, <1>3, <1>4, <1>5, <1>6, <1>7 DEF Inv

LEMMA LaunchKeeps ==
  ASSUME Inv, Launch
  PROVE  Inv'
<1> USE DEF Launch, service, effect, flags, history, fixed
<1>1. TypeOK'
  <2>1. host' \in Host /\ page' \in {"none", "open"}
    BY DEF Inv, TypeOK, Host
  <2>2. UNCHANGED <<mode, started, finalized, cancelled, closing, lease, row,
                   aborted, expired, broken, inControl, raced, overtaken, state,
                   status, checks, items, server, outcome, report, exit, op,
                   step, begun>>
    OBVIOUS
  <2> QED
    BY <2>1, <2>2 DEF Inv, TypeOK
<1>2. Hosted'
  BY Sizes DEF Inv, TypeOK, Hosted, Actor, StepKind
<1>3. BrowserIsCovered' /\ Covered'
  BY DEF Inv, TypeOK, Hosted, BrowserIsCovered, Covered
<1>4. Undecided'
  BY DEF Inv, TypeOK, Hosted, Undecided
<1>5. Complete'
  BY Sizes DEF Inv, TypeOK, Hosted, Covered, Undecided, Complete, Actor
<1>6. Judged'
  BY DEF Inv, TypeOK, Hosted, Undecided, Judged, AllPassed
<1>7. Controlled'
  BY Sizes DEF Inv, TypeOK, Hosted, Undecided, Complete, Controlled, Actor
<1> QED
  BY <1>1, <1>2, <1>3, <1>4, <1>5, <1>6, <1>7 DEF Inv

LEMMA ReadyKeeps ==
  ASSUME Inv, Ready
  PROVE  Inv'
<1> USE DEF Ready, browser, effect, flags, history
<1>1. TypeOK'
  <2>1. started' \in BOOLEAN
    BY DEF Inv, TypeOK
  <2>2. host' \in Host /\ state' \in State
    BY DEF Inv, TypeOK, Host, State
  <2>3. UNCHANGED <<mode, finalized, cancelled, closing, lease, row, aborted,
                   expired, broken, inControl, raced, overtaken, status, checks, items,
                   page, server, outcome, report, exit, op, step, begun>>
    OBVIOUS
  <2> HIDE DEF Ready
  <2> QED
    BY <2>1, <2>2, <2>3 DEF Inv, TypeOK
<1>2. Hosted'
  BY Sizes DEF Inv, TypeOK, Hosted, Actor, StepKind
<1>3. BrowserIsCovered' /\ Covered'
  BY DEF Inv, TypeOK, Hosted, BrowserIsCovered, Covered
<1>4. Undecided'
  BY DEF Inv, TypeOK, Hosted, Undecided
<1>5. Complete'
  BY Sizes DEF Inv, TypeOK, Hosted, Covered, Undecided, Complete, Actor
<1>6. Judged'
  BY DEF Inv, TypeOK, Hosted, Undecided, Judged, AllPassed
<1>7. Controlled'
  BY Sizes DEF Inv, TypeOK, Hosted, Undecided, Complete, Controlled, Actor
<1> QED
  BY <1>1, <1>2, <1>3, <1>4, <1>5, <1>6, <1>7 DEF Inv

LEMMA RefuseKeeps ==
  ASSUME Inv, Refuse
  PROVE  Inv'
<1> USE DEF Refuse, CloseBegins, effect, flags, history, fixed
<1>1. TypeOK'
  <2>1. closing' \in BOOLEAN
    BY DEF Inv, TypeOK
  <2>2. host' \in Host /\ state' \in State
    BY DEF Inv, TypeOK, Host, State
  <2>3. UNCHANGED <<mode, started, finalized, cancelled, lease, row, aborted,
                   expired, broken, inControl, raced, overtaken, status, checks, items,
                   page, server, outcome, report, exit, op, step, begun>>
    OBVIOUS
  <2> HIDE DEF Refuse
  <2> QED
    BY <2>1, <2>2, <2>3 DEF Inv, TypeOK
<1>2. Hosted'
  BY Sizes DEF Inv, TypeOK, Hosted, Actor, StepKind
<1>3. BrowserIsCovered' /\ Covered'
  BY DEF Inv, TypeOK, Hosted, BrowserIsCovered, Covered
<1>4. Undecided'
  BY DEF Inv, TypeOK, Hosted, Undecided
<1>5. Complete'
  BY Sizes DEF Inv, TypeOK, Hosted, Covered, Undecided, Complete, Actor
<1>6. Judged'
  BY DEF Inv, TypeOK, Hosted, Undecided, Judged, AllPassed
<1>7. Controlled'
  BY Sizes DEF Inv, TypeOK, Hosted, Undecided, Complete, Controlled, Actor
<1> QED
  BY <1>1, <1>2, <1>3, <1>4, <1>5, <1>6, <1>7 DEF Inv

LEMMA RefusedKeeps ==
  ASSUME Inv, Refused
  PROVE  Inv'
<1> USE DEF Refused, CloseBegins, ServiceCancelled, Catch, Settled, effect, flags,
   history, fixed
<1>1. TypeOK'
  <2>1. /\ finalized' \in BOOLEAN /\ cancelled' \in BOOLEAN
        /\ closing' \in BOOLEAN /\ lease' \in BOOLEAN /\ row' \in BOOLEAN
    BY DEF Inv, TypeOK
  <2>2. /\ host' \in Host /\ state' \in State /\ status' \in Status
        /\ server' \in {"none", "attached", "owned"}
    BY DEF Inv, TypeOK, Host, State, Status
  <2>3. items' \in Nat
    BY Counts
  <2>4. report' \in [state : State, status : Status, items : Nat]
    <3>1. \/ report' = report
          \/ report' = [state |-> state, status |-> status, items |-> items']
      OBVIOUS
    <3> HIDE DEF Refused
    <3> QED
      BY <2>3, <3>1 DEF Inv, TypeOK
  <2>5. outcome' \in {"none"} \union Status
    <3>1. outcome' \in {outcome, "unknown"}
      OBVIOUS
    <3> HIDE DEF Refused
    <3> QED
      BY <3>1 DEF Inv, TypeOK, Status
  <2>6. checks' \in SUBSET Status
    <3>1. checks' = checks \/ \A s \in checks' : s = "unknown"
      OBVIOUS
    <3> HIDE DEF Refused
    <3> QED
      BY <3>1 DEF Inv, TypeOK, Status
  <2>7. UNCHANGED <<mode, started, aborted, expired, broken, inControl, raced, overtaken, page,
                   exit, op, step, begun>>
    OBVIOUS
  <2> QED
    BY <2>1, <2>2, <2>3, <2>4, <2>5, <2>6, <2>7 DEF Inv, TypeOK
<1>2. Hosted'
  BY Sizes DEF Inv, TypeOK, Hosted, Actor, StepKind
<1>3. BrowserIsCovered' /\ Covered'
  BY DEF Inv, TypeOK, Hosted, BrowserIsCovered, Covered
<1>4. Undecided'
  BY DEF Inv, TypeOK, Hosted, Undecided
<1>5. Complete'
  <2>1. op' = op /\ page' = "none" /\ outcome' # "passed"
    BY DEF Inv, TypeOK, Covered, Undecided
  <2>2. ASSUME NEW c \in Command PROVE op'[c] = "idle"
    <3>1. ~started
      BY DEF Inv, Hosted
    <3> HIDE DEF Refused
    <3> QED
      BY <2>1, <3>1 DEF Inv, Hosted
  <2>3. report.state # "completed"
    BY DEF Inv, Complete
  <2>4. report' = report \/ (report'.items = items' /\ host' = "reporting")
    OBVIOUS
  <2> HIDE DEF Refused
  <2> QED
    BY <2>1, <2>2, <2>3, <2>4 DEF Complete
<1>6. Judged'
  BY DEF Inv, TypeOK, Hosted, Undecided, Judged, AllPassed
<1>7. Controlled'
  BY Sizes DEF Inv, TypeOK, Hosted, Undecided, Complete, Controlled, Actor
<1> QED
  BY <1>1, <1>2, <1>3, <1>4, <1>5, <1>6, <1>7 DEF Inv

LEMMA RunStepKeeps ==
  ASSUME Inv, RunStep
  PROVE  Inv'
<1> USE DEF RunStep, Perform, Recorded, service, browser, effect, flags, history, fixed
<1>1. TypeOK'
  <2>1. items' \in Nat
    BY Counts
  <2>2. op' \in [Actor -> Operation]
    BY Sizes DEF Inv, TypeOK, Actor, Operation, StepKind
  <2>3. UNCHANGED <<mode, host, started, finalized, cancelled, closing, lease, row,
                   aborted, expired, broken, inControl, raced, overtaken, state,
                   status, checks, page, server, outcome, report, exit,
                   step, begun>>
    OBVIOUS
  <2> QED
    BY <2>1, <2>2, <2>3 DEF Inv, TypeOK
<1>2. Hosted'
  BY Sizes DEF Inv, TypeOK, Hosted, Actor, StepKind
<1>3. BrowserIsCovered' /\ Covered'
  BY DEF Inv, TypeOK, Hosted, BrowserIsCovered, Covered
<1>4. Undecided'
  BY DEF Inv, TypeOK, Hosted, Undecided
<1>5. Complete'
  BY Sizes DEF Inv, TypeOK, Hosted, Covered, Undecided, Complete, Actor
<1>6. Judged'
  BY DEF Inv, TypeOK, Hosted, Undecided, Judged, AllPassed
<1>7. Controlled'
  BY Sizes DEF Inv, TypeOK, Hosted, Undecided, Complete, Controlled, Actor
<1> QED
  BY <1>1, <1>2, <1>3, <1>4, <1>5, <1>6, <1>7 DEF Inv

LEMMA ActKeeps ==
  ASSUME Inv, Act(Runner)
  PROVE  Inv'
<1> USE DEF Act, browser, effect, flags, history, fixed
<1>1. TypeOK'
  <2>1. state' \in State
    BY DEF Inv, TypeOK, State
  <2>2. op' \in [Actor -> Operation]
    BY Sizes DEF Inv, TypeOK, Actor, Operation, StepKind
  <2>3. UNCHANGED <<mode, host, started, finalized, cancelled, closing, lease, row,
                   aborted, expired, broken, inControl, raced, overtaken, status,
                   checks, items, page, server, outcome, report, exit, step,
                   begun>>
    OBVIOUS
  <2> QED
    BY <2>1, <2>2, <2>3 DEF Inv, TypeOK
<1>2. Hosted'
  BY Sizes DEF Inv, TypeOK, Hosted, Actor, StepKind
<1>3. BrowserIsCovered' /\ Covered'
  BY DEF Inv, TypeOK, Hosted, BrowserIsCovered, Covered
<1>4. Undecided'
  BY DEF Inv, TypeOK, Hosted, Undecided
<1>5. Complete'
  BY Sizes DEF Inv, TypeOK, Hosted, Covered, Undecided, Complete, Actor
<1>6. Judged'
  BY DEF Inv, TypeOK, Hosted, Undecided, Judged, AllPassed
<1>7. Controlled'
  BY Sizes DEF Inv, TypeOK, Hosted, Undecided, Complete, Controlled, Actor
<1> QED
  BY <1>1, <1>2, <1>3, <1>4, <1>5, <1>6, <1>7 DEF Inv

LEMMA RunnerPerformedKeeps ==
  ASSUME Inv, Performed(Runner)
  PROVE  Inv'
<1> USE DEF Performed, Recorded, Idle, browser, effect, flags, history, fixed
<1>1. TypeOK'
  <2>1. state' \in State /\ checks' \in SUBSET Status
    BY DEF Inv, TypeOK, State, Status
  <2>2. items' \in Nat
    BY Counts
  <2>3. step' \in 1..Len(Flow) + 1
    BY Counts DEF Inv, Hosted
  <2>4. op' \in [Actor -> Operation]
    BY Sizes DEF Inv, TypeOK, Actor, Operation, StepKind
  <2>5. UNCHANGED <<mode, host, started, finalized, cancelled, closing, lease, row,
                   aborted, expired, broken, inControl, raced, overtaken, status, page,
                   server, outcome, report, exit, begun>>
    OBVIOUS
  <2> QED
    BY <2>1, <2>2, <2>3, <2>4, <2>5 DEF Inv, TypeOK
<1>2. Hosted'
  BY Sizes DEF Inv, TypeOK, Hosted, Actor, StepKind
<1>3. BrowserIsCovered' /\ Covered'
  BY DEF Inv, TypeOK, Hosted, BrowserIsCovered, Covered
<1>4. Undecided'
  BY DEF Inv, TypeOK, Hosted, Undecided
<1>5. Complete'
  BY Sizes DEF Inv, TypeOK, Hosted, Covered, Undecided, Complete, Actor
<1>6. Judged'
  BY DEF Inv, TypeOK, Hosted, Undecided, Judged, AllPassed
<1>7. Controlled'
  BY Sizes DEF Inv, TypeOK, Hosted, Undecided, Complete, Controlled, Actor
<1> QED
  BY <1>1, <1>2, <1>3, <1>4, <1>5, <1>6, <1>7 DEF Inv

LEMMA RunThrowsKeeps ==
  ASSUME Inv, RunThrows
  PROVE  Inv'
<1> USE DEF RunThrows, Finally, Catch, Settled, CloseBegins, Idle, flags, history, fixed
<1>1. TypeOK'
  <2>1. finalized' \in BOOLEAN /\ closing' \in BOOLEAN /\ row' \in BOOLEAN
    BY DEF Inv, TypeOK
  <2>2. /\ host' \in Host /\ state' \in State /\ status' \in Status
        /\ outcome' \in {"none"} \union Status
    BY DEF Inv, TypeOK, Host, State, Status
  <2>3. items' \in Nat
    BY Counts
  <2>4. op' \in [Actor -> Operation]
    BY Sizes DEF Inv, TypeOK, Actor, Operation, StepKind
  <2>5. checks' \in SUBSET Status
    <3>1. \E s \in Status : checks' \in SUBSET (checks \union {s, "unknown"})
      BY DEF Status
    <3> HIDE DEF RunThrows
    <3> QED
      BY <3>1 DEF Inv, TypeOK, Status
  <2>6. UNCHANGED <<mode, started, cancelled, lease, aborted, expired, broken,
                   inControl, raced, overtaken, page, server, report, exit, step,
                   begun>>
    OBVIOUS
  <2> QED
    BY <2>1, <2>2, <2>3, <2>4, <2>5, <2>6 DEF Inv, TypeOK
<1>2. Hosted'
  BY Sizes DEF Inv, TypeOK, Hosted, Actor, StepKind
<1>3. BrowserIsCovered' /\ Covered'
  BY DEF Inv, TypeOK, Hosted, BrowserIsCovered, Covered
<1>4. Undecided'
  BY DEF Inv, TypeOK, Hosted, Undecided
<1>5. Complete'
  BY Sizes DEF Inv, TypeOK, Hosted, Covered, Undecided, Complete, Actor
<1>6. Judged'
  BY DEF Inv, TypeOK, Hosted, Undecided, Judged, AllPassed
<1>7. Controlled'
  BY Sizes DEF Inv, TypeOK, Hosted, Undecided, Complete, Controlled, Actor
<1> QED
  BY <1>1, <1>2, <1>3, <1>4, <1>5, <1>6, <1>7 DEF Inv

LEMMA RunCompletesKeeps ==
  ASSUME Inv, RunCompletes
  PROVE  Inv'
<1> USE DEF RunCompletes, Finally, Catch, Settled, CloseBegins, Aggregate, flags,
   history, fixed
<1>1. TypeOK'
  <2>1. finalized' \in BOOLEAN /\ closing' \in BOOLEAN /\ row' \in BOOLEAN
    BY DEF Inv, TypeOK
  <2>2. /\ host' \in Host /\ state' \in State /\ status' \in Status
        /\ checks' \in SUBSET Status /\ outcome' \in {"none"} \union Status
    BY DEF Inv, TypeOK, Host, State, Status
  <2>3. items' \in Nat
    BY Counts
  <2>4. UNCHANGED <<mode, started, cancelled, lease, aborted, expired, broken,
                   inControl, raced, overtaken, page, server, report, exit, op, step,
                   begun>>
    OBVIOUS
  <2> QED
    BY <2>1, <2>2, <2>3, <2>4 DEF Inv, TypeOK
<1>2. Hosted'
  BY Sizes DEF Inv, TypeOK, Hosted, Actor, StepKind
<1>3. BrowserIsCovered' /\ Covered'
  BY DEF Inv, TypeOK, Hosted, BrowserIsCovered, Covered
<1>4. Undecided'
  BY DEF Inv, TypeOK, Hosted, Undecided
<1>5. Complete'
  BY Sizes DEF Inv, TypeOK, Hosted, Covered, Undecided, Complete, Actor
<1>6. Judged'
  <2>1. step > Len(Flow) /\ ~\E i \in Asserts : i >= step
    BY Counts DEF Asserts
  <2>2. /\ host' = "ending" /\ checks' = checks
        /\ state' = IF cancelled THEN "cancelled" ELSE "completed"
        /\ status' = IF "failed" \in checks THEN "failed" ELSE Aggregate(checks)
    BY <2>1
  <2>3. status' = "passed" => checks = {"passed"}
    BY <2>2
  <2>4. UNCHANGED <<mode, cancelled, aborted, step, report, exit>>
    OBVIOUS
  <2> HIDE DEF RunCompletes, Aggregate
  <2>5. mode = "run" /\ exit # "0"
    BY DEF Inv, Hosted, Judged, RunCompletes
  <2> QED
    BY <2>1, <2>2, <2>3, <2>4, <2>5 DEF Inv, Judged, AllPassed
<1>7. Controlled'
  BY Sizes DEF Inv, TypeOK, Hosted, Undecided, Complete, Controlled, Actor
<1> QED
  BY <1>1, <1>2, <1>3, <1>4, <1>5, <1>6, <1>7 DEF Inv

LEMMA AbortKeeps ==
  ASSUME Inv, Abort
  PROVE  Inv'
<1> USE DEF Abort, ServiceCancelled, CloseBegins, effect, history, fixed
<1>1. TypeOK'
  <2>1. /\ cancelled' \in BOOLEAN /\ closing' \in BOOLEAN
        /\ aborted' \in BOOLEAN
    BY DEF Inv, TypeOK
  <2>2. state' \in State /\ status' \in Status
    BY DEF Inv, TypeOK, State, Status
  <2>3. UNCHANGED <<mode, host, started, finalized, lease, row, expired, broken,
                   inControl, raced, overtaken, checks, items, page, server, outcome,
                   report, exit, op, step, begun>>
    OBVIOUS
  <2> QED
    BY <2>1, <2>2, <2>3 DEF Inv, TypeOK
<1>2. Hosted'
  BY Sizes DEF Inv, TypeOK, Hosted, Actor, StepKind
<1>3. BrowserIsCovered' /\ Covered'
  BY DEF Inv, TypeOK, Hosted, BrowserIsCovered, Covered
<1>4. Undecided'
  BY DEF Inv, TypeOK, Hosted, Undecided
<1>5. Complete'
  BY Sizes DEF Inv, TypeOK, Hosted, Covered, Undecided, Complete, Actor
<1>6. Judged'
  BY DEF Inv, TypeOK, Hosted, Undecided, Judged, AllPassed
<1>7. Controlled'
  BY Sizes DEF Inv, TypeOK, Hosted, Undecided, Complete, Controlled, Actor
<1> QED
  BY <1>1, <1>2, <1>3, <1>4, <1>5, <1>6, <1>7 DEF Inv

LEMMA CaptureKeeps ==
  ASSUME Inv, NEW c \in Command, Capture(c)
  PROVE  Inv'
<1>0. items' \in Nat /\ begun' \in 0..MaxCommands
  BY Begun
<1> USE DEF Capture, MayBegin, Perform, Recorded, Paused, service, browser, effect,
   flags, history, fixed
<1>1. TypeOK'
  <2>1. op' \in [Actor -> Operation]
    BY Sizes DEF Inv, TypeOK, Actor, Operation, StepKind
  <2>2. UNCHANGED <<mode, host, started, finalized, cancelled, closing, lease, row,
                   aborted, expired, broken, inControl, raced, overtaken, state,
                   status, checks, page, server, outcome, report, exit,
                   step>>
    OBVIOUS
  <2> HIDE DEF Capture
  <2> QED
    BY <1>0, <2>1, <2>2 DEF Inv, TypeOK
<1>2. Hosted'
  BY Sizes DEF Inv, TypeOK, Hosted, Actor, StepKind
<1>3. BrowserIsCovered' /\ Covered'
  BY DEF Inv, TypeOK, Hosted, BrowserIsCovered, Covered
<1>4. Undecided'
  BY DEF Inv, TypeOK, Hosted, Undecided
<1>5. Complete'
  BY Sizes DEF Inv, TypeOK, Hosted, Covered, Undecided, Complete, Actor
<1>6. Judged'
  BY DEF Inv, TypeOK, Hosted, Undecided, Judged, AllPassed
<1>7. Controlled'
  BY Sizes DEF Inv, TypeOK, Hosted, Undecided, Complete, Controlled, Actor
<1> QED
  BY <1>1, <1>2, <1>3, <1>4, <1>5, <1>6, <1>7 DEF Inv

LEMMA CommandPerformedKeeps ==
  ASSUME Inv, NEW c \in Command, Performed(c), op[c] = "capture"
  PROVE  Inv'
<1> USE DEF Performed, Recorded, Idle, browser, effect, flags, history, fixed
<1>1. TypeOK'
  <2>1. state' \in State /\ checks' \in SUBSET Status
    BY DEF Inv, TypeOK, State, Status
  <2>2. items' \in Nat
    BY Counts
  <2>3. step' \in 1..Len(Flow) + 1
    BY Counts DEF Inv, Hosted
  <2>4. op' \in [Actor -> Operation]
    BY Sizes DEF Inv, TypeOK, Actor, Operation, StepKind
  <2>5. UNCHANGED <<mode, host, started, finalized, cancelled, closing, lease, row,
                   aborted, expired, broken, inControl, raced, overtaken, status, page,
                   server, outcome, report, exit, begun>>
    OBVIOUS
  <2> QED
    BY <2>1, <2>2, <2>3, <2>4, <2>5 DEF Inv, TypeOK
<1>2. Hosted'
  BY Sizes DEF Inv, TypeOK, Hosted, Actor, StepKind
<1>3. BrowserIsCovered' /\ Covered'
  BY DEF Inv, TypeOK, Hosted, BrowserIsCovered, Covered
<1>4. Undecided'
  BY DEF Inv, TypeOK, Hosted, Undecided
<1>5. Complete'
  BY Sizes DEF Inv, TypeOK, Hosted, Covered, Undecided, Complete, Actor
<1>6. Judged'
  BY DEF Inv, TypeOK, Hosted, Undecided, Judged, AllPassed
<1>7. Controlled'
  BY Sizes DEF Inv, TypeOK, Hosted, Undecided, Complete, Controlled, Actor
<1> QED
  BY <1>1, <1>2, <1>3, <1>4, <1>5, <1>6, <1>7 DEF Inv

LEMMA TakeoverKeeps ==
  ASSUME Inv, NEW c \in Command, Takeover(c)
  PROVE  Inv'
<1>0. items' \in Nat /\ begun' \in 0..MaxCommands
  BY Begun
<1> USE DEF Takeover, MayBegin, Recorded, browser, effect, flags, fixed
<1>1. TypeOK'
  <2>1. inControl' \in BOOLEAN /\ raced' \in BOOLEAN
    BY DEF Inv, TypeOK
  <2>2. state' \in State
    BY DEF Inv, TypeOK, State
  <2>3. op' \in [Actor -> Operation]
    BY Sizes DEF Inv, TypeOK, Actor, Operation, StepKind
  <2>4. UNCHANGED <<mode, host, started, finalized, cancelled, closing, lease, row,
                   aborted, expired, broken, overtaken, status, checks, page, server,
                   outcome, report, exit, step>>
    OBVIOUS
  <2> HIDE DEF Takeover
  <2> QED
    BY <1>0, <2>1, <2>2, <2>3, <2>4 DEF Inv, TypeOK
<1>2. Hosted'
  BY Sizes DEF Inv, TypeOK, Hosted, Actor, StepKind
<1>3. BrowserIsCovered' /\ Covered'
  BY DEF Inv, TypeOK, Hosted, BrowserIsCovered, Covered
<1>4. Undecided'
  BY DEF Inv, TypeOK, Hosted, Undecided
<1>5. Complete'
  BY Sizes DEF Inv, TypeOK, Hosted, Covered, Undecided, Complete, Actor
<1>6. Judged'
  BY DEF Inv, TypeOK, Hosted, Undecided, Judged, AllPassed
<1>7. Controlled'
  BY Sizes DEF Inv, TypeOK, Hosted, Undecided, Complete, Controlled, Actor
<1> QED
  BY <1>1, <1>2, <1>3, <1>4, <1>5, <1>6, <1>7 DEF Inv

LEMMA TakenOverKeeps ==
  ASSUME Inv, NEW c \in Command, TakenOver(c)
  PROVE  Inv'
<1> USE DEF TakenOver, Recorded, Idle, service, browser, effect, flags, history, fixed
<1>1. TypeOK'
  <2>1. items' \in Nat
    BY Counts
  <2>2. op' \in [Actor -> Operation]
    BY Sizes DEF Inv, TypeOK, Actor, Operation, StepKind
  <2>3. UNCHANGED <<mode, host, started, finalized, cancelled, closing, lease, row,
                   aborted, expired, broken, inControl, raced, overtaken, state,
                   status, checks, page, server, outcome, report, exit,
                   step, begun>>
    OBVIOUS
  <2> QED
    BY <2>1, <2>2, <2>3 DEF Inv, TypeOK
<1>2. Hosted'
  BY Sizes DEF Inv, TypeOK, Hosted, Actor, StepKind
<1>3. BrowserIsCovered' /\ Covered'
  BY DEF Inv, TypeOK, Hosted, BrowserIsCovered, Covered
<1>4. Undecided'
  BY DEF Inv, TypeOK, Hosted, Undecided
<1>5. Complete'
  BY Sizes DEF Inv, TypeOK, Hosted, Covered, Undecided, Complete, Actor
<1>6. Judged'
  BY DEF Inv, TypeOK, Hosted, Undecided, Judged, AllPassed
<1>7. Controlled'
  BY Sizes DEF Inv, TypeOK, Hosted, Undecided, Complete, Controlled, Actor
<1> QED
  BY <1>1, <1>2, <1>3, <1>4, <1>5, <1>6, <1>7 DEF Inv

LEMMA ResumeKeeps ==
  ASSUME Inv, NEW c \in Command, Resume(c)
  PROVE  Inv'
<1>0. items' \in Nat /\ begun' \in 0..MaxCommands
  BY Begun
<1> USE DEF Resume, MayBegin, Recorded, service, browser, effect, flags, history, fixed
<1>1. TypeOK'
  <2>1. op' \in [Actor -> Operation]
    BY Sizes DEF Inv, TypeOK, Actor, Operation, StepKind
  <2>2. UNCHANGED <<mode, host, started, finalized, cancelled, closing, lease, row,
                   aborted, expired, broken, inControl, raced, overtaken, state,
                   status, checks, page, server, outcome, report, exit,
                   step>>
    OBVIOUS
  <2> HIDE DEF Resume
  <2> QED
    BY <1>0, <2>1, <2>2 DEF Inv, TypeOK
<1>2. Hosted'
  BY Sizes DEF Inv, TypeOK, Hosted, Actor, StepKind
<1>3. BrowserIsCovered' /\ Covered'
  BY DEF Inv, TypeOK, Hosted, BrowserIsCovered, Covered
<1>4. Undecided'
  BY DEF Inv, TypeOK, Hosted, Undecided
<1>5. Complete'
  BY Sizes DEF Inv, TypeOK, Hosted, Covered, Undecided, Complete, Actor
<1>6. Judged'
  BY DEF Inv, TypeOK, Hosted, Undecided, Judged, AllPassed
<1>7. Controlled'
  BY Sizes DEF Inv, TypeOK, Hosted, Undecided, Complete, Controlled, Actor
<1> QED
  BY <1>1, <1>2, <1>3, <1>4, <1>5, <1>6, <1>7 DEF Inv

LEMMA ResumedKeeps ==
  ASSUME Inv, NEW c \in Command, Resumed(c)
  PROVE  Inv'
<1> USE DEF Resumed, Recorded, Idle, browser, effect, flags, fixed
<1>1. TypeOK'
  <2>1. inControl' \in BOOLEAN
    BY DEF Inv, TypeOK
  <2>2. state' \in State
    BY DEF Inv, TypeOK, State
  <2>3. items' \in Nat
    BY Counts
  <2>4. op' \in [Actor -> Operation]
    BY Sizes DEF Inv, TypeOK, Actor, Operation, StepKind
  <2>5. UNCHANGED <<mode, host, started, finalized, cancelled, closing, lease, row,
                   aborted, expired, broken, raced, overtaken, status, checks, page,
                   server, outcome, report, exit, step, begun>>
    OBVIOUS
  <2> QED
    BY <2>1, <2>2, <2>3, <2>4, <2>5 DEF Inv, TypeOK
<1>2. Hosted'
  BY Sizes DEF Inv, TypeOK, Hosted, Actor, StepKind
<1>3. BrowserIsCovered' /\ Covered'
  BY DEF Inv, TypeOK, Hosted, BrowserIsCovered, Covered
<1>4. Undecided'
  BY DEF Inv, TypeOK, Hosted, Undecided
<1>5. Complete'
  BY Sizes DEF Inv, TypeOK, Hosted, Covered, Undecided, Complete, Actor
<1>6. Judged'
  BY DEF Inv, TypeOK, Hosted, Undecided, Judged, AllPassed
<1>7. Controlled'
  BY Sizes DEF Inv, TypeOK, Hosted, Undecided, Complete, Controlled, Actor
<1> QED
  BY <1>1, <1>2, <1>3, <1>4, <1>5, <1>6, <1>7 DEF Inv

LEMMA ImportKeeps ==
  ASSUME Inv, NEW c \in Command, Import(c)
  PROVE  Inv'
<1>0. items' \in Nat /\ begun' \in 0..MaxCommands
  BY Begun
<1> USE DEF Import, MayBegin, service, browser, effect, flags, history, fixed
<1>1. TypeOK'
  <2>1. op' \in [Actor -> Operation]
    BY Sizes DEF Inv, TypeOK, Actor, Operation, StepKind
  <2>2. UNCHANGED <<mode, host, started, finalized, cancelled, closing, lease, row,
                   aborted, expired, broken, inControl, raced, overtaken, state,
                   status, checks, items, page, server, outcome, report,
                   exit, step>>
    OBVIOUS
  <2> QED
    BY <1>0, <2>1, <2>2 DEF Inv, TypeOK
<1>2. Hosted'
  BY Sizes DEF Inv, TypeOK, Hosted, Actor, StepKind
<1>3. BrowserIsCovered' /\ Covered'
  BY DEF Inv, TypeOK, Hosted, BrowserIsCovered, Covered
<1>4. Undecided'
  BY DEF Inv, TypeOK, Hosted, Undecided
<1>5. Complete'
  BY Sizes DEF Inv, TypeOK, Hosted, Covered, Undecided, Complete, Actor
<1>6. Judged'
  BY DEF Inv, TypeOK, Hosted, Undecided, Judged, AllPassed
<1>7. Controlled'
  BY Sizes DEF Inv, TypeOK, Hosted, Undecided, Complete, Controlled, Actor
<1> QED
  BY <1>1, <1>2, <1>3, <1>4, <1>5, <1>6, <1>7 DEF Inv

LEMMA ImportedKeeps ==
  ASSUME Inv, NEW c \in Command, Imported(c)
  PROVE  Inv'
<1> USE DEF Imported, Recorded, Idle, service, browser, effect, flags, history, fixed
<1>1. TypeOK'
  <2>1. items' \in Nat
    BY Counts
  <2>2. op' \in [Actor -> Operation]
    BY Sizes DEF Inv, TypeOK, Actor, Operation, StepKind
  <2>3. UNCHANGED <<mode, host, started, finalized, cancelled, closing, lease, row,
                   aborted, expired, broken, inControl, raced, overtaken, state,
                   status, checks, page, server, outcome, report, exit,
                   step, begun>>
    OBVIOUS
  <2> QED
    BY <2>1, <2>2, <2>3 DEF Inv, TypeOK
<1>2. Hosted'
  BY Sizes DEF Inv, TypeOK, Hosted, Actor, StepKind
<1>3. BrowserIsCovered' /\ Covered'
  BY DEF Inv, TypeOK, Hosted, BrowserIsCovered, Covered
<1>4. Undecided'
  BY DEF Inv, TypeOK, Hosted, Undecided
<1>5. Complete'
  BY Sizes DEF Inv, TypeOK, Hosted, Covered, Undecided, Complete, Actor
<1>6. Judged'
  BY DEF Inv, TypeOK, Hosted, Undecided, Judged, AllPassed
<1>7. Controlled'
  BY Sizes DEF Inv, TypeOK, Hosted, Undecided, Complete, Controlled, Actor
<1> QED
  BY <1>1, <1>2, <1>3, <1>4, <1>5, <1>6, <1>7 DEF Inv

LEMMA ThrowsKeeps ==
  ASSUME Inv, NEW c \in Command, Throws(c)
  PROVE  Inv'
<1> USE DEF Throws, Idle, service, browser, effect, flags, history, fixed
<1>1. TypeOK'
  <2>1. op' \in [Actor -> Operation]
    BY Sizes DEF Inv, TypeOK, Actor, Operation, StepKind
  <2>2. UNCHANGED <<mode, host, started, finalized, cancelled, closing, lease, row,
                   aborted, expired, broken, inControl, raced, overtaken, state,
                   status, checks, items, page, server, outcome, report,
                   exit, step, begun>>
    OBVIOUS
  <2> QED
    BY <2>1, <2>2 DEF Inv, TypeOK
<1>2. Hosted'
  BY Sizes DEF Inv, TypeOK, Hosted, Actor, StepKind
<1>3. BrowserIsCovered' /\ Covered'
  BY DEF Inv, TypeOK, Hosted, BrowserIsCovered, Covered
<1>4. Undecided'
  BY DEF Inv, TypeOK, Hosted, Undecided
<1>5. Complete'
  BY Sizes DEF Inv, TypeOK, Hosted, Covered, Undecided, Complete, Actor
<1>6. Judged'
  BY DEF Inv, TypeOK, Hosted, Undecided, Judged, AllPassed
<1>7. Controlled'
  BY Sizes DEF Inv, TypeOK, Hosted, Undecided, Complete, Controlled, Actor
<1> QED
  BY <1>1, <1>2, <1>3, <1>4, <1>5, <1>6, <1>7 DEF Inv

LEMMA StopKeeps ==
  ASSUME Inv, NEW cancel \in BOOLEAN, Stop(cancel)
  PROVE  Inv'
<1> USE DEF Stop, ServiceCancelled, CloseBegins, Aggregate, effect, flags,
   history, fixed
<1>1. TypeOK'
  <2>1. cancelled' \in BOOLEAN /\ closing' \in BOOLEAN /\ overtaken' \in BOOLEAN
    BY DEF Inv, TypeOK
  <2>2. host' \in Host /\ state' \in State /\ status' \in Status
    BY DEF Inv, TypeOK, Host, State, Status
  <2>3. UNCHANGED <<mode, started, finalized, lease, row, aborted, expired, broken,
                   inControl, raced, checks, items, page, server, outcome,
                   report, exit, op, step, begun>>
    OBVIOUS
  <2> HIDE DEF Stop
  <2> QED
    BY <2>1, <2>2, <2>3 DEF Inv, TypeOK
<1>2. Hosted'
  BY Sizes DEF Inv, TypeOK, Hosted, Actor, StepKind
<1>3. BrowserIsCovered' /\ Covered'
  BY DEF Inv, TypeOK, Hosted, BrowserIsCovered, Covered
<1>4. Undecided'
  BY DEF Inv, TypeOK, Hosted, Undecided
<1>5. Complete'
  BY Sizes DEF Inv, TypeOK, Hosted, Covered, Undecided, Complete, Actor
<1>6. Judged'
  BY DEF Inv, TypeOK, Hosted, Undecided, Judged, AllPassed
<1>7. Controlled'
  BY Sizes DEF Inv, TypeOK, Hosted, Undecided, Complete, Controlled, Actor
<1> QED
  BY <1>1, <1>2, <1>3, <1>4, <1>5, <1>6, <1>7 DEF Inv

LEMMA SnapshotKeeps ==
  ASSUME Inv, Snapshot
  PROVE  Inv'
<1> USE DEF Snapshot, service, browser, effect, flags, history, fixed
<1>1. TypeOK'
  <2>1. /\ host' \in Host
        /\ report' \in [state : State, status : Status, items : Nat]
    BY DEF Inv, TypeOK, Host
  <2>2. UNCHANGED <<mode, started, finalized, cancelled, closing, lease, row,
                   aborted, expired, broken, inControl, raced, overtaken, state,
                   status, checks, items, page, server, outcome, exit, op,
                   step, begun>>
    OBVIOUS
  <2> QED
    BY <2>1, <2>2 DEF Inv, TypeOK
<1>2. Hosted'
  BY Sizes DEF Inv, TypeOK, Hosted, Actor, StepKind
<1>3. BrowserIsCovered' /\ Covered'
  BY DEF Inv, TypeOK, Hosted, BrowserIsCovered, Covered
<1>4. Undecided'
  BY DEF Inv, TypeOK, Hosted, Undecided
<1>5. Complete'
  BY Sizes DEF Inv, TypeOK, Hosted, Covered, Undecided, Complete, Actor
<1>6. Judged'
  BY DEF Inv, TypeOK, Hosted, Undecided, Judged, AllPassed
<1>7. Controlled'
  BY Sizes DEF Inv, TypeOK, Hosted, Undecided, Complete, Controlled, Actor
<1> QED
  BY <1>1, <1>2, <1>3, <1>4, <1>5, <1>6, <1>7 DEF Inv

LEMMA ReportKeeps ==
  ASSUME Inv, Report
  PROVE  Inv'
<1> USE DEF Report, Result, ExitCode, service, browser, flags, history, fixed
<1>1. TypeOK'
  <2>1. finalized' \in BOOLEAN /\ row' \in BOOLEAN
    BY DEF Inv, TypeOK
  <2>2. /\ host' \in Host /\ outcome' \in {"none"} \union Status
        /\ exit' \in {"none", "0", "3", "4", "130"}
    BY DEF Inv, TypeOK, Host, Status
  <2>3. UNCHANGED <<mode, started, cancelled, closing, lease, aborted, expired,
                   broken, inControl, raced, overtaken, state, status, checks, items,
                   page, server, report, op, step, begun>>
    OBVIOUS
  <2> QED
    BY <2>1, <2>2, <2>3 DEF Inv, TypeOK
<1>2. Hosted'
  BY Sizes DEF Inv, TypeOK, Hosted, Actor, StepKind
<1>3. BrowserIsCovered' /\ Covered'
  BY DEF Inv, TypeOK, Hosted, BrowserIsCovered, Covered
<1>4. Undecided'
  BY DEF Inv, TypeOK, Hosted, Undecided
<1>5. Complete'
  BY Sizes DEF Inv, TypeOK, Hosted, Covered, Undecided, Complete, Actor
<1>6. Judged'
  <2>1. /\ UNCHANGED <<mode, cancelled, aborted, status, checks, report, step, items>>
        /\ host = "reporting" /\ host' \in {"cleaning", "throwing"} /\ exit # "0"
    BY DEF Inv, Judged
  <2>2. exit' # exit => mode = "run" /\ host' = "cleaning" /\ exit' = ExitCode
    OBVIOUS
  <2>3. ExitCode = "0" => ~aborted /\ report.status = "passed"
    BY DEF Inv, TypeOK
  <2>4. report.state = "completed" /\ ~aborted => outcome' = "passed"
    OBVIOUS
  <2> HIDE DEF Report, ExitCode
  <2> QED
    BY <2>1, <2>2, <2>3, <2>4 DEF Inv, Judged, AllPassed
<1>7. Controlled'
  BY Sizes DEF Inv, TypeOK, Hosted, Undecided, Complete, Controlled, Actor
<1> QED
  BY <1>1, <1>2, <1>3, <1>4, <1>5, <1>6, <1>7 DEF Inv

LEMMA ThrowingKeeps ==
  ASSUME Inv, Throwing
  PROVE  Inv'
<1> USE DEF Throwing, Catch, Settled, service, browser, flags, history, fixed
<1>1. TypeOK'
  <2>1. finalized' \in BOOLEAN /\ row' \in BOOLEAN
    BY DEF Inv, TypeOK
  <2>2. host' \in Host /\ outcome' \in {"none"} \union Status
    BY DEF Inv, TypeOK, Host, Status
  <2>3. UNCHANGED <<mode, started, cancelled, closing, lease, aborted, expired,
                   broken, inControl, raced, overtaken, state, status, checks, items,
                   page, server, report, exit, op, step, begun>>
    OBVIOUS
  <2> QED
    BY <2>1, <2>2, <2>3 DEF Inv, TypeOK
<1>2. Hosted'
  BY Sizes DEF Inv, TypeOK, Hosted, Actor, StepKind
<1>3. BrowserIsCovered' /\ Covered'
  BY DEF Inv, TypeOK, Hosted, BrowserIsCovered, Covered
<1>4. Undecided'
  BY DEF Inv, TypeOK, Hosted, Undecided
<1>5. Complete'
  BY Sizes DEF Inv, TypeOK, Hosted, Covered, Undecided, Complete, Actor
<1>6. Judged'
  BY DEF Inv, TypeOK, Hosted, Undecided, Judged, AllPassed
<1>7. Controlled'
  BY Sizes DEF Inv, TypeOK, Hosted, Undecided, Complete, Controlled, Actor
<1> QED
  BY <1>1, <1>2, <1>3, <1>4, <1>5, <1>6, <1>7 DEF Inv

LEMMA ReportFailsKeeps ==
  ASSUME Inv, ReportFails
  PROVE  Inv'
<1> USE DEF ReportFails, Catch, Settled, service, browser, flags, history, fixed
<1>1. TypeOK'
  <2>1. finalized' \in BOOLEAN /\ row' \in BOOLEAN
    BY DEF Inv, TypeOK
  <2>2. host' \in Host /\ outcome' \in {"none"} \union Status
    BY DEF Inv, TypeOK, Host, Status
  <2>3. UNCHANGED <<mode, started, cancelled, closing, lease, aborted, expired,
                   broken, inControl, raced, overtaken, state, status, checks, items,
                   page, server, report, exit, op, step, begun>>
    OBVIOUS
  <2> QED
    BY <2>1, <2>2, <2>3 DEF Inv, TypeOK
<1>2. Hosted'
  BY Sizes DEF Inv, TypeOK, Hosted, Actor, StepKind
<1>3. BrowserIsCovered' /\ Covered'
  BY DEF Inv, TypeOK, Hosted, BrowserIsCovered, Covered
<1>4. Undecided'
  BY DEF Inv, TypeOK, Hosted, Undecided
<1>5. Complete'
  BY Sizes DEF Inv, TypeOK, Hosted, Covered, Undecided, Complete, Actor
<1>6. Judged'
  BY DEF Inv, TypeOK, Hosted, Undecided, Judged, AllPassed
<1>7. Controlled'
  BY Sizes DEF Inv, TypeOK, Hosted, Undecided, Complete, Controlled, Actor
<1> QED
  BY <1>1, <1>2, <1>3, <1>4, <1>5, <1>6, <1>7 DEF Inv

LEMMA CloseAgainKeeps ==
  ASSUME Inv, CloseAgain
  PROVE  Inv'
<1> USE DEF CloseAgain, service, effect, flags, history, fixed
<1>1. TypeOK'
  <2>1. closing' \in BOOLEAN
    BY DEF Inv, TypeOK
  <2>2. UNCHANGED <<mode, host, started, finalized, cancelled, lease, row, aborted,
                   expired, broken, inControl, raced, overtaken, state, status, checks,
                   items, page, server, outcome, report, exit, op, step,
                   begun>>
    OBVIOUS
  <2> QED
    BY <2>1, <2>2 DEF Inv, TypeOK
<1>2. Hosted'
  BY Sizes DEF Inv, TypeOK, Hosted, Actor, StepKind
<1>3. BrowserIsCovered' /\ Covered'
  BY DEF Inv, TypeOK, Hosted, BrowserIsCovered, Covered
<1>4. Undecided'
  BY DEF Inv, TypeOK, Hosted, Undecided
<1>5. Complete'
  BY Sizes DEF Inv, TypeOK, Hosted, Covered, Undecided, Complete, Actor
<1>6. Judged'
  BY DEF Inv, TypeOK, Hosted, Undecided, Judged, AllPassed
<1>7. Controlled'
  BY Sizes DEF Inv, TypeOK, Hosted, Undecided, Complete, Controlled, Actor
<1> QED
  BY <1>1, <1>2, <1>3, <1>4, <1>5, <1>6, <1>7 DEF Inv

LEMMA CleanKeeps ==
  ASSUME Inv, Clean
  PROVE  Inv'
<1> USE DEF Clean, service, browser, flags, history, fixed
<1>1. TypeOK'
  <2>1. lease' \in BOOLEAN
    BY DEF Inv, TypeOK
  <2>2. host' \in Host /\ server' \in {"none", "attached", "owned"}
    BY DEF Inv, TypeOK, Host
  <2>3. UNCHANGED <<mode, started, finalized, cancelled, closing, row, aborted,
                   expired, broken, inControl, raced, overtaken, state, status, checks,
                   items, page, outcome, report, exit, op, step, begun>>
    OBVIOUS
  <2> QED
    BY <2>1, <2>2, <2>3 DEF Inv, TypeOK
<1>2. Hosted'
  BY Sizes DEF Inv, TypeOK, Hosted, Actor, StepKind
<1>3. BrowserIsCovered' /\ Covered'
  BY DEF Inv, TypeOK, Hosted, BrowserIsCovered, Covered
<1>4. Undecided'
  BY DEF Inv, TypeOK, Hosted, Undecided
<1>5. Complete'
  BY Sizes DEF Inv, TypeOK, Hosted, Covered, Undecided, Complete, Actor
<1>6. Judged'
  BY DEF Inv, TypeOK, Hosted, Undecided, Judged, AllPassed
<1>7. Controlled'
  BY Sizes DEF Inv, TypeOK, Hosted, Undecided, Complete, Controlled, Actor
<1> QED
  BY <1>1, <1>2, <1>3, <1>4, <1>5, <1>6, <1>7 DEF Inv

LEMMA FailStartKeeps ==
  ASSUME Inv, FailStart
  PROVE  Inv'
<1> USE DEF FailStart, service, browser, flags, history, fixed
<1>1. TypeOK'
  <2>1. finalized' \in BOOLEAN
    BY DEF Inv, TypeOK
  <2>2. host' \in Host /\ outcome' \in {"none"} \union Status
    BY DEF Inv, TypeOK, Host, Status
  <2>3. UNCHANGED <<mode, started, cancelled, closing, lease, row, aborted, expired,
                   broken, inControl, raced, overtaken, state, status, checks, items,
                   page, server, report, exit, op, step, begun>>
    OBVIOUS
  <2> QED
    BY <2>1, <2>2, <2>3 DEF Inv, TypeOK
<1>2. Hosted'
  BY Sizes DEF Inv, TypeOK, Hosted, Actor, StepKind
<1>3. BrowserIsCovered' /\ Covered'
  BY DEF Inv, TypeOK, Hosted, BrowserIsCovered, Covered
<1>4. Undecided'
  BY DEF Inv, TypeOK, Hosted, Undecided
<1>5. Complete'
  BY Sizes DEF Inv, TypeOK, Hosted, Covered, Undecided, Complete, Actor
<1>6. Judged'
  BY DEF Inv, TypeOK, Hosted, Undecided, Judged, AllPassed
<1>7. Controlled'
  BY Sizes DEF Inv, TypeOK, Hosted, Undecided, Complete, Controlled, Actor
<1> QED
  BY <1>1, <1>2, <1>3, <1>4, <1>5, <1>6, <1>7 DEF Inv

LEMMA BrowserClosesKeeps ==
  ASSUME Inv, BrowserCloses
  PROVE  Inv'
<1> USE DEF BrowserCloses, service, effect, flags, history, fixed
<1>1. TypeOK'
  <2>1. closing' \in BOOLEAN
    BY DEF Inv, TypeOK
  <2>2. page' \in {"none", "open"}
    BY DEF Inv, TypeOK
  <2>3. UNCHANGED <<mode, host, started, finalized, cancelled, lease, row, aborted,
                   expired, broken, inControl, raced, overtaken, state, status, checks,
                   items, server, outcome, report, exit, op, step, begun>>
    OBVIOUS
  <2> QED
    BY <2>1, <2>2, <2>3 DEF Inv, TypeOK
<1>2. Hosted'
  BY Sizes DEF Inv, TypeOK, Hosted, Actor, StepKind
<1>3. BrowserIsCovered' /\ Covered'
  BY DEF Inv, TypeOK, Hosted, BrowserIsCovered, Covered
<1>4. Undecided'
  BY DEF Inv, TypeOK, Hosted, Undecided
<1>5. Complete'
  BY Sizes DEF Inv, TypeOK, Hosted, Covered, Undecided, Complete, Actor
<1>6. Judged'
  BY DEF Inv, TypeOK, Hosted, Undecided, Judged, AllPassed
<1>7. Controlled'
  BY Sizes DEF Inv, TypeOK, Hosted, Undecided, Complete, Controlled, Actor
<1> QED
  BY <1>1, <1>2, <1>3, <1>4, <1>5, <1>6, <1>7 DEF Inv

LEMMA CloseThrowsKeeps ==
  ASSUME Inv, CloseThrows
  PROVE  Inv'
<1> USE DEF CloseThrows, ServiceCancelled, Catch, Settled, flags, history, fixed
<1>1. TypeOK'
  <2>1. /\ finalized' \in BOOLEAN /\ cancelled' \in BOOLEAN
        /\ closing' \in BOOLEAN /\ row' \in BOOLEAN
    BY DEF Inv, TypeOK
  <2>2. host' \in Host
    <3>1. host' \in {host, "cleaning", "leaking"}
      OBVIOUS
    <3> QED
      BY <3>1 DEF Inv, TypeOK, Host
  <2>3. /\ state' \in State /\ status' \in Status /\ page' \in {"none", "open"}
        /\ outcome' \in {"none"} \union Status
    <3>1. /\ state' \in {state, "cancelled"} /\ status' \in {status, "unknown"}
          /\ page' = "none" /\ outcome' \in {outcome, "unknown"}
      OBVIOUS
    <3> HIDE DEF CloseThrows
    <3> QED
      BY <3>1 DEF Inv, TypeOK, State, Status
  <2>4. UNCHANGED <<mode, started, lease, aborted, expired, broken, inControl, raced,
                   overtaken, checks, items, server, report, exit, op, step, begun>>
    OBVIOUS
  <2> HIDE DEF CloseThrows
  <2> QED
    BY <2>1, <2>2, <2>3, <2>4 DEF Inv, TypeOK
<1>2. Hosted'
  BY Sizes DEF Inv, TypeOK, Hosted, Actor, StepKind
<1>3. BrowserIsCovered' /\ Covered'
  BY DEF Inv, TypeOK, Hosted, BrowserIsCovered, Covered
<1>4. Undecided'
  BY DEF Inv, TypeOK, Hosted, Undecided
<1>5. Complete'
  BY Sizes DEF Inv, TypeOK, Hosted, Covered, Undecided, Complete, Actor
<1>6. Judged'
  BY DEF Inv, TypeOK, Hosted, Undecided, Judged, AllPassed
<1>7. Controlled'
  BY Sizes DEF Inv, TypeOK, Hosted, Undecided, Complete, Controlled, Actor
<1> QED
  BY <1>1, <1>2, <1>3, <1>4, <1>5, <1>6, <1>7 DEF Inv

LEMMA ExpireKeeps ==
  ASSUME Inv, Expire
  PROVE  Inv'
<1> USE DEF Expire, service, browser, effect, history, fixed
<1>1. TypeOK'
  <2>1. expired' \in BOOLEAN
    BY DEF Inv, TypeOK
  <2>2. UNCHANGED <<mode, host, started, finalized, cancelled, closing, lease, row,
                   aborted, broken, inControl, raced, overtaken, state, status, checks,
                   items, page, server, outcome, report, exit, op, step,
                   begun>>
    OBVIOUS
  <2> QED
    BY <2>1, <2>2 DEF Inv, TypeOK
<1>2. Hosted'
  BY Sizes DEF Inv, TypeOK, Hosted, Actor, StepKind
<1>3. BrowserIsCovered' /\ Covered'
  BY DEF Inv, TypeOK, Hosted, BrowserIsCovered, Covered
<1>4. Undecided'
  BY DEF Inv, TypeOK, Hosted, Undecided
<1>5. Complete'
  BY Sizes DEF Inv, TypeOK, Hosted, Covered, Undecided, Complete, Actor
<1>6. Judged'
  BY DEF Inv, TypeOK, Hosted, Undecided, Judged, AllPassed
<1>7. Controlled'
  BY Sizes DEF Inv, TypeOK, Hosted, Undecided, Complete, Controlled, Actor
<1> QED
  BY <1>1, <1>2, <1>3, <1>4, <1>5, <1>6, <1>7 DEF Inv

LEMMA LogBreaksKeeps ==
  ASSUME Inv, LogBreaks
  PROVE  Inv'
<1> USE DEF LogBreaks, service, browser, effect, history, fixed
<1>1. TypeOK'
  <2>1. broken' \in BOOLEAN
    BY DEF Inv, TypeOK
  <2>2. UNCHANGED <<mode, host, started, finalized, cancelled, closing, lease, row,
                   aborted, expired, inControl, raced, overtaken, state, status,
                   checks, items, page, server, outcome, report, exit, op,
                   step, begun>>
    OBVIOUS
  <2> QED
    BY <2>1, <2>2 DEF Inv, TypeOK
<1>2. Hosted'
  BY Sizes DEF Inv, TypeOK, Hosted, Actor, StepKind
<1>3. BrowserIsCovered' /\ Covered'
  BY DEF Inv, TypeOK, Hosted, BrowserIsCovered, Covered
<1>4. Undecided'
  BY DEF Inv, TypeOK, Hosted, Undecided
<1>5. Complete'
  BY Sizes DEF Inv, TypeOK, Hosted, Covered, Undecided, Complete, Actor
<1>6. Judged'
  BY DEF Inv, TypeOK, Hosted, Undecided, Judged, AllPassed
<1>7. Controlled'
  BY Sizes DEF Inv, TypeOK, Hosted, Undecided, Complete, Controlled, Actor
<1> QED
  BY <1>1, <1>2, <1>3, <1>4, <1>5, <1>6, <1>7 DEF Inv

LEMMA InvInit == Init => Inv
<1> SUFFICES ASSUME Init PROVE Inv
  OBVIOUS
<1>1. TypeOK
  <2>1. NoReport \in [state : State, status : Status, items : Nat]
    BY DEF NoReport, State, Status
  <2>2. op \in [Actor -> Operation]
    BY DEF Init, Actor, Operation
  <2>3. step \in 1..Len(Flow) + 1 /\ begun \in 0..MaxCommands
    BY Sizes DEF Init
  <2>4. host \in Host /\ state \in State /\ status \in Status /\ checks \subseteq Status
    BY DEF Init, Host, State, Status
  <2> QED
    BY <2>1, <2>2, <2>3, <2>4 DEF Init, TypeOK
<1>2. BrowserIsCovered /\ Hosted /\ Covered /\ Undecided
  BY Sizes DEF Init, BrowserIsCovered, Hosted, Covered, Undecided, Actor
<1>3. Complete /\ Judged /\ Controlled
  BY DEF Init, Complete, Judged, Controlled, NoReport
<1> QED
  BY <1>1, <1>2, <1>3 DEF Inv

LEMMA InvNext == Inv /\ [Next]_vars => Inv'
<1> SUFFICES ASSUME Inv, [Next]_vars PROVE Inv'
  OBVIOUS
<1>1. CASE Start
  BY <1>1, StartKeeps
<1>2. CASE HostStep
  BY <1>2, AttachKeeps, AttachFailsKeeps, LaunchKeeps, ReadyKeeps, RefuseKeeps,
     RefusedKeeps, RunStepKeeps, ActKeeps, RunnerPerformedKeeps, RunThrowsKeeps,
     RunCompletesKeeps, SnapshotKeeps, ReportKeeps, ReportFailsKeeps, ThrowingKeeps,
     CloseAgainKeeps, CleanKeeps, FailStartKeeps DEF HostStep
<1>3. CASE LiveStep
  BY <1>3, CaptureKeeps, CommandPerformedKeeps, TakeoverKeeps, TakenOverKeeps,
     ResumeKeeps, ResumedKeeps, ImportKeeps, ImportedKeeps, ThrowsKeeps DEF LiveStep
<1>4. CASE \E cancel \in BOOLEAN : Stop(cancel)
  BY <1>4, StopKeeps
<1>5. CASE BrowserCloses \/ CloseThrows \/ Abort \/ Expire \/ LogBreaks
  BY <1>5, BrowserClosesKeeps, CloseThrowsKeeps, AbortKeeps, ExpireKeeps, LogBreaksKeeps
<1>6. CASE UNCHANGED vars
  <2>1. UNCHANGED <<mode, started, host, state, status, cancelled, checks, items, page,
                    closing, server, lease, row, outcome, finalized>>
    BY <1>6 DEF vars, fixed, service, browser, effect
  <2>2. UNCHANGED <<report, exit, op, step, begun, aborted, expired, broken, inControl,
                    raced, overtaken>>
    BY <1>6 DEF vars, flags, history
  <2>3. TypeOK' /\ BrowserIsCovered'
    BY <2>1, <2>2 DEF Inv, TypeOK, BrowserIsCovered
  <2>4. Hosted' /\ Covered' /\ Undecided'
    BY <2>1, <2>2 DEF Inv, Hosted, Covered, Undecided
  <2>5. Complete' /\ Judged' /\ Controlled'
    BY <2>1, <2>2 DEF Inv, Complete, Judged, AllPassed, Controlled
  <2> QED
    BY <2>3, <2>4, <2>5 DEF Inv
<1> QED
  BY <1>1, <1>2, <1>3, <1>4, <1>5, <1>6 DEF Next

-----------------------------------------------------------------------------
(* Theorems *)

\* The invariant holds in every reachable state of an inspection.
THEOREM InvHolds == Spec => []Inv
BY InvInit, InvNext, PTL DEF Spec

\* The state has its types: no stage, state or operation is left undefined by any
\* interleaving.
THEOREM TypesHold == Spec => []TypeOK
<1>1. Inv => TypeOK
  BY DEF Inv
<1> QED
  BY <1>1, InvHolds, PTL

\* A browser runs only behind the pending row of its effect and under the lease of
\* the worktree, whoever closes it and however often.
THEOREM BrowserStaysCovered == Spec => []BrowserIsCovered
<1>1. Inv => BrowserIsCovered
  BY DEF Inv
<1> QED
  BY <1>1, InvHolds, PTL

\* An effect is recorded as passed only with a report of everything that was
\* recorded, unless the stop met an import, and a run exits with 0 only when all of its flow passed.
THEOREM PassedStaysEarned == Spec => []PassedIsEarned
<1>1. Inv => PassedIsEarned
  BY DEF Inv, Complete, Judged, AllPassed, PassedIsEarned
<1> QED
  BY <1>1, InvHolds, PTL

\* A takeover that met nothing under way lasts until the resume or the stop, and
\* is never part of an inspection that passed.
THEOREM TakeoverStays == Spec => []TakeoverHolds
<1>1. Inv => TakeoverHolds
  BY DEF Inv, Complete, Controlled, TakeoverHolds
<1> QED
  BY <1>1, InvHolds, PTL

\* An outcome that is recorded again is recorded as it was.
LEMMA OutcomeKept ==
  ASSUME Inv, Next
  PROVE  outcome # "none" => outcome' = outcome
<1>1. CASE HostStep
  <2>1. CASE Attach \/ AttachFails \/ Refused \/ RunThrows \/ RunCompletes \/ Report
             \/ ReportFails
    <3>1. outcome = "none"
      BY <2>1 DEF Inv, Undecided, Attach, AttachFails, Refused, RunThrows, RunCompletes,
            Report, ReportFails
    <3> QED
      BY <3>1
  <2>2. CASE Throwing
    BY <2>2 DEF Inv, Undecided, Throwing, Catch, Settled
  <2>3. CASE FailStart
    BY <2>3 DEF Inv, Undecided, FailStart
  <2>4. CASE Launch \/ Ready \/ Refuse \/ RunStep \/ Act(Runner) \/ Performed(Runner)
             \/ Snapshot \/ CloseAgain \/ Clean
    BY <2>4 DEF Launch, Ready, Refuse, RunStep, Act, Performed, Snapshot, CloseAgain,
          Clean, effect
  <2> QED
    BY <1>1, <2>1, <2>2, <2>3, <2>4 DEF HostStep
<1>2. CASE LiveStep
  BY <1>2 DEF LiveStep, Capture, Performed, Takeover, TakenOver, Resume, Resumed, Import,
        Imported, Throws, effect
<1>3. CASE CloseThrows
  BY <1>3 DEF Inv, Undecided, CloseThrows, Catch, Settled
<1>4. CASE Start \/ BrowserCloses \/ Abort \/ Expire \/ LogBreaks
           \/ \E cancel \in BOOLEAN : Stop(cancel)
  BY <1>4 DEF Start, BrowserCloses, Abort, Expire, LogBreaks, Stop, effect
<1> QED
  BY <1>1, <1>2, <1>3, <1>4 DEF Next

\* What the log says of an effect never changes once it says something.
THEOREM OutcomeStaysFinal == Spec => OutcomeIsFinal
<1>1. Inv /\ [Next]_vars => [outcome # "none" => outcome' = outcome]_vars
  BY OutcomeKept
<1> QED
  BY <1>1, InvHolds, PTL DEF Spec, OutcomeIsFinal
=============================================================================

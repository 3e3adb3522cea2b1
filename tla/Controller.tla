----------------------------- MODULE Controller -----------------------------
(***************************************************************************)
(* The commands of one terminal session: which of them the composer and    *)
(* the palette let in, the controller that Ctrl+C aborts, the one request  *)
(* for approval on the screen, and leaving the session                     *)
(* (src/packages/tui/controller.ts, screen.tsx, start.tsx).                *)
(*                                                                         *)
(* A command is an asynchronous call of submit; between two awaits it runs *)
(* alone.  What it does is abstracted to the moments at which it touches   *)
(* the state it shares with others: taking the active controller, asking   *)
(* for approval, ending.  model.running is TRUE exactly while the active   *)
(* controller is set: every line that sets one sets the other before the   *)
(* next await.                                                             *)
(***************************************************************************)
EXTENDS Naturals

CONSTANTS
  Command,   \* the commands a user gives, each once
  Kind,      \* how a command comes to be the active one
  Palette,   \* those chosen in the palette or by a shortcut, not composed
  Asks       \* bound on the requests for approval of each command

\* prompt    active at once, then it prepares a review: /dispose, /restore, ...
\* task      awaits first: references, discovery, pending effects
\* review    awaits first, then is active and asks without another await:
\*           /inspect-app, /app import, /app baseline
\* quick     never active: /diff, /rails, /app capture, ...
\* discovery the models of a picked provider: openModels, not through submit
ASSUME CommandAssumption ==
  /\ Kind \in [Command -> {"prompt", "task", "review", "quick", "discovery"}]
  /\ Palette \subseteq Command
  /\ Asks \in [Command -> Nat]
  /\ \A c \in Command : Kind[c] \in {"quick", "discovery"} => Asks[c] = 0
  /\ \A c \in Command : Kind[c] \in {"prompt", "review"} => Asks[c] > 0
  /\ \A c \in Command : Kind[c] = "discovery" => c \in Palette

None == "none"
ASSUME NoneAssumption == None \notin Command

VARIABLES
  stage,        \* stage[c]: how far command c is
  active,       \* whose AbortController this.active is
  signal,       \* signal[c]: whose abort signal the task c runs under
  aborted,      \* the commands whose AbortController was aborted
  slot,         \* whose request this.approval and model.approval hold
  busy,         \* the command the composer waits for
  asked,        \* asked[c]: requests c has made
  left,         \* the session was switched or the program ended
  interrupted,  \* history: the commands at work when the user pressed Ctrl+C
  overlapped    \* history: a command began while another was unfinished

history == <<interrupted, overlapped>>
vars ==
  <<stage, active, signal, aborted, slot, busy, asked, left, history>>

Unfinished == {c \in Command : stage[c] \notin {"new", "done"}}
AtWork == {c \in Unfinished : stage[c] # "awaiting"}
Running == active # None

Init ==
  /\ stage = [c \in Command |-> "new"]
  /\ signal = [c \in Command |-> None]
  /\ active = None /\ aborted = {} /\ slot = None /\ busy = None
  /\ asked = [c \in Command |-> 0]
  /\ left = FALSE /\ interrupted = {} /\ overlapped = FALSE

-----------------------------------------------------------------------------
(* Commands.                                                               *)

\* submit up to its first await; openModels likewise
Begin(c) ==
  /\ overlapped' = (overlapped \/ Unfinished # {})
  /\ \/ /\ Kind[c] = "prompt" /\ active' = c
        /\ stage' = [stage EXCEPT ![c] = "preparing"]
     \/ /\ Kind[c] = "discovery" /\ active' = c
        /\ stage' = [stage EXCEPT ![c] = "working"]
     \/ /\ Kind[c] \in {"task", "review", "quick"} /\ UNCHANGED active
        /\ stage' = [stage EXCEPT ![c] = "awaiting"]

\* Enter in the composer, which has no focus under a request; submit ignores
\* it while a command is active
Compose(c) ==
  /\ ~left /\ stage[c] = "new" /\ c \notin Palette
  /\ slot = None /\ busy = None /\ active = None
  /\ busy' = c /\ Begin(c)
  /\ UNCHANGED <<signal, aborted, slot, asked, left, interrupted>>

\* A choice in the palette or a shortcut: busy is the composer's alone, and
\* openModels does not look at active
Choose(c) ==
  /\ ~left /\ stage[c] = "new" /\ c \in Palette
  /\ slot = None /\ (Kind[c] = "discovery" \/ active = None)
  /\ Begin(c)
  /\ UNCHANGED <<signal, aborted, slot, busy, asked, left, interrupted>>

\* The first awaits of a task are over
StartTask(c) ==
  /\ ~left /\ stage[c] = "awaiting" /\ Kind[c] = "task"
  /\ stage' = [stage EXCEPT ![c] = "starting"] /\ active' = c
  /\ UNCHANGED <<signal, aborted, slot, busy, asked, left, history>>

\* Credentials and capabilities are there: runTask, under the signal of
\* whatever is active by now
RunTask(c) ==
  /\ ~left /\ stage[c] = "starting" /\ active # None
  /\ stage' = [stage EXCEPT ![c] = "working"]
  /\ signal' = [signal EXCEPT ![c] = active]
  /\ UNCHANGED <<active, aborted, slot, busy, asked, left, history>>

\* The task takes up a tool call that needs approval: it looks at its own
\* signal, then prepares the action
Prepare(c) ==
  /\ ~left /\ stage[c] = "working" /\ Kind[c] = "task"
  /\ signal[c] \notin aborted /\ asked[c] < Asks[c]
  /\ stage' = [stage EXCEPT ![c] = "preparing"]
  /\ UNCHANGED <<signal, active, aborted, slot, busy, asked, left, history>>

\* requestApproval: the promise waits, its resolver takes the only slot
Request(c) ==
  /\ stage' = [stage EXCEPT ![c] = "asking"] /\ slot' = c
  /\ asked' = [asked EXCEPT ![c] = @ + 1]

\* The first awaits of a review are over: active, and its request shown
Review(c) ==
  /\ ~left /\ stage[c] = "awaiting" /\ Kind[c] = "review"
  /\ active' = c /\ Request(c)
  /\ UNCHANGED <<signal, aborted, busy, left, history>>

\* A faulty variant: a request is shown whatever happened to the signal
AskAnyway(c) ==
  /\ ~left /\ stage[c] = "preparing" /\ active # None
  /\ Request(c)
  /\ UNCHANGED <<signal, active, aborted, busy, left, history>>

\* requestApproval with the signal of whatever is active now; without an
\* active controller this throws, and the command ends
Ask(c) ==
  /\ ~left /\ stage[c] = "preparing" /\ active # None /\ active \notin aborted
  /\ Request(c)
  /\ UNCHANGED <<signal, active, aborted, busy, left, history>>

\* That signal is aborted already: denied at once
AskInVain(c) ==
  /\ ~left /\ stage[c] = "preparing" /\ active \in aborted
  /\ stage' = [stage EXCEPT ![c] = "working"]
  /\ asked' = [asked EXCEPT ![c] = @ + 1]
  /\ UNCHANGED <<signal, active, aborted, slot, busy, left, history>>

\* resolveApproval: whoever is in the slot goes on
Resumed(at) == [c \in Command |-> IF c = slot THEN "working" ELSE at[c]]

\* A faulty variant: the request stays after its answer
AnswerKeepsRequest ==
  /\ ~left /\ slot # None /\ stage' = Resumed(stage)
  /\ UNCHANGED <<signal, active, aborted, slot, busy, asked, left, history>>

\* Y, N or Esc under a request
Answer ==
  /\ ~left /\ slot # None
  /\ stage' = Resumed(stage) /\ slot' = None
  /\ UNCHANGED <<signal, active, aborted, busy, asked, left, history>>

\* The command returns or throws: finally clears active, whosever it is, and
\* denies the request, whosever it is (openModels leaves the request alone)
Finish(c) ==
  /\ ~left /\ c \in Unfinished /\ stage[c] # "asking"
  /\ active' = None
  /\ IF Kind[c] = "discovery"
       THEN stage' = [stage EXCEPT ![c] = "done"] /\ UNCHANGED slot
       ELSE stage' = [Resumed(stage) EXCEPT ![c] = "done"] /\ slot' = None
  /\ busy' = IF busy = c THEN None ELSE busy
  /\ UNCHANGED <<signal, aborted, asked, left, history>>

-----------------------------------------------------------------------------
(* The user.                                                               *)

\* A faulty variant: cancel aborts and leaves the request to the signal
CancelKeepsRequest ==
  /\ ~left /\ (Running \/ slot # None)
  /\ aborted' = aborted \cup ({active} \ {None})
  /\ interrupted' = interrupted \cup AtWork
  /\ UNCHANGED <<signal, stage, active, slot, busy, asked, left,
                 overlapped>>

\* Ctrl+C under a request or while something runs, Esc twice, SIGINT: cancel.
\* The listeners of the signal call resolveApproval too.
Cancel ==
  /\ ~left /\ (Running \/ slot # None)
  /\ aborted' = aborted \cup ({active} \ {None})
  /\ stage' = Resumed(stage) /\ slot' = None
  /\ interrupted' = interrupted \cup AtWork
  /\ UNCHANGED <<signal, active, busy, asked, left,
                 overlapped>>

\* A session picked in the catalog, or Ctrl+C twice: the store is closed
Leave ==
  /\ ~left /\ slot = None /\ ~Running /\ left' = TRUE
  /\ UNCHANGED <<stage, active, signal, aborted, slot, busy, asked, history>>

Next ==
  \/ \E c \in Command :
       \/ Compose(c) \/ Choose(c) \/ StartTask(c) \/ RunTask(c)
       \/ Prepare(c) \/ Review(c) \/ Ask(c) \/ AskInVain(c) \/ Finish(c)
  \/ Answer \/ Cancel \/ Leave

Spec == Init /\ [][Next]_vars

\* Awaited work ends: a task by its deadline, the rest by bounded I/O.  The
\* user need not answer, nor give another command.
FairSpec ==
  /\ Spec
  /\ \A c \in Command :
       WF_vars(StartTask(c)) /\ WF_vars(Review(c)) /\ WF_vars(Finish(c))

-----------------------------------------------------------------------------
(* Properties.                                                             *)

\* Every variable has its type, and a request is counted (controller.ts
\* 90-93).
TypeOK ==
  /\ stage \in [Command -> {"new", "awaiting", "starting", "preparing",
                         "asking", "working", "done"}]
  /\ signal \in [Command -> Command \cup {None}]
  /\ active \in Command \cup {None}
  /\ slot \in Command \cup {None} /\ busy \in Command \cup {None}
  /\ aborted \subseteq Command /\ interrupted \subseteq Command
  /\ asked \in [Command -> Nat] /\ \A c \in Command : asked[c] <= Asks[c]
  /\ left \in BOOLEAN /\ overlapped \in BOOLEAN

\* As long as no two commands have overlapped, a command at work is the
\* active one, so that Ctrl+C reaches it (controller.ts 84, 109, 228;
\* screen.tsx 33-35).
ActiveIsAtWork == ~overlapped => \A c \in AtWork : active = c

\* Ctrl+C aborts the signal under which a task runs (docs/specs/TUI_SPEC.md
\* 356): refuted, when commands overlap (controller.ts 84, 221, 228).
RunningTaskIsCancellable ==
  \A c \in AtWork : signal[c] # None => active = signal[c]

\* As long as no two commands have overlapped, who waits for an answer is on
\* the screen (controller.ts 90-93).
AskerIsShown ==
  ~overlapped => \A c \in Command : stage[c] = "asking" => slot = c

\* As long as no two commands have overlapped, no request of a command that the
\* user has interrupted is shown (controller.ts 84, 87, 91).
InterruptedAskNothing == ~overlapped => slot \notin interrupted

\* As long as no two commands have overlapped, the session is not left while a
\* command that has become active goes on (start.tsx 19, controller.ts 74, 81,
\* screen.tsx 35).
NothingAtWorkIsLeft == ~overlapped /\ left => AtWork = {}

\* Commands that do not overlap are in order: cancellation reaches the one at
\* work, its request is shown, nothing asks after an interruption, and no work
\* is left behind (controller.ts 81-109, 228; screen.tsx 33-35).
Orderly ==
  ActiveIsAtWork /\ AskerIsShown /\ InterruptedAskNothing /\ NothingAtWorkIsLeft

\* A Y never goes to a request that is over: the one on the screen is always
\* waited for (controller.ts 85, 92, 228).
ShownIsWaitedFor == slot # None => stage[slot] = "asking"

\* The composer has one command under way at most: two tasks never share the
\* session, and commands overlap only with one from the palette (screen.tsx 40).
OneComposedCommand ==
  /\ \A c, d \in Unfinished \ Palette : c = d
  /\ overlapped => \E c \in Palette : stage[c] # "new"

\* What the user interrupts ends, or is left behind, even if nobody answers
\* another request, unless commands overlap (controller.ts 84, 92, 228).
CancelEnds ==
  \A c \in Command :
    (c \in interrupted) ~> (stage[c] = "done" \/ left \/ overlapped)
=============================================================================

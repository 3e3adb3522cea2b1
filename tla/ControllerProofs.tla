-------------------------- MODULE ControllerProofs --------------------------
(***************************************************************************)
(* What holds of the commands of a session for every set of commands: the  *)
(* request on the screen is waited for, the composer has one command under *)
(* way, and as long as no two commands have overlapped, cancellation       *)
(* reaches the command at work and every request is shown.                 *)
(***************************************************************************)
EXTENDS Controller, TLAPS

\* The composer waits for each of its commands that is not finished.
ComposedIsAwaited == \A c \in Unfinished \ Palette : busy = c

\* A command on its way to a request has one left.
AsksAreCounted ==
  \A c \in Command :
    /\ stage[c] \in {"new", "awaiting"} => asked[c] = 0
    /\ stage[c] = "preparing" => asked[c] < Asks[c]

\* As long as no two commands have overlapped, an unfinished one is alone.
Alone == ~overlapped => \A c, d \in Unfinished : c = d

Inv ==
  /\ TypeOK /\ ShownIsWaitedFor /\ ComposedIsAwaited /\ AsksAreCounted /\ Alone
  /\ overlapped => \E c \in Palette : stage[c] # "new"

\* An unfinished command that is alone takes the active controller and the
\* slot from nobody.
Reached ==
  /\ \A c \in AtWork : active = c
  /\ \A c \in Command : stage[c] = "asking" => slot = c
  /\ left => AtWork = {}
  /\ interrupted \subseteq aborted
  /\ slot \notin aborted
  /\ \A c \in aborted : stage[c] \notin {"new", "awaiting"}
  /\ active # None => active \in AtWork

-----------------------------------------------------------------------------
LEMMA InvInit == Init => Inv
<1> SUFFICES ASSUME Init PROVE Inv
  OBVIOUS
<1> USE CommandAssumption, NoneAssumption DEF Init
<1>1. TypeOK
  <2>1. asked \in [Command -> Nat] /\ \A c \in Command : asked[c] <= Asks[c]
    OBVIOUS
  <2>2. signal \in [Command -> Command \cup {None}]
    OBVIOUS
  <2>3. stage \in [Command -> {"new", "awaiting", "starting", "preparing",
                              "asking", "working", "done"}]
    OBVIOUS
  <2> QED
    BY <2>1, <2>2, <2>3 DEF TypeOK
<1>2. ShownIsWaitedFor /\ AsksAreCounted
  BY DEF ShownIsWaitedFor, AsksAreCounted
<1>3. ComposedIsAwaited /\ Alone /\ ~overlapped
  BY DEF ComposedIsAwaited, Unfinished, Alone
<1> QED
  BY <1>1, <1>2, <1>3 DEF Inv

\* Every step keeps the types, the owner of the slot and of the composer.
LEMMA InvNext == Inv /\ [Next]_vars => Inv'
<1> SUFFICES ASSUME Inv, [Next]_vars PROVE Inv'
  OBVIOUS
<1> USE CommandAssumption, NoneAssumption
    DEF Inv, TypeOK, ShownIsWaitedFor, ComposedIsAwaited, AsksAreCounted,
        Unfinished, Alone, history
<1>1. ASSUME NEW c \in Command, Compose(c) PROVE Inv'
  <2>1. /\ c \notin Palette /\ busy = None /\ slot = None
        /\ stage[c] = "new" /\ busy' = c
        /\ UNCHANGED <<signal, aborted, slot, asked, left, interrupted>>
        /\ overlapped' = (overlapped \/ Unfinished # {})
    BY <1>1 DEF Compose, Begin
  <2>2. /\ \E s \in {"preparing", "working", "awaiting"} :
              stage' = [stage EXCEPT ![c] = s]
        /\ active' \in {active, c}
        /\ stage'[c] = "preparing" => Kind[c] = "prompt"
    BY <1>1 DEF Compose, Begin
  <2>3. TypeOK' /\ ShownIsWaitedFor'
    BY <2>1, <2>2
  <2>4. AsksAreCounted'
    BY <2>1, <2>2
  <2>5. Alone'
    <3>1. ~overlapped' => \A d \in Command : d \notin Unfinished
      BY <2>1
    <3>2. \A d \in Command \ {c} : stage'[d] = stage[d]
      BY <2>2
    <3> QED
      BY <3>1, <3>2
  <2>6. Unfinished \subseteq Palette
    BY <2>1
  <2>7. /\ ComposedIsAwaited'
        /\ overlapped' => \E d \in Palette : stage'[d] # "new"
    BY <2>1, <2>2, <2>6
  <2> QED
    BY <2>3, <2>4, <2>5, <2>7
<1>2. ASSUME NEW c \in Command, Choose(c) PROVE Inv'
  <2>1. /\ c \in Palette /\ slot = None /\ stage[c] = "new"
        /\ UNCHANGED <<signal, aborted, slot, busy, asked, left, interrupted>>
        /\ overlapped' = (overlapped \/ Unfinished # {})
    BY <1>2 DEF Choose, Begin
  <2>2. /\ \E s \in {"preparing", "working", "awaiting"} :
              stage' = [stage EXCEPT ![c] = s]
        /\ active' \in {active, c}
        /\ stage'[c] = "preparing" => Kind[c] = "prompt"
    BY <1>2 DEF Choose, Begin
  <2>3. TypeOK' /\ ShownIsWaitedFor'
    BY <2>1, <2>2
  <2>4. AsksAreCounted'
    BY <2>1, <2>2
  <2>5. Alone'
    <3>1. ~overlapped' => \A d \in Command : d \notin Unfinished
      BY <2>1
    <3>2. \A d \in Command \ {c} : stage'[d] = stage[d]
      BY <2>2
    <3> QED
      BY <3>1, <3>2
  <2>6. ComposedIsAwaited' /\ stage'[c] # "new"
    BY <2>1, <2>2
  <2> QED
    BY <2>1, <2>3, <2>4, <2>5, <2>6
<1>3. ASSUME NEW c \in Command, StartTask(c) PROVE Inv'
  BY <1>3 DEF StartTask
<1>4. ASSUME NEW c \in Command, RunTask(c) PROVE Inv'
  BY <1>4 DEF RunTask
<1>5. ASSUME NEW c \in Command, Prepare(c) PROVE Inv'
  BY <1>5 DEF Prepare
<1>6. ASSUME NEW c \in Command, Review(c) PROVE Inv'
  BY <1>6 DEF Review, Request
<1>7. ASSUME NEW c \in Command, Ask(c) PROVE Inv'
  BY <1>7 DEF Ask, Request
<1>8. ASSUME NEW c \in Command, AskInVain(c) PROVE Inv'
  BY <1>8 DEF AskInVain
<1>9. ASSUME NEW c \in Command, Finish(c) PROVE Inv'
  <2>1. CASE Kind[c] = "discovery"
    BY <1>9, <2>1 DEF Finish
  <2>2. CASE Kind[c] # "discovery"
    <3>1. /\ stage' = [Resumed(stage) EXCEPT ![c] = "done"]
          /\ slot' = None /\ active' = None
          /\ UNCHANGED <<signal, aborted, asked, left, interrupted, overlapped>>
          /\ busy' = IF busy = c THEN None ELSE busy
      BY <1>9, <2>2 DEF Finish
    <3>2. TypeOK'
      BY <3>1 DEF Resumed
    <3>3. ShownIsWaitedFor'
      BY <3>1
    <3>4. ComposedIsAwaited'
      BY <3>1 DEF Resumed
    <3>5. AsksAreCounted'
      BY <3>1 DEF Resumed
    <3>6. Alone' /\ (overlapped' => \E d \in Palette : stage'[d] # "new")
      BY <3>1 DEF Resumed
    <3> QED
      BY <3>2, <3>3, <3>4, <3>5, <3>6
  <2> QED
    BY <2>1, <2>2
<1>10. CASE Answer
  BY <1>10 DEF Answer, Resumed
<1>11. CASE Cancel
  BY <1>11 DEF Cancel, Resumed, AtWork
<1>12. CASE Leave
  BY <1>12 DEF Leave
<1>13. CASE UNCHANGED vars
  BY <1>13 DEF vars
<1> QED
  BY <1>1, <1>2, <1>3, <1>4, <1>5, <1>6, <1>7, <1>8, <1>9, <1>10, <1>11,
     <1>12, <1>13 DEF Next

THEOREM InvHolds == Spec => []Inv
<1> QED
  BY InvInit, InvNext, PTL DEF Spec

\* Every variable has its type and no command asks more often than it may
\* (controller.ts 90-93).
THEOREM TypesHold == Spec => []TypeOK
<1>1. Inv => TypeOK
  BY DEF Inv
<1> QED
  BY <1>1, InvHolds, PTL

\* Whatever the palette lets in, the request on the screen is waited for: a Y
\* never goes to a request that is over (controller.ts 85, 92, 228).
THEOREM ShownIsAlwaysWaitedFor == Spec => []ShownIsWaitedFor
<1>1. Inv => ShownIsWaitedFor
  BY DEF Inv
<1> QED
  BY <1>1, InvHolds, PTL

\* Whatever the palette lets in, the composer has one command under way, and
\* so the session has one task (screen.tsx 40).
THEOREM OneComposedCommandHolds == Spec => []OneComposedCommand
<1>1. Inv => OneComposedCommand
  BY DEF Inv, ComposedIsAwaited, OneComposedCommand, Unfinished
<1> QED
  BY <1>1, InvHolds, PTL

-----------------------------------------------------------------------------
LEMMA ReachedInit == Init => Reached
  BY NoneAssumption DEF Init, Reached, AtWork, Unfinished

LEMMA ReachedNext ==
  ASSUME Inv, Reached, ~overlapped, ~overlapped', [Next]_vars
  PROVE  Reached'
<1> USE CommandAssumption, NoneAssumption
    DEF Reached, AtWork, Unfinished, Inv, Alone, TypeOK, history
<1>1. ASSUME NEW c \in Command, Compose(c) PROVE Reached'
  <2>1. /\ stage[c] = "new" /\ slot = None /\ ~left
        /\ UNCHANGED <<slot, aborted, left, interrupted>>
    BY <1>1 DEF Compose
  <2>2. \A d \in Command : d \notin Unfinished
    BY <1>1 DEF Compose, Begin
  <2> QED
    BY <1>1, <2>1, <2>2 DEF Compose, Begin
<1>2. ASSUME NEW c \in Command, Choose(c) PROVE Reached'
  <2>1. /\ stage[c] = "new" /\ slot = None /\ ~left
        /\ UNCHANGED <<slot, aborted, left, interrupted>>
    BY <1>2 DEF Choose
  <2>2. \A d \in Command : d \notin Unfinished
    BY <1>2 DEF Choose, Begin
  <2>3. /\ active = None
        /\ \A d \in Command \ {c} : stage'[d] = stage[d]
    BY <1>2, <2>2 DEF Choose, Begin
  <2>4. \/ active' = c /\ stage'[c] \in {"preparing", "working"}
        \/ active' = None /\ stage'[c] = "awaiting"
    BY <1>2, <2>3 DEF Choose, Begin
  <2> QED
    BY <2>1, <2>2, <2>3, <2>4
<1>3. ASSUME NEW c \in Command, StartTask(c) PROVE Reached'
  BY <1>3 DEF StartTask
<1>4. ASSUME NEW c \in Command, RunTask(c) PROVE Reached'
  BY <1>4 DEF RunTask
<1>5. ASSUME NEW c \in Command, Prepare(c) PROVE Reached'
  BY <1>5 DEF Prepare
<1>6. ASSUME NEW c \in Command, Review(c) PROVE Reached'
  BY <1>6 DEF Review, Request
<1>7. ASSUME NEW c \in Command, Ask(c) PROVE Reached'
  BY <1>7 DEF Ask, Request
<1>8. ASSUME NEW c \in Command, AskInVain(c) PROVE Reached'
  BY <1>8 DEF AskInVain
<1>9. ASSUME NEW c \in Command, Finish(c) PROVE Reached'
  <2>1. slot = None
    <3>1. c \in Unfinished /\ stage[c] # "asking"
      BY <1>9 DEF Finish
    <3> QED
      BY <3>1 DEF ShownIsWaitedFor
  <2>2. \A d \in Command : stage'[d] = IF d = c THEN "done" ELSE stage[d]
    BY <1>9, <2>1 DEF Finish, Resumed
  <2>3. /\ active' = None /\ slot' = None
        /\ ~left /\ UNCHANGED <<aborted, left, interrupted>>
    BY <1>9, <2>1 DEF Finish
  <2>4. \A d \in Unfinished : d = c
    BY <1>9 DEF Finish
  <2> QED
    BY <2>2, <2>3, <2>4
<1>10. CASE Answer
  <2>1. \A d \in Command :
          stage'[d] = IF d = slot THEN "working" ELSE stage[d]
    BY <1>10 DEF Answer, Resumed
  <2>2. slot' = None /\ UNCHANGED <<active, aborted, interrupted>>
        /\ ~left /\ UNCHANGED left
    BY <1>10 DEF Answer
  <2> QED
    BY <1>10, <2>1, <2>2 DEF ShownIsWaitedFor, Answer
<1>11. CASE Cancel
  <2>1. \A d \in Command :
          stage'[d] = IF d = slot THEN "working" ELSE stage[d]
    BY <1>11 DEF Cancel, Resumed
  <2>2. /\ slot' = None /\ ~left /\ UNCHANGED <<active, left>>
        /\ aborted' = aborted \cup ({active} \ {None})
        /\ interrupted' = interrupted \cup AtWork
    BY <1>11 DEF Cancel
  <2>3. AtWork' = AtWork
    BY <2>1 DEF ShownIsWaitedFor
  <2>4. interrupted' \subseteq aborted'
    BY <2>2
  <2> QED
    BY <2>1, <2>2, <2>3, <2>4 DEF ShownIsWaitedFor
<1>12. CASE Leave
  BY <1>12 DEF Leave, Running
<1>13. CASE UNCHANGED vars
  BY <1>13 DEF vars
<1> QED
  BY <1>1, <1>2, <1>3, <1>4, <1>5, <1>6, <1>7, <1>8, <1>9, <1>10, <1>11,
     <1>12, <1>13 DEF Next

THEOREM ReachedHolds == Spec => [](~overlapped => Reached)
<1>1. Init => (~overlapped => Reached)
  BY ReachedInit
<1>2. /\ Inv /\ (~overlapped => Reached) /\ [Next]_vars
      => (~overlapped => Reached)'
  <2>1. [Next]_vars /\ overlapped => overlapped'
    BY DEF Next, vars, history, Compose, Choose, Begin, StartTask, RunTask,
           Prepare, Review, Ask, AskInVain, Answer, Finish, Cancel, Leave
  <2> QED
    BY <2>1, ReachedNext
<1> QED
  BY <1>1, <1>2, InvHolds, PTL DEF Spec

\* As long as no two commands have overlapped, cancellation, requests and
\* leaving reach whatever is at work (controller.ts 81-109, 228).
THEOREM OrderlyHolds == Spec => []Orderly
<1>1. (~overlapped => Reached) => Orderly
  BY DEF Reached, Orderly, ActiveIsAtWork, AskerIsShown, InterruptedAskNothing,
         NothingAtWorkIsLeft
<1> QED
  BY <1>1, ReachedHolds, PTL
=============================================================================

--------------------------- MODULE PromptContext ---------------------------
(***************************************************************************)
(* What the model is sent: the messages of a task, their compaction when   *)
(* they outgrow the budget, and the results of earlier calls that can be   *)
(* read again (src/packages/agent/context.ts; the turn in loop.ts).        *)
(*                                                                         *)
(* Pure functions, checked over every short task.  A message is its role,  *)
(* its size and the calls it makes or answers; the checkpoint grows with   *)
(* the results it refers to.  The brackets of the JSON text are left out   *)
(* of the sizes.                                                           *)
(***************************************************************************)
EXTENDS Naturals, Sequences, FiniteSets

CONSTANTS
  Budgets,        \* the sizes of the context window that are tried
  MaxExchanges,   \* bound on the turns of a task
  FullBytes,      \* size of the first user message with its sources,
  TrimmedBytes    \* and without

ASSUME ContextAssumption ==
  /\ Budgets \subseteq Nat /\ MaxExchanges \in Nat
  /\ FullBytes \in Nat \ {0} /\ TrimmedBytes \in 1..FullBytes

-----------------------------------------------------------------------------
(* Messages and events *)

\* calls: those an assistant message makes, or the one a tool message answers
Message(role, bytes, ids) == [role |-> role, bytes |-> bytes, calls |-> ids]

Bytes(messages) ==
  LET sum[i \in 0..Len(messages)] ==
        IF i = 0 THEN 0 ELSE sum[i - 1] + messages[i].bytes
  IN  sum[Len(messages)]

\* What a sequence has at some of its places, in their order
Nth(places, k) == CHOOSE i \in places : Cardinality({j \in places : j <= i}) = k

Selected(s, places) == [k \in 1..Cardinality(places) |-> s[Nth(places, k)]]

Least(places) == CHOOSE i \in places : \A j \in places : i <= j

IsExchange(message) == message.role \in {"assistant", "tool"}
IsUser(message) == message.role = "user"
IsCheckpoint(message) == message.role = "checkpoint"

Started(task) == [type |-> "task.started", task |-> task]
ToolCompleted(id, value) ==
  [type |-> "tool.completed", call |-> id, result |-> value]

IsStarted(event) == event.type = "task.started"
IsCompleted(event) == event.type = "tool.completed"

\* taskEvents: from the start of the task to the start of the next
TaskEvents(events, task) ==
  LET first == CHOOSE i \in 1..Len(events) : events[i] = Started(task)
      later == {i \in first + 1..Len(events) : IsStarted(events[i])}
      last == IF later = {} THEN Len(events) ELSE Least(later) - 1
  IN  SubSeq(events, first, last)

\* readResultRange: the first result of the task under this call
ReadResult(events, task, call) ==
  LET current == TaskEvents(events, task)
      answers == {i \in 1..Len(current) :
                    IsCompleted(current[i]) /\ current[i].call = call}
  IN  IF answers = {} THEN "none" ELSE current[Least(answers)].result

-----------------------------------------------------------------------------
(* compactContext *)

Results(events, task) ==
  LET current == TaskEvents(events, task)
  IN  Selected(current, {i \in 1..Len(current) : IsCompleted(current[i])})

Checkpoint(events, task) ==
  LET results == Results(events, task)
  IN  Message("checkpoint", 1 + Len(results),
              [i \in 1..Len(results) |-> results[i].call])

\* The instructions, the task without its sources, whatever the user said
\* since, and a new checkpoint
Pinned(messages, events, task) ==
  <<messages[1], [messages[2] EXCEPT !.bytes = TrimmedBytes]>>
    \o Selected(messages, {i \in 3..Len(messages) : IsUser(messages[i])})
    \o <<Checkpoint(events, task)>>

\* A faulty variant: a group is cut between a call and its results.
AnyBoundary(messages) == 3..Len(messages) + 1

\* Where a group begins: an assistant message, with the results after it
GroupBoundary(messages) ==
  {i \in 3..Len(messages) : messages[i].role = "assistant"}
    \union {Len(messages) + 1}

\* The newest groups that fit are kept; it may be that not even the pinned
\* messages do.
KeptFrom(messages, i) ==
  Selected(messages, {j \in i..Len(messages) : IsExchange(messages[j])})

CompactContext(messages, budget, events, task) ==
  LET pinned == Pinned(messages, events, task)
      fitting == {i \in GroupBoundary(messages) :
                    Bytes(pinned \o KeptFrom(messages, i)) <= budget}
  IN  IF fitting = {} THEN <<>> ELSE pinned \o KeptFrom(messages, Least(fitting))

\* The head of a turn: what is sent, compacted if it must be
Prompt(messages, budget, events, task) ==
  LET compact == CompactContext(messages, budget, events, task)
  IN  IF Bytes(messages) > budget /\ compact # <<>> THEN compact ELSE messages

-----------------------------------------------------------------------------
(* A task: one exchange after another *)

\* A turn makes calls that are answered, and may be shown images; or it
\* concludes and is told what failed.
Exchanges ==
  {[calls |-> 0, bytes |-> 1, user |-> TRUE], [calls |-> 1, bytes |-> 1, user |-> FALSE],
   [calls |-> 1, bytes |-> 4, user |-> FALSE], [calls |-> 2, bytes |-> 1, user |-> FALSE],
   [calls |-> 2, bytes |-> 2, user |-> TRUE]}

Task == 2

\* An earlier task of the session used the same identities for its calls.
Opening ==
  [messages |-> <<Message("system", 1, <<>>), Message("initial", FullBytes, <<>>)>>,
   events   |-> <<Started(1), ToolCompleted(1, "earlier"), Started(Task)>>,
   limit    |-> FALSE]

\* One turn; the result of the n-th call of the task is n.
Exchanged(s, e, budget) ==
  LET n == Len(Results(s.events, Task))
      prompt == Prompt(s.messages, budget, s.events, Task)
      ids == [i \in 1..e.calls |-> n + i]
      answers == [i \in 1..e.calls |-> Message("tool", e.bytes, <<n + i>>)]
  IN  IF s.limit \/ Bytes(prompt) > budget THEN [s EXCEPT !.limit = TRUE]
      ELSE [s EXCEPT
             !.messages = prompt \o <<Message("assistant", 1, ids)>> \o answers
                            \o (IF e.user THEN <<Message("user", 1, <<>>)>> ELSE <<>>),
             !.events = @ \o [i \in 1..e.calls |-> ToolCompleted(n + i, n + i)]]

Played(exchanges, budget) ==
  LET state[i \in 0..Len(exchanges)] ==
        IF i = 0 THEN Opening ELSE Exchanged(state[i - 1], exchanges[i], budget)
  IN  state[Len(exchanges)]

-----------------------------------------------------------------------------
(* Properties *)

\* Every call is followed by its answers, in order, and no answer stands alone.
CallsAreAnswered(prompt) ==
  \A i \in 1..Len(prompt) :
    /\ prompt[i].role = "assistant" =>
         LET n == Len(prompt[i].calls)
         IN  i + n <= Len(prompt) /\ \A k \in 1..n :
               prompt[i + k].role = "tool" /\ prompt[i + k].calls = <<prompt[i].calls[k]>>
    /\ prompt[i].role = "tool" =>
         \E j \in 1..i - 1 : prompt[j].role = "assistant" /\ i - j <= Len(prompt[j].calls)

\* Every result of the task is in the prompt, or in its only checkpoint, from
\* which the very result can be read again.
ResultsAreReachable(prompt, events) ==
  /\ \A i, j \in 1..Len(prompt) :
       IsCheckpoint(prompt[i]) /\ IsCheckpoint(prompt[j]) => i = j
  /\ \A n \in 1..Len(Results(events, Task)) :
       \E i \in 1..Len(prompt) :
         \/ prompt[i].role = "tool" /\ prompt[i].calls = <<n>>
         \/ /\ IsCheckpoint(prompt[i])
            /\ \E k \in 1..Len(prompt[i].calls) : prompt[i].calls[k] = n
            /\ ReadResult(events, Task, n) = n

\* An older exchange is never kept when a newer one is left out.
NewestAreKept(prompt, events) ==
  LET kept == {prompt[i].calls[1] : i \in {j \in 1..Len(prompt) : prompt[j].role = "tool"}}
  IN  \A n \in kept : n..Len(Results(events, Task)) \subseteq kept

\* What the prompt of a turn keeps
KeepsAll(prompt, events, shown) ==
  /\ Cardinality({i \in 1..Len(prompt) : IsUser(prompt[i])}) = shown
  /\ CallsAreAnswered(prompt)
  /\ ResultsAreReachable(prompt, events)
  /\ NewestAreKept(prompt, events)

\* However often a task is compacted, what the model is sent fits, keeps every
\* word of the user, never separates a call from its result, drops the oldest
\* exchanges first and can lead back to every result (context.ts,
\* compactContext and readResultRange; loop.ts, the head of a turn).
CompactionLosesNothing ==
  \A budget \in Budgets : \A n \in 0..MaxExchanges :
    \A exchanges \in [1..n -> Exchanges] :
      \A s \in {Played(exchanges, budget)} :
        LET prompt == Prompt(s.messages, budget, s.events, Task)
        IN  s.limit \/ Bytes(prompt) > budget \/
              KeepsAll(prompt, s.events, Cardinality({i \in 1..n : exchanges[i].user}))
=============================================================================

---------------------------- MODULE ProviderTurn ----------------------------
(***************************************************************************)
(* One response of the model: from the records on the wire, through the    *)
(* transport (src/packages/providers/sse.ts, transport.ts) and the adapter *)
(* of the provider's protocol (openai.ts, anthropic.ts, compatible.ts), to *)
(* the tool calls that are handed to the loop (types.ts, collectTurn).     *)
(*                                                                         *)
(* These are pure functions of the stream, checked against a description   *)
(* of the response over every stream with one fault: a record lost,        *)
(* repeated, swapped or foreign, or the stream stopped anywhere.  Each     *)
(* stage stops at the first error, as the generators do, one record at a   *)
(* time.  Text, usage, sizes and the arguments' schema are left out; the   *)
(* arguments of a call are a document that arrives in two pieces.          *)
(***************************************************************************)
EXTENDS Naturals, Sequences, FiniteSets

CONSTANTS
  CallId,      \* the identities a provider may give to a tool call
  ToolName,    \* the names of tools it may use
  Tools,       \* those the request offered
  MaxCalls     \* the bound on the calls of one response (types.ts: 32)

ASSUME ProviderAssumption == Tools \subseteq ToolName /\ MaxCalls \in Nat

Protocol == {"openai", "anthropic", "compatible"}
Reason == {"stop", "length", "content_filter"}
Document == <<1, 2>>
None == "none"

\* Nothing a provider says is mistaken for a missing or a contradicted value.
ASSUME WordAssumption == {None, "conflict"} \intersect (CallId \union ToolName) = {}

-----------------------------------------------------------------------------
(* Records *)

Open(i, id, name) == [kind |-> "open", index |-> i, id |-> id, name |-> name]
Piece(i, n) == [kind |-> "piece", index |-> i, piece |-> n]
Close(i) == [kind |-> "close", index |-> i]
FinishReason(word) == [kind |-> "finish", reason |-> word]
Completed(word) == [kind |-> "completed", reason |-> word]
Error(category) == [kind |-> "error", category |-> category]
Signal(kind) == [kind |-> kind]

\* Fold step over a sequence
Through(step(_, _), start, items) ==
  LET state[i \in 0..Len(items)] ==
        IF i = 0 THEN start ELSE step(state[i - 1], items[i])
  IN  state[Len(items)]

-----------------------------------------------------------------------------
(* sse.ts and transport.ts *)

Endings == [how : {"closed", "cut", "broken"}, signals : SUBSET {"user", "clock"}]

\* The catch of streamJSON: the user's signal, the time limit, a stream that
\* ends within a record, and any other failure of the connection.
StreamError(ending) ==
  IF "user" \in ending.signals THEN "cancelled"
  ELSE IF "clock" \in ending.signals THEN "timeout"
  ELSE IF ending.how = "cut" THEN "malformed_response"
  ELSE "connection"

\* What the adapter reads: the records, and the error that ended them.  A
\* stream that is closed after a whole record just ends.  A record that is not
\* JSON, or that reports an error of the provider, is an Error already.
Transport(stream) ==
  IF stream.ending.how = "closed" THEN stream.records
  ELSE Append(stream.records, Error(StreamError(stream.ending)))

-----------------------------------------------------------------------------
(* The adapters: events are yielded until the response is completed or fails *)

Reading == [events |-> <<>>, over |-> FALSE, started |-> FALSE, blocks |-> {},
            finish |-> None]

Yield(s, event) == [s EXCEPT !.events = Append(@, event)]
Stop(s, event) == [Yield(s, event) EXCEPT !.over = TRUE]
Malformed(s) == Stop(s, Error("malformed_response"))

OpenAI(s, r) ==
  CASE r.kind \in {"open", "piece"} -> Yield(s, r)
    [] r.kind = "refusal"    -> Stop(s, Error("safety_refusal"))
    [] r.kind = "incomplete" -> Stop(s, Error("context_limit"))
    [] r.kind = "failed"     -> Stop(s, Error("unknown_provider_error"))
    [] r.kind = "end"        -> Stop(s, Completed("stop"))
    [] r.kind = "done"       -> Malformed(s)
    [] OTHER                 -> s

Anthropic(s, r) ==
  CASE r.kind = "start"  -> IF s.started THEN Malformed(s) ELSE [s EXCEPT !.started = TRUE]
    [] r.kind = "open"   -> IF r.index \in s.blocks THEN Malformed(s)
                            ELSE [Yield(s, r) EXCEPT !.blocks = @ \union {r.index}]
    [] r.kind = "piece"  -> IF r.index \in s.blocks THEN Yield(s, r) ELSE Malformed(s)
    [] r.kind = "close"  -> IF r.index \in s.blocks
                            THEN [s EXCEPT !.blocks = @ \ {r.index}] ELSE Malformed(s)
    [] r.kind = "finish" -> [s EXCEPT !.finish = r.reason]
    [] r.kind = "end"    -> IF s.started /\ s.blocks = {} /\ s.finish # None
                            THEN Stop(s, Completed(s.finish)) ELSE Malformed(s)
    [] r.kind = "done"   -> Malformed(s)
    [] OTHER             -> s

Compatible(s, r) ==
  CASE r.kind \in {"open", "piece"} -> Yield(s, r)
    [] r.kind = "refusal" -> Stop(s, Error("safety_refusal"))
    [] r.kind = "finish"  -> [s EXCEPT !.finish = r.reason]
    [] r.kind = "done"    -> IF s.finish = None THEN Malformed(s)
                             ELSE Stop(s, Completed(s.finish))
    [] OTHER              -> Malformed(s)

Adapter(protocol, s, r) ==
  IF s.over THEN s
  ELSE IF r.kind = "error" THEN Stop(s, r)
  ELSE CASE protocol = "openai"     -> OpenAI(s, r)
         [] protocol = "anthropic"  -> Anthropic(s, r)
         [] protocol = "compatible" -> Compatible(s, r)

\* A stream that ends before the response is completed is malformed.
Adapted(protocol, items) ==
  LET Step(s, r) == Adapter(protocol, s, r)
      last == Through(Step, Reading, items)
  IN  IF last.over THEN last.events ELSE Malformed(last).events

-----------------------------------------------------------------------------
(* collectTurn *)

NoCall == [id |-> None, name |-> None, arguments |-> <<>>]

Collecting == [order |-> <<>>, calls |-> <<>>, finish |-> None, category |-> None]

Fail(c, category) == [c EXCEPT !.category = category]

\* A faulty variant: a second identity for the same call replaces the first.
MergedLast(call, event) ==
  IF event.kind = "piece" THEN [call EXCEPT !.arguments = Append(@, event.piece)]
  ELSE [call EXCEPT !.id = event.id, !.name = event.name]

\* The call after a delta; its identity and name may come once or repeatedly.
Merged(call, event) ==
  CASE event.kind = "piece" -> [call EXCEPT !.arguments = Append(@, event.piece)]
    [] OTHER                -> [call EXCEPT
         !.id   = IF @ \in {None, event.id} THEN event.id ELSE "conflict",
         !.name = IF @ \in {None, event.name} THEN event.name ELSE "conflict"]

\* calls is a Map from the index, in the order of insertion.
Delta(c, event) ==
  LET i == event.index
      known == \E n \in 1..Len(c.order) : c.order[n] = i
      call == Merged(IF known THEN c.calls[i] ELSE NoCall, event)
  IN  IF \/ ~known /\ Len(c.order) >= MaxCalls
         \/ "conflict" \in {call.id, call.name}
      THEN Fail(c, "malformed_response")
      ELSE [c EXCEPT !.order = IF known THEN @ ELSE Append(@, i),
                     !.calls = [j \in DOMAIN @ \union {i} |->
                                  IF j = i THEN call ELSE @[j]]]

Collect(c, event) ==
  IF c.category # None THEN c
  ELSE IF event.kind = "error" THEN Fail(c, event.category)
  ELSE IF c.finish # None THEN Fail(c, "malformed_response")
  ELSE IF event.kind = "completed" THEN [c EXCEPT !.finish = event.reason]
  ELSE Delta(c, event)

\* The checks after the last event
Concluded(c) ==
  LET Calls == {c.calls[i] : i \in DOMAIN c.calls}
  IN  IF c.category # None THEN c.category
      ELSE IF c.finish = "length" THEN "context_limit"
      ELSE IF c.finish = "content_filter" THEN "safety_refusal"
      ELSE IF \/ c.finish = None
              \/ \E call \in Calls : call.id = None
                   \/ call.name \notin Tools \/ call.arguments # Document
              \/ \E i, j \in DOMAIN c.calls :
                   i # j /\ c.calls[i].id = c.calls[j].id
           THEN "malformed_response"
      ELSE "ok"

\* The result of a turn: its category and the calls handed to the loop
Turned(protocol, stream) ==
  LET c == Through(Collect, Collecting, Adapted(protocol, Transport(stream)))
  IN  [category |-> Concluded(c),
       calls    |-> IF Concluded(c) # "ok" THEN <<>>
                    ELSE [n \in 1..Len(c.order) |-> c.calls[c.order[n]]]]

-----------------------------------------------------------------------------
(* The streams: what a provider may want to say, as its protocol puts it, *)
(* with at most one fault                                                 *)

Responses ==
  LET Calls == [id : CallId, name : ToolName]
  IN  [calls  : UNION {[1..n -> Calls] : n \in 0..MaxCalls + 1},
       reason : Reason]

\* The records of the n-th call
CallRecords(protocol, call, n) ==
  <<Open(n, call.id, call.name), Piece(n, 1), Piece(n, 2)>>
    \o (IF protocol = "anthropic" THEN <<Close(n)>> ELSE <<>>)

Ended(protocol, reason) ==
  IF protocol = "anthropic" THEN <<FinishReason(reason), Signal("end")>>
  ELSE IF protocol = "compatible" THEN <<FinishReason(reason), Signal("done")>>
  ELSE CASE reason = "stop"   -> <<Signal("end"), Signal("done")>>
         [] reason = "length" -> <<Signal("incomplete")>>
         [] OTHER             -> <<Signal("refusal")>>

Wire(protocol, response) ==
  LET body[n \in 0..Len(response.calls)] ==
        IF n = 0 THEN IF protocol = "anthropic" THEN <<Signal("start")>> ELSE <<>>
        ELSE body[n - 1] \o CallRecords(protocol, response.calls[n], n)
  IN  body[Len(response.calls)] \o Ended(protocol, response.reason)

Before(s, i) == SubSeq(s, 1, i - 1)
From(s, i) == SubSeq(s, i, Len(s))

Strays(protocol) ==
  {Open(1, id, name) : id \in CallId, name \in ToolName}
    \union {Signal(kind) : kind \in {"start", "failed", "refusal", "end", "done"}}
    \union {FinishReason("stop"), Close(1)}
    \union {Error("malformed_response"), Error("rate_limit")}

\* One record is lost, repeated, swapped with the next, or does not belong.
Faulty(protocol, s) ==
  {Before(s, i) \o From(s, i + 1) : i \in 1..Len(s)}
    \union {Before(s, i) \o <<s[i]>> \o From(s, i) : i \in 1..Len(s)}
    \union {Before(s, i) \o <<s[i + 1], s[i]>> \o From(s, i + 2) : i \in 1..Len(s) - 1}
    \union {Before(s, i) \o <<r>> \o From(s, i) : i \in 1..Len(s) + 1, r \in Strays(protocol)}

AtEnd == [how |-> "closed", signals |-> {}]

\* A stream with a faulty record, or one that stops before any record
Streams(protocol, response) ==
  LET s == Wire(protocol, response)
  IN  [records : Faulty(protocol, s), ending : {AtEnd}]
        \union [records : {Before(s, i) : i \in 1..Len(s) + 1}, ending : Endings]

-----------------------------------------------------------------------------
(* Properties *)

\* The records of a stream up to the one that ends the response
Heard(protocol, s) ==
  LET last == IF protocol = "compatible" THEN "done" ELSE "end"
      ends == {i \in 1..Len(s) : s[i].kind = last}
  IN  IF ends = {} THEN <<>>
      ELSE Before(s, 1 + CHOOSE i \in ends : \A j \in ends : i <= j)

\* A call is whole if it was announced under one identity and all of its
\* arguments came, in order and once.
IsWhole(call, index, heard) ==
  /\ call.name \in Tools
  /\ \E i \in 1..Len(heard) : heard[i] = Open(index, call.id, call.name)
  /\ \A i \in 1..Len(heard) : heard[i].kind = "open" /\ heard[i].index = index
       => heard[i].id = call.id /\ heard[i].name = call.name
  /\ \E i, j \in 1..Len(heard) :
       /\ i < j /\ heard[i] = Piece(index, 1) /\ heard[j] = Piece(index, 2)
       /\ \A k \in 1..Len(heard) :
            heard[k].kind = "piece" /\ heard[k].index = index => k \in {i, j}

\* Whatever is lost, repeated, swapped, foreign or cut off, tool calls reach
\* the loop only from a response the provider ended, neither truncated nor
\* refused, and then exactly those it announced, whole and told apart
\* (types.ts, collectTurn; the adapters; sse.ts).
HandsOverWholeCalls(protocol, stream) ==
  LET turn == Turned(protocol, stream)
      heard == Heard(protocol, stream.records)
      Opened == {heard[i].index : i \in {j \in 1..Len(heard) : heard[j].kind = "open"}}
  IN  turn.category = "ok" =>
        /\ heard # <<>>
        /\ protocol # "openai" => FinishReason("stop") \in {heard[i] : i \in 1..Len(heard)}
        /\ Len(turn.calls) = Cardinality(Opened) /\ Len(turn.calls) <= MaxCalls
        /\ Cardinality({turn.calls[n].id : n \in 1..Len(turn.calls)}) = Len(turn.calls)
        /\ \A index \in Opened : \E n \in 1..Len(turn.calls) :
             IsWhole(turn.calls[n], index, heard)

\* A response that arrives in full is handed over in full.
Acceptable(response) ==
  LET said == response.calls
  IN  /\ response.reason = "stop" /\ Len(said) <= MaxCalls
      /\ \A n \in 1..Len(said) : said[n].name \in Tools
      /\ \A n, m \in 1..Len(said) : said[n].id = said[m].id => n = m

HandsOverAllCalls(protocol, response) ==
  LET turn == Turned(protocol, [records |-> Wire(protocol, response), ending |-> AtEnd])
      Named(call) == [id |-> call.id, name |-> call.name]
  IN  /\ turn.category = "ok" <=> Acceptable(response)
      /\ turn.category = "ok" =>
           [n \in 1..Len(turn.calls) |-> Named(turn.calls[n])] = response.calls

\* Tool calls are handed over whole or not at all, for every protocol and every
\* stream with one fault, and all of them if there is none (types.ts,
\* collectTurn; the adapters; sse.ts and transport.ts).
OnlyWholeTurns ==
  \A protocol \in Protocol, response \in Responses :
    /\ HandsOverAllCalls(protocol, response)
    /\ Len(response.calls) <= MaxCalls =>
         \A stream \in Streams(protocol, response) : HandsOverWholeCalls(protocol, stream)
=============================================================================

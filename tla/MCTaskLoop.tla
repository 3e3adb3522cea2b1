----------------------------- MODULE MCTaskLoop -----------------------------
(* Instances of TaskLoop for TLC, together with what a turn is made of:    *)
(* what it sends (PromptContext) and what it gets back (ProviderTurn).     *)
EXTENDS TaskLoop, PromptContext, ProviderTurn

CONSTANTS tests, lint

\* A required check before an advisory one
TestsFirst == <<tests, lint>>

\* While the loop works off tool calls, they are the whole calls of a response
\* that the provider ended, whatever happened to its stream (loop.ts 105-111,
\* collectTurn and the adapters).
CallsAreWhole == batch > 0 => OnlyWholeTurns

\* Whenever a turn begins, what the model is sent fits, belongs together and leads
\* back to every result, however often it was compacted (loop.ts 100-104,
\* compactContext).
PromptsAreCoherent == phase = "model" /\ batch = 0 => CompactionLosesNothing
=============================================================================

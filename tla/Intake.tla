------------------------------- MODULE Intake -------------------------------
(***************************************************************************)
(* What a task is given to work with, before it owns the worktree: the     *)
(* inventory of the Rails application (src/packages/rails/discovery.ts),   *)
(* the routes that the Ruby parser reads in it (probe.ts), the files that  *)
(* the task nominates (routing.ts) and the checks that will judge it       *)
(* (src/packages/verification/selection.ts).                               *)
(*                                                                         *)
(* The user edits the worktree between any two of these steps.  Contents   *)
(* are versions; which words of the task match which path is a constant.   *)
(* There is one Rails root, the root of the repository.                    *)
(***************************************************************************)
EXTENDS Naturals, FiniteSets, Sequences

CONSTANTS
  Order,        \* the paths, sorted
  Kind,         \* "application", "routes", "source", "test", "helper", "config"
  Explicit,     \* paths that the task names
  Subject,      \* paths with a word of the task
  Version,      \* contents of a file
  Declaring,    \* contents of the routes file that declare the task's subject
  Configuring,  \* contents of .mavona.yml that configure a verifier
  MaxInventory, \* files an inventory holds
  MaxContext,   \* files a task is given
  MaxNarrow     \* test files a focused check is given

File == {Order[i] : i \in DOMAIN Order}
Content == Version \union {"absent"}

ASSUME OrderAssumption ==
  /\ Order \in Seq(File)
  /\ \A i, j \in DOMAIN Order : Order[i] = Order[j] => i = j

ASSUME LimitsAssumption == {MaxInventory, MaxContext, MaxNarrow} \subseteq Nat

OfKind(k) == {f \in File : Kind[f] = k}
Tests == OfKind("test")

VARIABLES
  content,   \* the worktree
  stage,     \* where the task is
  inventory, \* RepositoryInspection.files
  declares,  \* the parsed routes declare the task's subject
  context,   \* TaskRouting.contextPaths
  truncated, \* TaskRouting.contextTruncated
  nominated, \* nominated files of the inventory
  checks,    \* there is a required check
  criteria,  \* the files the checks depend on
  chosen     \* ... and their digests when the checks were chosen

intakeVars == <<inventory, declares, context, truncated, nominated, checks,
                criteria, chosen>>

\* No file at all
Nothing == [f \in File |-> "absent"]

Present == {f \in File : content[f] # "absent"}

IntakeTypeOK ==
  /\ content \in [File -> Content]
  /\ inventory \subseteq File /\ nominated \subseteq inventory
  /\ declares \in BOOLEAN /\ truncated \in BOOLEAN /\ checks \in BOOLEAN
  /\ context \in Seq(nominated) /\ Len(context) <= MaxContext
  /\ criteria \subseteq File /\ chosen \in [File -> Content]

IntakeInit ==
  /\ inventory = {} /\ declares = FALSE /\ context = <<>> /\ truncated = FALSE
  /\ nominated = {} /\ checks = FALSE /\ criteria = {} /\ chosen = Nothing

ForgetIntake ==
  /\ inventory' = {} /\ declares' = FALSE /\ context' = <<>> /\ truncated' = FALSE
  /\ nominated' = {} /\ checks' = FALSE /\ criteria' = {} /\ chosen' = Nothing

-----------------------------------------------------------------------------
(* inspectRepository *)

\* The walk stops at its bound; an incomplete inventory selects no root, and a tree
\* without an application has none: the task is refused before it is routed.
Inspect ==
  /\ stage = "inspect"
  /\ IF \/ Cardinality(Present) > MaxInventory
        \/ Present \intersect OfKind("application") = {}
     THEN stage' = "refused" /\ UNCHANGED inventory
     ELSE stage' = "inspected" /\ inventory' = Present
  /\ context' = <<>> /\ nominated' = {} /\ truncated' = FALSE
  /\ declares' = FALSE /\ checks' = FALSE /\ criteria' = {} /\ chosen' = Nothing
  /\ UNCHANGED content

\* invoke: the parser answers, answers with something else, or not at all: it is
\* missing, slow, cancelled, killed for its output or fails.
ProbeReply == {"answer", "other", "none"}

\* The parser is asked for its version first, then for the facts; both answers
\* must be exactly what was asked for.
IsParsed(availability, structure) ==
  availability = "answer" /\ structure = "answer"

\* parseRubyFiles reads the routes of the inventory again: a file that is gone
\* fails the task; without the facts no declaration is known.
ParseRoutes ==
  /\ stage = "inspected"
  /\ LET routes == inventory \intersect OfKind("routes") IN
       \/ /\ routes \subseteq Present
          /\ \E availability, structure \in ProbeReply :
               declares' = (/\ IsParsed(availability, structure)
                            /\ \E f \in routes : content[f] \in Declaring)
          /\ stage' = "parsed"
       \/ /\ ~ routes \subseteq Present
          /\ stage' = "refused"
          /\ UNCHANGED declares
  /\ UNCHANGED <<content, inventory, context, truncated, nominated, checks,
                 criteria, chosen>>

-----------------------------------------------------------------------------
(* routeTask *)

Rank(f) ==
  IF f \in Explicit THEN 0
  ELSE IF f \in Subject THEN 1
  ELSE IF Kind[f] = "routes" /\ declares THEN 2
  ELSE 3

Index(f) == CHOOSE i \in DOMAIN Order : Order[i] = f

\* A faulty variant: nominations are taken in the order of their paths.
BeforeByPath(f, g) == Index(f) < Index(g)

Before(f, g) ==
  Rank(f) < Rank(g) \/ (Rank(f) = Rank(g) /\ Index(f) < Index(g))

Evidenced == {f \in inventory : Rank(f) < 3}

\* Sorted: a nomination has its place after those that come before it.
Place(f) == Cardinality({g \in Evidenced : Before(g, f)}) + 1

Nominations == [n \in 1..Cardinality(Evidenced) |->
                  CHOOSE f \in Evidenced : Place(f) = n]

ContextPaths(nominations) ==
  SubSeq(nominations, 1, IF Len(nominations) < MaxContext THEN Len(nominations)
                                                          ELSE MaxContext)

\* A task whose words ask for everything is refused before any file is nominated,
\* one that nominates no file after.  The planning mode of the others is left out.
Route ==
  /\ stage = "parsed"
  /\ \/ /\ stage' = "refused"
        /\ UNCHANGED <<nominated, context, truncated>>
     \/ /\ nominated' = Evidenced
        /\ context' = ContextPaths(Nominations)
        /\ truncated' = (Len(Nominations) > Len(context'))
        /\ stage' = IF Evidenced = {} THEN "refused" ELSE "routed"
  /\ UNCHANGED <<content, inventory, declares, checks, criteria, chosen>>

-----------------------------------------------------------------------------
(* selectVerifiers, after the lease and the first fingerprint *)

\* What the checks run: a configured check and a broad one run every test file;
\* without configuration, few enough nominated test files are run alone.
Configured == \E f \in OfKind("config") : content[f] \in Configuring

Scope ==
  LET focused == nominated \intersect Tests
  IN  IF ~Configured /\ Cardinality(focused) \in 1..MaxNarrow
      THEN focused ELSE inventory \intersect Tests

\* ... and what they depend on.  The configuration is looked up by name, helpers
\* are those of the inventory.
Depends ==
  Scope \union (Present \intersect OfKind("config"))
        \union (inventory \intersect OfKind("helper"))

SelectionFails == ~ Depends \subseteq Present

\* The caller's checks name no files they depend on.
Select(given) ==
  /\ checks' = (given \/ Configured \/ inventory \intersect Tests # {})
  /\ criteria' = IF given \/ ~checks' THEN {} ELSE Depends
  /\ chosen' = [f \in File |-> IF f \in criteria' THEN content[f] ELSE "absent"]
  /\ UNCHANGED <<inventory, declares, context, truncated, nominated>>

-----------------------------------------------------------------------------
\* No file is left out of the context for one with weaker evidence: a path that the
\* task names before one that shares a word with it, that before a declared route;
\* and the task is told when a nominated file was left out (routeTask).
ContextIsRanked ==
  LET given == {context[i] : i \in DOMAIN context} IN
    /\ \A f \in given, g \in nominated \ given : Rank(f) <= Rank(g)
    /\ truncated <=> given # nominated

=============================================================================

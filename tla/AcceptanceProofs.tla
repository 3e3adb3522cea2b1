--------------------------- MODULE AcceptanceProofs ---------------------------
(***************************************************************************)
(* What holds of the acceptance criteria for every set of files, every     *)
(* configuration and any number of edits and tasks: the context of a task  *)
(* is ranked, the baseline is reviewed, and a verified task was judged on  *)
(* its baseline.                                                           *)
(***************************************************************************)
EXTENDS Acceptance, FiniteSetTheorems, FunctionTheorems, SequenceTheorems, TLAPS

-----------------------------------------------------------------------------
(* The nominations are the evidenced files, each once, by rank *)

LEMMA FilesAreFinite == IsFiniteSet(File) /\ DOMAIN Order = 1..Len(Order)
<1>1. DOMAIN Order = 1..Len(Order) /\ Len(Order) \in Nat
  BY OrderAssumption
<1>2. IsFiniteSet(1..Len(Order))
  BY <1>1, FS_Interval
<1>3. Order \in Surjection(1..Len(Order), File)
  BY <1>1, OrderAssumption DEF Surjection, File
<1> QED
  BY <1>1, <1>2, <1>3, FS_Surjection

LEMMA IndexIsUnique ==
  ASSUME NEW f \in File
  PROVE  /\ Index(f) \in 1..Len(Order) /\ Order[Index(f)] = f
         /\ \A i \in 1..Len(Order) : Order[i] = f => i = Index(f)
<1>1. \E i \in DOMAIN Order : Order[i] = f
  BY DEF File
<1>2. Index(f) \in DOMAIN Order /\ Order[Index(f)] = f
  BY <1>1 DEF Index
<1> QED
  BY <1>2, FilesAreFinite, OrderAssumption

LEMMA RankType == ASSUME NEW f PROVE Rank(f) \in 0..3
BY DEF Rank

\* Nominations come in one order.
LEMMA BeforeIsAnOrder ==
  ASSUME NEW f \in File, NEW g \in File
  PROVE  /\ Before(f, g) \in BOOLEAN
         /\ ~Before(f, f)
         /\ f = g \/ Before(f, g) \/ Before(g, f)
         /\ Before(f, g) => Rank(f) <= Rank(g)
         /\ \A h \in File : Before(f, g) /\ Before(g, h) => Before(f, h)
<1>1. /\ \A h \in File : Index(h) \in Nat /\ Rank(h) \in 0..3
      /\ Index(f) = Index(g) => f = g
  BY IndexIsUnique, RankType, FilesAreFinite
<1> QED
  BY <1>1 DEF Before

Earlier(f) == {g \in Evidenced : Before(g, f)}

\* Each evidenced file has a place of its own.
LEMMA PlaceIsUnique ==
  ASSUME inventory \subseteq File
  PROVE  /\ IsFiniteSet(Evidenced) /\ Evidenced \subseteq File
         /\ Cardinality(Evidenced) \in Nat
         /\ \A f \in Evidenced : Place(f) \in 1..Cardinality(Evidenced)
         /\ \A f, g \in Evidenced : Before(f, g) => Place(f) < Place(g)
         /\ \A f, g \in Evidenced : Place(f) = Place(g) => f = g
<1>1. Evidenced \subseteq File
  BY DEF Evidenced
<1>2. IsFiniteSet(Evidenced) /\ Cardinality(Evidenced) \in Nat
  BY <1>1, FilesAreFinite, FS_Subset, FS_CardinalityType
<1>3. \A f : /\ IsFiniteSet(Earlier(f)) /\ Cardinality(Earlier(f)) \in Nat
             /\ Place(f) = Cardinality(Earlier(f)) + 1
  <2> TAKE f
  <2>1. Earlier(f) \in SUBSET Evidenced
    BY DEF Earlier
  <2> QED
    BY <2>1, <1>2, FS_Subset, FS_CardinalityType DEF Place, Earlier
<1>4. ASSUME NEW f \in Evidenced PROVE Place(f) \in 1..Cardinality(Evidenced)
  <2>1. Earlier(f) \in SUBSET Evidenced /\ Earlier(f) # Evidenced
    BY <1>1, <1>4, BeforeIsAnOrder DEF Earlier
  <2>2. Cardinality(Earlier(f)) < Cardinality(Evidenced)
    BY <2>1, <1>2, <1>3, FS_Subset
  <2> QED
    BY <1>2, <1>3, <2>2
<1>5. ASSUME NEW f \in Evidenced, NEW g \in Evidenced, Before(f, g)
      PROVE  Place(f) < Place(g)
  <2>1. Earlier(f) \in SUBSET Earlier(g)
    BY <1>1, <1>5, BeforeIsAnOrder DEF Earlier
  <2>2. f \in Earlier(g) /\ f \notin Earlier(f)
    BY <1>1, <1>5, BeforeIsAnOrder DEF Earlier
  <2>3. Cardinality(Earlier(f)) < Cardinality(Earlier(g))
    BY <2>1, <2>2, <1>3, FS_Subset
  <2> QED
    BY <1>3, <2>3
<1>6. ASSUME NEW f \in Evidenced, NEW g \in Evidenced, Place(f) = Place(g)
      PROVE  f = g
  <2>1. ~(Place(f) < Place(g)) /\ ~(Place(g) < Place(f))
    BY <1>3, <1>6
  <2> QED
    BY <2>1, <1>1, <1>5, BeforeIsAnOrder
<1> QED
  BY <1>1, <1>2, <1>4, <1>5, <1>6

\* ... and every place has a file.
LEMMA PlacesAreTaken ==
  ASSUME inventory \subseteq File,
         NEW n \in 1..Cardinality(Evidenced)
  PROVE  \E f \in Evidenced : Place(f) = n
<1> DEFINE N == Cardinality(Evidenced)
           F == [f \in Evidenced |-> Place(f)]
<1>1. IsFiniteSet(1..N) /\ Cardinality(1..N) = N
  BY PlaceIsUnique, FS_Interval
<1>2. F \in Injection(Evidenced, 1..N)
  BY PlaceIsUnique DEF Injection, IsInjective
<1>3. F \in Surjection(Evidenced, 1..N)
  <2> HIDE DEF F
  <2> QED BY <1>1, <1>2, FS_Injection
<1>4. \E f \in Evidenced : F[f] = n
  <2> HIDE DEF F
  <2> QED BY <1>3 DEF Surjection
<1> QED
  BY <1>4

\* The nominations, as routeTask sorts them.
LEMMA NominationsAreRanked ==
  ASSUME inventory \subseteq File
  PROVE  /\ Nominations \in Seq(Evidenced)
         /\ Len(Nominations) = Cardinality(Evidenced)
         /\ \A f \in Evidenced : \E n \in 1..Len(Nominations) : Nominations[n] = f
         /\ \A i, j \in 1..Len(Nominations) :
              Nominations[i] = Nominations[j] => i = j
         /\ \A i, j \in 1..Len(Nominations) :
              i < j => Rank(Nominations[i]) <= Rank(Nominations[j])
<1> DEFINE N == Cardinality(Evidenced)
<1>1. N \in Nat
  BY PlaceIsUnique
<1>2. ASSUME NEW n \in 1..N
      PROVE  Nominations[n] \in Evidenced /\ Place(Nominations[n]) = n
  <2>1. Nominations[n] = CHOOSE f \in Evidenced : Place(f) = n
    BY DEF Nominations
  <2> QED
    BY <2>1, PlacesAreTaken
<1>3. Nominations \in Seq(Evidenced) /\ Len(Nominations) = N
  BY <1>1, <1>2 DEF Nominations
<1>4. ASSUME NEW f \in Evidenced
      PROVE  \E n \in 1..N : Nominations[n] = f
  <2>1. Place(f) \in 1..N
    BY PlaceIsUnique
  <2>2. Nominations[Place(f)] = f
    BY <2>1, <1>2, PlaceIsUnique
  <2> QED
    BY <2>1, <2>2
<1>5. ASSUME NEW i \in 1..N, NEW j \in 1..N, i < j
      PROVE  Rank(Nominations[i]) <= Rank(Nominations[j])
  <2> DEFINE f == Nominations[i]
             g == Nominations[j]
  <2>1. f \in Evidenced /\ g \in Evidenced /\ Place(f) = i /\ Place(g) = j
    BY <1>2
  <2>2. ~Before(g, f) /\ f # g
    <3> HIDE DEF f, g
    <3> QED BY <2>1, <1>1, <1>5, PlaceIsUnique
  <2> HIDE DEF f, g
  <2>3. Rank(f) <= Rank(g)
    BY <2>1, <2>2, PlaceIsUnique, BeforeIsAnOrder
  <2> QED
    BY <2>3 DEF f, g
<1> QED
  BY <1>2, <1>3, <1>4, <1>5

\* The first of them are the context: what is left out has no stronger evidence.
LEMMA TheFirstAreRanked ==
  ASSUME inventory \subseteq File,
         NEW paths, paths = ContextPaths(Nominations)
  PROVE  LET first == {paths[i] : i \in DOMAIN paths} IN
         /\ paths \in Seq(Evidenced) /\ Len(paths) <= MaxContext
         /\ \A f \in first, g \in Evidenced \ first : Rank(f) <= Rank(g)
         /\ Len(Nominations) > Len(paths) <=> first # Evidenced
<1> DEFINE N == Len(Nominations)
           m == IF N < MaxContext THEN N ELSE MaxContext
           first == {paths[i] : i \in DOMAIN paths}
<1>1. N \in Nat /\ m \in 0..N /\ m <= MaxContext /\ MaxContext \in Nat
  BY NominationsAreRanked, LimitsAssumption
<1>2. \A i \in 1..m : Nominations[i] \in Evidenced
  BY <1>1, NominationsAreRanked
<1>3. paths = SubSeq(Nominations, 1, m)
  BY DEF ContextPaths
<1> HIDE DEF m
<1>4. /\ paths \in Seq(Evidenced) /\ Len(paths) = m
      /\ \A i \in 1..m : paths[i] = Nominations[i]
  <2> DEFINE one == 1
  <2>1. one = 1 /\ one \in Int
    OBVIOUS
  <2> HIDE DEF one
  <2>2. paths = SubSeq(Nominations, one, m)
    BY <1>3, <2>1
  <2>3. /\ SubSeq(Nominations, one, m) \in Seq(Evidenced)
        /\ Len(SubSeq(Nominations, one, m)) = IF one <= m THEN m - one + 1 ELSE 0
        /\ \A i \in 1 .. m - one + 1 :
             SubSeq(Nominations, one, m)[i] = Nominations[one + i - 1]
    BY <1>1, <1>2, <2>1, SubSeqProperties
  <2> QED
    BY <1>1, <2>1, <2>2, <2>3
<1>5. DOMAIN paths = 1..m
  BY <1>4
<1>6. ASSUME NEW f \in first, NEW g \in Evidenced \ first
      PROVE  Rank(f) <= Rank(g)
  <2>1. PICK i \in 1..m : f = Nominations[i]
    BY <1>4, <1>5
  <2>2. PICK j \in 1..N : g = Nominations[j]
    BY NominationsAreRanked
  <2>3. ~(j <= m)
    BY <1>1, <1>4, <1>5, <2>2
  <2>4. i < j /\ i \in 1..N
    BY <1>1, <2>3
  <2> QED
    BY <2>1, <2>2, <2>4, NominationsAreRanked
<1>7. ASSUME N > m PROVE first # Evidenced
  <2>1. Nominations[N] \in Evidenced
    BY <1>1, <1>7, NominationsAreRanked
  <2>2. ASSUME NEW i \in 1..m PROVE paths[i] # Nominations[N]
    <3>1. i \in 1..N /\ N \in 1..N /\ i # N
      BY <1>1, <1>7
    <3> QED
      BY <3>1, <1>4, NominationsAreRanked
  <2>3. Nominations[N] \notin first
    BY <1>5, <2>2
  <2> QED
    BY <2>1, <2>3
<1>8. ASSUME ~(N > m) PROVE first = Evidenced
  <2>1. m = N
    BY <1>1, <1>8
  <2> QED
    BY <2>1, <1>4, <1>5, NominationsAreRanked
<1> QED
  BY <1>1, <1>4, <1>6, <1>7, <1>8

-----------------------------------------------------------------------------
(* The inductive invariant *)

\* Nothing is nominated before the task is routed.
NotRouted == {"idle", "inspect", "inspected", "parsed"}

Unrouted == stage \in NotRouted => context = <<>> /\ nominated = {} /\ ~truncated

Adopting == {"adopt start", "adopt verify", "adopt idle"}

\* What is about to become the baseline was approved.
Approved ==
  /\ stage \in {"adopt", "adopted"} => current \in accepted
  /\ stage \in {"list", "read", "capture"} /\ purpose \in Adopting =>
       adopting.after \in accepted

\* A purpose has its stages.
Staged ==
  /\ stage \in {"idle", "inspect", "inspected", "parsed", "refused", "routed",
                "select"} => purpose = "start"
  /\ stage = "asking" => purpose \in {"start", "verify"}
  /\ stage = "working" => purpose \in {"start", "adopt start"}
  /\ stage = "run" => purpose \in {"verify", "adopt verify", "after"}
  /\ stage = "capture" => purpose # "after"
  /\ stage \in {"adopt", "adopted", "appended"} => purpose \in Adopting

\* The fingerprint of a worktree that nobody edits while it is taken.
Taken(worktree) ==
  [f \in File |-> IF f \in Listed(worktree) THEN worktree[f] ELSE "unlisted"]

\* The files read so far are as they are in the worktree.
Reading ==
  /\ listed = Listed(content)
  /\ \A j \in 1..Len(Order) : j < at => snap[Order[j]] = Taken(content)[Order[j]]

Judged == Tests \union criteria

\* Criteria are those of a fingerprint.
Agrees(f, g) ==
  \A p \in Judged : f[p] = IF g[p] = "unlisted" THEN "absent" ELSE g[p]

\* The fingerprint of verification is taken, and the task goes on with it.
Verification ==
  \/ stage \in {"asking", "run"} /\ purpose = "verify"
  \/ purpose \in {"adopt verify", "after"}

\* With no edit since it began, the fingerprint is the worktree.
Undisturbed ==
  since = 0 =>
    /\ stage = "read" /\ purpose = "verify" => Reading
    /\ stage = "capture" /\ purpose = "verify" => snap = Taken(content)
    /\ Verification => verifying = Taken(content)
    /\ purpose = "after" => ranOn = content

\* After one edit, either it came after the checks, or the capture that follows them
\* sees the worktree on which they ran.
EditedOnce ==
  purpose = "after" /\ since = 1 =>
    \/ Taken(ranOn) = verifying
    \/ /\ ranOn = content
       /\ stage = "read" => Reading
       /\ stage = "run" => snap = Taken(content)

\* Where the criteria of the worktree in verification are: under review, being
\* adopted, adopted, on record.
Traced ==
  Verification =>
    Agrees(CASE stage = "asking" -> review.after
             [] purpose = "adopt verify" /\ stage \in {"list", "read", "capture"} ->
                  adopting.after
             [] stage \in {"adopt", "adopted"} -> current
             [] OTHER -> baseline,
           verifying)

Inv ==
  /\ TypeOK /\ since \in Nat
  /\ Unrouted /\ ContextIsRanked
  /\ Approved
  /\ Staged /\ Undisturbed /\ EditedOnce /\ Traced

-----------------------------------------------------------------------------
(* What the steps leave alone *)

LEMMA OrderLength ==
  /\ Len(Order) \in Nat /\ DOMAIN Order = 1..Len(Order)
  /\ \A i \in 1..Len(Order) : Order[i] \in File
BY OrderAssumption

LEMMA Blank ==
  /\ Nothing \in Criteria /\ Nothing \in Fingerprint
  /\ NoReview \in Review /\ FirstBaseline \in Criteria
BY InitialAssumption DEF Nothing, Criteria, Fingerprint, NoReview, Review,
   FirstBaseline, Content

LEMMA BlankWorktree == Nothing \in [File -> Content]
BY DEF Nothing, Content

\* A forgotten task has nothing nominated.
LEMMA Forgotten ==
  ASSUME ForgetIntake, content' \in [File -> Content]
  PROVE  IntakeTypeOK' /\ ContextIsRanked'
<1>1. /\ context' = <<>> /\ nominated' = {} /\ truncated' = FALSE
      /\ inventory' = {} /\ criteria' = {} /\ declares' = FALSE /\ checks' = FALSE
      /\ chosen' = Nothing
  BY DEF ForgetIntake
<1>2. context' \in Seq(nominated') /\ Len(context') = 0 /\ DOMAIN context' = {}
  BY <1>1
<1>3. Len(context') <= MaxContext
  BY <1>2, LimitsAssumption
<1> QED
  BY <1>1, <1>2, <1>3, BlankWorktree DEF IntakeTypeOK, ContextIsRanked

LEMMA IntakeKept ==
  ASSUME IntakeTypeOK, ContextIsRanked, UNCHANGED intakeVars,
         content' \in [File -> Content]
  PROVE  IntakeTypeOK' /\ ContextIsRanked'
<1>1. /\ inventory' = inventory /\ declares' = declares /\ context' = context
      /\ truncated' = truncated /\ nominated' = nominated
      /\ checks' = checks /\ criteria' = criteria /\ chosen' = chosen
  BY DEF intakeVars
<1>2. \A f : Rank(f)' = Rank(f)
  BY <1>1 DEF Rank
<1> QED
  BY <1>1, <1>2 DEF IntakeTypeOK, ContextIsRanked

\* A task that ended left nothing but its records.
LEMMA Returned ==
  ASSUME Inv, NEW outcome, Return(outcome),
         outcome \in {"none", "ended", "acceptance_changed", "verified", "unverified"},
         UNCHANGED logVars
  PROVE  Inv'
<1>1. /\ stage' = "idle" /\ purpose' = "start" /\ since' = 0
      /\ UNCHANGED content
      /\ context' = <<>> /\ nominated' = {} /\ truncated' = FALSE
  BY DEF Return, Forget, ForgetIntake
<1>2. IntakeTypeOK' /\ ContextIsRanked'
  BY <1>1, Forgotten DEF Return, Forget, Inv, TypeOK, IntakeTypeOK
<1>3. /\ at' = 1 /\ listed' = {} /\ snap' = Nothing /\ current' = Nothing
      /\ whole' = TRUE /\ given' = FALSE /\ passed' = FALSE
      /\ adopting' = NoReview /\ verifying' = Nothing /\ ranOn' = Nothing
      /\ status' = outcome /\ baseline' = baseline /\ review' = review
  BY DEF Return, Forget, logVars
<1>4. at' \in 1 .. Len(Order) + 1
  BY <1>3, OrderLength
<1>5. /\ listed' \subseteq File /\ snap' \in Fingerprint /\ current' \in Criteria
      /\ adopting' \in Review /\ verifying' \in Fingerprint /\ ranOn' \in Criteria
  BY <1>3, Blank
<1>6. {whole, given, passed}' \subseteq BOOLEAN
  BY <1>3
<1>7. baseline' \in Criteria \union {NoBaseline} /\ review' \in Review
  BY <1>3 DEF Inv, TypeOK
<1>8. TypeOK'
  BY <1>1, <1>2, <1>3, <1>4, <1>5, <1>6, <1>7 DEF TypeOK
<1>9. Unrouted' /\ Approved' /\ Staged'
  BY <1>1 DEF Unrouted, Approved, Staged, NotRouted, Adopting
<1>10. Undisturbed' /\ EditedOnce' /\ Traced'
  BY <1>1 DEF Undisturbed, EditedOnce, Traced, Verification
<1> QED
  BY <1>1, <1>2, <1>8, <1>9, <1>10 DEF Inv

-----------------------------------------------------------------------------
(* The invariant holds *)

LEMMA InitInv == Init => Inv
<1> SUFFICES ASSUME Init PROVE Inv
  OBVIOUS
<1>1. /\ context = <<>> /\ nominated = {} /\ truncated = FALSE
      /\ inventory = {} /\ criteria = {} /\ declares = FALSE /\ checks = FALSE
      /\ chosen = Nothing
      /\ stage = "idle" /\ purpose = "start" /\ since = 0
      /\ content = InitialContent
  BY DEF Init, IntakeInit
<1>2. context \in Seq(nominated) /\ Len(context) = 0 /\ DOMAIN context = {}
  BY <1>1
<1>3. Len(context) <= MaxContext
  BY <1>2, LimitsAssumption
<1>4. IntakeTypeOK /\ ContextIsRanked
  BY <1>1, <1>2, <1>3, InitialAssumption, BlankWorktree DEF IntakeTypeOK, ContextIsRanked
<1>5. /\ at = 1 /\ listed = {} /\ snap = Nothing /\ current = Nothing
      /\ whole = TRUE /\ given = FALSE /\ passed = FALSE
      /\ adopting = NoReview /\ verifying = Nothing /\ ranOn = Nothing
      /\ status = "none" /\ baseline \in {NoBaseline, FirstBaseline}
      /\ review = NoReview
  BY DEF Init
<1>6. TypeOK
  <2>1. at \in 1 .. Len(Order) + 1
    BY <1>5, OrderLength
  <2>2. /\ listed \subseteq File /\ snap \in Fingerprint /\ current \in Criteria
        /\ adopting \in Review /\ verifying \in Fingerprint /\ ranOn \in Criteria
    BY <1>5, Blank
  <2>3. {whole, given, passed} \subseteq BOOLEAN
    BY <1>5
  <2>4. baseline \in Criteria \union {NoBaseline} /\ review \in Review
    BY <1>5, Blank
  <2> QED
    BY <1>1, <1>4, <1>5, <2>1, <2>2, <2>3, <2>4 DEF TypeOK
<1> QED
  BY <1>1, <1>4, <1>6 DEF Inv, Unrouted, Approved, Staged, Undisturbed,
       EditedOnce, Traced, Verification, NotRouted, Adopting

-----------------------------------------------------------------------------
(* The task is prepared *)

LEMMA PrepareInv ==
  ASSUME Inv, Prepare
  PROVE  Inv'
<1>1. /\ UNCHANGED <<content, purpose, at, listed, snap, whole, current, given,
                     adopting, verifying, ranOn, passed, since, status>>
      /\ UNCHANGED <<baseline, review, accepted>>
  BY DEF Prepare, Inspect, ParseRoutes, Route, logVars, countVars
<1>2. /\ stage \in {"inspect", "inspected", "parsed"}
      /\ stage' \in {"inspected", "parsed", "refused", "routed"}
  BY DEF Prepare, Inspect, ParseRoutes, Route
<1>3. purpose = "start"
  BY <1>2 DEF Inv, Staged
<1>4. Approved' /\ Staged' /\ Undisturbed' /\ EditedOnce' /\ Traced' /\ since' \in Nat
  BY <1>1, <1>2, <1>3 DEF Inv, Approved, Staged, Undisturbed, EditedOnce, Traced,
       Verification, Adopting
<1>5. IntakeTypeOK' /\ Unrouted' /\ ContextIsRanked'
  <2>1. context = <<>> /\ nominated = {} /\ ~truncated /\ IntakeTypeOK
    BY <1>2 DEF Inv, Unrouted, NotRouted, TypeOK
  <2>2. CASE Inspect \/ ParseRoutes
    <3>1. context' = <<>> /\ nominated' = {} /\ ~truncated'
      <4>1. CASE Inspect
        BY <4>1 DEF Inspect
      <4>2. CASE ParseRoutes
        BY <2>1, <4>2 DEF ParseRoutes
      <4> QED
        BY <2>2, <4>1, <4>2
    <3>2. context' \in Seq(nominated') /\ Len(context') = 0 /\ DOMAIN context' = {}
      BY <3>1
    <3>3. Len(context') <= MaxContext
      BY <3>2, LimitsAssumption
    <3>4. truncated' = FALSE
      BY <2>1, <2>2 DEF Inspect, ParseRoutes, IntakeTypeOK
    <3>5. /\ inventory' \subseteq File /\ declares' \in BOOLEAN /\ checks' \in BOOLEAN
          /\ criteria' \subseteq File /\ chosen' \in [File -> Content]
      BY <2>1, <2>2, BlankWorktree DEF Inspect, ParseRoutes, IntakeTypeOK, Present
    <3>6. IntakeTypeOK'
      BY <1>1, <2>1, <3>1, <3>2, <3>3, <3>4, <3>5 DEF IntakeTypeOK
    <3> QED
      BY <3>1, <3>2, <3>6 DEF ContextIsRanked, Unrouted
  <2>3. CASE Route
    <3>1. UNCHANGED <<content, inventory, declares, checks, criteria, chosen>>
      BY <2>3 DEF Route
    <3>2. \A f : Rank(f)' = Rank(f)
      BY <3>1 DEF Rank
    <3>3. stage' \notin NotRouted
      BY <2>3 DEF Route, NotRouted
    <3>4. CASE context' = context /\ nominated' = nominated /\ truncated' = truncated
      BY <2>1, <3>1, <3>2, <3>3, <3>4 DEF IntakeTypeOK, ContextIsRanked, Unrouted, Inv
    <3>5. CASE /\ nominated' = Evidenced
               /\ context' = ContextPaths(Nominations)
               /\ truncated' = (Len(Nominations) > Len(context'))
      <4>1. inventory \subseteq File
        BY <2>1 DEF IntakeTypeOK
      <4> DEFINE first == {context'[i] : i \in DOMAIN context'}
      <4>2. /\ context' \in Seq(Evidenced) /\ Len(context') <= MaxContext
            /\ \A f \in first, g \in Evidenced \ first : Rank(f) <= Rank(g)
            /\ Len(Nominations) > Len(context') <=> first # Evidenced
        BY <3>5, <4>1, TheFirstAreRanked
      <4>3. ContextIsRanked'
        BY <3>2, <3>5, <4>2 DEF ContextIsRanked
      <4>4. Evidenced \subseteq inventory
        BY DEF Evidenced
      <4>5. truncated' \in BOOLEAN
        BY <3>5
      <4>6. IntakeTypeOK'
        BY <2>1, <3>1, <3>5, <4>2, <4>4, <4>5 DEF IntakeTypeOK
      <4> QED
        BY <3>3, <4>3, <4>6 DEF Unrouted
    <3> QED
      BY <2>3, <3>4, <3>5 DEF Route
  <2> QED
    BY <2>2, <2>3 DEF Prepare
<1>6. TypeOK'
  BY <1>1, <1>2, <1>5 DEF Inv, TypeOK
<1> QED
  BY <1>4, <1>5, <1>6 DEF Inv

-----------------------------------------------------------------------------
(* Steps that prepare nothing *)

\* What the task was given stays ranked while the worktree and the stage change.
LEMMA GivenStays ==
  ASSUME Inv, UNCHANGED intakeVars, content' \in [File -> Content],
         stage' \in NotRouted => stage \in NotRouted
  PROVE  IntakeTypeOK' /\ ContextIsRanked' /\ Unrouted'
<1>1. IntakeTypeOK /\ ContextIsRanked
  BY DEF Inv, TypeOK
<1>2. IntakeTypeOK' /\ ContextIsRanked'
  BY <1>1, IntakeKept
<1>3. context' = context /\ nominated' = nominated /\ truncated' = truncated
  BY DEF intakeVars
<1>4. Unrouted'
  BY <1>3 DEF Inv, Unrouted
<1> QED
  BY <1>2, <1>4

LEMMA ContentType == Inv => content \in [File -> Content]
BY DEF Inv, TypeOK, IntakeTypeOK

LEMMA EditInv ==
  ASSUME Inv, NEW f \in File, Edit(f)
  PROVE  Inv'
<1>1. /\ UNCHANGED <<stage, localVars, logVars, status>>
      /\ since' = IF stage = "idle" THEN since ELSE since + 1
      /\ content' \in [File -> Content]
  BY ContentType DEF Edit
<1>2. /\ UNCHANGED <<stage, purpose, at, listed, snap, whole, current, given,
                     adopting, verifying, ranOn, passed, baseline, review,
                     accepted, status, criteria>>
      /\ UNCHANGED intakeVars
  BY <1>1 DEF localVars, logVars, intakeVars
<1>3. IntakeTypeOK' /\ ContextIsRanked' /\ Unrouted'
  BY <1>1, <1>2, GivenStays
<1>4. TypeOK'
  BY <1>2, <1>3 DEF Inv, TypeOK
<1>5. since' \in Nat /\ (stage # "idle" => since' # 0 /\ (since' = 1 => since = 0))
  BY <1>1 DEF Inv
<1>6. Approved' /\ Staged'
  BY <1>2 DEF Inv, Approved, Staged
<1>7. stage = "idle" => purpose = "start"
  BY DEF Inv, Staged
<1>8. Undisturbed'
  BY <1>2, <1>5, <1>7 DEF Undisturbed, Verification
<1>9. purpose = "after" /\ since = 0 => Taken(ranOn) = verifying
  BY DEF Inv, Undisturbed, Verification
<1>10. EditedOnce'
  BY <1>2, <1>5, <1>7, <1>9 DEF EditedOnce
<1>11. Traced'
  BY <1>2 DEF Inv, Traced, Verification, Agrees, Judged
<1> QED
  BY <1>3, <1>4, <1>5, <1>6, <1>8, <1>10, <1>11 DEF Inv

LEMMA WorkInv ==
  ASSUME Inv, NEW f \in File, Work(f)
  PROVE  Inv'
<1>1. /\ stage = "working" /\ UNCHANGED intakeVars
      /\ content' \in [File -> Content]
      /\ UNCHANGED <<stage, purpose, at, listed, snap, whole, current, given,
                     adopting, verifying, ranOn, passed, since, baseline, review,
                     accepted, status>>
  BY ContentType DEF Work, localVars, logVars
<1>2. IntakeTypeOK' /\ ContextIsRanked' /\ Unrouted'
  BY <1>1, GivenStays
<1>3. TypeOK' /\ since' \in Nat
  BY <1>1, <1>2 DEF Inv, TypeOK
<1>4. Approved' /\ Staged'
  BY <1>1 DEF Inv, Approved, Staged
<1>5. purpose' \in {"start", "adopt start", "adopt idle"}
  BY <1>1 DEF Inv, Staged
<1>6. Undisturbed' /\ EditedOnce' /\ Traced'
  BY <1>5 DEF Undisturbed, EditedOnce, Traced, Verification
<1> QED
  BY <1>2, <1>3, <1>4, <1>6 DEF Inv

LEMMA StartTaskInv ==
  ASSUME Inv, NEW g \in BOOLEAN, StartTask(g)
  PROVE  Inv'
<1>1. /\ stage = "idle" /\ stage' = "inspect" /\ UNCHANGED <<content, intakeVars>>
      /\ UNCHANGED <<purpose, at, listed, snap, whole, current,
                     adopting, verifying, ranOn, passed, since, baseline, review,
                     accepted>>
      /\ given' = g /\ status' = "none"
  BY DEF StartTask, logVars
<1>2. IntakeTypeOK' /\ ContextIsRanked' /\ Unrouted'
  BY <1>1, ContentType, GivenStays DEF NotRouted
<1>3. TypeOK' /\ since' \in Nat
  BY <1>1, <1>2 DEF Inv, TypeOK
<1>4. Approved' /\ Staged'
  BY <1>1 DEF Inv, Approved, Staged
<1>5. purpose' = "start"
  BY <1>1 DEF Inv, Staged
<1>6. Undisturbed' /\ EditedOnce' /\ Traced'
  BY <1>5 DEF Undisturbed, EditedOnce, Traced, Verification
<1> QED
  BY <1>2, <1>3, <1>4, <1>6 DEF Inv

LEMMA TakeLeaseInv ==
  ASSUME Inv, TakeLease
  PROVE  Inv'
<1>1. /\ stage = "routed" /\ stage' = "list" /\ UNCHANGED <<content, intakeVars>>
      /\ purpose' = "start"
      /\ UNCHANGED <<at, listed, snap, whole, current, given, status,
                     adopting, verifying, ranOn, passed, since, baseline, review,
                     accepted>>
  BY DEF TakeLease, BeginCapture, logVars
<1>2. IntakeTypeOK' /\ ContextIsRanked' /\ Unrouted'
  BY <1>1, ContentType, GivenStays DEF NotRouted
<1>3. TypeOK' /\ since' \in Nat
  BY <1>1, <1>2 DEF Inv, TypeOK
<1>4. Approved' /\ Staged'
  BY <1>1 DEF Approved, Staged, Adopting
<1>5. Undisturbed' /\ EditedOnce' /\ Traced'
  BY <1>1 DEF Undisturbed, EditedOnce, Traced, Verification
<1> QED
  BY <1>2, <1>3, <1>4, <1>5 DEF Inv

LEMMA BeginVerificationInv ==
  ASSUME Inv, BeginVerification
  PROVE  Inv'
<1>1. /\ stage = "working" /\ stage' = "list" /\ UNCHANGED <<content, intakeVars>>
      /\ purpose' = "verify"
      /\ UNCHANGED <<at, listed, snap, whole, current, given, status,
                     adopting, verifying, ranOn, passed, since, baseline, review,
                     accepted>>
  BY DEF BeginVerification, BeginCapture, logVars
<1>2. IntakeTypeOK' /\ ContextIsRanked' /\ Unrouted'
  BY <1>1, ContentType, GivenStays DEF NotRouted
<1>3. TypeOK' /\ since' \in Nat
  BY <1>1, <1>2 DEF Inv, TypeOK
<1>4. Approved' /\ Staged'
  BY <1>1 DEF Approved, Staged, Adopting
<1>5. Undisturbed' /\ EditedOnce' /\ Traced'
  BY <1>1 DEF Undisturbed, EditedOnce, Traced, Verification
<1> QED
  BY <1>2, <1>3, <1>4, <1>5 DEF Inv

-----------------------------------------------------------------------------
(* The fingerprint *)

LEMMA Position ==
  ASSUME TypeOK
  PROVE  at \in 1 .. Len(Order) + 1 /\ Len(Order) \in Nat
         /\ (at <= Len(Order) => at \in 1..Len(Order) /\ Order[at] \in File)
<1>1. at \in 1 .. Len(Order) + 1
  BY DEF TypeOK
<1> QED
  BY <1>1, OrderLength

LEMMA ReadOn ==
  ASSUME TypeOK, Reading, at <= Len(Order), at' = at + 1,
         snap' = [snap EXCEPT ![Order[at]] =
                    IF Order[at] \in listed THEN content[Order[at]] ELSE "unlisted"],
         UNCHANGED <<listed, content>>
  PROVE  Reading'
<1>1. at \in 1..Len(Order) /\ Order[at] \in File
  BY Position
<1>2. snap'[Order[at]] = Taken(content)[Order[at]]
  BY <1>1 DEF TypeOK, Reading, Taken, Fingerprint
<1>3. ASSUME NEW j \in 1..Len(Order), j < at'
      PROVE  snap'[Order[j]] = Taken(content)[Order[j]]
  <2>1. CASE j = at
    BY <2>1, <1>2
  <2>2. CASE j # at
    <3>1. j < at /\ Order[j] # Order[at] /\ Order[j] \in File
      BY <1>1, <1>3, <2>2, OrderLength, OrderAssumption
    <3>2. snap'[Order[j]] = snap[Order[j]]
      BY <1>1, <3>1 DEF TypeOK, Fingerprint
    <3> QED
      BY <3>1, <3>2 DEF Reading
  <2> QED
    BY <2>1, <2>2
<1>4. listed' = Listed(content)' /\ Taken(content)' = Taken(content)
  BY DEF Reading, Listed, Taken
<1> QED
  BY <1>3, <1>4 DEF Reading

LEMMA ReadThrough ==
  ASSUME TypeOK, Reading, ~(at <= Len(Order))
  PROVE  snap = Taken(content)
<1>1. \A j \in 1..Len(Order) : j < at
  BY Position
<1>2. \A f \in File : snap[f] = Taken(content)[f]
  <2> TAKE f \in File
  <2>1. PICK i \in 1..Len(Order) : Order[i] = f
    BY OrderLength DEF File
  <2> QED
    BY <1>1, <2>1 DEF Reading
<1>3. snap \in [File -> Content \union {"unlisted"}]
  BY DEF TypeOK, Fingerprint
<1> QED
  BY <1>2, <1>3 DEF Taken

LEMMA ListInv ==
  ASSUME Inv, List
  PROVE  Inv'
<1>1. /\ stage = "list" /\ stage' = "read" /\ UNCHANGED <<content, intakeVars>>
      /\ listed' = Listed(content) /\ snap' = Nothing /\ at' = 1
      /\ since' = IF purpose = "verify" THEN 0 ELSE since
      /\ UNCHANGED <<purpose, whole, current, given, status, adopting, verifying,
                     ranOn, passed, baseline, review, accepted, criteria>>
  BY DEF List, logVars, intakeVars
<1>2. IntakeTypeOK' /\ ContextIsRanked' /\ Unrouted'
  BY <1>1, ContentType, GivenStays DEF NotRouted
<1>3. at' \in 1 .. Len(Order) + 1 /\ listed' \subseteq File /\ snap' \in Fingerprint
  BY <1>1, OrderLength, Blank, GitAssumption DEF Listed
<1>4. TypeOK' /\ since' \in Nat
  BY <1>1, <1>2, <1>3 DEF Inv, TypeOK
<1>5. Approved' /\ Staged'
  BY <1>1 DEF Inv, Approved, Staged, Adopting
<1>6. Reading'
  BY <1>1, OrderLength DEF Reading, Listed
<1>7. Undisturbed'
  BY <1>1, <1>6 DEF Inv, Undisturbed, Verification
<1>8. EditedOnce'
  BY <1>1, <1>6 DEF Inv, EditedOnce
<1>9. Traced'
  BY <1>1 DEF Inv, Traced, Verification, Agrees, Judged
<1> QED
  BY <1>2, <1>4, <1>5, <1>7, <1>8, <1>9 DEF Inv

LEMMA ReadFileInv ==
  ASSUME Inv, ReadFile
  PROVE  Inv'
<1>1. /\ stage = "read" /\ stage' \in {"read", AfterCapture}
      /\ UNCHANGED <<content, intakeVars>>
      /\ UNCHANGED <<purpose, current, given, status, adopting, verifying, since,
                     ranOn, passed, baseline, review, accepted, criteria>>
  BY DEF ReadFile, logVars, intakeVars
<1>2. /\ purpose = "verify" => AfterCapture = "capture"
      /\ purpose = "after" => AfterCapture = "run"
      /\ purpose = "start" => AfterCapture = "select"
      /\ purpose \in Adopting => AfterCapture = "capture"
      /\ purpose \in {"start", "verify", "after"} \union Adopting
  BY DEF Inv, TypeOK, AfterCapture, Adopting
<1>3. IntakeTypeOK' /\ ContextIsRanked' /\ Unrouted'
  BY <1>1, <1>2, ContentType, GivenStays DEF NotRouted
<1>4. TypeOK /\ since \in Nat
  BY DEF Inv
<1>5. /\ at' \in 1 .. Len(Order) + 1 /\ listed' \subseteq File /\ snap' \in Fingerprint
      /\ whole' \in BOOLEAN
  <2>1. CASE at <= Len(Order)
    <3>1. at \in 1..Len(Order) /\ Order[at] \in File
      BY <1>4, <2>1, Position
    <3>2. snap' \in Fingerprint
      BY <1>4, <2>1, <3>1 DEF ReadFile, TypeOK, IntakeTypeOK, Fingerprint
    <3>3. at' = at + 1 /\ UNCHANGED <<whole, listed>>
      BY <2>1 DEF ReadFile
    <3>4. at' \in 1 .. Len(Order) + 1
      BY <3>1, <3>3, OrderLength
    <3>5. listed \subseteq File /\ whole \in BOOLEAN
      BY <1>4 DEF TypeOK
    <3> QED
      BY <3>2, <3>3, <3>4, <3>5
  <2>2. CASE ~(at <= Len(Order))
    <3>1. whole' \in BOOLEAN /\ listed' = {} /\ at' = 1 /\ snap' = snap
      BY <2>2 DEF ReadFile
    <3>2. snap \in Fingerprint
      BY <1>4 DEF TypeOK
    <3> QED
      BY <3>1, <3>2, OrderLength
  <2> QED
    BY <2>1, <2>2
<1>6. TypeOK' /\ since' \in Nat
  BY <1>1, <1>2, <1>3, <1>4, <1>5 DEF TypeOK
<1>7. Approved' /\ Staged'
  BY <1>1, <1>2 DEF Inv, Approved, Staged, Adopting
<1>8. Reading => IF stage' = "read" THEN Reading' ELSE snap' = Taken(content)'
  <2>1. CASE at <= Len(Order)
    BY <1>1, <1>4, <2>1, ReadOn DEF ReadFile
  <2>2. CASE ~(at <= Len(Order))
    BY <1>1, <1>2, <1>4, <2>2, ReadThrough DEF ReadFile
  <2> QED
    BY <2>1, <2>2
<1>9. Undisturbed'
  <2>1. since = 0 /\ purpose = "verify" => Reading
    BY <1>1 DEF Inv, Undisturbed
  <2> QED
    BY <1>1, <1>2, <1>8, <2>1 DEF Inv, Undisturbed, Verification, Adopting
<1>10. EditedOnce'
  BY <1>1, <1>2, <1>8 DEF Inv, EditedOnce
<1>11. Traced'
  BY <1>1, <1>2 DEF Inv, Traced, Verification, Agrees, Judged, Adopting
<1> QED
  BY <1>3, <1>6, <1>7, <1>9, <1>10, <1>11 DEF Inv

-----------------------------------------------------------------------------
(* The criteria *)

LEMMA ChooseChecksInv ==
  ASSUME Inv, ChooseChecks
  PROVE  Inv'
<1>1. CASE ~given /\ SelectionFails
  BY <1>1, Returned DEF ChooseChecks
<1>2. CASE ~(~given /\ SelectionFails)
  <2>1. /\ stage = "select" /\ stage' = "capture"
        /\ UNCHANGED <<content, purpose, at, listed, snap, whole, current, given,
                       adopting, verifying, ranOn, passed, since, status>>
        /\ UNCHANGED <<inventory, declares, context, truncated, nominated>>
        /\ UNCHANGED <<baseline, review, accepted>>
        /\ checks' = (given \/ Configured \/ inventory \intersect Tests # {})
        /\ criteria' = IF given \/ ~checks' THEN {} ELSE Depends
        /\ chosen' = [f \in File |-> IF f \in criteria' THEN content[f] ELSE "absent"]
    BY <1>2 DEF ChooseChecks, Select, logVars
  <2>2. purpose = "start"
    BY <2>1 DEF Inv, Staged
  <2>3. TypeOK /\ IntakeTypeOK /\ since \in Nat
    BY DEF Inv, TypeOK
  <2>4. criteria' \subseteq File
    BY <2>1, <2>3 DEF Depends, Scope, Tests, OfKind, Present, IntakeTypeOK
  <2>5. checks' \in BOOLEAN /\ chosen' \in [File -> Content]
    BY <2>1, <2>3 DEF TypeOK, IntakeTypeOK, Configured, Content
  <2>6. IntakeTypeOK'
    BY <2>1, <2>3, <2>4, <2>5 DEF IntakeTypeOK
  <2>7. TypeOK' /\ since' \in Nat
    BY <2>1, <2>3, <2>6 DEF TypeOK
  <2>8. ContextIsRanked' /\ Unrouted'
    BY <2>1 DEF Inv, ContextIsRanked, Rank, Unrouted, NotRouted
  <2>9. Approved' /\ Staged'
    BY <2>1, <2>2 DEF Approved, Staged, Adopting
  <2>10. Undisturbed' /\ EditedOnce' /\ Traced'
    BY <2>1, <2>2 DEF Undisturbed, EditedOnce, Traced, Verification
  <2> QED
    BY <2>7, <2>8, <2>9, <2>10 DEF Inv
<1> QED
  BY <1>1, <1>2

\* What is captured is the fingerprint, as far as the criteria go.
LEMMA CapturedType ==
  ASSUME TypeOK
  PROVE  /\ Captured \in Criteria /\ Prior \in Criteria /\ NewReview \in Review
         /\ purpose \in {"start", "verify"} => Agrees(Captured, snap)
<1>1. snap \in Fingerprint /\ baseline \in Criteria \union {NoBaseline}
  BY DEF TypeOK
<1>2. Captured \in Criteria
  BY <1>1 DEF Captured, Entry, Criteria, Fingerprint, Content
<1>3. Prior \in Criteria
  BY <1>1, Blank DEF Prior
<1>4. NewReview \in Review
  BY <1>1, <1>2, <1>3 DEF NewReview, Review
<1>5. ASSUME purpose \in {"start", "verify"} PROVE Agrees(Captured, snap)
  <2>1. Judged \subseteq File /\ Judged \subseteq AcceptancePaths
    BY <1>5 DEF TypeOK, IntakeTypeOK, Judged, AcceptancePaths, Tests, OfKind
  <2> QED
    BY <2>1 DEF Agrees, Captured, Entry
<1> QED
  BY <1>2, <1>3, <1>4, <1>5

LEMMA ReviewAcceptanceInv ==
  ASSUME Inv, ReviewAcceptance
  PROVE  Inv'
<1>1. CASE CaptureFails
  <2>1. Return("ended") /\ UNCHANGED logVars
    BY <1>1 DEF ReviewAcceptance, logVars
  <2> QED
    BY <2>1, Returned
<1>2. CASE ~CaptureFails
  <2>1. /\ stage = "capture" /\ purpose \in {"start", "verify"}
        /\ current' = Captured
        /\ verifying' = IF purpose = "verify" THEN snap ELSE verifying
        /\ UNCHANGED <<content, purpose, at, listed, snap, whole, given, adopting,
                       ranOn, passed, since, status, accepted, criteria>>
        /\ UNCHANGED intakeVars
    BY <1>2 DEF ReviewAcceptance, intakeVars
  <2>2. \/ /\ NeedsNoReview
           /\ baseline' = IF baseline = NoBaseline THEN Captured ELSE baseline
           /\ stage' = IF purpose = "start" THEN "working" ELSE "run"
           /\ review' = review
        \/ /\ review' = NewReview /\ stage' = "asking" /\ baseline' = baseline
    BY <1>2 DEF ReviewAcceptance
  <2>3. TypeOK /\ since \in Nat
    BY DEF Inv
  <2>4. IntakeTypeOK' /\ ContextIsRanked' /\ Unrouted'
    BY <2>1, <2>2, ContentType, GivenStays DEF NotRouted
  <2>5. /\ current' \in Criteria /\ verifying' \in Fingerprint /\ review' \in Review
        /\ baseline' \in Criteria \union {NoBaseline}
    BY <2>1, <2>2, <2>3, CapturedType DEF TypeOK
  <2>6. stage' \in {"working", "run", "asking"}
    BY <2>2
  <2>7. TypeOK' /\ since' \in Nat
    BY <2>1, <2>3, <2>4, <2>5, <2>6 DEF TypeOK
  <2>8. Approved' /\ Staged'
    BY <2>1, <2>2 DEF Approved, Staged, Adopting
  <2>9. purpose = "verify" /\ since = 0 => snap = Taken(content)
    BY <2>1 DEF Inv, Undisturbed
  <2>10. Undisturbed' /\ EditedOnce'
    BY <2>1, <2>6, <2>9 DEF Undisturbed, EditedOnce, Verification
  <2>11. Traced'
    <3> SUFFICES ASSUME purpose = "verify" PROVE Traced'
      BY <2>1 DEF Traced, Verification
    <3>1. Agrees(Captured, snap)
      BY <2>1, <2>3, CapturedType
    <3>2. Judged' = Judged /\ verifying' = snap
      BY <2>1 DEF Judged
    <3>3. CASE review' = NewReview /\ stage' = "asking"
      <4>1. review'.after = Captured
        BY <3>3 DEF NewReview
      <4> QED
        BY <3>1, <3>2, <3>3, <4>1 DEF Traced, Agrees
    <3>4. CASE stage' = "run" /\ baseline' = Captured
      BY <2>1, <3>1, <3>2, <3>4 DEF Traced, Agrees
    <3> QED
      BY <2>2, <3>3, <3>4 DEF NeedsNoReview
  <2> QED
    BY <2>4, <2>7, <2>8, <2>10, <2>11 DEF Inv
<1> QED
  BY <1>1, <1>2

-----------------------------------------------------------------------------
(* The adoption *)

LEMMA AdoptInv ==
  ASSUME Inv, Adopt
  PROVE  Inv'
<1>1. /\ stage = "asking" /\ stage' = "list"
      /\ accepted' = accepted \union {review.after} /\ adopting' = review
      /\ purpose' = IF purpose = "start" THEN "adopt start" ELSE "adopt verify"
      /\ UNCHANGED <<content, at, listed, snap, whole, current, given, verifying,
                     ranOn, passed, since, baseline, review, status, criteria>>
      /\ UNCHANGED intakeVars
  BY DEF Adopt, BeginCapture, intakeVars
<1>2. purpose \in {"start", "verify"}
  BY <1>1 DEF Inv, Staged
<1>3. IntakeTypeOK' /\ ContextIsRanked' /\ Unrouted'
  BY <1>1, ContentType, GivenStays DEF NotRouted
<1>4. TypeOK' /\ since' \in Nat
  BY <1>1, <1>3 DEF Inv, TypeOK
<1>5. Approved' /\ Staged'
  BY <1>1 DEF Approved, Staged, Adopting
<1>6. Undisturbed' /\ EditedOnce'
  BY <1>1, <1>2 DEF Inv, Undisturbed, EditedOnce, Verification
<1>7. Traced'
  BY <1>1, <1>2 DEF Inv, Traced, Verification, Agrees, Judged
<1> QED
  BY <1>3, <1>4, <1>5, <1>6, <1>7 DEF Inv

LEMMA AdoptRecordedInv ==
  ASSUME Inv, NEW r, AdoptRecorded(r)
  PROVE  Inv'
<1>1. /\ stage = "idle" /\ stage' = "list"
      /\ accepted' = accepted \union {review.after} /\ adopting' = review
      /\ purpose' = "adopt idle"
      /\ UNCHANGED <<content, at, listed, snap, whole, current, given, verifying,
                     ranOn, passed, since, baseline, review, status>>
      /\ UNCHANGED intakeVars
  BY DEF AdoptRecorded, BeginCapture, intakeVars
<1>2. IntakeTypeOK' /\ ContextIsRanked' /\ Unrouted'
  BY <1>1, ContentType, GivenStays DEF NotRouted
<1>3. TypeOK' /\ since' \in Nat
  BY <1>1, <1>2 DEF Inv, TypeOK
<1>4. Approved' /\ Staged'
  BY <1>1 DEF Approved, Staged, Adopting
<1>5. Undisturbed' /\ EditedOnce' /\ Traced'
  BY <1>1 DEF Undisturbed, EditedOnce, Traced, Verification
<1> QED
  BY <1>2, <1>3, <1>4, <1>5 DEF Inv

LEMMA CheckReviewInv ==
  ASSUME Inv, CheckReview
  PROVE  Inv'
<1>1. CASE ReviewIsStale
  <2>1. status \in {"none", "ended", "acceptance_changed", "verified", "unverified"}
    BY DEF Inv, TypeOK
  <2>2. Return(IF purpose = "adopt idle" THEN status ELSE "ended") /\ UNCHANGED logVars
    BY <1>1 DEF CheckReview
  <2> QED
    BY <2>1, <2>2, Returned
<1>2. CASE ~ReviewIsStale
  <2>1. /\ stage = "capture" /\ stage' = "adopt" /\ purpose \in Adopting
        /\ current' = Captured
        /\ UNCHANGED <<content, purpose, at, listed, snap, whole, given, adopting,
                       verifying, ranOn, passed, since, status, baseline, review,
                       accepted, criteria>>
        /\ UNCHANGED intakeVars
    BY <1>2 DEF CheckReview, Adopting, intakeVars, logVars
  <2>2. Captured = adopting.after
    BY <1>2 DEF ReviewIsStale
  <2>3. IntakeTypeOK' /\ ContextIsRanked' /\ Unrouted'
    BY <2>1, ContentType, GivenStays DEF NotRouted
  <2>4. current' \in Criteria
    BY <2>1, CapturedType DEF Inv
  <2>5. TypeOK' /\ since' \in Nat
    BY <2>1, <2>3, <2>4 DEF Inv, TypeOK
  <2>6. Approved'
    BY <2>1, <2>2 DEF Inv, Approved
  <2>7. Staged'
    BY <2>1 DEF Staged
  <2>8. Undisturbed' /\ EditedOnce'
    BY <2>1 DEF Inv, Undisturbed, EditedOnce, Verification, Adopting
  <2>9. Traced'
    BY <2>1, <2>2 DEF Inv, Traced, Verification, Agrees, Judged, Adopting
  <2> QED
    BY <2>3, <2>5, <2>6, <2>7, <2>8, <2>9 DEF Inv
<1> QED
  BY <1>1, <1>2

LEMMA RecordAdoptionInv ==
  ASSUME Inv, RecordAdoption
  PROVE  Inv'
<1>1. /\ stage = "adopt" /\ stage' = "adopted" /\ UNCHANGED intakeVars
      /\ UNCHANGED <<content, purpose, at, listed, snap, whole, current, given,
                     adopting, verifying, ranOn, passed, since, status, baseline,
                     review, accepted, criteria>>
  BY DEF RecordAdoption, localVars, intakeVars, logVars
<1>2. IntakeTypeOK' /\ ContextIsRanked' /\ Unrouted'
  BY <1>1, ContentType, GivenStays DEF NotRouted
<1>3. TypeOK' /\ since' \in Nat
  BY <1>1, <1>2 DEF Inv, TypeOK
<1>4. Approved' /\ Staged'
  BY <1>1 DEF Inv, Approved, Staged
<1>5. purpose \in Adopting
  BY <1>1 DEF Inv, Staged
<1>6. Undisturbed' /\ EditedOnce'
  BY <1>1, <1>5 DEF Inv, Undisturbed, EditedOnce, Verification, Adopting
<1>7. Traced'
  BY <1>1, <1>5 DEF Inv, Traced, Verification, Agrees, Judged, Adopting
<1> QED
  BY <1>2, <1>3, <1>4, <1>6, <1>7 DEF Inv

LEMMA RecordBaselineInv ==
  ASSUME Inv, RecordBaseline
  PROVE  Inv'
<1>1. /\ stage = "adopted" /\ stage' = "appended" /\ UNCHANGED intakeVars
      /\ baseline' = current
      /\ UNCHANGED <<content, purpose, at, listed, snap, whole, current, given,
                     adopting, verifying, ranOn, passed, since, status,
                     review, accepted, criteria>>
  BY DEF RecordBaseline, localVars, intakeVars
<1>2. IntakeTypeOK' /\ ContextIsRanked' /\ Unrouted'
  BY <1>1, ContentType, GivenStays DEF NotRouted
<1>3. TypeOK' /\ since' \in Nat
  BY <1>1, <1>2 DEF Inv, TypeOK
<1>4. Approved' /\ Staged'
  BY <1>1 DEF Inv, Approved, Staged
<1>5. purpose \in Adopting
  BY <1>1 DEF Inv, Staged
<1>6. Undisturbed' /\ EditedOnce'
  BY <1>1, <1>5 DEF Inv, Undisturbed, EditedOnce, Verification, Adopting
<1>7. Traced'
  BY <1>1, <1>5 DEF Inv, Traced, Verification, Agrees, Judged, Adopting
<1> QED
  BY <1>2, <1>3, <1>4, <1>6, <1>7 DEF Inv

LEMMA AdoptedInv ==
  ASSUME Inv, Adopted
  PROVE  Inv'
<1>1. CASE purpose = "adopt idle"
  <2>1. status \in {"none", "ended", "acceptance_changed", "verified", "unverified"}
    BY DEF Inv, TypeOK
  <2> QED
    BY <1>1, <2>1, Returned DEF Adopted
<1>2. CASE purpose # "adopt idle"
  <2>1. /\ stage = "appended" /\ UNCHANGED intakeVars
        /\ stage' = IF purpose = "adopt start" THEN "working" ELSE "run"
        /\ UNCHANGED <<content, purpose, at, listed, snap, whole, current, given,
                       adopting, verifying, ranOn, passed, since, status, baseline,
                       review, accepted, criteria>>
    BY <1>2 DEF Adopted, localVars, intakeVars, logVars
  <2>2. purpose \in {"adopt start", "adopt verify"}
    BY <1>2, <2>1 DEF Inv, Staged, Adopting
  <2>3. IntakeTypeOK' /\ ContextIsRanked' /\ Unrouted'
    BY <2>1, ContentType, GivenStays DEF NotRouted
  <2>4. TypeOK' /\ since' \in Nat
    BY <2>1, <2>3 DEF Inv, TypeOK
  <2>5. Approved' /\ Staged'
    BY <2>1, <2>2 DEF Approved, Staged
  <2>6. Undisturbed' /\ EditedOnce'
    BY <2>1, <2>2 DEF Inv, Undisturbed, EditedOnce, Verification
  <2>7. Traced'
    BY <2>1, <2>2 DEF Inv, Traced, Verification, Agrees, Judged
  <2> QED
    BY <2>3, <2>4, <2>5, <2>6, <2>7 DEF Inv
<1> QED
  BY <1>1, <1>2

-----------------------------------------------------------------------------
(* The checks *)

LEMMA RunChecksInv ==
  ASSUME Inv, RunChecks
  PROVE  Inv'
<1>1. CASE ~checks
  BY <1>1, Returned DEF RunChecks
<1>2. CASE checks
  <2>1. /\ stage = "run" /\ purpose # "after" /\ stage' = "list"
        /\ purpose' = "after" /\ ranOn' = content /\ passed' \in BOOLEAN
        /\ UNCHANGED <<content, at, listed, snap, whole, current, given, adopting,
                       verifying, since, status, baseline, review, accepted,
                       criteria>>
        /\ UNCHANGED intakeVars
    BY <1>2 DEF RunChecks, BeginCapture, intakeVars, logVars
  <2>2. purpose \in {"verify", "adopt verify"}
    BY <2>1 DEF Inv, Staged
  <2>3. IntakeTypeOK' /\ ContextIsRanked' /\ Unrouted'
    BY <2>1, ContentType, GivenStays DEF NotRouted
  <2>4. ranOn' \in Criteria
    BY <2>1, ContentType DEF Criteria
  <2>5. TypeOK' /\ since' \in Nat
    BY <2>1, <2>3, <2>4 DEF Inv, TypeOK
  <2>6. Approved' /\ Staged'
    BY <2>1 DEF Approved, Staged, Adopting
  <2>7. since = 0 => verifying = Taken(content)
    BY <2>1, <2>2 DEF Inv, Undisturbed, Verification
  <2>8. Undisturbed' /\ EditedOnce'
    BY <2>1, <2>7 DEF Undisturbed, EditedOnce
  <2>9. Traced'
    BY <2>1, <2>2 DEF Inv, Traced, Verification, Agrees, Judged
  <2> QED
    BY <2>3, <2>5, <2>6, <2>8, <2>9 DEF Inv
<1> QED
  BY <1>1, <1>2

\* A task that is called verified had a fresh fingerprint, which is what its checks
\* ran on unless the user edited the worktree twice.
LEMMA FreshIsWhatRan ==
  ASSUME Inv, Conclude, Fresh, since < 2
  PROVE  Taken(ranOn) = verifying
<1>1. stage = "run" /\ purpose = "after" /\ snap = verifying
  BY DEF Conclude, Fresh
<1>2. since = 0 \/ since = 1
  BY DEF Inv
<1>3. CASE since = 0
  BY <1>1, <1>3 DEF Inv, Undisturbed, Verification
<1>4. CASE since = 1
  BY <1>1, <1>4 DEF Inv, EditedOnce
<1> QED
  BY <1>2, <1>3, <1>4

LEMMA ReturningInv ==
  ASSUME Inv, Refused \/ Decline \/ Conclude \/ Kill
  PROVE  Inv'
BY Returned DEF Refused, Decline, Conclude, Kill

LEMMA StutterInv ==
  ASSUME Inv, UNCHANGED vars
  PROVE  Inv'
<1>1. /\ UNCHANGED <<content, stage, purpose, at, listed, snap, whole, current, given,
                     adopting, verifying, ranOn, passed, since, status, baseline,
                     review, accepted, criteria>>
      /\ UNCHANGED intakeVars
  BY DEF vars, localVars, intakeVars, logVars
<1>2. IntakeTypeOK' /\ ContextIsRanked' /\ Unrouted'
  BY <1>1, ContentType, GivenStays
<1>3. TypeOK' /\ since' \in Nat
  BY <1>1, <1>2 DEF Inv, TypeOK
<1>4. Approved' /\ Staged'
  BY <1>1 DEF Inv, Approved, Staged
<1>5. Undisturbed' /\ EditedOnce'
  BY <1>1 DEF Inv, Undisturbed, EditedOnce, Verification, Reading, Listed, Taken
<1>6. Traced'
  BY <1>1 DEF Inv, Traced, Verification, Agrees, Judged
<1> QED
  BY <1>2, <1>3, <1>4, <1>5, <1>6 DEF Inv

LEMMA NextInv == Inv /\ [Next]_vars => Inv'
<1> SUFFICES ASSUME Inv, [Next]_vars PROVE Inv'
  OBVIOUS
<1>1. CASE \E f \in File : Edit(f) \/ Work(f)
  BY <1>1, EditInv, WorkInv
<1>2. CASE \E g \in BOOLEAN : StartTask(g)
  BY <1>2, StartTaskInv
<1>3. CASE \E r \in reviews : AdoptRecorded(r)
  BY <1>3, AdoptRecordedInv
<1>4. CASE Prepare
  BY <1>4, PrepareInv
<1>5. CASE TakeLease \/ BeginVerification
  BY <1>5, TakeLeaseInv, BeginVerificationInv
<1>6. CASE List \/ ReadFile
  BY <1>6, ListInv, ReadFileInv
<1>7. CASE ChooseChecks \/ ReviewAcceptance
  BY <1>7, ChooseChecksInv, ReviewAcceptanceInv
<1>8. CASE Adopt \/ CheckReview \/ RecordAdoption \/ RecordBaseline \/ Adopted
  BY <1>8, AdoptInv, CheckReviewInv, RecordAdoptionInv, RecordBaselineInv, AdoptedInv
<1>9. CASE RunChecks
  BY <1>9, RunChecksInv
<1>10. CASE Refused \/ Decline \/ Conclude \/ Kill
  BY <1>10, ReturningInv
<1>11. CASE UNCHANGED vars
  BY <1>11, StutterInv
<1> QED
  BY <1>1, <1>2, <1>3, <1>4, <1>5, <1>6, <1>7, <1>8, <1>9, <1>10, <1>11 DEF Next

LEMMA Invariance == Spec => []Inv
<1> QED
  BY InitInv, NextInv, PTL DEF Spec

-----------------------------------------------------------------------------
(* Theorems *)

\* The inventory, the context and the criteria of a task are of its files, and its
\* records are fingerprints of them (runTask).
THEOREM AcceptanceTypes == Spec => []TypeOK
<1>1. Inv => TypeOK
  BY DEF Inv
<1> QED
  BY <1>1, Invariance, PTL

\* For every application and task: no file is left out of the context for one with
\* weaker evidence, and a truncated context says so (routeTask).
THEOREM ContextRanked == Spec => []ContextIsRanked
<1>1. Inv => ContextIsRanked
  BY DEF Inv
<1> QED
  BY <1>1, Invariance, PTL

\* However adoptions, edits and kills interleave, the baseline becomes only what the
\* user approved (adoptAcceptance, adoptRecordedAcceptance).
THEOREM BaselineReviewed == Spec => BaselineIsReviewed
<1>1. Inv /\ [Next]_vars => [baseline = NoBaseline \/ baseline' \in accepted]_baseline
  <2> SUFFICES ASSUME Inv, [Next]_vars, baseline' # baseline, baseline # NoBaseline
               PROVE  baseline' \in accepted
    OBVIOUS
  <2>1. CASE RecordBaseline
    BY <2>1 DEF RecordBaseline, Inv, Approved
  <2>2. CASE ReviewAcceptance
    BY <2>2 DEF ReviewAcceptance
  <2>3. CASE ~RecordBaseline /\ ~ReviewAcceptance
    <3>1. baseline' = baseline
      BY <2>3 DEF Next, vars, Edit, Work, StartTask, AdoptRecorded, Prepare, Refused,
         TakeLease, List, ReadFile, ChooseChecks, Adopt, Decline, CheckReview,
         RecordAdoption, Adopted, BeginVerification, RunChecks, Conclude, Kill, logVars
    <3> QED
      BY <3>1
  <2> QED
    BY <2>1, <2>2, <2>3
<1> QED
  BY <1>1, Invariance, PTL DEF Spec, BaselineIsReviewed

\* For every number of edits and tasks: a task is called verified only if its checks
\* ran on the criteria of the baseline, those that Git ignores excepted, unless the
\* user edited the worktree twice during verification (runTask, reviewAcceptance).
THEOREM VerifiedOnBaselineHolds == Spec => VerifiedOnBaseline
<1> DEFINE OnBaseline ==
      status' = "verified" /\ since < 2 => RanOnBaseline((Tests \union criteria) \ Ignored)
<1>1. Inv /\ [Next]_vars => [OnBaseline]_status
  <2> SUFFICES ASSUME Inv, [Next]_vars, status' # status, status' = "verified",
                      since < 2, NEW f \in Judged, f \notin Ignored
               PROVE  ranOn[f] = baseline[f]
    BY DEF Judged, RanOnBaseline
  <2>1. CASE Conclude
    <3>1. Fresh /\ purpose = "after" /\ stage = "run"
      BY <2>1 DEF Conclude, Return
    <3>2. Taken(ranOn) = verifying
      BY <2>1, <3>1, FreshIsWhatRan
    <3>3. Agrees(baseline, verifying)
      BY <3>1 DEF Inv, Traced, Verification
    <3>4. f \in File /\ ranOn[f] \in Content /\ "unlisted" \notin Content
      BY VersionAssumption DEF Content, Inv, TypeOK, IntakeTypeOK, Criteria, Judged, Tests, OfKind
    <3>5. verifying[f] = IF f \in Tracked \/ ranOn[f] # "absent" THEN ranOn[f]
                                                              ELSE "unlisted"
      BY <3>2, <3>4 DEF Taken, Listed
    <3>6. baseline[f] = IF verifying[f] = "unlisted" THEN "absent" ELSE verifying[f]
      BY <3>3 DEF Agrees
    <3> QED
      BY <3>4, <3>5, <3>6
  <2>2. CASE ~Conclude
    <3>1. status' \in {status, "none", "ended", "acceptance_changed", "unverified"}
      BY <2>2 DEF Next, vars, Edit, Work, StartTask, AdoptRecorded, Prepare, Refused,
         TakeLease, List, ReadFile, ChooseChecks, ReviewAcceptance, Adopt, Decline,
         CheckReview, RecordAdoption, RecordBaseline, Adopted, BeginVerification,
         RunChecks, Kill, Return
    <3> QED
      BY <3>1
  <2> QED
    BY <2>1, <2>2
<1> QED
  BY <1>1, Invariance, PTL DEF Spec, VerifiedOnBaseline

=============================================================================

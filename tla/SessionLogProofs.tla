-------------------------- MODULE SessionLogProofs --------------------------
(***************************************************************************)
(* What holds of a session directory for any number of processes, readers, *)
(* events, failures and copies: its log never has a gap or a line glued    *)
(* from two, nor outgrows its readers by the store's own writes, the       *)
(* memory and the projection of its owner are that log, readers see every  *)
(* event that was acknowledged, and no failure loses one of those.         *)
(***************************************************************************)
EXTENDS SessionLog, Integers, WellFoundedInduction, TLAPS

\* A set that has 0, and with every number below n the next one, has all up to n.
LEMMA UpTo ==
  ASSUME NEW n \in Nat, NEW T, 0 \in T,
         \A k \in 0..(n - 1) : k \in T => k + 1 \in T
  PROVE  0..n \subseteq T
<1> DEFINE missing == {k \in 0..n : k \notin T}
<1> SUFFICES ASSUME missing # {} PROVE FALSE
  OBVIOUS
<1>1. missing \in SUBSET Nat
  OBVIOUS
<1>2. PICK m \in missing : \A k \in missing : m <= k
  <2> HIDE DEF missing
  <2>1. PICK m \in missing : \A k \in missing : <<k, m>> \notin OpToRel(<, Nat)
    BY <1>1, NatLessThanWellFounded, WFMin
  <2>2. ASSUME NEW k \in missing PROVE m <= k
    <3>1. <<k, m>> \notin OpToRel(<, Nat)
      BY <2>1
    <3>2. ~(k < m)
      BY <1>1, <3>1 DEF OpToRel
    <3> QED
      BY <1>1, <3>2
  <2> QED
    BY <2>2
<1>3. m # 0 /\ m \in 0..n
  BY <1>2
<1>4. m - 1 \in 0..n /\ m - 1 \in 0..(n - 1) /\ m - 1 \notin missing
  BY <1>2, <1>3
<1>5. m - 1 + 1 = m /\ m - 1 + 1 \in T
  BY <1>3, <1>4
<1> QED
  BY <1>2, <1>5

-----------------------------------------------------------------------------
(* The events of a sequence of lines *)

\* Line n has an identity that an earlier line has.
Repeats(ls, n) == \E i \in 1..(n - 1) : ls[i].id = ls[n].id

EventsStep(ls, f, n) ==
  IF n = 0 THEN <<>>
  ELSE IF Repeats(ls, n) THEN f[n - 1] ELSE Append(f[n - 1], ls[n])

\* f computes the events of the first 0, 1, ..., n lines.
Computes(f, ls, n) == f = [k \in 0..n |-> EventsStep(ls, f, k)]

LEMMA ComputationExists ==
  ASSUME NEW ls, NEW n \in Nat
  PROVE  \E f : Computes(f, ls, n)
<1> DEFINE T == {k \in 0..n : \E f : Computes(f, ls, k)}
<1>1. 0 \in T
  <2> DEFINE f == [k \in 0..0 |-> <<>>]
  <2>1. f = [k \in 0..0 |-> EventsStep(ls, f, k)]
    BY DEF EventsStep
  <2> QED
    BY <2>1 DEF Computes
<1>2. ASSUME NEW m \in 0..(n - 1), m \in T PROVE m + 1 \in T
  <2>1. PICK f : Computes(f, ls, m)
    BY <1>2
  <2> DEFINE g == [k \in 0..(m + 1) |->
                     IF k = m + 1 THEN EventsStep(ls, f, k) ELSE f[k]]
  <2>2. ASSUME NEW k \in 0..(m + 1) PROVE g[k] = EventsStep(ls, g, k)
    <3>1. k # 0 => k - 1 \in 0..(m + 1) /\ k - 1 # m + 1
      BY <1>2
    <3>2. k # 0 => g[k - 1] = f[k - 1]
      BY <3>1
    <3>3. EventsStep(ls, g, k) = EventsStep(ls, f, k)
      BY <3>2 DEF EventsStep
    <3>4. k # m + 1 => k \in 0..m
      BY <1>2
    <3>5. k # m + 1 => f[k] = EventsStep(ls, f, k)
      BY <2>1, <3>4 DEF Computes
    <3> QED
      BY <3>3, <3>5
  <2>3. Computes(g, ls, m + 1)
    BY <2>2 DEF Computes
  <2> QED
    BY <1>2, <2>3
<1>3. 0..n \subseteq T
  <2> HIDE DEF T
  <2> QED
    BY <1>1, <1>2, UpTo
<1> QED
  BY <1>3

\* The definition of Events is such a computation.
LEMMA EventsComputed ==
  ASSUME NEW ls, Len(ls) \in Nat
  PROVE  \E f : Computes(f, ls, Len(ls)) /\ Events(ls) = f[Len(ls)]
<1> DEFINE f == CHOOSE g : Computes(g, ls, Len(ls))
<1>1. Computes(f, ls, Len(ls))
  <2>1. \E g : Computes(g, ls, Len(ls))
    BY ComputationExists
  <2> QED
    BY <2>1, Zenon
<1>2. Events(ls) = f[Len(ls)]
  BY Zenon DEF Events, Computes, EventsStep, Repeats
<1> HIDE DEF f
<1> QED
  BY <1>1, <1>2

SameUpTo(ls, ms, j) == \A i \in 1..j : ls[i] = ms[i]

\* Computations of sequences that begin with the same lines agree on those.
LEMMA ComputationsAgree ==
  ASSUME NEW ls, NEW ms, NEW j \in Nat, NEW n \in Nat, j <= n,
         SameUpTo(ls, ms, j),
         NEW f, Computes(f, ls, j), NEW g, Computes(g, ms, n)
  PROVE  f[j] = g[j]
<1> DEFINE T == {k \in 0..j : f[k] = g[k]}
<1>1. \A k \in 0..j : f[k] = EventsStep(ls, f, k) /\ g[k] = EventsStep(ms, g, k)
  <2>1. \A k \in 0..j : k \in 0..n
    OBVIOUS
  <2> QED
    BY <2>1 DEF Computes
<1>2. 0 \in T
  BY <1>1 DEF EventsStep
<1>3. ASSUME NEW k \in 0..(j - 1), k \in T PROVE k + 1 \in T
  <2>1. k + 1 \in 0..j /\ k + 1 # 0 /\ k + 1 - 1 = k
    BY <1>3
  <2>2. \A i \in 1..(k + 1) : ls[i] = ms[i]
    BY <2>1 DEF SameUpTo
  <2>3. Repeats(ls, k + 1) = Repeats(ms, k + 1)
    BY <2>1, <2>2 DEF Repeats
  <2>4. ls[k + 1] = ms[k + 1]
    BY <2>1, <2>2
  <2>5. EventsStep(ls, f, k + 1) = EventsStep(ms, g, k + 1)
    BY <1>3, <2>1, <2>3, <2>4 DEF EventsStep
  <2> QED
    BY <1>1, <2>1, <2>5
<1>4. 0..j \subseteq T
  <2> HIDE DEF T
  <2> QED
    BY <1>2, <1>3, UpTo
<1> QED
  BY <1>4

LEMMA EventsOfNothing == Events(<<>>) = <<>>
<1>1. Len(<<>>) = 0
  OBVIOUS
<1>2. PICK f : Computes(f, <<>>, 0) /\ Events(<<>>) = f[0]
  BY <1>1, EventsComputed
<1> QED
  BY <1>2 DEF Computes, EventsStep

\* A line appended to a log adds its event, unless its identity is known.
LEMMA EventsOfAppend ==
  ASSUME NEW S, NEW ls \in Seq(S), NEW e \in S
  PROVE  Events(Append(ls, e)) =
           IF \E i \in 1..Len(ls) : ls[i].id = e.id
             THEN Events(ls) ELSE Append(Events(ls), e)
<1> DEFINE n == Len(ls)
           ms == Append(ls, e)
<1>1. /\ n \in Nat /\ Len(ms) = n + 1 /\ ms[n + 1] = e
      /\ \A i \in 1..n : ms[i] = ls[i]
  OBVIOUS
<1>2. PICK f : Computes(f, ls, n) /\ Events(ls) = f[n]
  BY <1>1, EventsComputed
<1>3. PICK g : Computes(g, ms, n + 1) /\ Events(ms) = g[n + 1]
  <2> HIDE DEF ms
  <2>1. Len(ms) \in Nat
    BY <1>1
  <2> QED
    BY <1>1, <2>1, EventsComputed
<1>4. f[n] = g[n]
  <2> HIDE DEF ms, n
  <2>1. n <= n + 1 /\ n \in Nat /\ n + 1 \in Nat /\ SameUpTo(ls, ms, n)
    BY <1>1 DEF SameUpTo
  <2> QED
    BY <1>2, <1>3, <2>1, ComputationsAgree
<1>5. g[n + 1] = EventsStep(ms, g, n + 1) /\ n + 1 # 0 /\ n + 1 - 1 = n
  BY <1>1, <1>3 DEF Computes
<1>6. Repeats(ms, n + 1) <=> \E i \in 1..n : ls[i].id = e.id
  BY <1>1, <1>5 DEF Repeats
<1> HIDE DEF ms, n
<1> QED
  BY <1>1, <1>2, <1>3, <1>4, <1>5, <1>6 DEF EventsStep, n, ms

\* The first n lines, and the events they hold
First(ls, n) == SubSeq(ls, 1, n)
EventsUpTo(ls, n) == Events(First(ls, n))

LEMMA FirstLines ==
  ASSUME NEW S, NEW ls \in Seq(S), NEW n \in 0..Len(ls)
  PROVE  /\ First(ls, n) \in Seq(S) /\ Len(First(ls, n)) = n
         /\ \A i \in 1..n : First(ls, n)[i] = ls[i]
         /\ n < Len(ls) => First(ls, n + 1) = Append(First(ls, n), ls[n + 1])
BY DEF First

LEMMA FirstIsAll ==
  ASSUME NEW S, NEW ls \in Seq(S)
  PROVE  First(ls, Len(ls)) = ls /\ First(ls, 0) = <<>>
BY DEF First

LEMMA FirstOfFirst ==
  ASSUME NEW S, NEW ls \in Seq(S), NEW n \in 0..Len(ls), NEW m \in 0..n
  PROVE  First(First(ls, n), m) = First(ls, m)
BY DEF First

LEMMA FirstOfAppend ==
  ASSUME NEW S, NEW ls \in Seq(S), NEW e \in S, NEW n \in 0..Len(ls)
  PROVE  First(Append(ls, e), n) = First(ls, n)
BY DEF First

\* What the events of one more line are
LEMMA EventsOfNext ==
  ASSUME NEW S, NEW ls \in Seq(S), NEW n \in Nat, n + 1 \in 0..Len(ls)
  PROVE  EventsUpTo(ls, n + 1) =
           IF \E i \in 1..n : ls[i].id = ls[n + 1].id
             THEN EventsUpTo(ls, n) ELSE Append(EventsUpTo(ls, n), ls[n + 1])
<1>1. n \in 0..Len(ls) /\ n < Len(ls) /\ ls[n + 1] \in S
  OBVIOUS
<1>2. /\ First(ls, n) \in Seq(S) /\ Len(First(ls, n)) = n
      /\ \A i \in 1..n : First(ls, n)[i] = ls[i]
      /\ First(ls, n + 1) = Append(First(ls, n), ls[n + 1])
  BY <1>1, FirstLines
<1>3. EventsUpTo(ls, n + 1) =
        IF \E i \in 1..n : First(ls, n)[i].id = ls[n + 1].id
          THEN EventsUpTo(ls, n) ELSE Append(EventsUpTo(ls, n), ls[n + 1])
  <2> DEFINE fs == First(ls, n)
             e == ls[n + 1]
  <2>1. fs \in Seq(S) /\ e \in S
    BY <1>1, <1>2
  <2>2. Events(Append(fs, e)) =
          IF \E i \in 1..Len(fs) : fs[i].id = e.id
            THEN Events(fs) ELSE Append(Events(fs), e)
    <3> HIDE DEF fs, e
    <3> QED
      BY <2>1, EventsOfAppend
  <2> QED
    BY <1>2, <2>2 DEF EventsUpTo
<1> QED
  BY <1>2, <1>3

\* Events are lines.
LEMMA EventsAreLines ==
  ASSUME NEW S, NEW ls \in Seq(S)
  PROVE  /\ Events(ls) \in Seq(S)
         /\ \A i \in 1..Len(Events(ls)) :
              \E j \in 1..Len(ls) : Events(ls)[i] = ls[j]
<1> DEFINE Right(n) ==
             /\ EventsUpTo(ls, n) \in Seq(S)
             /\ \A i \in 1..Len(EventsUpTo(ls, n)) :
                  \E j \in 1..Len(ls) : EventsUpTo(ls, n)[i] = ls[j]
           T == {n \in 0..Len(ls) : Right(n)}
<1>1. 0 \in T
  <2>1. EventsUpTo(ls, 0) = <<>>
    BY FirstIsAll, EventsOfNothing DEF EventsUpTo
  <2>2. <<>> \in Seq(S) /\ 1..Len(<<>>) = {} /\ 0 \in 0..Len(ls)
    OBVIOUS
  <2>3. Right(0)
    BY <2>1, <2>2
  <2> QED
    BY <2>2, <2>3
<1>2. ASSUME NEW n \in 0..(Len(ls) - 1), n \in T PROVE n + 1 \in T
  <2>1. n \in Nat /\ n + 1 \in 0..Len(ls) /\ n + 1 \in 1..Len(ls) /\ ls[n + 1] \in S
    BY <1>2
  <2>2. Right(n)
    BY <1>2
  <2>3. \/ EventsUpTo(ls, n + 1) = EventsUpTo(ls, n)
        \/ EventsUpTo(ls, n + 1) = Append(EventsUpTo(ls, n), ls[n + 1])
    BY <2>1, EventsOfNext
  <2>4. CASE EventsUpTo(ls, n + 1) = EventsUpTo(ls, n)
    BY <2>1, <2>2, <2>4
  <2>5. CASE EventsUpTo(ls, n + 1) = Append(EventsUpTo(ls, n), ls[n + 1])
    <3> DEFINE es == EventsUpTo(ls, n)
    <3>1. /\ Append(es, ls[n + 1]) \in Seq(S)
          /\ Len(Append(es, ls[n + 1])) = Len(es) + 1
          /\ \A i \in 1..Len(es) : Append(es, ls[n + 1])[i] = es[i]
          /\ Append(es, ls[n + 1])[Len(es) + 1] = ls[n + 1]
          /\ Len(es) \in Nat
      <4>1. es \in Seq(S)
        BY <2>2
      <4> HIDE DEF es
      <4> QED
        BY <2>1, <4>1
    <3>2. ASSUME NEW i \in 1..(Len(es) + 1)
          PROVE  \E j \in 1..Len(ls) : Append(es, ls[n + 1])[i] = ls[j]
      <4>1. CASE i = Len(es) + 1
        BY <2>1, <3>1, <4>1
      <4>2. CASE i # Len(es) + 1
        <5>1. i \in 1..Len(es)
          BY <3>1, <4>2
        <5> QED
          BY <2>2, <3>1, <5>1
      <4> QED
        BY <4>1, <4>2
    <3> QED
      BY <2>1, <2>5, <3>1, <3>2
  <2> QED
    BY <2>3, <2>4, <2>5
<1>3. 0..Len(ls) \subseteq T
  <2> HIDE DEF T
  <2> QED
    BY <1>1, <1>2, UpTo
<1>4. Right(Len(ls))
  BY <1>3
<1> QED
  BY <1>4, FirstIsAll DEF EventsUpTo

\* a is a prefix of b.
Prefix(a, b) == Len(a) <= Len(b) /\ \A i \in 1..Len(a) : b[i] = a[i]

LEMMA PrefixReflexive == ASSUME NEW S, NEW a \in Seq(S) PROVE Prefix(a, a)
BY DEF Prefix

LEMMA PrefixOfAppend ==
  ASSUME NEW S, NEW a \in Seq(S), NEW b \in Seq(S), NEW e \in S, Prefix(a, b)
  PROVE  Prefix(a, Append(b, e))
<1>1. /\ Len(a) \in Nat /\ Len(b) \in Nat /\ Len(Append(b, e)) = Len(b) + 1
      /\ \A i \in 1..Len(b) : Append(b, e)[i] = b[i]
  OBVIOUS
<1>2. \A i \in 1..Len(a) : i \in 1..Len(b)
  BY <1>1 DEF Prefix
<1> QED
  BY <1>1, <1>2 DEF Prefix

\* The first lines of a log hold the first of its events.
LEMMA EventsGrow ==
  ASSUME NEW S, NEW ls \in Seq(S), NEW n \in 0..Len(ls)
  PROVE  Prefix(EventsUpTo(ls, n), Events(ls))
<1> DEFINE N == Len(ls) - n
           T == {k \in 0..N : Prefix(EventsUpTo(ls, n), EventsUpTo(ls, n + k))}
<1>1. N \in Nat /\ n + N = Len(ls) /\ n \in Nat
  OBVIOUS
<1>2. \A k \in 0..N : n + k \in 0..Len(ls) /\ EventsUpTo(ls, n + k) \in Seq(S)
  <2> SUFFICES ASSUME NEW k \in 0..N
               PROVE  n + k \in 0..Len(ls) /\ EventsUpTo(ls, n + k) \in Seq(S)
    OBVIOUS
  <2>1. n + k \in 0..Len(ls)
    BY <1>1
  <2>2. First(ls, n + k) \in Seq(S)
    BY <2>1, FirstLines
  <2> QED
    BY <2>1, <2>2, EventsAreLines DEF EventsUpTo
<1>3. EventsUpTo(ls, n) \in Seq(S) /\ n + 0 = n
  BY <1>1, <1>2
<1>4. 0 \in T
  BY <1>1, <1>3, PrefixReflexive
<1>5. ASSUME NEW k \in 0..(N - 1), k \in T PROVE k + 1 \in T
  <2>1. /\ n + k \in Nat /\ n + k + 1 \in 0..Len(ls) /\ n + (k + 1) = n + k + 1
        /\ ls[n + k + 1] \in S /\ k + 1 \in 0..N /\ EventsUpTo(ls, n + k) \in Seq(S)
    <3>1. k \in 0..N /\ k + 1 \in 0..N /\ k \in Nat
      BY <1>1, <1>5
    <3>2. /\ n + k \in Nat /\ n + (k + 1) = n + k + 1
          /\ n + k + 1 \in 0..Len(ls) /\ n + k + 1 \in 1..Len(ls)
      BY <1>1, <3>1
    <3> HIDE DEF N
    <3> QED
      BY <1>2, <3>1, <3>2
  <2>2. \/ EventsUpTo(ls, n + k + 1) = EventsUpTo(ls, n + k)
        \/ EventsUpTo(ls, n + k + 1) = Append(EventsUpTo(ls, n + k), ls[n + k + 1])
    BY <2>1, EventsOfNext
  <2>3. Prefix(EventsUpTo(ls, n), EventsUpTo(ls, n + k + 1))
    BY <1>3, <1>5, <2>1, <2>2, PrefixOfAppend
  <2> QED
    BY <2>1, <2>3
<1>6. 0..N \subseteq T
  <2> HIDE DEF T, N
  <2> QED
    BY <1>1, <1>4, <1>5, UpTo
<1>7. Prefix(EventsUpTo(ls, n), EventsUpTo(ls, n + N))
  <2>1. N \in 0..N
    BY <1>1
  <2>2. N \in T
    BY <1>6, <2>1
  <2> HIDE DEF N
  <2> QED
    BY <2>2
<1> QED
  BY <1>1, <1>7, FirstIsAll DEF EventsUpTo

-----------------------------------------------------------------------------
(* The invariant *)

\* What a power failure leaves at least
SyncedLog == EventsUpTo(lines, synced)

\* The events es are among the first n of a log, each at its number.
Holds(log, es, n) ==
  \A k \in 1..Len(es) : es[k].seq \in 1..n /\ log[es[k].seq] = es[k]

\* There are fewer lines and events than the bounds and the identities allow.
Numbered ==
  /\ Len(lines) + torn <= MaxLines + duplicates
  /\ Len(Log) < next
  /\ \A i \in 1..Len(lines) : lines[i].id < next

\* What is true of the event that a process appends, before it is a line, as a
\* line, and as a synchronized line
Pending(p) ==
  /\ Len(lines) < MaxLines + duplicates
  /\ event[p].seq = Len(Log) + 1 /\ Len(Log) + 1 < next
  /\ event[p].id < next
  /\ \A i \in 1..Len(lines) : lines[i].id # event[p].id

AppendingAt(p) ==
  /\ pc[p] \in {"repaired", "open", "checked", "written", "synced"} => torn = 0
  /\ pc[p] = "torn" => torn = 1
  /\ pc[p] \in Writing \union {"synced"} =>
       event[p] \in Event /\ Promised < event[p].seq
  /\ pc[p] \in {"checked", "torn"} => Pending(p)
  /\ pc[p] = "written" => Log = Append(mem[p], event[p])
  /\ pc[p] = "synced" => Log = Append(projection, event[p]) /\ SyncedLog = Log
  /\ pc[p] \in {"written", "synced"} => event[p].seq = Len(Log)

Appending == \A p \in Proc : AppendingAt(p)

\* MemoryAndProjectionAgree, of one process
MemoryAt(p) ==
  /\ pc[p] \in {"loaded", "repaired", "open", "checked", "torn", "synced"} =>
       mem[p] = Log
  /\ pc[p] \in {"open", "checked", "torn", "written"} => projection = mem[p]

\* Every acknowledged event is in the synchronized part of the log.
Kept == Holds(Log, acked, Len(SyncedLog))

\* What a reader has seen is the file, unless that changed, and the events that
\* were acknowledged when it began are still there.
Reading ==
  \A r \in Reader : reading[r] = "yes" =>
    /\ Holds(Log, base[r], Len(Log))
    /\ ~changed[r] => seen[r] = lines

Inv ==
  /\ TypeOK /\ Numbered /\ Appending /\ Kept /\ Reading
  /\ LogStaysReadable /\ MemoryAndProjectionAgree /\ ReadsAreHistory

-----------------------------------------------------------------------------
(* Facts about the states and the steps of the log *)

LEMMA Bounds ==
  MaxEvents \in Nat /\ MaxLines \in Nat /\ MaxCrashes \in Nat /\ MaxDuplicates \in Nat
BY BoundsAssumption

LEMMA EventFields == \A e \in Event : e.id \in Nat /\ e.seq \in Nat \ {0}
BY Bounds DEF Event

LEMMA NumberTypes ==
  TypeOK => /\ next \in Nat \ {0} /\ crashes \in 0..MaxCrashes
            /\ duplicates \in 0..MaxDuplicates /\ duplicates \in Nat
            /\ Len(lines) \in Nat /\ synced \in 0..Len(lines) /\ torn \in Nat
BY Bounds DEF TypeOK

LEMMA LogTypes ==
  TypeOK => /\ Log \in Seq(Event) /\ SyncedLog \in Seq(Event)
            /\ Len(Log) \in Nat /\ Len(SyncedLog) \in Nat
            /\ Prefix(SyncedLog, Log) /\ Len(SyncedLog) <= Len(Log)
            /\ \A i \in 1..Len(Log) : \E j \in 1..Len(lines) : Log[i] = lines[j]
<1> SUFFICES ASSUME TypeOK
             PROVE  /\ Log \in Seq(Event) /\ SyncedLog \in Seq(Event)
                    /\ Len(Log) \in Nat /\ Len(SyncedLog) \in Nat
                    /\ Prefix(SyncedLog, Log) /\ Len(SyncedLog) <= Len(Log)
                    /\ \A i \in 1..Len(Log) : \E j \in 1..Len(lines) : Log[i] = lines[j]
  OBVIOUS
<1>1. lines \in Seq(Event) /\ synced \in 0..Len(lines)
  BY DEF TypeOK
<1>2. /\ Log \in Seq(Event)
      /\ \A i \in 1..Len(Log) : \E j \in 1..Len(lines) : Log[i] = lines[j]
  BY <1>1, EventsAreLines DEF Log
<1>3. SyncedLog \in Seq(Event)
  <2>1. First(lines, synced) \in Seq(Event)
    BY <1>1, FirstLines
  <2> QED
    BY <2>1, EventsAreLines DEF SyncedLog, EventsUpTo
<1>4. Prefix(SyncedLog, Log)
  BY <1>1, EventsGrow DEF SyncedLog, Log
<1> QED
  BY <1>2, <1>3, <1>4 DEF Prefix

\* Only the process with the lock is at work.
LEMMA Alone ==
  ASSUME TypeOK, NEW p \in Proc, NEW q \in Proc, pc[p] # "closed", q # p
  PROVE  pc[q] = "closed" /\ owner = p
BY DEF TypeOK

LEMMA LogSame == UNCHANGED lines => Log' = Log
BY DEF Log

LEMMA SyncedSame == UNCHANGED <<lines, synced>> => SyncedLog' = SyncedLog
BY DEF SyncedLog

LEMMA LogSynced ==
  ASSUME TypeOK, UNCHANGED lines, synced' = Len(lines)
  PROVE  SyncedLog' = Log /\ Log' = Log
BY FirstIsAll DEF TypeOK, SyncedLog, EventsUpTo, Log

LEMMA LogWritten ==
  ASSUME TypeOK, NEW p \in Proc, event[p] \in Event, Pending(p), torn = 1, WriteRest(p)
  PROVE  Log' = Append(Log, event[p]) /\ SyncedLog' = SyncedLog
<1>1. /\ lines \in Seq(Event) /\ lines' = Append(lines, event[p])
      /\ synced \in 0..Len(lines) /\ synced' = synced
  BY DEF TypeOK, WriteRest
<1>2. Log' = Append(Log, event[p])
  BY <1>1, EventsOfAppend DEF Log, Pending
<1>3. First(lines', synced) = First(lines, synced)
  BY <1>1, FirstOfAppend
<1> QED
  BY <1>1, <1>2, <1>3 DEF SyncedLog, EventsUpTo

LEMMA LinesDuplicated ==
  ASSUME TypeOK, Duplicate
  PROVE  /\ lines' \in Seq(Event) /\ Len(lines') = Len(lines) + 1
         /\ \A i \in 1..Len(lines') : \E k \in 1..Len(lines) : lines'[i] = lines[k]
<1>1. lines \in Seq(Event) /\ DOMAIN lines = 1..Len(lines)
  BY DEF TypeOK
<1>2. PICK j \in 1..Len(lines) : lines' = Append(lines, lines[j])
  BY <1>1 DEF Duplicate
<1>3. lines' \in Seq(Event) /\ Len(lines') = Len(lines) + 1
  BY <1>1, <1>2
<1>4. ASSUME NEW i \in 1..Len(lines') PROVE \E k \in 1..Len(lines) : lines'[i] = lines[k]
  <2>1. CASE i = Len(lines) + 1
    BY <1>1, <1>2, <2>1
  <2>2. CASE i # Len(lines) + 1
    <3>1. i \in 1..Len(lines)
      BY <1>1, <1>3, <2>2
    <3> QED
      BY <1>1, <1>2, <3>1
  <2> QED
    BY <2>1, <2>2
<1> QED
  BY <1>3, <1>4

LEMMA LogDuplicated ==
  ASSUME TypeOK, Duplicate
  PROVE  Log' = Log /\ SyncedLog' = SyncedLog
<1>1. lines \in Seq(Event) /\ synced \in 0..Len(lines) /\ synced' = synced
  BY DEF TypeOK, Duplicate
<1>2. PICK i \in 1..Len(lines) : lines' = Append(lines, lines[i])
  BY <1>1 DEF Duplicate
<1>3. lines[i] \in Event
  BY <1>1
<1>4. Log' = Log
  BY <1>1, <1>2, <1>3, EventsOfAppend DEF Log
<1>5. First(lines', synced) = First(lines, synced)
  BY <1>1, <1>2, <1>3, FirstOfAppend
<1> QED
  BY <1>1, <1>4, <1>5 DEF SyncedLog, EventsUpTo

\* A power failure leaves a prefix of the log that has all that was synchronized.
LEMMA LogLost ==
  ASSUME TypeOK, PowerFails
  PROVE  /\ lines' \in Seq(Event) /\ Len(lines') <= Len(lines)
         /\ \A i \in 1..Len(lines') : i \in 1..Len(lines) /\ lines'[i] = lines[i]
         /\ synced' = Len(lines') /\ Log' \in Seq(Event) /\ SyncedLog' = Log'
         /\ Prefix(Log', Log) /\ Prefix(SyncedLog, Log')
<1>1. PICK n \in synced..Len(lines) : lines' = SubSeq(lines, 1, n) /\ synced' = n
  BY DEF PowerFails
<1>2. lines \in Seq(Event) /\ synced \in 0..Len(lines) /\ Len(lines) \in Nat
  BY DEF TypeOK
<1>3. n \in 0..Len(lines) /\ synced \in 0..n
  BY <1>2
<1>4. /\ lines' = First(lines, n) /\ lines' \in Seq(Event) /\ Len(lines') = n
      /\ \A i \in 1..n : lines'[i] = lines[i]
  <2>1. lines' = First(lines, n)
    BY <1>1 DEF First
  <2> QED
    BY <1>2, <1>3, <2>1, FirstLines
<1>5. SyncedLog' = Log'
  <2>1. First(lines', synced') = lines'
    BY <1>1, <1>4, FirstIsAll
  <2> QED
    BY <2>1 DEF SyncedLog, EventsUpTo, Log
<1>6. Log' \in Seq(Event)
  BY <1>4, EventsAreLines DEF Log
<1>7. Prefix(Log', Log)
  BY <1>2, <1>3, <1>4, EventsGrow DEF Log, EventsUpTo
<1>8. Prefix(SyncedLog, Log')
  <2>1. Prefix(EventsUpTo(lines', synced), Events(lines'))
    BY <1>3, <1>4, EventsGrow
  <2>2. First(lines', synced) = First(lines, synced)
    BY <1>2, <1>3, <1>4, FirstOfFirst
  <2> QED
    BY <2>1, <2>2 DEF SyncedLog, EventsUpTo, Log
<1> QED
  BY <1>1, <1>2, <1>3, <1>4, <1>5, <1>6, <1>7, <1>8
-----------------------------------------------------------------------------
(* Every step keeps the types *)

LEMMA InvInit == Init => Inv
<1> SUFFICES ASSUME Init PROVE Inv
  OBVIOUS
<1>1. lines = <<>> /\ synced = 0 /\ acked = <<>> /\ next = 1 /\ duplicates = 0
      /\ torn = 0
  BY DEF Init
<1>2. Log = <<>> /\ SyncedLog = <<>>
  <2>1. First(<<>>, 0) = <<>>
    BY DEF First
  <2> QED
    BY <1>1, <2>1, EventsOfNothing DEF Log, SyncedLog, EventsUpTo
<1>3. <<>> \in Seq(Event) /\ Len(<<>>) = 0
  OBVIOUS
<1>4. TypeOK
  <2>1. /\ lines \in Seq(Event) /\ Len(lines) <= MaxLines + MaxDuplicates
        /\ synced \in 0..Len(lines) /\ next \in 1..MaxEvents + 1
        /\ crashes \in 0..MaxCrashes /\ duplicates \in 0..MaxDuplicates
    BY <1>1, <1>3, Bounds DEF Init
  <2>2. /\ mem \in [Proc -> Seq(Event)] /\ seen \in [Reader -> Seq(Event)]
        /\ base \in [Reader -> Seq(Event)]
        /\ output \in [Reader -> Seq(Event) \union {Mixed}]
        /\ event \in [Proc -> Event \union {NoEvent}]
    BY <1>3 DEF Init
  <2>3. \A p \in Proc : pc[p] = "closed" /\ owner # p
    BY NoProcAssumption DEF Init
  <2> QED
    BY <1>3, <2>1, <2>2, <2>3 DEF Init, TypeOK
<1>5. Numbered
  BY <1>1, <1>2, <1>3, Bounds DEF Numbered
<1>6. Kept
  BY <1>1, <1>2, <1>3 DEF Kept, Holds
<1>7. Appending /\ Reading /\ MemoryAndProjectionAgree /\ ReadsAreHistory
  BY DEF Init, Appending, AppendingAt, Reading, MemoryAndProjectionAgree,
            ReadsAreHistory, Writing
<1>8. LogStaysReadable
  BY <1>1, <1>2, <1>3, Bounds DEF LogStaysReadable, Gapless, Fits
<1> QED
  BY <1>4, <1>5, <1>6, <1>7, <1>8 DEF Inv

LEMMA OpeningTypes ==
  ASSUME Inv, NEW p \in Proc, Lock(p) \/ Load(p) \/ Repair(p) \/ Rebuild(p)
  PROVE  TypeOK'
<1>1. TypeOK /\ Log \in Seq(Event)
  BY LogTypes DEF Inv
<1>2. CASE Lock(p)
  BY <1>1, <1>2, NoProcAssumption
     DEF TypeOK, Lock, Become, fileVars, readerVars, boundVars, Opening, Writing
<1>3. CASE Load(p)
  BY <1>1, <1>3 DEF TypeOK, Load, Log, Become, fileVars, readerVars, boundVars,
                    Opening, Writing
<1>4. CASE Repair(p)
  <2>1. synced' \in 0..Len(lines)
    BY <1>1, <1>4, NumberTypes DEF TypeOK, Repair
  <2>2. changed' \in [Reader -> BOOLEAN] /\ UNCHANGED <<reading, seen, base, output>>
    <3>1. CASE torn > 0
      <4>1. FileChanges
        BY <1>4, <3>1 DEF Repair
      <4> QED
        BY <4>1 DEF FileChanges
    <3>2. CASE ~(torn > 0)
      <4>1. UNCHANGED readerVars
        BY <1>4, <3>2 DEF Repair
      <4> QED
        BY <1>1, <4>1 DEF TypeOK, readerVars
    <3> QED
      BY <3>1, <3>2
  <2>3. torn' \in Nat
    BY <1>1, <1>4 DEF TypeOK, Repair
  <2> QED
    BY <1>1, <1>4, <2>1, <2>2, <2>3
       DEF TypeOK, Repair, Become, boundVars, Opening, Writing
<1>5. CASE Rebuild(p)
  BY <1>1, <1>5 DEF TypeOK, Rebuild, Become, fileVars, readerVars, boundVars,
                    Opening, Writing
<1> QED
  BY <1>2, <1>3, <1>4, <1>5

LEMMA ShutTypes ==
  ASSUME Inv, NEW p \in Proc, pc[p] # "closed", Shut(p),
         UNCHANGED <<fileVars, projection, drift, next, acked, readerVars, duplicates>>,
         crashes' \in 0..MaxCrashes
  PROVE  TypeOK'
<1>1. TypeOK
  BY DEF Inv
<1>2. /\ pc' \in [Proc -> {"closed", "open", "synced"} \union Opening \union Writing]
      /\ mem' \in [Proc -> Seq(Event)]
      /\ event' \in [Proc -> Event \union {NoEvent}]
      /\ owner' \in Proc \union {NoProc}
  <2>1. <<>> \in Seq(Event)
    OBVIOUS
  <2> QED
    BY <1>1, <2>1 DEF TypeOK, Shut, Become
<1>3. \A q \in Proc : (pc'[q] = "closed") = (owner' # q)
  BY <1>1, NoProcAssumption DEF TypeOK, Shut, Become
<1> QED
  BY <1>1, <1>2, <1>3 DEF TypeOK, fileVars, readerVars

LEMMA AppendTypes ==
  ASSUME Inv, NEW p \in Proc,
         BeginAppend(p) \/ WritePart(p) \/ WriteRest(p) \/ Sync(p) \/ Project(p)
  PROVE  TypeOK'
<1>1. TypeOK
  BY DEF Inv
<1>2. CASE BeginAppend(p)
  <2>1. [id |-> next, seq |-> Len(mem[p]) + 1] \in Event /\ next + 1 \in 1..MaxEvents + 1
    <3>1. Len(mem[p]) = Len(Log) /\ Len(Log) \in Nat /\ Len(Log) < next
      BY <1>1, <1>2, LogTypes DEF Inv, MemoryAndProjectionAgree, Numbered, BeginAppend
    <3>2. next \in Nat \ {0} /\ next <= MaxEvents
      BY <1>1, <1>2, NumberTypes DEF BeginAppend
    <3> QED
      BY <3>1, <3>2, Bounds DEF Event
  <2> QED
    BY <1>1, <1>2, <2>1
       DEF TypeOK, BeginAppend, Become, fileVars, readerVars, boundVars, Opening, Writing
<1>3. CASE WritePart(p)
  BY <1>1, <1>3
     DEF TypeOK, WritePart, FileChanges, Become, boundVars, Opening, Writing
<1>4. CASE WriteRest(p)
  <2>1. event[p] \in Event /\ Len(lines) < MaxLines + duplicates /\ torn = 1
    BY <1>4 DEF Inv, Appending, AppendingAt, Pending, WriteRest, Writing
  <2>2. lines' \in Seq(Event) /\ Len(lines') = Len(lines) + 1
    BY <1>1, <1>4, <2>1 DEF TypeOK, WriteRest
  <2>3. Len(lines') <= MaxLines + MaxDuplicates /\ synced' \in 0..Len(lines')
    BY <1>1, <1>4, <2>1, <2>2, Bounds, NumberTypes DEF WriteRest
  <2> QED
    BY <1>1, <1>4, <2>2, <2>3
       DEF TypeOK, WriteRest, FileChanges, Become, boundVars, Opening, Writing
<1>5. CASE Sync(p)
  <2>1. event[p] \in Event /\ mem[p] \in Seq(Event)
    BY <1>1, <1>5 DEF Inv, TypeOK, Appending, AppendingAt, Sync, Writing
  <2>2. Append(mem[p], event[p]) \in Seq(Event)
    BY <2>1
  <2>3. synced' \in 0..Len(lines')
    BY <1>1, <1>5, NumberTypes DEF Sync
  <2> QED
    BY <1>1, <1>5, <2>2, <2>3
       DEF TypeOK, Sync, Become, readerVars, boundVars, Opening, Writing
<1>6. CASE Project(p)
  <2>1. event[p] \in Event
    BY <1>6 DEF Inv, Appending, AppendingAt, Project
  <2>2. projection' \in Seq(Event) /\ acked' \in Seq(Event)
    BY <1>1, <1>6, <2>1 DEF TypeOK, Project
  <2> QED
    BY <1>1, <1>6, <2>2
       DEF TypeOK, Project, Become, fileVars, readerVars, boundVars, Opening, Writing
<1> QED
  BY <1>2, <1>3, <1>4, <1>5, <1>6

LEMMA ReadTypes ==
  ASSUME Inv, NEW r \in Reader, BeginRead(r) \/ EndRead(r)
  PROVE  TypeOK'
<1>1. TypeOK
  BY DEF Inv
<1>2. CASE BeginRead(r)
  BY <1>1, <1>2 DEF TypeOK, BeginRead, fileVars, boundVars
<1>3. CASE EndRead(r)
  <2>1. Delivered(r) \in Seq(Event) \union {Mixed}
    <3>1. seen[r] \in Seq(Event)
      BY <1>1 DEF TypeOK
    <3> QED
      BY <3>1, EventsAreLines DEF Delivered
  <2>2. output' \in [Reader -> Seq(Event) \union {Mixed}]
    BY <1>1, <1>3, <2>1 DEF TypeOK, EndRead
  <2>3. reading' \in [Reader -> {"no", "yes", "done", "refused"}]
    BY <1>1, <1>3 DEF TypeOK, EndRead
  <2> QED
    BY <1>1, <1>3, <2>2, <2>3 DEF TypeOK, EndRead, fileVars, boundVars
<1> QED
  BY <1>2, <1>3

LEMMA DuplicateTypes ==
  ASSUME Inv, Duplicate
  PROVE  TypeOK'
<1>1. TypeOK /\ Len(lines) <= MaxLines + duplicates
  BY NumberTypes, Bounds DEF Inv, Numbered
<1>3. lines' \in Seq(Event) /\ Len(lines') = Len(lines) + 1
  BY <1>1, LinesDuplicated
<1>4. duplicates' \in 0..MaxDuplicates /\ Len(lines') <= MaxLines + MaxDuplicates
  BY <1>1, <1>3, Bounds, NumberTypes DEF Duplicate
<1>5. synced' \in 0..Len(lines')
  BY <1>1, <1>3, NumberTypes DEF Duplicate
<1> QED
  BY <1>1, <1>3, <1>4, <1>5 DEF TypeOK, Duplicate, FileChanges

LEMMA PowerTypes ==
  ASSUME Inv, PowerFails
  PROVE  TypeOK'
<1>1. TypeOK
  BY DEF Inv
<1>2. lines' \in Seq(Event) /\ Len(lines') <= Len(lines) /\ synced' = Len(lines')
  BY <1>1, LogLost
<1>3. synced' \in 0..Len(lines') /\ Len(lines') <= MaxLines + MaxDuplicates
  <2>1. Len(lines') \in Nat
    BY <1>2
  <2> QED
    BY <1>1, <1>2, <2>1, Bounds, NumberTypes DEF TypeOK
<1>4. torn' \in Nat /\ crashes' \in 0..MaxCrashes
  <2>1. torn' \in 0..1
    BY DEF PowerFails
  <2> QED
    BY <1>1, <2>1, Bounds DEF TypeOK, PowerFails
<1> QED
  BY <1>1, <1>2, <1>3, <1>4, NoProcAssumption DEF TypeOK, PowerFails
-----------------------------------------------------------------------------
(* Steps of the process with the lock *)

\* Every event in es is the event of log2 with its number, too.
LEMMA HoldsOn ==
  ASSUME NEW log, NEW log2, NEW es, NEW n \in Nat, NEW m \in Nat, n <= m,
         Holds(log, es, n), \A i \in 1..n : log2[i] = log[i]
  PROVE  Holds(log2, es, m)
<1> SUFFICES ASSUME NEW k \in 1..Len(es)
             PROVE  es[k].seq \in 1..m /\ log2[es[k].seq] = es[k]
  BY DEF Holds
<1>1. es[k].seq \in 1..n /\ log[es[k].seq] = es[k]
  BY DEF Holds
<1> QED
  BY <1>1

\* Nothing is promised beyond what a power failure leaves.
LEMMA PromisedBound ==
  ASSUME TypeOK, Kept
  PROVE  Promised \in Nat /\ Promised <= Len(SyncedLog)
<1>1. acked \in Seq(Event) /\ Len(SyncedLog) \in Nat
  BY LogTypes DEF TypeOK
<1>2. CASE acked = <<>>
  BY <1>1, <1>2 DEF Promised
<1>3. CASE acked # <<>>
  <2>1. Len(acked) \in 1..Len(acked)
    BY <1>1, <1>3
  <2>2. acked[Len(acked)].seq \in 1..Len(SyncedLog)
    BY <2>1 DEF Kept, Holds
  <2> QED
    BY <1>1, <1>3, <2>2 DEF Promised
<1> QED
  BY <1>2, <1>3

\* The event that an append creates
LEMMA NewEvent ==
  ASSUME Inv, NEW p \in Proc, BeginAppend(p)
  PROVE  /\ event'[p] = [id |-> next, seq |-> Len(Log) + 1] /\ event'[p] \in Event
         /\ mem[p] = Log /\ projection = Log
<1>1. TypeOK /\ pc[p] = "open"
  BY DEF Inv, BeginAppend
<1>2. mem[p] = Log /\ projection = Log
  BY <1>1 DEF Inv, MemoryAndProjectionAgree
<1>3. event'[p] = [id |-> next, seq |-> Len(Log) + 1]
  BY <1>1, <1>2 DEF TypeOK, BeginAppend
<1>4. next \in 1..MaxEvents /\ Len(Log) + 1 \in 1..MaxEvents
  <2>1. Len(Log) \in Nat /\ Len(Log) < next /\ next \in Nat /\ next <= MaxEvents
    BY <1>1, LogTypes, NumberTypes DEF Inv, Numbered, BeginAppend
  <2> QED
    BY <2>1, Bounds
<1> QED
  BY <1>2, <1>3, <1>4 DEF Event

LEMMA AtBeginAppend ==
  ASSUME Inv, NEW p \in Proc, BeginAppend(p)
  PROVE  AppendingAt(p)' /\ MemoryAt(p)'
<1>1. /\ TypeOK /\ pc'[p] = "checked" /\ torn' = 0
      /\ UNCHANGED <<lines, synced, duplicates, acked, mem, projection>>
  BY DEF Inv, TypeOK, Appending, AppendingAt, BeginAppend, Become, fileVars, boundVars
<1>2. /\ event'[p] = [id |-> next, seq |-> Len(Log) + 1] /\ event'[p] \in Event
      /\ mem[p] = Log /\ projection = Log
  BY NewEvent
<1>3. Log' = Log /\ Promised' = Promised
  BY <1>1, LogSame DEF Promised
<1>4. Promised \in Nat /\ Promised <= Len(Log) /\ Len(Log) \in Nat /\ Len(Log) < next
  <2>1. Len(SyncedLog) <= Len(Log) /\ Len(SyncedLog) \in Nat /\ Len(Log) \in Nat
    BY <1>1, LogTypes
  <2>2. Promised \in Nat /\ Promised <= Len(SyncedLog)
    BY <1>1, PromisedBound DEF Inv
  <2> QED
    BY <2>1, <2>2 DEF Inv, Numbered
<1>5. Pending(p)'
  <2>1. Len(lines) < MaxLines + duplicates
    BY <1>1, Bounds, NumberTypes DEF BeginAppend
  <2>2. \A i \in 1..Len(lines) : lines[i].id # next
    <3>1. \A i \in 1..Len(lines) : lines[i].id < next
      BY DEF Inv, Numbered
    <3>2. next \in Nat
      BY <1>1, NumberTypes
    <3> QED
      BY <3>1, <3>2
  <2>3. next' = next + 1 /\ next \in Nat
    BY <1>1, NumberTypes DEF BeginAppend
  <2> QED
    BY <1>1, <1>2, <1>3, <1>4, <2>1, <2>2, <2>3 DEF Pending
<1>6. Promised' < event'[p].seq
  BY <1>2, <1>3, <1>4
<1> QED
  BY <1>1, <1>2, <1>3, <1>5, <1>6 DEF AppendingAt, MemoryAt

LEMMA AtWritePart ==
  ASSUME Inv, NEW p \in Proc, WritePart(p)
  PROVE  AppendingAt(p)' /\ MemoryAt(p)'
<1>1. /\ TypeOK /\ pc[p] = "checked" /\ pc'[p] = "torn" /\ torn' = 1
      /\ UNCHANGED <<lines, synced, duplicates, acked, mem, projection, event, next>>
  BY DEF Inv, TypeOK, Appending, AppendingAt, WritePart, Become, boundVars
<1>2. Log' = Log /\ Promised' = Promised /\ AppendingAt(p) /\ mem[p] = Log /\ projection = Log
  BY <1>1, LogSame DEF Inv, Promised, Appending, MemoryAndProjectionAgree
<1>3. Pending(p)' = Pending(p)
  BY <1>1, <1>2 DEF Pending
<1> QED
  BY <1>1, <1>2, <1>3 DEF AppendingAt, MemoryAt, Writing

LEMMA AtWriteRest ==
  ASSUME Inv, NEW p \in Proc, WriteRest(p)
  PROVE  /\ AppendingAt(p)' /\ MemoryAt(p)'
         /\ event[p] \in Event /\ event[p].seq = Len(Log) + 1
         /\ \A i \in 1..Len(Log) : Log[i].id # event[p].id
         /\ Log' = Append(Log, event[p]) /\ SyncedLog' = SyncedLog /\ acked' = acked
<1>1. /\ TypeOK /\ pc[p] = "torn" /\ pc'[p] = "written" /\ torn' = 0
      /\ UNCHANGED <<acked, mem, projection, event>>
  BY DEF Inv, TypeOK, WriteRest, Become
<1>2. /\ event[p] \in Event /\ torn = 1 /\ Pending(p) /\ mem[p] = Log /\ projection = Log
      /\ Promised < event[p].seq
  BY <1>1 DEF Inv, Appending, AppendingAt, MemoryAndProjectionAgree, Writing
<1>3. Log' = Append(Log, event[p]) /\ SyncedLog' = SyncedLog
  BY <1>1, <1>2, LogWritten
<1>4. Log \in Seq(Event) /\ \A i \in 1..Len(Log) : \E j \in 1..Len(lines) : Log[i] = lines[j]
  BY <1>1, LogTypes
<1>5. event[p].seq = Len(Log) + 1 /\ Len(Log') = Len(Log) + 1
  BY <1>2, <1>3, <1>4 DEF Pending
<1>6. \A i \in 1..Len(Log) : Log[i].id # event[p].id
  BY <1>2, <1>4 DEF Pending
<1>7. Promised' = Promised
  BY <1>1 DEF Promised
<1> QED
  BY <1>1, <1>2, <1>3, <1>5, <1>6, <1>7 DEF AppendingAt, MemoryAt, Writing

LEMMA AtSync ==
  ASSUME Inv, NEW p \in Proc, Sync(p)
  PROVE  /\ AppendingAt(p)' /\ MemoryAt(p)'
         /\ Log' = Log /\ SyncedLog' = Log /\ acked' = acked
<1>1. /\ TypeOK /\ pc[p] = "written" /\ pc'[p] = "synced" /\ torn' = 0
      /\ UNCHANGED <<lines, acked, projection, event>> /\ synced' = Len(lines)
      /\ mem'[p] = Append(mem[p], event[p])
  BY DEF Inv, TypeOK, Appending, AppendingAt, Sync, Become
<1>2. /\ event[p] \in Event /\ Promised < event[p].seq /\ event[p].seq = Len(Log)
      /\ Log = Append(mem[p], event[p]) /\ projection = mem[p]
  BY <1>1 DEF Inv, Appending, AppendingAt, MemoryAndProjectionAgree, Writing
<1>3. SyncedLog' = Log /\ Log' = Log /\ Promised' = Promised
  BY <1>1, LogSynced DEF Promised
<1> QED
  BY <1>1, <1>2, <1>3 DEF AppendingAt, MemoryAt, Writing

LEMMA AtProject ==
  ASSUME Inv, NEW p \in Proc, Project(p)
  PROVE  /\ AppendingAt(p)' /\ MemoryAt(p)'
         /\ Log' = Log /\ SyncedLog = Log /\ SyncedLog' = Log
         /\ acked' = Append(acked, event[p]) /\ event[p] \in Event
         /\ event[p].seq = Len(Log) /\ Log[Len(Log)] = event[p]
         /\ Promised < event[p].seq
<1>1. /\ TypeOK /\ pc[p] = "synced" /\ pc'[p] = "open" /\ torn' = 0
      /\ UNCHANGED <<lines, synced, mem>>
      /\ projection' = Append(projection, event[p]) /\ acked' = Append(acked, event[p])
  BY DEF Inv, TypeOK, Appending, AppendingAt, Project, Become, fileVars
<1>2. /\ event[p] \in Event /\ Promised < event[p].seq /\ event[p].seq = Len(Log)
      /\ Log = Append(projection, event[p]) /\ SyncedLog = Log /\ mem[p] = Log
  BY <1>1 DEF Inv, Appending, AppendingAt, MemoryAndProjectionAgree, Writing
<1>3. Log' = Log /\ SyncedLog' = SyncedLog
  BY <1>1, LogSame, SyncedSame
<1>4. Log[Len(Log)] = event[p]
  <2>1. projection \in Seq(Event)
    BY <1>1 DEF TypeOK
  <2> QED
    BY <1>2, <2>1
<1> QED
  BY <1>1, <1>2, <1>3, <1>4 DEF AppendingAt, MemoryAt, Writing

\* Opening a session, and closing it
LEMMA AtOpening ==
  ASSUME Inv, NEW p \in Proc, Lock(p) \/ Load(p) \/ Repair(p) \/ Rebuild(p)
  PROVE  /\ AppendingAt(p)' /\ MemoryAt(p)' /\ acked' = acked
         /\ Log' = Log /\ SyncedLog' \in {SyncedLog, Log}
<1>1. TypeOK /\ UNCHANGED <<lines, acked>>
  BY DEF Inv, Lock, Load, Repair, Rebuild, fileVars
<1>2. Log' = Log
  BY <1>1, LogSame
<1>3. MemoryAt(p)
  BY DEF Inv, MemoryAndProjectionAgree, MemoryAt
<1>4. CASE Lock(p)
  BY <1>1, <1>2, <1>4, SyncedSame DEF TypeOK, Lock, Become, fileVars, AppendingAt, MemoryAt, Writing
<1>5. CASE Load(p)
  <2>1. pc'[p] = "loaded" /\ mem'[p] = Log
    BY <1>1, <1>5 DEF TypeOK, Load, Become, Log
  <2>2. SyncedLog' = SyncedLog
    BY <1>5, SyncedSame DEF Load, fileVars
  <2> QED
    BY <1>1, <1>2, <2>1, <2>2 DEF AppendingAt, MemoryAt, Writing
<1>6. CASE Repair(p)
  <2>1. pc[p] = "loaded" /\ pc'[p] = "repaired" /\ mem' = mem /\ torn' = 0
    BY <1>1, <1>6 DEF TypeOK, Repair, Become
  <2>2. SyncedLog' \in {SyncedLog, Log}
    BY <1>1, <1>6, LogSynced, SyncedSame DEF Repair
  <2> QED
    BY <1>1, <1>2, <1>3, <2>1, <2>2 DEF AppendingAt, MemoryAt, Writing
<1>7. CASE Rebuild(p)
  <2>1. /\ pc[p] = "repaired" /\ pc'[p] = "open" /\ mem' = mem /\ projection' = mem[p]
        /\ torn' = 0
    BY <1>1, <1>7 DEF Inv, TypeOK, Appending, AppendingAt, Rebuild, Become, fileVars
  <2>2. SyncedLog' = SyncedLog
    BY <1>7, SyncedSame DEF Rebuild, fileVars
  <2> QED
    BY <1>1, <1>2, <1>3, <2>1, <2>2 DEF AppendingAt, MemoryAt, Writing
<1> QED
  BY <1>4, <1>5, <1>6, <1>7

LEMMA AtShut ==
  ASSUME Inv, NEW p \in Proc, Shut(p), UNCHANGED <<fileVars, acked>>
  PROVE  /\ AppendingAt(p)' /\ MemoryAt(p)' /\ acked' = acked
         /\ Log' = Log /\ SyncedLog' = SyncedLog
<1>1. pc'[p] = "closed"
  BY DEF Inv, TypeOK, Shut, Become
<1> QED
  BY <1>1, LogSame, SyncedSame DEF fileVars, AppendingAt, MemoryAt, Writing
-----------------------------------------------------------------------------
(* Every step keeps the invariant *)

\* A step of one process, and the other steps
OfProcess == \E p \in Proc : StoreStep(p) \/ Kill(p)
OfReader == \E r \in Reader : BeginRead(r) \/ EndRead(r)

LEMMA Steps == Next <=> OfProcess \/ OfReader \/ Duplicate \/ PowerFails
BY DEF Next, OfProcess, OfReader

\* A process that closes
ClosesAt(p) == ProjectFails(p) \/ IOFails(p) \/ Close(p) \/ Kill(p)

LEMMA Closing ==
  ASSUME TypeOK, NEW p \in Proc, ClosesAt(p)
  PROVE  /\ pc[p] # "closed" /\ Shut(p) /\ crashes' \in 0..MaxCrashes
         /\ UNCHANGED <<fileVars, projection, drift, next, acked, readerVars, duplicates>>
<1>1. crashes \in 0..MaxCrashes
  BY NumberTypes
<1>2. CASE Kill(p)
  BY <1>1, <1>2, Bounds DEF Kill
<1>3. CASE ProjectFails(p) \/ IOFails(p) \/ Close(p)
  BY <1>1, <1>3 DEF ProjectFails, IOFails, Close, boundVars, Opening, Writing
<1> QED
  BY <1>2, <1>3 DEF ClosesAt

\* What readers have is left alone, or the file changes under them.
LEMMA ReadersWatch ==
  ASSUME TypeOK, NEW p \in Proc, StoreStep(p) \/ Kill(p)
  PROVE  (UNCHANGED lines /\ UNCHANGED readerVars) \/ FileChanges
BY DEF StoreStep, Lock, Load, Repair, Rebuild, BeginAppend, WritePart, WriteRest, Sync,
       Project, ProjectFails, IOFails, Close, Kill, fileVars

LEMMA TypeNext ==
  ASSUME Inv, Next
  PROVE  TypeOK'
<1>1. CASE OfProcess
  <2>1. PICK p \in Proc : StoreStep(p) \/ Kill(p)
    BY <1>1 DEF OfProcess
  <2>2. CASE ClosesAt(p)
    BY <2>2, Closing, ShutTypes DEF Inv
  <2> QED
    BY <2>1, <2>2, OpeningTypes, AppendTypes DEF StoreStep, ClosesAt
<1>2. CASE OfReader
  BY <1>2, ReadTypes DEF OfReader
<1> QED
  BY <1>1, <1>2, DuplicateTypes, PowerTypes, Steps

LEMMA NumberedNext ==
  ASSUME Inv, Next
  PROVE  Numbered'
<1>1. /\ TypeOK /\ Numbered /\ next \in Nat \ {0} /\ duplicates \in Nat
      /\ Len(lines) \in Nat /\ lines \in Seq(Event) /\ torn \in Nat
  BY NumberTypes DEF Inv, TypeOK
<1>2. Log \in Seq(Event) /\ Len(Log) \in Nat
  BY <1>1, LogTypes
<1>3. \A i \in 1..Len(lines) : lines[i].id \in Nat
  BY <1>1, EventFields
<1>4. ASSUME UNCHANGED <<lines, duplicates>>, next' \in {next, next + 1},
             torn' \in {0, torn} \/ Len(lines) + torn' <= MaxLines + duplicates
      PROVE  Numbered'
  <2>1. Log' = Log
    BY <1>4, LogSame
  <2>2. Len(lines) + torn' <= MaxLines + duplicates
    BY <1>1, <1>4, Bounds DEF Numbered
  <2> QED
    BY <1>1, <1>2, <1>3, <1>4, <2>1, <2>2 DEF Numbered
<1>5. CASE OfProcess
  <2>1. PICK p \in Proc : StoreStep(p) \/ Kill(p)
    BY <1>5 DEF OfProcess
  <2>2. CASE WriteRest(p)
    <3>1. /\ event[p] \in Event /\ Pending(p) /\ next' = next /\ duplicates' = duplicates
          /\ torn = 1 /\ torn' = 0
      BY <2>2 DEF Inv, Appending, AppendingAt, WriteRest, Writing, boundVars
    <3>2. Log' = Append(Log, event[p]) /\ lines' = Append(lines, event[p])
      BY <1>1, <2>2, <3>1, LogWritten DEF WriteRest
    <3>3. Len(Log') = Len(Log) + 1 /\ Len(lines') = Len(lines) + 1
      BY <1>1, <1>2, <3>1, <3>2
    <3>4. \A i \in 1..Len(lines') : lines'[i].id < next
      <4> SUFFICES ASSUME NEW i \in 1..Len(lines') PROVE lines'[i].id < next
        OBVIOUS
      <4>1. CASE i = Len(lines) + 1
        BY <1>1, <3>1, <3>2, <4>1 DEF Pending
      <4>2. CASE i # Len(lines) + 1
        <5>1. i \in 1..Len(lines)
          BY <1>1, <3>3, <4>2
        <5> QED
          BY <1>1, <3>1, <3>2, <5>1 DEF Numbered
      <4> QED
        BY <4>1, <4>2
    <3> QED
      BY <1>1, <1>2, <3>1, <3>3, <3>4, Bounds DEF Numbered, Pending
  <2>3. CASE BeginAppend(p)
    BY <1>4, <2>3 DEF BeginAppend, fileVars, boundVars
  <2>4. CASE WritePart(p)
    <3>1. Pending(p) /\ torn = 0 /\ torn' = 1 /\ UNCHANGED <<lines, duplicates, next>>
      BY <2>4 DEF Inv, Appending, AppendingAt, WritePart, boundVars
    <3>2. Len(lines) + torn' <= MaxLines + duplicates
      BY <1>1, <3>1, Bounds DEF Pending
    <3> QED
      BY <1>4, <3>1, <3>2
  <2>5. CASE ~WriteRest(p) /\ ~BeginAppend(p) /\ ~WritePart(p)
    <3>1. UNCHANGED <<lines, duplicates, next>> /\ torn' \in {0, torn}
      BY <2>1, <2>5 DEF StoreStep, Lock, Load, Repair, Rebuild, Sync,
            Project, ProjectFails, IOFails, Close, Kill, fileVars, boundVars
    <3> QED
      BY <1>4, <3>1
  <2> QED
    BY <2>2, <2>3, <2>4, <2>5
<1>6. CASE OfReader
  BY <1>4, <1>6 DEF OfReader, BeginRead, EndRead, fileVars, boundVars
<1>7. CASE Duplicate
  <2>1. Log' = Log /\ next' = next /\ duplicates' = duplicates + 1 /\ torn' = torn
    BY <1>1, <1>7, LogDuplicated DEF Duplicate
  <2>2. /\ Len(lines') = Len(lines) + 1
        /\ \A i \in 1..Len(lines') : \E k \in 1..Len(lines) : lines'[i] = lines[k]
    BY <1>1, <1>7, LinesDuplicated
  <2>3. Len(lines') + torn' <= MaxLines + duplicates'
    BY <1>1, <2>1, <2>2, Bounds DEF Numbered
  <2>4. Len(Log') < next' /\ \A i \in 1..Len(lines') : lines'[i].id < next'
    BY <1>1, <2>1, <2>2 DEF Numbered
  <2> QED
    BY <2>3, <2>4 DEF Numbered
<1>8. CASE PowerFails
  <2>1. next' = next /\ duplicates' = duplicates
    BY <1>8 DEF PowerFails
  <2>2. /\ lines' \in Seq(Event) /\ Len(lines') <= Len(lines)
        /\ \A i \in 1..Len(lines') : i \in 1..Len(lines) /\ lines'[i] = lines[i]
        /\ Log' \in Seq(Event) /\ Len(Log') <= Len(Log)
    BY <1>1, <1>8, LogLost DEF Prefix
  <2>3. Len(lines') \in Nat /\ Len(Log') \in Nat
    BY <2>2
  <2>6. Len(lines') + torn' <= Len(lines) + torn /\ torn' \in Nat
    <3>1. PICK n \in synced..Len(lines) :
            /\ lines' = SubSeq(lines, 1, n) /\ torn' \in 0..1
            /\ torn' > 0 => torn > 0 \/ n < Len(lines)
      BY <1>8 DEF PowerFails
    <3>2. n \in 0..Len(lines)
      BY <1>1, NumberTypes
    <3>3. Len(lines') = n
      BY <1>1, <3>1, <3>2
    <3> QED
      BY <1>1, <3>1, <3>2, <3>3
  <2>4. Len(lines') + torn' <= MaxLines + duplicates /\ Len(Log') < next
    BY <1>1, <1>2, <2>2, <2>3, <2>6, Bounds DEF Numbered
  <2>5. \A i \in 1..Len(lines') : lines'[i].id < next
    BY <1>1, <2>2 DEF Numbered
  <2> QED
    BY <2>1, <2>4, <2>5 DEF Numbered
<1> QED
  BY <1>5, <1>6, <1>7, <1>8, Steps
\* Of the other processes, all are closed and stay so.
LEMMA ProcessNext ==
  ASSUME Inv, OfProcess
  PROVE  Appending' /\ MemoryAndProjectionAgree'
<1>1. PICK p \in Proc : StoreStep(p) \/ Kill(p)
  BY DEF OfProcess
<1>2. AppendingAt(p)' /\ MemoryAt(p)'
  <2>1. CASE ClosesAt(p)
    BY <2>1, Closing, AtShut DEF Inv
  <2> QED
    BY <1>1, <2>1, AtOpening, AtBeginAppend, AtWritePart, AtWriteRest, AtSync, AtProject
       DEF StoreStep, ClosesAt
<1>3. ASSUME NEW q \in Proc, q # p PROVE pc'[q] = "closed"
  <2>1. TypeOK
    BY DEF Inv
  <2>2. CASE Lock(p)
    BY <1>3, <2>1, <2>2, NoProcAssumption DEF TypeOK, Lock, Become
  <2>3. CASE ~Lock(p)
    <3>1. pc[p] # "closed"
      BY <1>1, <2>3 DEF StoreStep, Load, Repair, Rebuild, BeginAppend, WritePart,
            WriteRest, Sync, Project, ProjectFails, IOFails, Close, Kill, Opening, Writing
    <3>2. pc[q] = "closed"
      BY <1>3, <2>1, <3>1, Alone
    <3>3. \E stage : Become(p, stage)
      BY <1>1, <2>3 DEF StoreStep, Load, Repair, Rebuild, BeginAppend, WritePart,
            WriteRest, Sync, Project, ProjectFails, IOFails, Close, Kill, Shut
    <3> QED
      BY <1>3, <2>1, <3>2, <3>3 DEF Become, TypeOK
  <2> QED
    BY <2>2, <2>3
<1>4. ASSUME NEW q \in Proc PROVE AppendingAt(q)' /\ MemoryAt(q)'
  <2>1. CASE q = p
    BY <1>2, <2>1
  <2>2. CASE q # p
    BY <1>3, <2>2 DEF AppendingAt, MemoryAt, Writing
  <2> QED
    BY <2>1, <2>2
<1> QED
  BY <1>4 DEF Appending, MemoryAndProjectionAgree, MemoryAt

LEMMA AppendingNext ==
  ASSUME Inv, Next
  PROVE  Appending' /\ MemoryAndProjectionAgree'
<1>1. TypeOK /\ Appending /\ MemoryAndProjectionAgree
  BY DEF Inv
<1>2. CASE OfReader
  <2>1. UNCHANGED <<lines, torn, synced, projection, pc, mem, event, next, acked, duplicates>>
    BY <1>2 DEF OfReader, BeginRead, EndRead, fileVars, boundVars
  <2>2. Log' = Log /\ SyncedLog' = SyncedLog /\ Promised' = Promised
    BY <2>1, LogSame, SyncedSame DEF Promised
  <2> QED
    BY <1>1, <2>1, <2>2 DEF Appending, AppendingAt, MemoryAndProjectionAgree, Pending
<1>3. CASE Duplicate
  <2>1. /\ UNCHANGED <<torn, projection, pc, mem, event, next, acked>>
        /\ duplicates' = duplicates + 1
    BY <1>3 DEF Duplicate
  <2>2. Log' = Log /\ SyncedLog' = SyncedLog /\ Promised' = Promised
    BY <1>1, <1>3, <2>1, LogDuplicated DEF Promised
  <2>3. /\ Len(lines') = Len(lines) + 1
        /\ \A i \in 1..Len(lines') : \E k \in 1..Len(lines) : lines'[i] = lines[k]
    BY <1>1, <1>3, LinesDuplicated
  <2>4. ASSUME NEW p \in Proc, Pending(p) PROVE Pending(p)'
    <3>1. Len(lines') < MaxLines + duplicates'
      BY <1>1, <2>1, <2>3, <2>4, Bounds, NumberTypes DEF Pending
    <3> QED
      BY <2>1, <2>2, <2>3, <2>4, <3>1 DEF Pending
  <2> QED
    BY <1>1, <2>1, <2>2, <2>4 DEF Appending, AppendingAt, MemoryAndProjectionAgree
<1>4. CASE PowerFails
  BY <1>4 DEF PowerFails, Appending, AppendingAt, MemoryAndProjectionAgree, Writing
<1> QED
  BY <1>2, <1>3, <1>4, ProcessNext, Steps

-----------------------------------------------------------------------------
(* What a step may do to the log *)

\* The log, its synchronized part, and what was acknowledged, in the steps that
\* neither write nor acknowledge nor lose an event
LogRests == Log' = Log /\ SyncedLog' \in {SyncedLog, Log} /\ acked' = acked

LogWrites(e) ==
  /\ e.seq = Len(Log) + 1
  /\ \A i \in 1..Len(Log) : Log[i].id # e.id
  /\ Log' = Append(Log, e) /\ SyncedLog' = SyncedLog /\ acked' = acked

LogPromises(e) ==
  /\ Log' = Log /\ SyncedLog' = Log /\ acked' = Append(acked, e)
  /\ e.seq = Len(Log) /\ Log[Len(Log)] = e /\ Promised < e.seq

LogLoses ==
  /\ Log' \in Seq(Event) /\ Prefix(Log', Log)
  /\ Prefix(SyncedLog, Log') /\ SyncedLog' = Log' /\ acked' = acked

LEMMA LogNext ==
  ASSUME Inv, Next
  PROVE  LogRests \/ (\E e \in Event : LogWrites(e) \/ LogPromises(e)) \/ LogLoses
<1>1. TypeOK
  BY DEF Inv
<1>2. CASE OfProcess
  <2>1. PICK p \in Proc : StoreStep(p) \/ Kill(p)
    BY <1>2 DEF OfProcess
  <2>2. CASE ClosesAt(p)
    BY <1>1, <2>2, Closing, AtShut DEF LogRests
  <2>3. CASE BeginAppend(p) \/ WritePart(p)
    BY <2>3, LogSame, SyncedSame DEF BeginAppend, WritePart, fileVars, LogRests
  <2>4. CASE WriteRest(p)
    BY <2>4, AtWriteRest DEF LogWrites
  <2>5. CASE Sync(p)
    BY <2>5, AtSync DEF LogRests
  <2>6. CASE Project(p)
    BY <2>6, AtProject DEF LogPromises
  <2>7. CASE Lock(p) \/ Load(p) \/ Repair(p) \/ Rebuild(p)
    BY <2>7, AtOpening DEF LogRests
  <2> QED
    BY <2>1, <2>2, <2>3, <2>4, <2>5, <2>6, <2>7 DEF StoreStep, ClosesAt
<1>3. CASE OfReader
  BY <1>3, LogSame, SyncedSame DEF OfReader, BeginRead, EndRead, fileVars, LogRests
<1>4. CASE Duplicate
  BY <1>1, <1>4, LogDuplicated DEF Duplicate, LogRests
<1>5. CASE PowerFails
  BY <1>1, <1>5, LogLost DEF PowerFails, LogLoses
<1> QED
  BY <1>2, <1>3, <1>4, <1>5, Steps
-----------------------------------------------------------------------------
(* What was acknowledged is kept, and readers find it *)

LEMMA KeptNext ==
  ASSUME Inv, Next
  PROVE  Kept'
<1>1. /\ TypeOK /\ Kept /\ Len(SyncedLog) \in Nat /\ Len(Log) \in Nat
      /\ Len(SyncedLog) <= Len(Log) /\ Log \in Seq(Event) /\ Prefix(SyncedLog, Log)
      /\ acked \in Seq(Event)
  BY LogTypes DEF Inv, TypeOK
<1>2. CASE LogRests
  <2>1. Holds(Log, acked, Len(Log)) /\ Holds(Log, acked, Len(SyncedLog))
    BY <1>1, HoldsOn DEF Kept
  <2> QED
    BY <1>2, <2>1 DEF LogRests, Kept
<1>3. ASSUME NEW e \in Event, LogWrites(e) PROVE Kept'
  <2>1. \A i \in 1..Len(SyncedLog) : Log'[i] = Log[i]
    BY <1>1, <1>3 DEF LogWrites
  <2>2. Holds(Log', acked, Len(SyncedLog))
    <3>1. Len(SyncedLog) <= Len(SyncedLog) /\ Holds(Log, acked, Len(SyncedLog))
      BY <1>1 DEF Kept
    <3> HIDE DEF Kept
    <3> QED
      BY <1>1, <2>1, <3>1, HoldsOn
  <2> QED
    BY <1>3, <2>2 DEF LogWrites, Kept
<1>4. ASSUME NEW e \in Event, LogPromises(e) PROVE Kept'
  <2>1. Holds(Log, acked, Len(Log))
    BY <1>1, HoldsOn DEF Kept
  <2>2. e.seq \in 1..Len(Log) /\ Log[e.seq] = e
    BY <1>1, <1>4, EventFields DEF LogPromises
  <2>3. ASSUME NEW k \in 1..Len(acked')
        PROVE  acked'[k].seq \in 1..Len(Log) /\ Log[acked'[k].seq] = acked'[k]
    <3>1. CASE k = Len(acked) + 1
      BY <1>1, <1>4, <2>2, <3>1 DEF LogPromises
    <3>2. CASE k # Len(acked) + 1
      <4>1. k \in 1..Len(acked) /\ acked'[k] = acked[k]
        BY <1>1, <1>4, <3>2 DEF LogPromises
      <4> QED
        BY <2>1, <4>1 DEF Holds
    <3> QED
      BY <3>1, <3>2
  <2> QED
    BY <1>4, <2>3 DEF LogPromises, Kept, Holds
<1>5. CASE LogLoses
  <2>1. /\ Len(SyncedLog) <= Len(Log') /\ Len(Log') \in Nat
        /\ \A i \in 1..Len(SyncedLog) : Log'[i] = Log[i]
    BY <1>1, <1>5 DEF LogLoses, Prefix
  <2>2. Holds(Log', acked, Len(Log'))
    BY <1>1, <2>1, HoldsOn DEF Kept
  <2> QED
    BY <1>5, <2>2 DEF LogLoses, Kept
<1> QED
  BY <1>2, <1>3, <1>4, <1>5, LogNext

\* The bound of a log that was not added to from outside
LEMMA FitsUncopied == TypeOK /\ Numbered /\ duplicates = 0 => Fits
BY NumberTypes, Bounds DEF Numbered, Fits

LEMMA ReadableNext ==
  ASSUME Inv, Next
  PROVE  LogStaysReadable'
<1>1. Log \in Seq(Event) /\ Len(Log) \in Nat /\ \A i \in 1..Len(Log) : Log[i].seq = i
  BY LogTypes DEF Inv, LogStaysReadable, Gapless
<1>2. Log' \in Seq(Event) /\ \A i \in 1..Len(Log') : Log'[i].seq = i
  <2>1. CASE Log' = Log
    BY <1>1, <2>1
  <2>2. ASSUME NEW e \in Event, LogWrites(e)
        PROVE  Log' \in Seq(Event) /\ \A i \in 1..Len(Log') : Log'[i].seq = i
    <3>1. Log' = Append(Log, e) /\ e.seq = Len(Log) + 1
      BY <2>2 DEF LogWrites
    <3> QED
      BY <1>1, <3>1
  <2>3. CASE LogLoses
    <3>1. /\ Log' \in Seq(Event) /\ Len(Log') \in Nat /\ Len(Log') <= Len(Log)
          /\ \A i \in 1..Len(Log') : Log[i] = Log'[i]
      BY <2>3 DEF LogLoses, Prefix
    <3> QED
      BY <1>1, <3>1
  <2> QED
    BY <2>1, <2>2, <2>3, LogNext DEF LogRests, LogPromises
<1>3. DOMAIN Log' = 1..Len(Log')
  BY <1>2
<1>4. TypeOK' /\ Numbered' => (duplicates = 0 => Fits)'
  BY FitsUncopied, PTL
<1>5. (duplicates = 0 => Fits)'
  BY <1>4, TypeNext, NumberedNext
<1> QED
  BY <1>2, <1>3, <1>5 DEF LogStaysReadable, Gapless

\* What the log had, it has, unless power fails.
LEMMA LogGrows ==
  ASSUME Inv, OfProcess \/ Duplicate, NEW es, Holds(Log, es, Len(Log))
  PROVE  Holds(Log', es, Len(Log'))
<1>1. TypeOK /\ Log \in Seq(Event) /\ Len(Log) \in Nat
  BY LogTypes DEF Inv
<1>2. Log' = Log \/ \E e \in Event : Log' = Append(Log, e)
  <2>1. CASE Duplicate
    BY <1>1, <2>1, LogDuplicated
  <2>2. ASSUME NEW p \in Proc, StoreStep(p) \/ Kill(p)
        PROVE  Log' = Log \/ \E e \in Event : Log' = Append(Log, e)
    <3>1. CASE WriteRest(p)
      BY <3>1, AtWriteRest
    <3>2. CASE ~WriteRest(p)
      <4>1. UNCHANGED lines
        BY <2>2, <3>2 DEF StoreStep, Lock, Load, Repair, Rebuild, BeginAppend, WritePart,
              Sync, Project, ProjectFails, IOFails, Close, Kill, fileVars
      <4> QED
        BY <4>1, LogSame
    <3> QED
      BY <3>1, <3>2
  <2> QED
    BY <2>1, <2>2 DEF OfProcess
<1>3. /\ Len(Log') \in Nat /\ Len(Log) <= Len(Log')
      /\ \A i \in 1..Len(Log) : Log'[i] = Log[i]
  BY <1>1, <1>2
<1> QED
  BY <1>1, <1>3, HoldsOn

LEMMA ReadersNext ==
  ASSUME Inv, Next
  PROVE  Reading' /\ ReadsAreHistory'
<1>1. TypeOK /\ Reading /\ ReadsAreHistory
  BY DEF Inv
<1>2. Holds(Log, acked, Len(Log)) /\ Log \in Seq(Event)
  <2>1. /\ Len(SyncedLog) \in Nat /\ Len(Log) \in Nat /\ Len(SyncedLog) <= Len(Log)
        /\ Log \in Seq(Event)
    BY <1>1, LogTypes
  <2> QED
    BY <2>1, HoldsOn DEF Inv, Kept
<1>3. CASE OfProcess \/ Duplicate
  <2>1. (UNCHANGED lines /\ UNCHANGED readerVars) \/ FileChanges
    BY <1>1, <1>3, ReadersWatch DEF OfProcess, Duplicate
  <2>2. /\ UNCHANGED <<reading, base, output>>
        /\ \A r \in Reader : reading[r] = "yes" =>
             changed'[r] \/ (lines' = lines /\ changed'[r] = changed[r] /\ seen' = seen)
    BY <1>1, <2>1 DEF readerVars, FileChanges, TypeOK
  <2>3. \A r \in Reader : reading[r] = "yes" => Holds(Log', base[r], Len(Log'))
    BY <1>1, <1>3, LogGrows DEF Reading
  <2>4. Reading'
    BY <1>1, <2>2, <2>3 DEF Reading
  <2>5. ReadsAreHistory'
    BY <1>1, <2>2 DEF ReadsAreHistory
  <2> QED
    BY <2>4, <2>5
<1>4. ASSUME NEW r \in Reader, BeginRead(r) PROVE Reading' /\ ReadsAreHistory'
  <2>1. Log' = Log /\ UNCHANGED lines
    BY <1>4, LogSame DEF BeginRead, fileVars
  <2>2. /\ reading'[r] \in {"yes", "refused"} /\ base'[r] = acked /\ seen'[r] = lines
        /\ \A q \in Reader : q # r =>
             /\ reading'[q] = reading[q] /\ changed'[q] = changed[q]
             /\ seen'[q] = seen[q] /\ base'[q] = base[q] /\ output'[q] = output[q]
    BY <1>1, <1>4 DEF TypeOK, BeginRead
  <2>3. ASSUME NEW q \in Reader, reading'[q] = "yes"
        PROVE  Holds(Log', base'[q], Len(Log')) /\ (~changed'[q] => seen'[q] = lines')
    <3>1. CASE q = r
      BY <1>2, <2>1, <2>2, <3>1
    <3>2. CASE q # r
      BY <1>1, <2>1, <2>2, <2>3, <3>2 DEF Reading
    <3> QED
      BY <3>1, <3>2
  <2>4. ReadsAreHistory'
    BY <1>1, <2>2 DEF ReadsAreHistory
  <2> QED
    BY <2>3, <2>4 DEF Reading
<1>5. ASSUME NEW r \in Reader, EndRead(r) PROVE Reading' /\ ReadsAreHistory'
  <2>1. Log' = Log /\ UNCHANGED <<lines, base>> /\ reading[r] = "yes"
    BY <1>5, LogSame DEF EndRead, fileVars
  <2>2. /\ reading'[r] \in {"done", "refused"}
        /\ reading'[r] = "done" => ~changed[r] /\ output'[r] = Delivered(r)
        /\ \A q \in Reader : q # r =>
             /\ reading'[q] = reading[q] /\ changed'[q] = changed[q]
             /\ seen'[q] = seen[q] /\ output'[q] = output[q]
    BY <1>1, <1>5 DEF TypeOK, EndRead
  <2>3. Reading'
    BY <1>1, <2>1, <2>2 DEF Reading
  <2>4. reading'[r] = "done" => output'[r] = Log
    BY <1>1, <2>1, <2>2 DEF Reading, Delivered, Log
  <2>5. Log # Mixed
    BY <1>2, MixedAssumption
  <2>6. \A k \in DOMAIN base[r] : base[r][k].seq \in DOMAIN Log /\ Log[base[r][k].seq] = base[r][k]
    <3>1. DOMAIN base[r] = 1..Len(base[r]) /\ DOMAIN Log = 1..Len(Log)
      BY <1>1, <1>2 DEF TypeOK
    <3> QED
      BY <1>1, <2>1, <3>1 DEF Reading, Holds
  <2>7. ASSUME NEW q \in Reader, reading'[q] = "done"
        PROVE  /\ output'[q] # Mixed
               /\ \A k \in DOMAIN base[q] :
                    base[q][k].seq \in DOMAIN output'[q] /\ output'[q][base[q][k].seq] = base[q][k]
    <3>1. CASE q = r
      BY <2>4, <2>5, <2>6, <2>7, <3>1
    <3>2. CASE q # r
      BY <1>1, <2>2, <2>7, <3>2 DEF ReadsAreHistory
    <3> QED
      BY <3>1, <3>2
  <2>8. ReadsAreHistory'
    BY <2>1, <2>7 DEF ReadsAreHistory
  <2> QED
    BY <2>3, <2>8
<1>6. CASE PowerFails
  BY <1>6 DEF PowerFails, Reading, ReadsAreHistory
<1> QED
  BY <1>3, <1>4, <1>5, <1>6, Steps DEF OfReader
-----------------------------------------------------------------------------
(* Theorems *)

LEMMA InvStutters == ASSUME Inv, UNCHANGED vars PROVE Inv'
<1>1. UNCHANGED <<lines, synced, projection, owner, pc, mem, event, drift, next, acked,
                  torn, reading, changed, seen, base, output, crashes, duplicates>>
  BY DEF vars, fileVars, readerVars, boundVars
<1>2. Log' = Log /\ SyncedLog' = SyncedLog /\ Promised' = Promised
  BY <1>1, LogSame, SyncedSame DEF Promised
<1>3. TypeOK' /\ Numbered' /\ Kept'
  BY <1>1, <1>2 DEF Inv, TypeOK, Numbered, Kept
<1>4. Appending' /\ MemoryAndProjectionAgree'
  BY <1>1, <1>2 DEF Inv, Appending, AppendingAt, Pending, MemoryAndProjectionAgree
<1>5. Reading' /\ LogStaysReadable' /\ ReadsAreHistory'
  BY <1>1, <1>2 DEF Inv, Reading, LogStaysReadable, Gapless, Fits, ReadsAreHistory
<1> QED
  BY <1>3, <1>4, <1>5 DEF Inv

LEMMA InvNext == Inv /\ [Next]_vars => Inv'
<1>1. ASSUME Inv, Next PROVE Inv'
  BY <1>1, TypeNext, NumberedNext, AppendingNext, KeptNext, ReadableNext, ReadersNext
     DEF Inv
<1> QED
  BY <1>1, InvStutters

\* The invariant holds in every reachable state of a session.
THEOREM InvHolds == Spec => []Inv
BY InvInit, InvNext, PTL DEF Spec

\* The state has its types: every line of the file is a whole event, at most one
\* process has the lock, and all that work without it are closed.
THEOREM TypesHold == Spec => []TypeOK
<1>1. Inv => TypeOK
  BY DEF Inv
<1> QED
  BY <1>1, InvHolds, PTL

\* No number of failed writes, killed processes, power failures and copied lines
\* leaves a log with a gap or a glued line, which its next owner would refuse, and
\* what the store writes stays within the budget that readers have for the file.
THEOREM LogKeepsReadable == Spec => []LogStaysReadable
<1>1. Inv => LogStaysReadable
  BY DEF Inv
<1> QED
  BY <1>1, InvHolds, PTL

\* The owner's memory is the log, and its projection is its memory.
THEOREM CopiesAgree == Spec => []MemoryAndProjectionAgree
<1>1. Inv => MemoryAndProjectionAgree
  BY DEF Inv
<1> QED
  BY <1>1, InvHolds, PTL

\* A reader without the lock returns the acknowledged history or nothing.
THEOREM ReadersSeeHistory == Spec => []ReadsAreHistory
<1>1. Inv => ReadsAreHistory
  BY DEF Inv
<1> QED
  BY <1>1, InvHolds, PTL

-----------------------------------------------------------------------------
(* The session directory implements a durable log *)

LEMMA PromisedOfAppend ==
  ASSUME acked \in Seq(Event), NEW e \in Event, acked' = Append(acked, e)
  PROVE  Promised' = e.seq
<1>1. acked' # <<>> /\ acked'[Len(acked')] = e
  OBVIOUS
<1> QED
  BY <1>1 DEF Promised

\* An ordinary step is a stutter of the durable log, the last part of a line
\* writes an event, the return of append acknowledges it, and a power failure
\* loses what no caller was told of.
LEMMA StepRefines ==
  ASSUME Inv, Next
  PROVE  Durable!Next \/ UNCHANGED Durable!vars
<1>1. /\ TypeOK /\ Log \in Seq(Event) /\ Len(Log) \in Nat /\ acked \in Seq(Event)
      /\ SyncedLog \in Seq(Event) /\ Len(SyncedLog) \in Nat /\ Len(SyncedLog) <= Len(Log)
  BY LogTypes DEF Inv, TypeOK
<1>2. Promised \in Nat /\ Promised <= Len(SyncedLog)
  BY <1>1, PromisedBound DEF Inv
<1>3. acked' = acked => Promised' = Promised
  BY DEF Promised
<1>4. CASE LogRests
  BY <1>3, <1>4 DEF LogRests, Durable!vars
<1>5. ASSUME NEW e \in Event, LogWrites(e) PROVE Durable!Next
  <2>1. DOMAIN Log = 1..Len(Log)
    BY <1>1
  <2>2. Durable!Write(e)
    BY <1>3, <1>5, <2>1 DEF LogWrites, Durable!Write
  <2> QED
    BY <2>2 DEF Durable!Next
<1>6. ASSUME NEW e \in Event, LogPromises(e) PROVE Durable!Next
  <2>1. Promised' = Len(Log) /\ Promised < Len(Log) /\ Log' = Log
    BY <1>1, <1>6, PromisedOfAppend DEF LogPromises
  <2>2. Promised' \in Promised + 1..Len(Log)
    BY <1>1, <1>2, <2>1
  <2>3. Durable!Acknowledge
    BY <2>1, <2>2 DEF Durable!Acknowledge
  <2> QED
    BY <2>3 DEF Durable!Next
<1>7. CASE LogLoses
  <2>1. /\ Log' \in Seq(Event) /\ Len(Log') \in Nat /\ Len(Log') <= Len(Log)
        /\ \A i \in 1..Len(Log') : Log'[i] = Log[i]
        /\ Len(SyncedLog) <= Len(Log') /\ Promised' = Promised
    BY <1>3, <1>7 DEF LogLoses, Prefix
  <2>2. Len(Log') \in Promised..Len(Log)
    BY <1>1, <1>2, <2>1
  <2>3. Log' = SubSeq(Log, 1, Len(Log'))
    BY <1>1, <2>1
  <2>4. Durable!Lose
    BY <2>1, <2>2, <2>3 DEF Durable!Lose
  <2> QED
    BY <2>4 DEF Durable!Next
<1> QED
  BY <1>4, <1>5, <1>6, <1>7, LogNext

\* The session directory is a durable log to its callers: events are written
\* once, in the order of their numbers, and no failure loses an acknowledged one.
THEOREM SessionIsDurable == Spec => ImplementsDurableLog
<1>1. Init => Durable!Init
  <2> SUFFICES ASSUME Init PROVE Durable!Init
    OBVIOUS
  <2>1. Log = <<>> /\ Promised = 0
    BY EventsOfNothing DEF Init, Log, Promised
  <2> QED
    BY <2>1 DEF Durable!Init
<1>2. Inv /\ [Next]_vars => [Durable!Next]_(Durable!vars)
  <2>1. ASSUME UNCHANGED vars PROVE UNCHANGED Durable!vars
    BY <2>1, LogSame DEF vars, fileVars, Promised, Durable!vars
  <2> QED
    BY <2>1, StepRefines
<1> QED
  BY <1>1, <1>2, InvHolds, PTL DEF Spec, ImplementsDurableLog, Durable!Spec
=============================================================================

----------------------------- MODULE SessionLog -----------------------------
(***************************************************************************)
(* One session directory: events.jsonl, the writer lock and the SQLite     *)
(* projection (src/packages/sessions/store.ts, files.ts, lifecycle.ts).    *)
(*                                                                         *)
(* Processes open the session in turn (the lock of writer.sqlite admits    *)
(* one), repair a torn tail, rebuild the projection and append events.  An *)
(* append is a drift check, a write that may be cut short, an fsync, the   *)
(* update of the memory and the projection, and the return to the caller:  *)
(* steps of their own, so that I/O errors, killed processes and power      *)
(* failures hit between any two.  Readers take no lock.  Somebody may also *)
(* append a copy of a line to the file behind the store's back.            *)
(*                                                                         *)
(* An event is its identity and its sequence number; its type and payload, *)
(* redaction and decoding are left out.  The file is its complete lines,   *)
(* in order, and the pieces of lines, without a newline, that follow them. *)
(* The limit on its bytes is a limit on its lines, a piece counting as one.*)
(***************************************************************************)
EXTENDS Naturals, Sequences, FiniteSets

CONSTANTS
  Proc,          \* processes that open the session
  Reader,        \* processes that read it without its lock
  NoProc,
  Mixed,         \* what a reader gets from a file that changes under it
  MaxEvents,     \* bound on the events created
  MaxLines,      \* HISTORY_LIMIT, in lines
  MaxCrashes,    \* bound on killed processes and power failures
  MaxDuplicates  \* bound on lines copied from outside

ASSUME BoundsAssumption == {MaxEvents, MaxLines, MaxCrashes, MaxDuplicates} \subseteq Nat
ASSUME NoProcAssumption == NoProc \notin Proc

VARIABLES
  lines,       \* complete lines of events.jsonl
  torn,        \* how many pieces of lines follow them
  synced,      \* how many lines survive a power failure
  projection,  \* the events in projection.sqlite
  owner,       \* the process with the exclusive lock
  pc, mem, event,  \* of a process: its stage, its memory, the event it appends
  drift,       \* the file changed since the owner last recorded its version
  next,        \* next fresh event identity
  acked,       \* history: events whose append returned, in order
  reading, changed, seen, base, output,  \* of a reader: see BeginRead
  crashes, duplicates

fileVars == <<lines, torn, synced>>
readerVars == <<reading, changed, seen, base, output>>
boundVars == <<crashes, duplicates>>
vars == <<fileVars, projection, owner, pc, mem, event, drift, next, acked,
          readerVars, boundVars>>

Event == [id : 1..MaxEvents, seq : 1..MaxEvents]
NoEvent == [id |-> 0, seq |-> 0]

ASSUME MixedAssumption == Mixed \notin Seq(Event)

Opening == {"locked", "loaded", "repaired"}
Writing == {"checked", "torn", "written"}

TypeOK ==
  /\ lines \in Seq(Event) /\ Len(lines) <= MaxLines + MaxDuplicates
  /\ torn \in Nat
  /\ synced \in 0..Len(lines)
  /\ projection \in Seq(Event)
  /\ owner \in Proc \union {NoProc}
  /\ pc \in [Proc -> {"closed", "open", "synced"} \union Opening \union Writing]
  /\ \A p \in Proc : (pc[p] = "closed") = (owner # p)
  /\ mem \in [Proc -> Seq(Event)]
  /\ event \in [Proc -> Event \union {NoEvent}]
  /\ drift \in BOOLEAN
  /\ next \in 1..MaxEvents + 1
  /\ acked \in Seq(Event)
  /\ reading \in [Reader -> {"no", "yes", "done", "refused"}]
  /\ changed \in [Reader -> BOOLEAN]
  /\ seen \in [Reader -> Seq(Event)] /\ base \in [Reader -> Seq(Event)]
  /\ output \in [Reader -> Seq(Event) \union {Mixed}]
  /\ crashes \in 0..MaxCrashes /\ duplicates \in 0..MaxDuplicates

Init ==
  /\ lines = <<>> /\ torn = 0 /\ synced = 0 /\ projection = <<>>
  /\ owner = NoProc
  /\ pc = [p \in Proc |-> "closed"]
  /\ mem = [p \in Proc |-> <<>>]
  /\ event = [p \in Proc |-> NoEvent]
  /\ drift = FALSE /\ next = 1 /\ acked = <<>>
  /\ reading = [r \in Reader |-> "no"] /\ changed = [r \in Reader |-> FALSE]
  /\ seen = [r \in Reader |-> <<>>] /\ base = [r \in Reader |-> <<>>]
  /\ output = [r \in Reader |-> <<>>]
  /\ crashes = 0 /\ duplicates = 0

-----------------------------------------------------------------------------
\* The events of a sequence of lines: a line with a known identity is skipped.
Events(ls) ==
  LET upTo[n \in 0..Len(ls)] ==
        IF n = 0 THEN <<>>
        ELSE IF \E i \in 1..(n - 1) : ls[i].id = ls[n].id
               THEN upTo[n - 1]
               ELSE Append(upTo[n - 1], ls[n])
  IN  upTo[Len(ls)]

\* "Event sequence gap": such a log is refused by every reader and writer.
Gapless(es) == \A i \in DOMAIN es : es[i].seq = i

\* "Session history exceeds read budget": so is a file above HISTORY_LIMIT.
Fits == Len(lines) + torn <= MaxLines

Become(p, stage) == pc' = [pc EXCEPT ![p] = stage]

\* SessionStore.close, or the end of the process: its memory is gone.
Shut(p) ==
  /\ Become(p, "closed")
  /\ owner' = NoProc
  /\ mem' = [mem EXCEPT ![p] = <<>>]
  /\ event' = [event EXCEPT ![p] = NoEvent]

\* A write changes size and modification time, which readers compare.
FileChanges ==
  /\ changed' = [r \in Reader |-> reading[r] = "yes"]
  /\ UNCHANGED <<reading, seen, base, output>>

-----------------------------------------------------------------------------
(* Opening the session: the constructor of SessionStore *)

Lock(p) ==
  /\ pc[p] = "closed"
  /\ owner = NoProc
  /\ owner' = p
  /\ Become(p, "locked")
  /\ UNCHANGED <<fileVars, projection, mem, event, drift, next, acked,
                 readerVars, boundVars>>

Load(p) ==
  /\ pc[p] = "locked"
  /\ Fits
  /\ Gapless(Events(lines))
  /\ mem' = [mem EXCEPT ![p] = Events(lines)]
  /\ Become(p, "loaded")
  /\ UNCHANGED <<fileVars, projection, owner, event, drift, next, acked,
                 readerVars, boundVars>>

\* A faulty variant: the incomplete tail stays.
KeepTail(p) ==
  /\ pc[p] = "loaded"
  /\ drift' = FALSE
  /\ Become(p, "repaired")
  /\ UNCHANGED <<fileVars, projection, owner, mem, event, next, acked,
                 readerVars, boundVars>>

\* The incomplete tail is cut off and the cut is synchronized.
Repair(p) ==
  /\ pc[p] = "loaded"
  /\ IF torn > 0
       THEN torn' = 0 /\ synced' = Len(lines) /\ FileChanges
       ELSE UNCHANGED <<torn, synced, readerVars>>
  /\ drift' = FALSE
  /\ Become(p, "repaired")
  /\ UNCHANGED <<lines, projection, owner, mem, event, next, acked, boundVars>>

\* A faulty variant: the projection is trusted as it is.
TrustProjection(p) ==
  /\ pc[p] = "repaired"
  /\ Become(p, "open")
  /\ UNCHANGED <<fileVars, projection, owner, mem, event, drift, next, acked,
                 readerVars, boundVars>>

Rebuild(p) ==
  /\ pc[p] = "repaired"
  /\ projection' = mem[p]
  /\ Become(p, "open")
  /\ UNCHANGED <<fileVars, owner, mem, event, drift, next, acked, readerVars,
                 boundVars>>

-----------------------------------------------------------------------------
(* SessionStore.append *)

\* The file must be the one the store knows and have room; else append throws.
BeginAppend(p) ==
  /\ pc[p] = "open"
  /\ ~drift
  /\ Len(lines) < MaxLines
  /\ next <= MaxEvents
  /\ event' = [event EXCEPT ![p] = [id |-> next, seq |-> Len(mem[p]) + 1]]
  /\ next' = next + 1
  /\ Become(p, "checked")
  /\ UNCHANGED <<fileVars, projection, owner, mem, drift, acked, readerVars,
                 boundVars>>

WritePart(p) ==
  /\ pc[p] = "checked"
  /\ torn' = torn + 1
  /\ FileChanges
  /\ Become(p, "torn")
  /\ UNCHANGED <<lines, synced, projection, owner, mem, event, drift, next,
                 acked, boundVars>>

\* The rest of the line, up to its newline.  With a piece that was there before
\* it makes a line that no reader can decode.
WriteRest(p) ==
  /\ pc[p] = "torn"
  /\ lines' = Append(lines, IF torn = 1 THEN event[p] ELSE NoEvent)
  /\ torn' = 0
  /\ FileChanges
  /\ Become(p, "written")
  /\ UNCHANGED <<synced, projection, owner, mem, event, drift, next, acked,
                 boundVars>>

\* A faulty variant: the event counts as saved without an fsync.
SkipSync(p) ==
  /\ pc[p] = "written"
  /\ drift' = FALSE
  /\ mem' = [mem EXCEPT ![p] = Append(@, event[p])]
  /\ Become(p, "synced")
  /\ UNCHANGED <<fileVars, projection, owner, event, next, acked, readerVars,
                 boundVars>>

\* fsync; the memory follows, and the version of the file is recorded
Sync(p) ==
  /\ pc[p] = "written"
  /\ synced' = Len(lines)
  /\ drift' = FALSE
  /\ mem' = [mem EXCEPT ![p] = Append(@, event[p])]
  /\ Become(p, "synced")
  /\ UNCHANGED <<lines, torn, projection, owner, event, next, acked,
                 readerVars, boundVars>>

\* The projection follows, and append returns the event to its caller.
Project(p) ==
  /\ pc[p] = "synced"
  /\ projection' = Append(projection, event[p])
  /\ acked' = Append(acked, event[p])
  /\ Become(p, "open")
  /\ UNCHANGED <<fileVars, owner, mem, event, drift, next, readerVars, boundVars>>

\* "Canonical event saved; projection failed": the store closes.
ProjectFails(p) ==
  /\ pc[p] = "synced"
  /\ Shut(p)
  /\ UNCHANGED <<fileVars, projection, drift, next, acked,
                 readerVars, boundVars>>

\* A faulty variant: the store closes without giving up its lock.
KeepLock(p) ==
  /\ pc[p] \in Opening \union Writing
  /\ Become(p, "closed")
  /\ UNCHANGED <<fileVars, projection, owner, mem, event, drift, next, acked,
                 readerVars, boundVars>>

\* Opening or writing fails: the store closes, and what was written stays.
IOFails(p) ==
  /\ pc[p] \in Opening \union Writing
  /\ Shut(p)
  /\ UNCHANGED <<fileVars, projection, drift, next, acked,
                 readerVars, boundVars>>

Close(p) ==
  /\ pc[p] = "open"
  /\ Shut(p)
  /\ UNCHANGED <<fileVars, projection, drift, next, acked,
                 readerVars, boundVars>>

-----------------------------------------------------------------------------
(* readHistory: bounded read of a file between two looks at its version, and *)
(* the checks of what was read                                               *)

BeginRead(r) ==
  /\ reading[r] # "yes"
  /\ reading' = [reading EXCEPT ![r] = IF Fits THEN "yes" ELSE "refused"]
  /\ changed' = [changed EXCEPT ![r] = FALSE]
  /\ seen' = [seen EXCEPT ![r] = lines]
  /\ base' = [base EXCEPT ![r] = acked]
  /\ output' = [output EXCEPT ![r] = <<>>]
  /\ UNCHANGED <<fileVars, projection, owner, pc, mem, event, drift, next,
                 acked, boundVars>>

\* The bytes of a file that changed in between may belong to no version of it.
Delivered(r) == IF changed[r] THEN Mixed ELSE Events(seen[r])

\* A faulty variant: the second look at the version is left out.
EndReadAnyway(r) ==
  /\ reading[r] = "yes"
  /\ reading' = [reading EXCEPT ![r] = "done"]
  /\ output' = [output EXCEPT ![r] = Delivered(r)]
  /\ UNCHANGED <<fileVars, projection, owner, pc, mem, event, drift, next,
                 acked, changed, seen, base, boundVars>>

EndRead(r) ==
  /\ reading[r] = "yes"
  /\ IF changed[r] \/ ~Gapless(Events(seen[r]))
       THEN reading' = [reading EXCEPT ![r] = "refused"] /\ UNCHANGED output
       ELSE /\ reading' = [reading EXCEPT ![r] = "done"]
            /\ output' = [output EXCEPT ![r] = Delivered(r)]
  /\ changed' = [changed EXCEPT ![r] = FALSE]
  /\ seen' = [seen EXCEPT ![r] = <<>>]
  /\ UNCHANGED <<fileVars, projection, owner, pc, mem, event, drift, next,
                 acked, base, boundVars>>

-----------------------------------------------------------------------------
(* The environment *)

\* A copy of a line is appended from outside the program.
Duplicate ==
  /\ duplicates < MaxDuplicates
  /\ torn = 0
  /\ \E i \in DOMAIN lines : lines' = Append(lines, lines[i])
  /\ duplicates' = duplicates + 1
  /\ drift' = TRUE
  /\ FileChanges
  /\ UNCHANGED <<torn, synced, projection, owner, pc, mem, event, next, acked,
                 crashes>>

\* The process is killed; the operating system keeps what it wrote.
Kill(p) ==
  /\ pc[p] # "closed"
  /\ crashes < MaxCrashes
  /\ crashes' = crashes + 1
  /\ Shut(p)
  /\ UNCHANGED <<fileVars, projection, drift, next, acked,
                 readerVars, duplicates>>

\* The machine stops: unsynchronized lines may be lost from the end, one of
\* them in part.
PowerFails ==
  /\ crashes < MaxCrashes
  /\ crashes' = crashes + 1
  /\ \E n \in synced..Len(lines) :
       /\ lines' = SubSeq(lines, 1, n)
       /\ synced' = n
       /\ torn' \in 0..1
       /\ torn' > 0 => torn > 0 \/ n < Len(lines)
  /\ pc' = [p \in Proc |-> "closed"]
  /\ owner' = NoProc
  /\ mem' = [p \in Proc |-> <<>>]
  /\ event' = [p \in Proc |-> NoEvent]
  /\ reading' = [r \in Reader |-> "no"]
  /\ changed' = [r \in Reader |-> FALSE]
  /\ seen' = [r \in Reader |-> <<>>]
  /\ base' = [r \in Reader |-> <<>>]
  /\ output' = [r \in Reader |-> <<>>]
  /\ UNCHANGED <<projection, drift, next, acked, duplicates>>

-----------------------------------------------------------------------------
StoreStep(p) ==
  \/ Lock(p) \/ Load(p) \/ Repair(p) \/ Rebuild(p)
  \/ BeginAppend(p) \/ WritePart(p) \/ WriteRest(p) \/ Sync(p)
  \/ Project(p) \/ ProjectFails(p) \/ IOFails(p) \/ Close(p)

Next ==
  \/ \E p \in Proc : StoreStep(p) \/ Kill(p)
  \/ \E r \in Reader : BeginRead(r) \/ EndRead(r)
  \/ Duplicate
  \/ PowerFails

Spec == Init /\ [][Next]_vars

-----------------------------------------------------------------------------
(* Safety *)

Log == Events(lines)

\* No interleaving leaves a log that its next owner and its readers refuse:
\* a writer that comes after a write cut short begins a line of its own and
\* continues the numbering (store.ts:26,30), and unless somebody else adds to
\* the file it stays within the budget of those who read it (store.ts:55,
\* files.ts:10).
LogStaysReadable ==
  /\ Gapless(Log)
  /\ duplicates = 0 => Fits

\* The owner's memory is the log, also after a failed write of an earlier
\* owner, and the projection of an open store is its memory (store.ts: state,
\* events and projection are three copies of one history).
MemoryAndProjectionAgree ==
  \A p \in Proc :
    /\ pc[p] \in {"loaded", "repaired", "open", "checked", "torn", "synced"} =>
         mem[p] = Log
    /\ pc[p] \in {"open", "checked", "torn", "written"} => projection = mem[p]

\* A reader without the lock returns every event acknowledged before it began,
\* in order, and never bytes of two versions of the file (files.ts,
\* readBoundedFile; lifecycle.ts, readHistory).
ReadsAreHistory ==
  \A r \in Reader : reading[r] = "done" =>
    /\ output[r] # Mixed
    /\ \A k \in DOMAIN base[r] :
         base[r][k].seq \in DOMAIN output[r] /\ output[r][base[r][k].seq] = base[r][k]

-----------------------------------------------------------------------------
(* The abstract specification *)

Promised == IF acked = <<>> THEN 0 ELSE acked[Len(acked)].seq

Durable == INSTANCE DurableLog WITH log <- Log, promised <- Promised

\* The session directory implements a durable log.
ImplementsDurableLog == Durable!Spec
=============================================================================

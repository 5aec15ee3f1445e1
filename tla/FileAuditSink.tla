--------------------------- MODULE FileAuditSink ---------------------------
(***************************************************************************)
(* The NDJSON audit log (qfc-audit/src/file.rs): emit under its mutex, as  *)
(* the write and the sync it consists of, the in-memory chain head, and    *)
(* the recovery of that head from the last line after a crash.             *)
(*                                                                         *)
(* An event is its id; the hash an event is chained by identifies the      *)
(* event it was computed from, so prev is the predecessor's id and 0 is    *)
(* the all-zero hash of an empty chain.  A line is whole; bare, a whole    *)
(* event without its newline; torn, the beginning of one; or glued, an     *)
(* event appended to a bare or torn line, which does not parse.            *)
(***************************************************************************)
EXTENDS Naturals, Sequences, FiniteSets

CONSTANTS
  MaxEvents,    \* bound: events stamped
  MaxCrashes    \* bound: crashes

ASSUME SinkAssumption == MaxEvents \in Nat /\ MaxCrashes \in Nat

VARIABLES
  file,      \* the lines of the file, as the process sees them
  synced,    \* how many of them have been synced to disk
  head,      \* ChainState.prev_event_hash
  written,   \* ChainState.written
  step,      \* where the emit that holds the mutex is
  event,     \* the event it stamped
  nextId,    \* the next fresh event id
  acked,     \* ids of the events whose emit returned Ok
  stray,     \* writes handed to the blocking pool whose emit was cancelled
  state,     \* "up", "down", or "refused" when open failed on the last line
  crashes,
  tainted,   \* history: an emit ended after its write may have begun
  torn       \* history: a write was cut short and the sink wrote on after it

vars == <<file, synced, head, written, step, event, nextId, acked, stray,
          state, crashes, tainted, torn>>

Ids == 1 .. MaxEvents
Events == [id : Ids, prev : 0 .. MaxEvents]
Lines == [form : {"whole", "bare", "torn", "glued"}, id : 0 .. MaxEvents, prev : 0 .. MaxEvents]

Whole(e) == [form |-> "whole", id |-> e.id, prev |-> e.prev]
Bare(e) == [form |-> "bare", id |-> e.id, prev |-> e.prev]
Glued(e) == [form |-> "glued", id |-> e.id, prev |-> e.prev]
Torn == [form |-> "torn", id |-> 0, prev |-> 0]
NoEvent == [id |-> 0, prev |-> 0]

TypeOK ==
  /\ file \in Seq(Lines) /\ synced \in 0 .. Len(file)
  /\ head \in 0 .. MaxEvents /\ written \in Nat
  /\ step \in {"none", "write", "sync"}
  /\ event \in Events \cup {NoEvent}
  /\ nextId \in 1 .. MaxEvents + 1
  /\ acked \subseteq Ids /\ stray \subseteq Events
  /\ state \in {"up", "down", "refused"} /\ crashes \in 0 .. MaxCrashes
  /\ tainted \in BOOLEAN /\ torn \in BOOLEAN

Init ==
  /\ file = <<>> /\ synced = 0 /\ head = 0 /\ written = 0
  /\ step = "none" /\ event = NoEvent /\ nextId = 1
  /\ acked = {} /\ stray = {} /\ state = "up" /\ crashes = 0
  /\ tainted = FALSE /\ torn = FALSE

Unterminated(f) == f # <<>> /\ f[Len(f)].form \in {"torn", "bare"}

\* The file after appending e's line, all of it but the newline, or less.
WithLine(f, e) ==
  IF Unterminated(f) THEN [f EXCEPT ![Len(f)] = Glued(e)] ELSE Append(f, Whole(e))
WithPart(f, e) ==
  IF Unterminated(f) THEN {[f EXCEPT ![Len(f)] = Torn]}
                     ELSE {Append(f, Torn), Append(f, Bare(e))}

\* emit takes the mutex and stamps and signs the event.
Stamp ==
  /\ state = "up" /\ step = "none" /\ nextId <= MaxEvents
  /\ event' = [id |-> nextId, prev |-> head]
  /\ nextId' = nextId + 1
  /\ step' = "write"
  /\ UNCHANGED <<file, synced, head, written, acked, stray, state, crashes, tainted, torn>>

\* open and write_all succeed, fail with nothing written, or fail half-way
\* (a full disk).
Write ==
  /\ step = "write"
  /\ \/ file' = WithLine(file, event) /\ step' = "sync" /\ UNCHANGED <<tainted, torn>>
     \/ step' = "none" /\ UNCHANGED <<file, tainted, torn>>
     \/ /\ file' \in WithPart(file, event)
        /\ step' = "none" /\ tainted' = TRUE /\ torn' = TRUE
  /\ UNCHANGED <<synced, head, written, event, nextId, acked, stray, state, crashes>>

\* Mutant: the emit returns after the flush, without sync_all.
SyncFlushOnly ==
  /\ step = "sync" /\ step' = "none"
  /\ head' = event.id
  /\ written' = written + 1
  /\ acked' = acked \cup {event.id}
  /\ UNCHANGED <<file, synced, event, nextId, stray, state, crashes, torn, tainted>>

\* flush and sync_all.  Only a success advances the chain head.
Sync ==
  /\ step = "sync" /\ step' = "none"
  /\ \/ /\ synced' = Len(file)
        /\ head' = event.id
        /\ written' = written + 1
        /\ acked' = acked \cup {event.id}
        /\ UNCHANGED tainted
     \/ tainted' = TRUE /\ UNCHANGED <<synced, head, written, acked>>
  /\ UNCHANGED <<file, event, nextId, stray, state, crashes, torn>>

\* The emit's future is dropped at an await and the mutex released.  A write
\* already handed to the blocking pool is still carried out.
Cancel ==
  /\ step # "none" /\ step' = "none"
  /\ tainted' = TRUE
  /\ stray' = IF step = "write" THEN stray \cup {event} ELSE stray
  /\ UNCHANGED <<file, synced, head, written, event, nextId, acked, state, crashes, torn>>

StrayLands(e) ==
  /\ e \in stray
  /\ stray' = stray \ {e}
  /\ file' = WithLine(file, e)
  /\ UNCHANGED <<synced, head, written, step, event, nextId, acked, state, crashes, tainted, torn>>

\* What was synced survives a crash; of the rest some lines do, the last of
\* them perhaps cut, at its newline or before.
Cuts(line) == {Torn} \cup (IF line.form = "whole" THEN {Bare(line)} ELSE {})

Survivors ==
  {SubSeq(file, 1, k) : k \in synced .. Len(file)} \cup
  UNION {{Append(SubSeq(file, 1, k), c) : c \in Cuts(file[k + 1])} :
           k \in synced .. Len(file) - 1}

Crash ==
  /\ state = "up" /\ crashes < MaxCrashes
  /\ crashes' = crashes + 1
  /\ state' = "down"
  /\ file' \in Survivors
  /\ step' = "none" /\ stray' = {}
  /\ UNCHANGED <<synced, head, written, event, nextId, acked, tainted, torn>>

LastParses(f) == \A i \in DOMAIN f : i = Len(f) => f[i].form \in {"whole", "bare"}
LastId(f) == IF f = <<>> THEN 0 ELSE f[Len(f)].id

\* Mutant: every start begins a new chain.
OpenNewChain ==
  /\ state = "down" /\ LastParses(file)
  /\ head' = 0
  /\ written' = Len(file)
  /\ state' = "up"
  /\ synced' = IF Unterminated(file) THEN Len(file) - 1 ELSE Len(file)
  /\ torn' = (torn \/ Unterminated(file))
  /\ UNCHANGED <<file, step, event, nextId, acked, stray, crashes, tainted>>

\* Mutant: the head is recovered, the count of written lines is not.
OpenNoCount ==
  /\ state = "down" /\ LastParses(file)
  /\ head' = LastId(file)
  /\ written' = 0
  /\ state' = "up"
  /\ synced' = IF Unterminated(file) THEN Len(file) - 1 ELSE Len(file)
  /\ torn' = (torn \/ Unterminated(file))
  /\ UNCHANGED <<file, step, event, nextId, acked, stray, crashes, tainted>>

\* Mutant: the file is created anew.
OpenTruncates ==
  /\ state = "down"
  /\ file' = <<>> /\ head' = 0 /\ written' = 0
  /\ state' = "up"
  /\ UNCHANGED <<synced, step, event, nextId, acked, stray, crashes, tainted, torn>>

\* FileAuditSink::open: the last line gives the head, the lines the count; a
\* last line that does not parse is an error and the service does not start.
\* A missing newline is not noticed.  What survived the crash is on disk; a
\* line without newline counts as synced only together with what it gets glued to.
Open ==
  /\ state = "down"
  /\ \/ /\ LastParses(file)
        /\ head' = LastId(file)
        /\ written' = Len(file)
        /\ state' = "up"
     \/ /\ ~ LastParses(file)
        /\ state' = "refused"
        /\ UNCHANGED <<head, written>>
  /\ synced' = IF Unterminated(file) THEN Len(file) - 1 ELSE Len(file)
  /\ torn' = (torn \/ Unterminated(file))
  /\ UNCHANGED <<file, step, event, nextId, acked, stray, crashes, tainted>>

Next ==
  \/ Stamp \/ Write \/ Sync \/ Cancel \/ Crash \/ Open
  \/ \E e \in stray : StrayLands(e)

Spec == Init /\ [][Next]_vars
-----------------------------------------------------------------------------
(* Properties *)

Chained(f) == \A i \in DOMAIN f : f[i].prev = IF i = 1 THEN 0 ELSE f[i - 1].id

\* replay_verify accepts the file.
Verifies(f) == (\A i \in DOMAIN f : f[i].form = "whole") /\ Chained(f)

\* The file without the line a crash or a short write left unterminated.
Complete(f) == IF Unterminated(f) THEN SubSeq(f, 1, Len(f) - 1) ELSE f

\* Crashes alone hardly break the chain: as long as no emit failed after its
\* write had begun, none was cancelled and no crash cut off just a newline,
\* every terminated line replays.
CrashesKeepChain == ~ tainted /\ ~ torn => Verifies(Complete(file))

\* An event whose emit returned Ok is never lost, whatever fails, is cancelled
\* or crashes later, and unless a short write came before it is in the file as
\* a line of its own.
AcknowledgedIsKept ==
  \A i \in acked : \E k \in 1 .. synced :
    file[k].id = i /\ (~ torn => file[k].form = "whole")

\* The cursor the anchor publishes (current_anchor_payload) commits to the
\* whole log: its head is the last synced line and its count that line's place.
CursorIsTail ==
  (~ tainted /\ ~ torn /\ state = "up" /\ step # "sync") =>
    head = LastId(file) /\ written = Len(file) /\ synced = Len(file)

\* The log is append-only: no step, a crash included, changes or removes a
\* synced line that ends in a newline.
SyncedLinesStay ==
  [][\A i \in 1 .. synced : file[i].form \in {"whole", "glued"} =>
       i \in DOMAIN file' /\ file'[i] = file[i]]_vars

\* "The hash chain anchors every event to its predecessor via
\* `prev_event_hash`": every event of the file names the event before it.
EveryEventIsChained == Chained(Complete(file))
=============================================================================

-------------------------- MODULE FileAuditProofs --------------------------
(***************************************************************************)
(* Theorems about the NDJSON audit log (module FileAuditSink), for any     *)
(* number of events and crashes.                                           *)
(*                                                                         *)
(* DiskInv says which lines are safe: all but the last end in a newline,   *)
(* every synced one does, and a last line that does not is known from a    *)
(* short write or a crash.  ChainInv says what the sink knows of the end   *)
(* of the file as long as neither has happened.                            *)
(***************************************************************************)
EXTENDS FileAuditSink, TLAPS

SinkTypeOK ==
  /\ file \in Seq(Lines) /\ synced \in Nat /\ synced <= Len(file)
  /\ head \in 0 .. MaxEvents /\ written \in Nat
  /\ step \in {"none", "write", "sync"}
  /\ event \in [id : 0 .. MaxEvents, prev : 0 .. MaxEvents]
  /\ nextId \in 1 .. MaxEvents + 1
  /\ stray \in SUBSET [id : 0 .. MaxEvents, prev : 0 .. MaxEvents]
  /\ state \in {"up", "down", "refused"}

\* A line that ends in a newline.
Ended(line) == line.form \in {"whole", "glued"}

\* The line of the event that is being synced, or of one that was.
HasLine(f, n, i) == \E k \in 1 .. n : f[k].id = i /\ (~ torn => f[k].form = "whole") /\ Ended(f[k])

DiskInv ==
  /\ \A k \in DOMAIN file : k < Len(file) \/ k <= synced => Ended(file[k])
  /\ state # "up" => step = "none" /\ stray = {}
  /\ state = "up" /\ Unterminated(file) => torn
  /\ step = "sync" => ~ Unterminated(file) /\ HasLine(file, Len(file), event.id)
  /\ \A i \in acked : HasLine(file, synced, i)

\* Elements and ends of the sequences that file operations build.
LEMMA AppendFile ==
  ASSUME NEW f \in Seq(Lines), NEW line \in Lines
  PROVE  /\ Append(f, line) \in Seq(Lines) /\ Len(Append(f, line)) = Len(f) + 1
         /\ Append(f, line)[Len(f) + 1] = line
         /\ \A k \in 1 .. Len(f) : Append(f, line)[k] = f[k]
         /\ Append(f, line) # <<>>
  OBVIOUS

\* The lines of a prefix of a file.
LEMMA PrefixFile ==
  ASSUME NEW f \in Seq(Lines), NEW n \in 0 .. Len(f)
  PROVE  /\ SubSeq(f, 1, n) \in Seq(Lines) /\ Len(SubSeq(f, 1, n)) = n
         /\ \A k \in 1 .. n : SubSeq(f, 1, n)[k] = f[k]
         /\ n = 0 => SubSeq(f, 1, n) = <<>>
         /\ n > 0 => SubSeq(f, 1, n) # <<>>
  OBVIOUS

\* The lines of a file whose last line is replaced.
LEMMA LastReplaced ==
  ASSUME NEW f \in Seq(Lines), f # <<>>, NEW line \in Lines
  PROVE  LET g == [f EXCEPT ![Len(f)] = line]
         IN  /\ g \in Seq(Lines) /\ Len(g) = Len(f) /\ g[Len(f)] = line
             /\ \A k \in 1 .. Len(f) - 1 : g[k] = f[k]
             /\ g # <<>>
  OBVIOUS

\* The forms of a line are lines.
LEMMA LineTypes ==
  ASSUME NEW e \in [id : 0 .. MaxEvents, prev : 0 .. MaxEvents]
  PROVE  /\ Whole(e) \in Lines /\ Bare(e) \in Lines /\ Glued(e) \in Lines /\ Torn \in Lines
         /\ Whole(e).form = "whole" /\ Glued(e).form = "glued" /\ Torn.form = "torn"
         /\ Bare(e).form = "bare"
         /\ Whole(e).id = e.id /\ Glued(e).id = e.id
  BY SinkAssumption DEF Lines, Whole, Bare, Glued, Torn

\* Appending a line leaves every ended line where it is, ends the file, and
\* puts the event into it, as a line of its own if the file was ended.
LEMMA WithLineEffect ==
  ASSUME NEW f \in Seq(Lines), NEW e \in [id : 0 .. MaxEvents, prev : 0 .. MaxEvents]
  PROVE  LET g == WithLine(f, e)
         IN  /\ g \in Seq(Lines) /\ g # <<>> /\ Len(g) >= Len(f) /\ ~ Unterminated(g)
             /\ g[Len(g)].id = e.id /\ Ended(g[Len(g)])
             /\ ~ Unterminated(f) => g = Append(f, Whole(e)) /\ Len(g) = Len(f) + 1
             /\ Unterminated(f) => Len(g) = Len(f)
             /\ \A k \in 1 .. Len(f) : (k < Len(f) \/ Ended(f[k])) => g[k] = f[k]
  <1>1. CASE Unterminated(f)
    <2>1. f # <<>> /\ f[Len(f)].form \in {"torn", "bare"} /\ WithLine(f, e) = [f EXCEPT ![Len(f)] = Glued(e)]
      BY <1>1 DEF Unterminated, WithLine
    <2>2. Glued(e) \in Lines /\ Glued(e).form = "glued" /\ Glued(e).id = e.id
      BY LineTypes
    <2>3. /\ WithLine(f, e) \in Seq(Lines) /\ Len(WithLine(f, e)) = Len(f)
          /\ WithLine(f, e)[Len(f)] = Glued(e) /\ WithLine(f, e) # <<>>
          /\ \A k \in 1 .. Len(f) - 1 : WithLine(f, e)[k] = f[k]
      BY <2>1, <2>2, LastReplaced
    <2>4. \A k \in 1 .. Len(f) : (k < Len(f) \/ Ended(f[k])) => k \in 1 .. Len(f) - 1
      BY <2>1 DEF Ended
    <2>5. ~ Unterminated(WithLine(f, e)) /\ Ended(WithLine(f, e)[Len(f)])
      BY <2>2, <2>3 DEF Unterminated, Ended
    <2> QED
      BY <1>1, <2>2, <2>3, <2>4, <2>5
  <1>2. CASE ~ Unterminated(f)
    <2>1. WithLine(f, e) = Append(f, Whole(e))
      BY <1>2 DEF WithLine
    <2>2. Whole(e) \in Lines /\ Whole(e).form = "whole" /\ Whole(e).id = e.id
      BY LineTypes
    <2>3. /\ WithLine(f, e) \in Seq(Lines) /\ Len(WithLine(f, e)) = Len(f) + 1
          /\ WithLine(f, e)[Len(f) + 1] = Whole(e) /\ WithLine(f, e) # <<>>
          /\ \A k \in 1 .. Len(f) : WithLine(f, e)[k] = f[k]
      BY <2>1, <2>2, AppendFile
    <2> QED
      BY <1>2, <2>1, <2>2, <2>3 DEF Unterminated, Ended
  <1> QED
    BY <1>1, <1>2

\* A short write leaves every ended line where it is.
LEMMA WithPartEffect ==
  ASSUME NEW f \in Seq(Lines), NEW e \in [id : 0 .. MaxEvents, prev : 0 .. MaxEvents],
         NEW g \in WithPart(f, e)
  PROVE  /\ g \in Seq(Lines) /\ g # <<>> /\ Len(g) >= Len(f)
         /\ \A k \in 1 .. Len(f) : (k < Len(f) \/ Ended(f[k])) => g[k] = f[k]
         /\ ~ Unterminated(f) => Len(g) = Len(f) + 1
         /\ Unterminated(f) => Len(g) = Len(f)
         /\ Unterminated(g)
  <1>1. CASE Unterminated(f)
    <2>1. f # <<>> /\ f[Len(f)].form \in {"torn", "bare"} /\ g = [f EXCEPT ![Len(f)] = Torn]
      BY <1>1 DEF Unterminated, WithPart
    <2>2. Torn \in Lines /\ Torn.form = "torn"
      BY LineTypes
    <2>3. /\ g \in Seq(Lines) /\ Len(g) = Len(f) /\ g[Len(f)] = Torn /\ g # <<>>
          /\ \A k \in 1 .. Len(f) - 1 : g[k] = f[k]
      BY <2>1, <2>2, LastReplaced
    <2>4. \A k \in 1 .. Len(f) : (k < Len(f) \/ Ended(f[k])) => k \in 1 .. Len(f) - 1
      BY <2>1 DEF Ended
    <2>5. Unterminated(g)
      BY <2>2, <2>3 DEF Unterminated
    <2> QED
      BY <1>1, <2>3, <2>4, <2>5
  <1>2. CASE ~ Unterminated(f)
    <2>1. PICK line \in {Torn, Bare(e)} : g = Append(f, line)
      BY <1>2 DEF WithPart
    <2>2. line \in Lines /\ line.form \in {"torn", "bare"}
      BY LineTypes
    <2>3. /\ g \in Seq(Lines) /\ Len(g) = Len(f) + 1 /\ g # <<>> /\ g[Len(f) + 1] = line
          /\ \A k \in 1 .. Len(f) : g[k] = f[k]
      BY <2>1, <2>2, AppendFile
    <2> QED
      BY <1>2, <2>2, <2>3 DEF Unterminated
  <1> QED
    BY <1>1, <1>2

\* A crash leaves a prefix with all that was synced, and perhaps one line cut.
LEMMA SurvivorsEffect ==
  ASSUME SinkTypeOK, NEW g \in Survivors
  PROVE  /\ g \in Seq(Lines)
         /\ \E m \in synced .. Len(file) :
              /\ \A k \in 1 .. m : g[k] = file[k]
              /\ \/ Len(g) = m
                 \/ Len(g) = m + 1 /\ m < Len(file) /\ Unterminated(g)
  <1>0. file \in Seq(Lines) /\ synced \in Nat /\ Len(file) \in Nat
    BY DEF SinkTypeOK
  <1>1. ASSUME NEW m \in synced .. Len(file), g = SubSeq(file, 1, m)
        PROVE  /\ g \in Seq(Lines) /\ Len(g) = m
               /\ \A k \in 1 .. m : g[k] = file[k]
    BY <1>0, <1>1, PrefixFile
  <1>2. ASSUME NEW m \in synced .. Len(file) - 1, NEW c \in Cuts(file[m + 1]),
               g = Append(SubSeq(file, 1, m), c)
        PROVE  /\ g \in Seq(Lines) /\ Len(g) = m + 1 /\ Unterminated(g)
               /\ \A k \in 1 .. m : g[k] = file[k]
    <2>1. file[m + 1] \in Lines
      BY <1>0
    <2>2. c \in Lines /\ c.form \in {"torn", "bare"}
      BY <2>1, SinkAssumption DEF Cuts, Torn, Bare, Lines
    <2>3. /\ SubSeq(file, 1, m) \in Seq(Lines) /\ Len(SubSeq(file, 1, m)) = m
          /\ \A k \in 1 .. m : SubSeq(file, 1, m)[k] = file[k]
      BY <1>0, PrefixFile
    <2>4. /\ g \in Seq(Lines) /\ Len(g) = m + 1 /\ g[m + 1] = c /\ g # <<>>
          /\ \A k \in 1 .. m : g[k] = SubSeq(file, 1, m)[k]
      <3> DEFINE p == SubSeq(file, 1, m)
      <3>1. p \in Seq(Lines) /\ Len(p) = m /\ g = Append(p, c)
        BY <1>2, <2>3
      <3> HIDE DEF p
      <3>2. /\ g \in Seq(Lines) /\ Len(g) = m + 1 /\ g[m + 1] = c /\ g # <<>>
            /\ \A k \in 1 .. m : g[k] = p[k]
        BY <2>2, <3>1, AppendFile
      <3> QED
        BY <3>2 DEF p
    <2> QED
      BY <2>2, <2>3, <2>4 DEF Unterminated
  <1>3. \/ \E m \in synced .. Len(file) : g = SubSeq(file, 1, m)
        \/ \E m \in synced .. Len(file) - 1 : \E c \in Cuts(file[m + 1]) :
             g = Append(SubSeq(file, 1, m), c)
    BY DEF Survivors
  <1>4. CASE \E m \in synced .. Len(file) : g = SubSeq(file, 1, m)
    BY <1>1, <1>4
  <1>5. CASE \E m \in synced .. Len(file) - 1 : \E c \in Cuts(file[m + 1]) :
               g = Append(SubSeq(file, 1, m), c)
    <2>1. PICK m \in synced .. Len(file) - 1 :
            \E c \in Cuts(file[m + 1]) : g = Append(SubSeq(file, 1, m), c)
      BY <1>5
    <2>2. /\ g \in Seq(Lines) /\ Len(g) = m + 1 /\ Unterminated(g)
          /\ \A k \in 1 .. m : g[k] = file[k]
      BY <1>2, <2>1
    <2>3. m \in synced .. Len(file) /\ m < Len(file)
      BY <1>0
    <2> QED
      BY <2>2, <2>3
  <1> QED
    BY <1>3, <1>4, <1>5

\* No step changes a synced line.
SyncedKept == \A k \in 1 .. synced : k \in 1 .. Len(file') /\ file'[k] = file[k]

\* A step that leaves the file, what is synced and the acknowledgements alone.
LEMMA FileUnmoved ==
  ASSUME SinkTypeOK, DiskInv, UNCHANGED <<file, synced, acked>>, torn => torn',
         state' \in {"up", "down", "refused"},
         state' # "up" => step' = "none" /\ stray' = {},
         state' = "up" /\ Unterminated(file) => torn',
         step' # "sync"
  PROVE  DiskInv' /\ SyncedKept
  <1>1. \A k \in DOMAIN file : k < Len(file) \/ k <= synced => Ended(file[k])
    BY DEF DiskInv
  <1>2. \A i \in acked : HasLine(file, synced, i)'
    BY DEF DiskInv, HasLine
  <1>3. SyncedKept
    BY DEF SyncedKept, SinkTypeOK
  <1> QED
    BY <1>1, <1>2, <1>3 DEF DiskInv, Unterminated

\* The steps of an emit.
LEMMA StampKeeps ==
  ASSUME SinkTypeOK, DiskInv, Stamp
  PROVE  SinkTypeOK' /\ DiskInv' /\ SyncedKept
  <1>1. SinkTypeOK'
    BY SinkAssumption DEF SinkTypeOK, Stamp
  <1>2. DiskInv' /\ SyncedKept
    BY FileUnmoved DEF Stamp, DiskInv, SinkTypeOK
  <1> QED
    BY <1>1, <1>2

\* A line lands in the file, the emit's own or a stray one.
LEMMA LineLands ==
  ASSUME SinkTypeOK, DiskInv, NEW e \in [id : 0 .. MaxEvents, prev : 0 .. MaxEvents],
         file' = WithLine(file, e), state = "up", UNCHANGED <<synced, acked, torn, state>>
  PROVE  /\ file' \in Seq(Lines) /\ synced' <= Len(file') /\ SyncedKept
         /\ \A k \in DOMAIN file' : k < Len(file') \/ k <= synced' => Ended(file'[k])
         /\ ~ Unterminated(file') /\ HasLine(file, Len(file), e.id)'
         /\ \A i \in acked' : HasLine(file, synced, i)'
         /\ \A i : ~ Unterminated(file) /\ HasLine(file, Len(file), i)
                     => HasLine(file, Len(file), i)'
  <1>0. /\ file \in Seq(Lines) /\ synced \in Nat /\ Len(file) \in Nat /\ synced <= Len(file)
        /\ DOMAIN file = 1 .. Len(file)
    BY DEF SinkTypeOK
  <1>1. /\ file' \in Seq(Lines) /\ file' # <<>> /\ ~ Unterminated(file')
        /\ file'[Len(file')].id = e.id /\ Ended(file'[Len(file')])
    BY <1>0, WithLineEffect
  <1>l. /\ Len(file') >= Len(file)
        /\ ~ Unterminated(file) => Len(file') = Len(file) + 1
        /\ Unterminated(file) => Len(file') = Len(file)
    BY <1>0, WithLineEffect
  <1>a. ~ Unterminated(file) => file' = Append(file, Whole(e))
    BY <1>0, WithLineEffect
  <1>k. \A k \in 1 .. Len(file) : (k < Len(file) \/ Ended(file[k])) => file'[k] = file[k]
    BY SMTT(60), <1>0, WithLineEffect
  <1>2. /\ Len(file') \in Nat /\ DOMAIN file' = 1 .. Len(file') /\ Len(file') >= 1
    BY <1>1
  <1>i. synced \in Nat /\ Len(file) \in Nat /\ Len(file') \in Nat /\ synced <= Len(file)
    BY <1>0, <1>2
  <1>n. \A k \in 1 .. Len(file) : k \in 1 .. Len(file')
    BY <1>i, <1>l
  <1>3. \A k \in 1 .. Len(file) : k < Len(file) \/ k <= synced => Ended(file[k])
    BY <1>0 DEF DiskInv
  <1>e. ~ Unterminated(file) => \A k \in 1 .. Len(file) : Ended(file[k])
    <2> SUFFICES ASSUME ~ Unterminated(file), NEW k \in 1 .. Len(file), k = Len(file)
                 PROVE  Ended(file[k])
      BY <1>i, <1>3
    <2>1. file[k] \in Lines /\ file # <<>>
      BY <1>0
    <2> QED
      BY <2>1 DEF Unterminated, Ended, Lines
  <1>4. SyncedKept
    <2> SUFFICES ASSUME NEW k \in 1 .. synced
                 PROVE  k \in 1 .. Len(file') /\ file'[k] = file[k]
      BY DEF SyncedKept
    <2>1. k \in 1 .. Len(file) /\ k <= synced
      BY <1>0
    <2> QED
      BY <1>3, <1>k, <1>n, <2>1
  <1>5. ASSUME NEW k \in 1 .. Len(file'), k < Len(file') \/ k <= synced
        PROVE  Ended(file'[k])
    <2>1. CASE k = Len(file')
      BY <1>1, <2>1
    <2>2. CASE k # Len(file')
      <3>1. k \in 1 .. Len(file) /\ (k < Len(file) \/ ~ Unterminated(file))
        BY <1>i, <1>l, <2>2
      <3>2. Ended(file[k])
        BY <1>3, <1>e, <3>1
      <3> QED
        BY <1>k, <3>1, <3>2
    <2> QED
      BY <2>1, <2>2
  <1>6. HasLine(file, Len(file), e.id)'
    <2>1. ~ torn => file'[Len(file')].form = "whole"
      <3> SUFFICES ASSUME ~ torn PROVE file'[Len(file')].form = "whole"
        OBVIOUS
      <3>1. ~ Unterminated(file)
        BY DEF DiskInv
      <3>2. file' = Append(file, Whole(e)) /\ Len(file') = Len(file) + 1
        BY <1>a, <1>l, <3>1
      <3>3. Whole(e) \in Lines /\ Whole(e).form = "whole"
        BY LineTypes
      <3> QED
        BY <1>0, <3>2, <3>3, AppendFile
    <2>2. Len(file') \in 1 .. Len(file')
      BY <1>2
    <2> QED
      BY <1>1, <2>1, <2>2 DEF HasLine
  <1>7. \A i \in acked' : HasLine(file, synced, i)'
    BY <1>4 DEF DiskInv, HasLine, SyncedKept
  <1>8. ASSUME NEW i, ~ Unterminated(file), HasLine(file, Len(file), i)
        PROVE  HasLine(file, Len(file), i)'
    <2>1. PICK k \in 1 .. Len(file) :
            file[k].id = i /\ (~ torn => file[k].form = "whole") /\ Ended(file[k])
      BY <1>8 DEF HasLine
    <2>2. file'[k] = file[k] /\ k \in 1 .. Len(file')
      BY <1>k, <1>n, <2>1
    <2> QED
      BY <2>1, <2>2 DEF HasLine
  <1>9. synced' <= Len(file')
    BY <1>i, <1>l
  <1> QED
    BY <1>1, <1>2, <1>4, <1>5, <1>6, <1>7, <1>8, <1>9

\* The write: whole, failed, or cut short.
LEMMA WriteKeeps ==
  ASSUME SinkTypeOK, DiskInv, Write
  PROVE  SinkTypeOK' /\ DiskInv' /\ SyncedKept
  <1>0. /\ state = "up" /\ event \in [id : 0 .. MaxEvents, prev : 0 .. MaxEvents]
        /\ UNCHANGED <<synced, head, written, event, nextId, acked, stray, state, crashes>>
    BY DEF Write, SinkTypeOK, DiskInv
  <1>1. CASE file' = WithLine(file, event) /\ step' = "sync" /\ UNCHANGED <<tainted, torn>>
    <2>1. /\ file' \in Seq(Lines) /\ synced' <= Len(file') /\ SyncedKept
          /\ \A k \in DOMAIN file' : k < Len(file') \/ k <= synced' => Ended(file'[k])
          /\ ~ Unterminated(file') /\ HasLine(file, Len(file), event.id)'
          /\ \A i \in acked' : HasLine(file, synced, i)'
      BY <1>0, <1>1, LineLands
    <2>2. SinkTypeOK'
      BY <1>0, <1>1, <2>1 DEF SinkTypeOK
    <2>3. DiskInv'
      BY <1>0, <1>1, <2>1 DEF DiskInv, HasLine, Unterminated
    <2> QED
      BY <2>1, <2>2, <2>3
  <1>2. CASE step' = "none" /\ UNCHANGED <<file, tainted, torn>>
    <2>1. SinkTypeOK'
      BY <1>0, <1>2 DEF SinkTypeOK
    <2> QED
      BY <1>0, <1>2, <2>1, FileUnmoved DEF DiskInv
  <1>3. CASE file' \in WithPart(file, event) /\ step' = "none" /\ torn' = TRUE
    <2>0. /\ file \in Seq(Lines) /\ synced \in Nat /\ Len(file) \in Nat /\ synced <= Len(file)
      BY DEF SinkTypeOK
    <2>1. file' \in Seq(Lines)
      BY <1>0, <1>3, <2>0, WithPartEffect
    <2>2. Len(file') >= Len(file)
      BY <1>0, <1>3, <2>0, WithPartEffect
    <2>3. \A k \in 1 .. Len(file) : (k < Len(file) \/ Ended(file[k])) => file'[k] = file[k]
      BY <1>0, <1>3, <2>0, WithPartEffect
    <2>l. /\ ~ Unterminated(file) => Len(file') = Len(file) + 1
          /\ Unterminated(file) => Len(file') = Len(file)
      BY <1>0, <1>3, <2>0, WithPartEffect
    <2>4. /\ synced \in Nat /\ Len(file) \in Nat /\ Len(file') \in Nat /\ synced <= Len(file)
      BY <2>0, <2>1
    <2>5. /\ DOMAIN file = 1 .. Len(file) /\ DOMAIN file' = 1 .. Len(file')
      BY <2>0, <2>1
    <2>6. \A k \in 1 .. Len(file) : k < Len(file) \/ k <= synced => Ended(file[k])
      BY <2>5 DEF DiskInv
    <2>e. ~ Unterminated(file) => \A k \in 1 .. Len(file) : Ended(file[k])
      <3> SUFFICES ASSUME ~ Unterminated(file), NEW k \in 1 .. Len(file), k = Len(file)
                   PROVE  Ended(file[k])
        BY <2>4, <2>6
      <3>1. file[k] \in Lines /\ file # <<>>
        BY <2>0
      <3> QED
        BY <3>1 DEF Unterminated, Ended, Lines
    <2>7. SyncedKept
      <3> SUFFICES ASSUME NEW k \in 1 .. synced
                   PROVE  k \in 1 .. Len(file') /\ file'[k] = file[k]
        BY DEF SyncedKept
      <3>1. k \in 1 .. Len(file) /\ k <= synced /\ k \in 1 .. Len(file')
        BY <2>2, <2>4
      <3> QED
        BY <2>3, <2>6, <3>1
    <2>8. ASSUME NEW k \in 1 .. Len(file'), k < Len(file') \/ k <= synced
          PROVE  Ended(file'[k])
      <3>1. k \in 1 .. Len(file) /\ (k < Len(file) \/ k <= synced \/ ~ Unterminated(file))
        BY <2>4, <2>8, <2>l
      <3>2. Ended(file[k])
        BY <2>6, <2>e, <3>1
      <3> QED
        BY <2>3, <3>1, <3>2
    <2>9. \A i \in acked' : HasLine(file, synced, i)'
      BY <1>0, <1>3, <2>7 DEF DiskInv, HasLine, SyncedKept
    <2>10. SinkTypeOK'
      <3>1. synced' <= Len(file')
        BY <1>0, <2>2, <2>4
      <3> QED
        BY <1>0, <1>3, <2>1, <3>1 DEF SinkTypeOK
    <2>11. DiskInv'
      BY <1>0, <1>3, <2>5, <2>8, <2>9 DEF DiskInv, HasLine, Unterminated
    <2> QED
      BY <2>7, <2>10, <2>11
  <1> QED
    BY <1>1, <1>2, <1>3 DEF Write

\* The sync acknowledges the event whose line is in the file.
LEMMA SyncKeeps ==
  ASSUME SinkTypeOK, DiskInv, Sync
  PROVE  SinkTypeOK' /\ DiskInv' /\ SyncedKept
  <1>0. /\ file \in Seq(Lines) /\ synced \in Nat /\ Len(file) \in Nat /\ synced <= Len(file)
        /\ state = "up" /\ step = "sync" /\ step' = "none"
        /\ UNCHANGED <<file, event, nextId, stray, state, crashes, torn>>
    BY DEF SinkTypeOK, DiskInv, Sync
  <1>1. CASE /\ synced' = Len(file) /\ head' = event.id /\ written' = written + 1
             /\ acked' = acked \cup {event.id}
    <2>1. SinkTypeOK'
      BY <1>0, <1>1 DEF SinkTypeOK
    <2>2. \A k \in DOMAIN file : Ended(file[k])
      <3> SUFFICES ASSUME NEW k \in DOMAIN file, k = Len(file) PROVE Ended(file[k])
        BY <1>0 DEF DiskInv
      <3>1. file[k] \in Lines /\ file # <<>> /\ ~ Unterminated(file)
        BY <1>0 DEF DiskInv
      <3> QED
        BY <3>1 DEF Unterminated, Ended, Lines
    <2>3. ASSUME NEW i \in acked' PROVE HasLine(file, synced, i)'
      <3>1. CASE i = event.id
        BY <1>0, <1>1, <3>1 DEF DiskInv, HasLine
      <3>2. CASE i \in acked
        <4>1. PICK k \in 1 .. synced :
                file[k].id = i /\ (~ torn => file[k].form = "whole") /\ Ended(file[k])
          BY <3>2 DEF DiskInv, HasLine
        <4>2. k \in 1 .. Len(file)
          BY <1>0
        <4> QED
          BY <1>0, <1>1, <4>1, <4>2 DEF HasLine
      <3> QED
        BY <1>1, <3>1, <3>2
    <2>4. DiskInv'
      BY <1>0, <1>1, <2>2, <2>3 DEF DiskInv, Unterminated
    <2>5. SyncedKept
      BY <1>0 DEF SyncedKept
    <2> QED
      BY <2>1, <2>4, <2>5
  <1>2. CASE UNCHANGED <<synced, head, written, acked>>
    <2>1. SinkTypeOK'
      BY <1>0, <1>2 DEF SinkTypeOK
    <2> QED
      BY <1>0, <1>2, <2>1, FileUnmoved DEF DiskInv
  <1> QED
    BY <1>1, <1>2 DEF Sync

\* A cancelled emit keeps DiskInv.
LEMMA CancelKeeps ==
  ASSUME SinkTypeOK, DiskInv, Cancel
  PROVE  SinkTypeOK' /\ DiskInv' /\ SyncedKept
  <1>1. SinkTypeOK'
    BY DEF SinkTypeOK, Cancel
  <1>2. DiskInv' /\ SyncedKept
    BY FileUnmoved DEF Cancel, DiskInv, SinkTypeOK
  <1> QED
    BY <1>1, <1>2

\* A stray write keeps DiskInv.
LEMMA StrayKeeps ==
  ASSUME SinkTypeOK, DiskInv, NEW e \in stray, StrayLands(e)
  PROVE  SinkTypeOK' /\ DiskInv' /\ SyncedKept
  <1>0. /\ state = "up" /\ e \in [id : 0 .. MaxEvents, prev : 0 .. MaxEvents]
        /\ file' = WithLine(file, e) /\ stray' = stray \ {e}
        /\ UNCHANGED <<synced, head, written, step, event, nextId, acked, state, crashes, torn>>
    BY DEF StrayLands, SinkTypeOK, DiskInv
  <1>1. /\ file' \in Seq(Lines) /\ synced' <= Len(file') /\ SyncedKept
        /\ \A k \in DOMAIN file' : k < Len(file') \/ k <= synced' => Ended(file'[k])
        /\ ~ Unterminated(file')
        /\ \A i \in acked' : HasLine(file, synced, i)'
        /\ \A i : ~ Unterminated(file) /\ HasLine(file, Len(file), i)
                    => HasLine(file, Len(file), i)'
    BY <1>0, LineLands
  <1>2. SinkTypeOK'
    BY <1>0, <1>1 DEF SinkTypeOK
  <1>3. step' = "sync" => HasLine(file, Len(file), event.id)'
    BY <1>0, <1>1 DEF DiskInv
  <1>4. DiskInv'
    BY <1>0, <1>1, <1>3 DEF DiskInv, HasLine
  <1> QED
    BY <1>1, <1>2, <1>4

\* A crash takes only lines that were not synced.
LEMMA CrashKeeps ==
  ASSUME SinkTypeOK, DiskInv, Crash
  PROVE  SinkTypeOK' /\ DiskInv' /\ SyncedKept
  <1>0. /\ file \in Seq(Lines) /\ synced \in Nat /\ Len(file) \in Nat /\ synced <= Len(file)
        /\ state' = "down" /\ step' = "none" /\ stray' = {}
        /\ UNCHANGED <<synced, head, written, event, nextId, acked, torn>>
    BY DEF SinkTypeOK, Crash
  <1>1. /\ file' \in Seq(Lines)
        /\ \E m \in synced .. Len(file) :
             /\ \A k \in 1 .. m : file'[k] = file[k]
             /\ Len(file') = m \/ (Len(file') = m + 1 /\ m < Len(file))
    BY SurvivorsEffect DEF Crash
  <1>2. PICK m \in synced .. Len(file) :
          /\ \A k \in 1 .. m : file'[k] = file[k]
          /\ Len(file') = m \/ (Len(file') = m + 1 /\ m < Len(file))
    BY <1>1
  <1>3. /\ synced \in Nat /\ Len(file) \in Nat /\ Len(file') \in Nat /\ m \in Nat
        /\ synced <= m /\ m <= Len(file) /\ m <= Len(file')
    BY <1>0, <1>1, <1>2
  <1>4. SyncedKept
    <2> SUFFICES ASSUME NEW k \in 1 .. synced
                 PROVE  k \in 1 .. Len(file') /\ file'[k] = file[k]
      BY DEF SyncedKept
    <2>1. k \in 1 .. m /\ k \in 1 .. Len(file')
      BY <1>3
    <2> QED
      BY <1>2, <2>1
  <1>5. ASSUME NEW k \in 1 .. Len(file'), k < Len(file') \/ k <= synced
        PROVE  Ended(file'[k])
    <2>1. k \in 1 .. m /\ k \in 1 .. Len(file) /\ (k < Len(file) \/ k <= synced)
      BY <1>2, <1>3, <1>5
    <2>2. Ended(file[k])
      BY <1>0, <2>1 DEF DiskInv
    <2> QED
      BY <1>2, <2>1, <2>2
  <1>6. \A i \in acked' : HasLine(file, synced, i)'
    BY <1>0, <1>4 DEF DiskInv, HasLine, SyncedKept
  <1>7. DOMAIN file' = 1 .. Len(file')
    BY <1>1
  <1>8. SinkTypeOK'
    <2>1. synced' <= Len(file')
      BY <1>0, <1>3
    <2> QED
      BY <1>0, <1>1, <2>1 DEF SinkTypeOK
  <1>9. DiskInv'
    BY <1>0, <1>5, <1>6, <1>7 DEF DiskInv, HasLine, Unterminated
  <1> QED
    BY <1>4, <1>8, <1>9

\* The restart takes what is in the file for synced, but a line without newline.
LEMMA OpenKeeps ==
  ASSUME SinkTypeOK, DiskInv, Open
  PROVE  SinkTypeOK' /\ DiskInv' /\ SyncedKept
  <1>0. /\ file \in Seq(Lines) /\ synced \in Nat /\ Len(file) \in Nat /\ synced <= Len(file)
        /\ DOMAIN file = 1 .. Len(file)
        /\ step = "none" /\ stray = {} /\ state' \in {"up", "refused"}
        /\ UNCHANGED <<file, step, event, nextId, acked, stray>>
    BY DEF SinkTypeOK, DiskInv, Open
  <1>1. /\ synced' = IF Unterminated(file) THEN Len(file) - 1 ELSE Len(file)
        /\ torn \/ Unterminated(file) => torn'
        /\ torn' => torn \/ Unterminated(file)
    BY DEF Open
  <1>2. Unterminated(file) => synced < Len(file)
    <2> SUFFICES ASSUME Unterminated(file), synced = Len(file) PROVE FALSE
      <3>1. synced \in Nat /\ Len(file) \in Nat /\ synced <= Len(file)
        BY <1>0
      <3> QED
        BY <3>1
    <2>1. Len(file) \in DOMAIN file /\ file[Len(file)].form \in {"torn", "bare"}
      BY <1>0 DEF Unterminated
    <2>2. Ended(file[Len(file)])
      BY <1>0, <2>1 DEF DiskInv
    <2> QED
      BY <2>1, <2>2 DEF Ended
  <1>3. synced' \in Nat /\ synced <= synced' /\ synced' <= Len(file)
    <2>1. synced \in Nat /\ Len(file) \in Nat /\ synced <= Len(file)
      BY <1>0
    <2> QED
      BY <1>1, <1>2, <2>1
  <1>4. ASSUME NEW k \in DOMAIN file, k < Len(file) \/ k <= synced'
        PROVE  Ended(file[k])
    <2>1. CASE k < Len(file)
      BY <2>1 DEF DiskInv
    <2>2. CASE k = Len(file) /\ ~ Unterminated(file)
      <3>1. file[k] \in Lines /\ file # <<>>
        BY <1>0
      <3> QED
        BY <2>2, <3>1 DEF Unterminated, Ended, Lines
    <2>3. k \in 1 .. Len(file) /\ Len(file) \in Nat
      BY <1>0
    <2> QED
      BY <1>1, <1>4, <2>1, <2>2, <2>3
  <1>5. ASSUME NEW i \in acked PROVE HasLine(file, synced, i)'
    <2>1. PICK k \in 1 .. synced :
            file[k].id = i /\ (~ torn => file[k].form = "whole") /\ Ended(file[k])
      BY DEF DiskInv, HasLine
    <2>2. k \in 1 .. synced'
      BY <1>0, <1>3
    <2> QED
      BY <1>0, <1>1, <2>1, <2>2 DEF HasLine
  <1>6. SinkTypeOK'
    <2>1. LastParses(file) => LastId(file) \in 0 .. MaxEvents
      <3>1. CASE file = <<>>
        BY <3>1, SinkAssumption DEF LastId
      <3>2. CASE file # <<>>
        <4>1. file[Len(file)] \in Lines
          BY <1>0, <3>2
        <4> QED
          BY <3>2, <4>1 DEF LastId, Lines
      <3> QED
        BY <3>1, <3>2
    <2>2. head' \in 0 .. MaxEvents /\ written' \in Nat
      BY <1>0, <2>1 DEF Open, SinkTypeOK
    <2> QED
      BY <1>0, <1>3, <2>2 DEF SinkTypeOK
  <1>7. DiskInv'
    BY <1>0, <1>1, <1>4, <1>5 DEF DiskInv, Unterminated
  <1>8. SyncedKept
    BY <1>0 DEF SyncedKept
  <1> QED
    BY <1>6, <1>7, <1>8

\* Every step of the sink keeps the types, DiskInv and the synced lines.
LEMMA DiskStep ==
  ASSUME SinkTypeOK, DiskInv, [Next]_vars
  PROVE  SinkTypeOK' /\ DiskInv' /\ SyncedKept
  <1>1. CASE UNCHANGED vars
    BY <1>1 DEF vars, SinkTypeOK, DiskInv, SyncedKept, HasLine, Unterminated
  <1> QED
    BY <1>1, StampKeeps, WriteKeeps, SyncKeeps, CancelKeeps, StrayKeeps, CrashKeeps, OpenKeeps
    DEF Next

\* DiskInv holds initially.
LEMMA DiskInit ==
  ASSUME Init
  PROVE  SinkTypeOK /\ DiskInv
  BY SinkAssumption DEF Init, SinkTypeOK, DiskInv, NoEvent, Unterminated

\* DiskInv holds in every state of the sink.
THEOREM DiskInvariance == Spec => [](SinkTypeOK /\ DiskInv)
  <1>1. Init => SinkTypeOK /\ DiskInv
    BY DiskInit
  <1>2. SinkTypeOK /\ DiskInv /\ [Next]_vars => SinkTypeOK' /\ DiskInv'
    BY DiskStep
  <1> QED
    BY <1>1, <1>2, PTL DEF Spec

\* An event whose emit returned Ok stays in the log, for any number of events,
\* crashes, failures and cancelled emits (file.rs emit and open).
THEOREM AcknowledgedEventsAreKept == Spec => []AcknowledgedIsKept
  <1>1. DiskInv => AcknowledgedIsKept
    BY DEF DiskInv, HasLine, AcknowledgedIsKept
  <1> QED
    BY <1>1, DiskInvariance, PTL

\* No step of the sink, no crash and no restart, changes or removes a synced line.
THEOREM LogIsAppendOnly == Spec => SyncedLinesStay
  <1>1. SinkTypeOK /\ SinkTypeOK' /\ SyncedKept =>
          [\A i \in 1 .. synced : file[i].form \in {"whole", "glued"} =>
             i \in DOMAIN file' /\ file'[i] = file[i]]_vars
    BY SMTT(60) DEF SinkTypeOK, SyncedKept
  <1>2. SinkTypeOK /\ DiskInv /\ [Next]_vars => SinkTypeOK' /\ SyncedKept
    BY DiskStep
  <1>3. SinkTypeOK /\ DiskInv /\ [Next]_vars =>
          [\A i \in 1 .. synced : file[i].form \in {"whole", "glued"} =>
             i \in DOMAIN file' /\ file'[i] = file[i]]_vars
    BY <1>1, <1>2
  <1> QED
    BY <1>3, DiskInvariance, PTL DEF Spec, SyncedLinesStay
-----------------------------------------------------------------------------
\* The first n lines are whole and each names the one before it.
ChainedTo(f, n) ==
  \A i \in 1 .. n : f[i].form = "whole" /\ f[i].prev = IF i = 1 THEN 0 ELSE f[i - 1].id

\* Without a failed or cancelled emit and without a cut line, the file is a
\* chain up to its last terminated line, the cursor is at its end, and an emit
\* under way extends it.
ChainInv ==
  ~ tainted /\ ~ torn =>
    /\ stray = {}
    /\ ~ Unterminated(file) => ChainedTo(file, Len(file))
    /\ Unterminated(file) => ChainedTo(file, Len(file) - 1)
    /\ state = "up" /\ step # "sync" =>
         head = LastId(file) /\ written = Len(file) /\ synced = Len(file)
    /\ state = "up" /\ step = "write" => event.prev = LastId(file)
    /\ state = "up" /\ step = "sync" =>
         event.id = LastId(file) /\ written + 1 = Len(file)

\* Appending the event that names the last line extends the chain.
LEMMA ChainExtends ==
  ASSUME NEW f \in Seq(Lines), NEW e \in [id : 0 .. MaxEvents, prev : 0 .. MaxEvents],
         ChainedTo(f, Len(f)), e.prev = LastId(f)
  PROVE  LET g == Append(f, Whole(e))
         IN  ChainedTo(g, Len(g)) /\ LastId(g) = e.id /\ ~ Unterminated(g)
  <1> DEFINE g == Append(f, Whole(e))
             n == Len(f)
  <1>1. Whole(e) \in Lines /\ Whole(e).form = "whole" /\ Whole(e).id = e.id
        /\ Whole(e).prev = e.prev
    BY LineTypes DEF Whole
  <1>2. /\ Len(g) = n + 1 /\ g[n + 1] = Whole(e) /\ g # <<>>
        /\ \A k \in 1 .. n : g[k] = f[k]
    BY <1>1, AppendFile
  <1>3. n \in Nat /\ (f = <<>> => n = 0) /\ (f # <<>> => n > 0)
    OBVIOUS
  <1>4. e.prev = IF n = 0 THEN 0 ELSE f[n].id
    BY <1>3 DEF LastId
  <1> HIDE DEF g, n
  <1>5. ChainedTo(g, n + 1)
    <2> SUFFICES ASSUME NEW i \in 1 .. n + 1
                 PROVE  g[i].form = "whole" /\ g[i].prev = IF i = 1 THEN 0 ELSE g[i - 1].id
      BY DEF ChainedTo
    <2>1. CASE i = n + 1
      <3>1. n # 0 => g[n] = f[n]
        BY <1>2, <1>3
      <3> QED
        BY <1>1, <1>2, <1>3, <1>4, <2>1, <3>1
    <2>2. CASE i # n + 1
      <3>1. i \in 1 .. n /\ (i # 1 => i - 1 \in 1 .. n)
        BY <1>3, <2>2
      <3>2. f[i].form = "whole" /\ f[i].prev = IF i = 1 THEN 0 ELSE f[i - 1].id
        BY <3>1 DEF ChainedTo, n
      <3> QED
        BY <1>2, <3>1, <3>2
    <2> QED
      BY <2>1, <2>2
  <1>6. LastId(g) = e.id /\ ~ Unterminated(g)
    BY <1>1, <1>2 DEF LastId, Unterminated
  <1>7. ChainedTo(g, Len(g))
    BY <1>2, <1>5
  <1> QED
    BY <1>6, <1>7 DEF g

\* A chain's prefix is one.
LEMMA ChainPrefix ==
  ASSUME NEW f, NEW g, NEW n \in Nat, NEW m \in Nat, m <= n, ChainedTo(f, n),
         \A k \in 1 .. m : g[k] = f[k]
  PROVE  ChainedTo(g, m)
  BY SMTT(60) DEF ChainedTo

\* Every step keeps ChainInv.
LEMMA ChainStep ==
  ASSUME SinkTypeOK, DiskInv, ChainInv, [Next]_vars
  PROVE  ChainInv'
  <1> SUFFICES ASSUME ~ tainted', ~ torn'
               PROVE  /\ stray' = {}
                      /\ ~ Unterminated(file') => ChainedTo(file', Len(file'))
                      /\ Unterminated(file') => ChainedTo(file', Len(file') - 1)
                      /\ state' = "up" /\ step' # "sync" =>
                           head' = LastId(file') /\ written' = Len(file') /\ synced' = Len(file')
                      /\ state' = "up" /\ step' = "write" => event'.prev = LastId(file')
                      /\ state' = "up" /\ step' = "sync" =>
                           event'.id = LastId(file') /\ written' + 1 = Len(file')
    BY DEF ChainInv, ChainedTo, Unterminated, LastId
  <1>0. ~ tainted /\ ~ torn
    <2>1. CASE UNCHANGED <<tainted, torn>>
      BY <2>1
    <2>2. CASE Write
      BY <2>1, <2>2 DEF Write
    <2>3. CASE Sync
      BY <2>1, <2>3 DEF Sync
    <2>4. CASE Cancel
      BY <2>4 DEF Cancel
    <2>5. CASE Open
      BY ZenonT(60), <2>5 DEF Open
    <2>6. CASE Stamp \/ Crash \/ (\E e \in stray : StrayLands(e)) \/ UNCHANGED vars
      BY <2>1, <2>6 DEF Stamp, Crash, StrayLands, vars
    <2> QED
      BY <2>2, <2>3, <2>4, <2>5, <2>6 DEF Next
  <1>1. /\ stray = {}
        /\ ~ Unterminated(file) => ChainedTo(file, Len(file))
        /\ Unterminated(file) => ChainedTo(file, Len(file) - 1)
        /\ state = "up" /\ step # "sync" =>
             head = LastId(file) /\ written = Len(file) /\ synced = Len(file)
        /\ state = "up" /\ step = "write" => event.prev = LastId(file)
        /\ state = "up" /\ step = "sync" => event.id = LastId(file) /\ written + 1 = Len(file)
        /\ state = "up" => ~ Unterminated(file)
    BY <1>0 DEF ChainInv, DiskInv
  <1>2. CASE Stamp
    <2>1. /\ state = "up" /\ step = "none" /\ step' = "write" /\ event'.prev = head
          /\ UNCHANGED <<file, synced, head, written, stray, state>>
      BY <1>2 DEF Stamp
    <2> QED
      BY <1>1, <2>1
  <1>3. CASE Write
    <2>0. state = "up" /\ UNCHANGED <<synced, head, written, event, stray, state>>
          /\ event \in [id : 0 .. MaxEvents, prev : 0 .. MaxEvents] /\ file \in Seq(Lines)
      BY <1>3 DEF Write, DiskInv, SinkTypeOK
    <2>1. CASE file' = WithLine(file, event) /\ step' = "sync"
      <3>1. file' = Append(file, Whole(event))
        BY <1>1, <2>0, <2>1 DEF WithLine
      <3>2. ChainedTo(file', Len(file')) /\ LastId(file') = event.id /\ ~ Unterminated(file')
        BY <1>1, <1>3, <2>0, <3>1, ChainExtends DEF Write
      <3>3. Len(file') = Len(file) + 1 /\ written = Len(file)
        BY <1>1, <1>3, <2>0, <3>1 DEF Write
      <3> QED
        BY <1>1, <2>0, <2>1, <3>2, <3>3
    <2>2. CASE step' = "none" /\ UNCHANGED file
      BY SMTT(60), <1>1, <1>3, <2>0, <2>2 DEF Write
    <2> QED
      BY <1>3, <2>1, <2>2 DEF Write
  <1>4. CASE Sync
    <2>1. state = "up"
      BY <1>4 DEF Sync, DiskInv
    <2> QED
      BY <1>1, <1>4, <2>1 DEF Sync
  <1>5. CASE Crash
    <2>0. /\ state = "up" /\ state' = "down" /\ stray' = {} /\ Len(file) \in Nat /\ synced \in Nat
          /\ ChainedTo(file, Len(file))
      BY <1>1, <1>5 DEF Crash, SinkTypeOK
    <2>1. /\ file' \in Seq(Lines)
          /\ \E m \in synced .. Len(file) :
               /\ \A k \in 1 .. m : file'[k] = file[k]
               /\ \/ Len(file') = m
                  \/ Len(file') = m + 1 /\ m < Len(file) /\ Unterminated(file')
      BY <1>5, SurvivorsEffect DEF Crash
    <2>2. PICK m \in synced .. Len(file) :
            /\ \A k \in 1 .. m : file'[k] = file[k]
            /\ Len(file') = m \/ (Len(file') = m + 1 /\ Unterminated(file'))
      BY <2>1
    <2>3. m \in Nat /\ m <= Len(file)
      BY <2>0
    <2>4. ChainedTo(file', m)
      BY <2>0, <2>2, <2>3, ChainPrefix
    <2>5. Unterminated(file') => Len(file') > 0
      BY <2>1 DEF Unterminated
    <2>6. Unterminated(file') => ChainedTo(file', Len(file') - 1)
      <3>1. CASE Len(file') = m /\ m > 0
        <4>1. m - 1 \in Nat /\ m - 1 <= m
          BY <2>3, <3>1
        <4> QED
          BY <2>3, <2>4, <3>1, <4>1, ChainPrefix
      <3>2. CASE Len(file') = m + 1
        BY <2>3, <2>4, <3>2
      <3> QED
        BY <2>2, <2>3, <2>5, <3>1, <3>2
    <2>7. ~ Unterminated(file') => ChainedTo(file', Len(file'))
      BY <2>2, <2>4
    <2> QED
      BY <2>0, <2>6, <2>7
  <1>6. CASE Open
    <2>1. ~ Unterminated(file)
      BY <1>6 DEF Open
    <2>2. UNCHANGED <<file, step, event, stray>> /\ step = "none" /\ synced' = Len(file)
      BY <1>6, <2>1 DEF Open, DiskInv
    <2>3. state' = "up" => head' = LastId(file) /\ written' = Len(file)
      BY <1>6 DEF Open
    <2> QED
      BY <1>1, <2>1, <2>2, <2>3
  <1>7. CASE UNCHANGED vars
    BY <1>1, <1>7 DEF vars
  <1> QED
    BY SMTT(60), <1>1, <1>2, <1>3, <1>4, <1>5, <1>6, <1>7 DEF Next, Cancel, StrayLands

\* ChainInv holds in every state of the sink.
THEOREM ChainInvariance == Spec => []ChainInv
  <1>1. Init => ChainInv
    BY DEF Init, ChainInv, ChainedTo, LastId, Unterminated
  <1>2. SinkTypeOK /\ DiskInv /\ ChainInv /\ [Next]_vars => ChainInv'
    BY ChainStep
  <1> QED
    BY <1>1, <1>2, DiskInvariance, PTL DEF Spec

\* The cursor the anchor publishes is the end of the log, for any number of
\* events and crashes (file.rs emit, open and current_anchor_payload).
THEOREM CursorIsTheTail == Spec => []CursorIsTail
  <1>1. ChainInv => CursorIsTail
    BY DEF ChainInv, CursorIsTail
  <1> QED
    BY <1>1, ChainInvariance, PTL

\* For any number of events and crashes: crashes alone leave a file whose
\* terminated lines replay_verify accepts (file.rs open, replay_verify).
THEOREM CrashesAloneKeepTheChain == Spec => []CrashesKeepChain
  <1>1. SinkTypeOK /\ ChainInv => CrashesKeepChain
    <2> SUFFICES ASSUME SinkTypeOK, ChainInv, ~ tainted, ~ torn
                 PROVE  Verifies(Complete(file))
      BY DEF CrashesKeepChain
    <2>1. file \in Seq(Lines) /\ Len(file) \in Nat
      BY DEF SinkTypeOK
    <2>2. CASE ~ Unterminated(file)
      <3>1. ChainedTo(file, Len(file)) /\ Complete(file) = file /\ DOMAIN file = 1 .. Len(file)
        BY <2>1, <2>2 DEF ChainInv, Complete
      <3> QED
        BY <3>1 DEF Verifies, Chained, ChainedTo
    <2>3. CASE Unterminated(file)
      <3> DEFINE n == Len(file) - 1
                 g == SubSeq(file, 1, n)
      <3>1. n \in 0 .. Len(file)
        BY <2>1, <2>3 DEF Unterminated
      <3>2. /\ g \in Seq(Lines) /\ Len(g) = n /\ \A k \in 1 .. n : g[k] = file[k]
        BY <2>1, <3>1, PrefixFile
      <3>3. ChainedTo(file, n) /\ Complete(file) = g
        BY <2>3 DEF ChainInv, Complete
      <3>4. n \in Nat /\ DOMAIN g = 1 .. n
        BY <3>1, <3>2
      <3> HIDE DEF g, n
      <3>5. ChainedTo(g, n)
        BY <3>2, <3>3, <3>4, ChainPrefix
      <3> QED
        BY <3>3, <3>4, <3>5 DEF Verifies, Chained, ChainedTo
    <2> QED
      BY <2>2, <2>3
  <1> QED
    BY <1>1, DiskInvariance, ChainInvariance, PTL
=============================================================================

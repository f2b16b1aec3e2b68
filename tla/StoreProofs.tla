----------------------------- MODULE StoreProofs -----------------------------
(***************************************************************************)
(* What the store promises, for segments, queues and chunks of any size    *)
(* and any number of restores, crashes and failing calls.                  *)
(*                                                                         *)
(* As long as nothing was lost on the way and no rotation crossed a stop,  *)
(* the record says where the newer segment begins, the older one ends      *)
(* there, and what the feed carries goes on where the newer one ends.      *)
(***************************************************************************)
EXTENDS Store, SequenceTheorems, TLAPS

\* The session is stored, nobody has begun to end it, and nothing has gone amiss.
Sound == rec.on /\ ~ending /\ ~holed /\ ~crossed

\* Both segments are filed where the record says, the older one before the newer.
Filed ==
    LET newer == segs[rec.segment]
        older == segs[1 - rec.segment]
    IN /\ \A i \in 1..Len(newer) : newer[i] = rec.written + i - 1
       /\ Len(older) <= rec.written
       /\ \A i \in 1..Len(older) : older[i] = rec.written - Len(older) + i - 1

\* The file the writer has open is the segment the record names, and is as long as the
\* writer says; in the middle of a rotation it has none, and the next segment is empty.
WriterIsAtTheRecord ==
    /\ mapped => CASE worker = "open"   -> target = rec.segment /\ writer.file = Nil
                   [] worker = "rolled" -> /\ target = 1 - rec.segment /\ writer.file = Nil
                                           /\ segs[target] = <<>>
                   [] OTHER             -> /\ writer.file = rec.segment
                                           /\ writer.file \in files
                                           /\ writer.size = Len(segs[rec.segment])
    /\ WriterLocked => mapped

\* The segment a stop has read is still the record's.
StopReadTheRecord ==
    stop.at \in {"record", "mark"} /\ stop.segment # Nil => stop.segment = rec.segment

\* What a sound session has in memory follows what it has on disk.
SoundSession ==
    Sound => /\ Filed
             /\ Up => /\ OneAfterAnother /\ WriterIsAtTheRecord /\ StopReadTheRecord
                      /\ life # "opening"
                      /\ ~fclosed => QueueEnd = written

\* A session that is opening has nothing yet; one that is down has nothing in memory.
Memory ==
    /\ life = "opening" /\ ~ending =>
        /\ ~rec.on /\ segs = [s \in 0..1 |-> <<>>] /\ written = 0 /\ worker = "gone"
    /\ life \in {"opening", "down"} /\ ~ending =>
        /\ pending = <<>> /\ ~fclosed /\ ~mapped /\ stop = NoStop
    /\ life = "down" => worker = "gone"
    /\ rlock = "stop" <=> stop.at = "mark"
    /\ rlock = "close" <=> closer.at = "unrecord"
    /\ closer.at # "none" => ending
    /\ worker = "ready" => writer.file # Nil

\* The mark on the record is the one the last stop has made.
MarkIsTheStops == rec.on /\ rec.ended /\ ~holed => marked = rec.through

\* The conjunction that every step preserves.
StoreInv == TypeOK /\ SoundSession /\ Memory /\ MarkIsTheStops

----------------------------------------------------------------------------
\* Where a close is, when no close comes before the creation write, no call fails and
\* every feed drains in time.
CloseHasItsPlace ==
    /\ closer.at # "none" => life = "live"
    /\ closer.at \in {"none", "reap", "drain"} => ~closer.last
    /\ closer.at = "drain" => fclosed
    /\ closer.last => worker = "gone"
    /\ closer.last /\ closer.at = "unrecord" => files = {}
    /\ closer.at = "done" /\ stop.at = "none" => worker = "gone"
    /\ closed /\ Up /\ stop.at = "none" => closer.at = "drain" \/ closer.last

CloseInv == CloseHasItsPlace /\ CloseLeavesNothing

----------------------------------------------------------------------------
(* What a step that changes one record of the model leaves of it *)

\* The stop goes to its next place.
LEMMA StopAt ==
    ASSUME NEW s \in Stops, NEW v \in {"none", "segment", "record", "mark", "reap", "drain", "out"}
    PROVE  LET r == [s EXCEPT !.at = v]
           IN r \in Stops /\ r.at = v /\ r.through = s.through /\ r.segment = s.segment
BY DEF Stops

\* The stop has read the segment.
LEMMA StopReads ==
    ASSUME NEW s \in Stops, NEW f \in {Nil, 0, 1}
    PROVE  LET r == [s EXCEPT !.at = "record", !.segment = f]
           IN r \in Stops /\ r.at = "record" /\ r.through = s.through /\ r.segment = f
BY DEF Stops

\* The close goes to its next place.
LEMMA CloserAt ==
    ASSUME NEW c \in Closers,
           NEW v \in {"none", "unmap", "unlink", "unrecord", "reap", "drain", "done"}
    PROVE  LET r == [c EXCEPT !.at = v] IN r \in Closers /\ r.at = v /\ r.last = c.last
BY DEF Closers

\* What is there before anything began.
LEMMA Nothings ==
    /\ NoStop \in Stops /\ NoStop.at = "none" /\ NoStop.segment = Nil /\ NoStop.through = 0
    /\ NoCloser \in Closers /\ NoCloser.at = "none" /\ ~NoCloser.last
    /\ NoRecord \in Records /\ ~NoRecord.on /\ ~NoRecord.ended
    /\ NoWriter \in Writers /\ NoWriter.file = Nil /\ NoWriter.size = 0
    /\ NoChunk \in Chunks
<1>1. /\ NoStop \in Stops /\ NoStop.at = "none" /\ NoStop.segment = Nil /\ NoStop.through = 0
  BY DEF NoStop, Stops
<1>2. NoCloser \in Closers /\ NoCloser.at = "none" /\ ~NoCloser.last
  BY DEF NoCloser, Closers
<1>3. NoRecord \in Records /\ ~NoRecord.on /\ ~NoRecord.ended
  BY DEF NoRecord, Records
<1>4. NoWriter \in Writers /\ NoWriter.file = Nil /\ NoWriter.size = 0
  BY DEF NoWriter, Writers
<1>5. NoChunk \in Chunks
  <2>1. <<>> \in Seq(Nat) /\ Len(<<>>) = 0
    OBVIOUS
  <2> QED BY <2>1 DEF NoChunk, Chunks
<1> QED BY <1>1, <1>2, <1>3, <1>4, <1>5

\* Output no longer than the coordinate it reaches is a chunk.
LEMMA AChunk ==
    ASSUME NEW d \in Seq(Nat), NEW t \in Nat, Len(d) <= t
    PROVE  [data |-> d, through |-> t] \in Chunks
BY DEF Chunks

\* The fields of a record and of a chunk.
LEMMA Fields ==
    ASSUME TypeOK
    PROVE  /\ rec.on \in BOOLEAN /\ rec.segment \in 0..1 /\ rec.written \in Nat
           /\ rec.ended \in BOOLEAN /\ rec.through \in Nat
           /\ chunk.data \in Seq(Nat) /\ chunk.through \in Nat /\ Len(chunk.data) \in Nat
           /\ Len(chunk.data) <= chunk.through
           /\ writer.file \in {Nil, 0, 1} /\ writer.size \in Nat
           /\ stop.segment \in {Nil, 0, 1} /\ stop.through \in Nat
           /\ closer.last \in BOOLEAN
           /\ \A s \in 0..1 : segs[s] \in Seq(Nat) /\ Len(segs[s]) \in Nat
           /\ \A i \in 1..Len(pending) : pending[i] \in Chunks
<1>1. rec \in Records /\ chunk \in Chunks /\ writer \in Writers /\ stop \in Stops /\ closer \in Closers
  BY DEF TypeOK
<1>2. /\ rec.on \in BOOLEAN /\ rec.segment \in 0..1 /\ rec.written \in Nat
      /\ rec.ended \in BOOLEAN /\ rec.through \in Nat
  BY <1>1 DEF Records
<1>3. chunk.data \in Seq(Nat) /\ chunk.through \in Nat /\ Len(chunk.data) <= chunk.through
  BY <1>1 DEF Chunks
<1>4. /\ writer.file \in {Nil, 0, 1} /\ writer.size \in Nat
      /\ stop.segment \in {Nil, 0, 1} /\ stop.through \in Nat /\ closer.last \in BOOLEAN
  BY <1>1 DEF Writers, Stops, Closers
<1>5. \A s \in 0..1 : segs[s] \in Seq(Nat) /\ Len(segs[s]) \in Nat
  BY DEF TypeOK
<1>6. \A i \in 1..Len(pending) : pending[i] \in Chunks
  BY DEF TypeOK
<1> QED BY <1>2, <1>3, <1>4, <1>5, <1>6

----------------------------------------------------------------------------
(* What a step that leaves the output alone keeps *)

\* The stored output is what it was.
OutputStays == segs' = segs /\ rec'.segment = rec.segment /\ rec'.written = rec.written

\* It is filed as it was, and ends where it did.
LEMMA OutputFrame ==
    ASSUME OutputStays
    PROVE  (Filed => Filed') /\ StoredThrough' = StoredThrough
BY DEF OutputStays, Filed, StoredThrough

\* What is on its way goes on from there.
LEMMA FeedFrame ==
    ASSUME StoredThrough' = StoredThrough, InHand' <=> InHand, UNCHANGED <<chunk, pending>>
    PROVE  (OneAfterAnother => OneAfterAnother') /\ QueueEnd' = QueueEnd
BY DEF OneAfterAnother, HandEnd, QueueEnd, Follows

\* The writer is where it was.
LEMMA WriterFrame ==
    ASSUME OutputStays, UNCHANGED <<files, worker, writer, mapped, target>>
    PROVE  WriterIsAtTheRecord => WriterIsAtTheRecord'
BY DEF OutputStays, WriterIsAtTheRecord, WriterLocked

\* A step that leaves the output and the feed's worker alone keeps the session sound.
LEMMA QuietKeepsSound ==
    ASSUME SoundSession, OutputStays, Sound' => Sound,
           UNCHANGED <<files, written, pending, worker, chunk, writer, mapped, target>>,
           fclosed => fclosed',
           Up' => Up, life' = "opening" => life = "opening",
           Up' /\ Sound /\ StopReadTheRecord => StopReadTheRecord'
    PROVE  SoundSession'
<1>1. InHand' <=> InHand
  BY DEF InHand
<1> QED BY <1>1, OutputFrame, FeedFrame, WriterFrame DEF SoundSession

----------------------------------------------------------------------------
(* The queue and the segments as sequences *)

\* A queue with one more chunk at its end.
LEMMA QueueTakes ==
    ASSUME NEW S, NEW s \in Seq(S), NEW x \in S
    PROVE  LET q == Append(s, x)
           IN /\ q \in Seq(S) /\ Len(q) = Len(s) + 1 /\ Len(s) \in Nat /\ q # <<>>
              /\ q[Len(q)] = x /\ \A i \in 1..Len(s) : q[i] = s[i]
BY AppendProperties

\* A queue whose first chunk was taken.
LEMMA QueueGives ==
    ASSUME NEW S, NEW s \in Seq(S), s # <<>>
    PROVE  /\ Len(s) \in Nat \ {0} /\ Head(s) = s[1] /\ Head(s) \in S
           /\ Tail(s) \in Seq(S) /\ Len(Tail(s)) = Len(s) - 1
           /\ \A i \in 1..(Len(s) - 1) : Tail(s)[i] = s[i + 1]
OBVIOUS

\* A segment with a chunk's output at its end.
LEMMA SegmentGrows ==
    ASSUME NEW s \in Seq(Nat), NEW t \in Seq(Nat)
    PROVE  /\ s \o t \in Seq(Nat) /\ Len(s \o t) = Len(s) + Len(t)
           /\ \A i \in 1..Len(s) : (s \o t)[i] = s[i]
           /\ \A i \in (Len(s) + 1)..(Len(s) + Len(t)) : (s \o t)[i] = t[i - Len(s)]
BY ConcatProperties

\* The tail of a segment: the last bytes of it, as many as asked for at most.
LEMMA TailFacts ==
    ASSUME NEW s \in Seq(Nat), NEW n \in Nat
    PROVE  LET t == TailOf(s, n)
           IN /\ t \in Seq(Nat) /\ Len(t) \in Nat /\ Len(t) <= n /\ Len(t) <= Len(s)
              /\ (Len(t) = n \/ t = s)
              /\ \A i \in 1..Len(t) : t[i] = s[Len(s) - Len(t) + i]
<1>1. CASE Len(s) > n
  <2>1. /\ TailOf(s, n) = SubSeq(s, Len(s) - n + 1, Len(s)) /\ Len(s) \in Nat
        /\ Len(s) - n + 1 \in 1..(Len(s) + 1)
    BY <1>1 DEF TailOf
  <2>2. /\ SubSeq(s, Len(s) - n + 1, Len(s)) \in Seq(Nat)
        /\ Len(SubSeq(s, Len(s) - n + 1, Len(s))) = n
        /\ \A i \in 1..n : SubSeq(s, Len(s) - n + 1, Len(s))[i] = s[Len(s) - n + i]
    BY <1>1, <2>1
  <2> DEFINE t == SubSeq(s, Len(s) - n + 1, Len(s))
  <2>3. /\ t \in Seq(Nat) /\ Len(t) \in Nat /\ Len(t) = n /\ Len(t) <= Len(s)
        /\ \A i \in 1..Len(t) : t[i] = s[Len(s) - Len(t) + i]
    <3> HIDE DEF t
    <3>1. t \in Seq(Nat) /\ Len(t) = n /\ \A i \in 1..n : t[i] = s[Len(s) - n + i]
      BY <2>2 DEF t
    <3> QED BY <1>1, <3>1
  <2> QED BY <2>1, <2>3
<1>2. CASE ~(Len(s) > n)
  BY <1>2 DEF TailOf
<1> QED BY <1>1, <1>2

\* What a restore reads: no more than what is stored ahead of the coordinate it reaches,
\* and in place when both segments are.
LEMMA StoredBytesFacts ==
    ASSUME TypeOK
    PROVE  /\ StoredBytes \in Seq(Nat) /\ Len(StoredBytes) \in Nat /\ StoredThrough \in Nat
           /\ Filed => InPlace /\ Len(StoredBytes) <= StoredThrough
<1> DEFINE newer == segs[rec.segment]
           older == segs[1 - rec.segment]
           n == TailOf(newer, HighWatermark)
           o == TailOf(older, HighWatermark - Len(n))
<1>1. /\ newer \in Seq(Nat) /\ Len(newer) \in Nat /\ older \in Seq(Nat) /\ Len(older) \in Nat
      /\ rec.written \in Nat
  BY Fields
<1>2. /\ n \in Seq(Nat) /\ Len(n) \in Nat /\ Len(n) <= HighWatermark /\ Len(n) <= Len(newer)
      /\ (Len(n) = HighWatermark \/ n = newer)
      /\ \A i \in 1..Len(n) : n[i] = newer[Len(newer) - Len(n) + i]
  BY <1>1, TailFacts, StoreConstants
<1>3. HighWatermark - Len(n) \in Nat
  BY <1>2, StoreConstants
<1>4. /\ o \in Seq(Nat) /\ Len(o) \in Nat /\ Len(o) <= HighWatermark - Len(n) /\ Len(o) <= Len(older)
      /\ \A i \in 1..Len(o) : o[i] = older[Len(older) - Len(o) + i]
  BY <1>1, <1>3, TailFacts
<1>5. StoredBytes = o \o n
  BY DEF StoredBytes
<1> HIDE DEF newer, older, n, o
<1>6. /\ o \o n \in Seq(Nat) /\ Len(o \o n) = Len(o) + Len(n)
      /\ \A i \in 1..Len(o) : (o \o n)[i] = o[i]
      /\ \A i \in (Len(o) + 1)..(Len(o) + Len(n)) : (o \o n)[i] = n[i - Len(o)]
  BY <1>2, <1>4, SegmentGrows
<1>7. StoredThrough = rec.written + Len(newer) /\ StoredThrough \in Nat
  BY <1>1 DEF StoredThrough, newer
<1>8. ASSUME Filed
      PROVE  InPlace /\ Len(StoredBytes) <= StoredThrough
  <2>1. /\ \A i \in 1..Len(newer) : newer[i] = rec.written + i - 1
        /\ Len(older) <= rec.written
        /\ \A i \in 1..Len(older) : older[i] = rec.written - Len(older) + i - 1
    BY <1>8 DEF Filed, newer, older
  <2>2. Len(o \o n) <= StoredThrough
    BY <1>1, <1>2, <1>4, <1>6, <1>7, <2>1
  <2>3. ASSUME NEW i \in 1..Len(o \o n)
        PROVE  (o \o n)[i] = StoredThrough - Len(o \o n) + i - 1
    <3>1. CASE i > Len(o)
      <4>1. i - Len(o) \in 1..Len(n) /\ (o \o n)[i] = n[i - Len(o)]
        BY <1>2, <1>4, <1>6, <3>1
      <4>2. Len(newer) - Len(n) + (i - Len(o)) \in 1..Len(newer)
        BY <1>1, <1>2, <1>4, <4>1
      <4>3. n[i - Len(o)] = newer[Len(newer) - Len(n) + (i - Len(o))]
        BY <1>2, <4>1
      <4>4. n[i - Len(o)] = rec.written + (Len(newer) - Len(n) + (i - Len(o))) - 1
        BY <2>1, <4>2, <4>3
      <4>5. Len(o \o n) = Len(o) + Len(n)
        BY <1>6
      <4>6. /\ rec.written \in Nat /\ Len(newer) \in Nat /\ Len(n) \in Nat /\ Len(o) \in Nat
            /\ i \in Nat
        BY <1>1, <1>2, <1>4, <1>6
      <4>7. rec.written + (Len(newer) - Len(n) + (i - Len(o))) - 1
              = StoredThrough - (Len(o) + Len(n)) + i - 1
        BY <1>7, <4>6
      <4> QED BY <4>1, <4>4, <4>5, <4>7
    <3>2. CASE i <= Len(o)
      <4>1. i \in 1..Len(o) /\ (o \o n)[i] = o[i]
        BY <1>2, <1>4, <1>6, <3>2
      <4>2. Len(older) - Len(o) + i \in 1..Len(older)
        BY <1>1, <1>4, <4>1
      <4>3. (o \o n)[i] = rec.written - Len(o) + i - 1
        <5>1. o[i] = older[Len(older) - Len(o) + i]
          BY <1>4, <4>1
        <5>2. o[i] = rec.written - Len(older) + (Len(older) - Len(o) + i) - 1
          BY <2>1, <4>2, <5>1
        <5>3. rec.written \in Nat /\ Len(older) \in Nat /\ Len(o) \in Nat /\ i \in Nat
          BY <1>1, <1>4, <4>1
        <5> QED BY <4>1, <5>2, <5>3
      <4>4. Len(n) = Len(newer)
        <5>1. Len(o) > 0
          BY <1>4, <4>1
        <5> QED BY <1>2, <1>4, <5>1, StoreConstants
      <4>5. /\ rec.written \in Nat /\ Len(n) \in Nat /\ Len(o) \in Nat /\ i \in Nat
            /\ Len(o \o n) = Len(o) + Len(n)
        BY <1>1, <1>2, <1>4, <1>6, <4>1
      <4> QED BY <1>7, <4>3, <4>4, <4>5
    <3> QED BY <1>4, <1>6, <3>1, <3>2
  <2> QED BY <1>5, <2>2, <2>3 DEF InPlace
<1> QED BY <1>5, <1>6, <1>2, <1>4, <1>7, <1>8

----------------------------------------------------------------------------
(* Every step keeps the invariant *)

\* The stop reads how far the session got.
LEMMA StopBeginsKeeps ==
    ASSUME StoreInv, StopBegins
    PROVE  StoreInv'
<1>f. TypeOK /\ SoundSession /\ Memory /\ MarkIsTheStops
  BY DEF StoreInv
<1>p. stop' \in Stops /\ stop'.at = "segment"
  BY <1>f DEF StopBegins, NoStop, Stops, TypeOK, Nil
<1>1. TypeOK'
  BY <1>f, <1>p, Nothings
  DEF StopBegins, TypeOK, diskVars, feedVars, stopVars, endVars, histVars
<1>2. SoundSession'
  <2>1. OutputStays /\ (Sound' => Sound) /\ (fclosed => fclosed')
    BY <1>f, <1>p, Nothings DEF StopBegins, OutputStays, Sound, TypeOK, diskVars, feedVars,
       stopVars, endVars, histVars
  <2>2. /\ UNCHANGED <<files, written, pending, worker, chunk, writer, mapped, target>>
        /\ (Up' => Up) /\ (life' = "opening" => life = "opening")
    BY <1>f, <1>p, Nothings DEF StopBegins, Up, diskVars, feedVars, stopVars, endVars, histVars
  <2>3. Up' /\ Sound /\ StopReadTheRecord => StopReadTheRecord'
    BY <1>f, <2>1, <1>p, Nothings DEF StopBegins, StopReadTheRecord, OutputStays, diskVars,
       feedVars, stopVars, endVars, histVars
  <2> QED BY <1>f, <2>1, <2>2, <2>3, QuietKeepsSound
<1>3. Memory'
  BY <1>f, <1>p, Nothings
  DEF StopBegins, TypeOK, Memory, diskVars, feedVars, stopVars, endVars, histVars
<1>4. MarkIsTheStops'
  BY <1>f, <1>p, Nothings
  DEF StopBegins, TypeOK, MarkIsTheStops, diskVars, feedVars, stopVars, endVars, histVars
<1> QED BY <1>1, <1>2, <1>3, <1>4 DEF StoreInv

\* The stop reads the writer's segment, which is the record's.
LEMMA StopReadsSegmentKeeps ==
    ASSUME StoreInv, StopReadsSegment
    PROVE  StoreInv'
<1>f. TypeOK /\ SoundSession /\ Memory /\ MarkIsTheStops
  BY DEF StoreInv
<1>p. stop' \in Stops /\ stop'.at = "record" /\ stop'.segment = IF mapped THEN writer.file ELSE Nil
  BY <1>f, StopReads, Fields DEF StopReadsSegment, TypeOK
<1>1. TypeOK'
  BY <1>f, <1>p, Nothings
  DEF StopReadsSegment, TypeOK, diskVars, feedVars, stopVars, endVars, histVars
<1>2. SoundSession'
  <2>1. OutputStays /\ (Sound' => Sound) /\ (fclosed => fclosed')
    BY <1>f, <1>p, Nothings DEF StopReadsSegment, OutputStays, Sound, TypeOK, diskVars,
       feedVars, stopVars, endVars, histVars
  <2>2. /\ UNCHANGED <<files, written, pending, worker, chunk, writer, mapped, target>>
        /\ (Up' => Up) /\ (life' = "opening" => life = "opening")
    BY <1>f, <1>p, Nothings DEF StopReadsSegment, Up, diskVars, feedVars, stopVars, endVars,
       histVars
  <2>3. Up' /\ Sound /\ StopReadTheRecord => StopReadTheRecord'
    BY <1>f, <1>p, <2>1, Fields DEF StopReadsSegment, StopReadTheRecord, OutputStays,
       SoundSession, WriterIsAtTheRecord, WriterLocked, TypeOK, Up, Nil
  <2> QED BY <1>f, <2>1, <2>2, <2>3, QuietKeepsSound
<1>3. Memory'
  BY <1>f, <1>p, Nothings
  DEF StopReadsSegment, TypeOK, Memory, diskVars, feedVars, stopVars, endVars, histVars
<1>4. MarkIsTheStops'
  BY <1>f, <1>p, Nothings
  DEF StopReadsSegment, TypeOK, MarkIsTheStops, diskVars, feedVars, stopVars, endVars, histVars
<1> QED BY <1>1, <1>2, <1>3, <1>4 DEF StoreInv

\* The stop takes the record's lock.
LEMMA StopLocksRecordKeeps ==
    ASSUME StoreInv, StopLocksRecord
    PROVE  StoreInv'
<1>f. TypeOK /\ SoundSession /\ Memory /\ MarkIsTheStops
  BY DEF StoreInv
<1>p. stop' \in Stops /\ stop'.at = "mark" /\ stop'.segment = stop.segment
  BY <1>f, StopAt DEF StopLocksRecord, TypeOK
<1>1. TypeOK'
  BY <1>f, <1>p, Nothings
  DEF StopLocksRecord, TypeOK, diskVars, feedVars, stopVars, endVars, histVars
<1>2. SoundSession'
  <2>1. OutputStays /\ (Sound' => Sound) /\ (fclosed => fclosed')
    BY <1>f, <1>p, Nothings DEF StopLocksRecord, OutputStays, Sound, TypeOK, diskVars,
       feedVars, stopVars, endVars, histVars
  <2>2. /\ UNCHANGED <<files, written, pending, worker, chunk, writer, mapped, target>>
        /\ (Up' => Up) /\ (life' = "opening" => life = "opening")
    BY <1>f, <1>p, Nothings DEF StopLocksRecord, Up, diskVars, feedVars, stopVars, endVars,
       histVars
  <2>3. Up' /\ Sound /\ StopReadTheRecord => StopReadTheRecord'
    BY <1>f, <2>1, <1>p, Nothings DEF StopLocksRecord, StopReadTheRecord, OutputStays,
       diskVars, feedVars, stopVars, endVars, histVars
  <2> QED BY <1>f, <2>1, <2>2, <2>3, QuietKeepsSound
<1>3. Memory'
  BY <1>f, <1>p, Nothings
  DEF StopLocksRecord, TypeOK, Memory, diskVars, feedVars, stopVars, endVars, histVars
<1>4. MarkIsTheStops'
  BY <1>f, <1>p, Nothings
  DEF StopLocksRecord, TypeOK, MarkIsTheStops, diskVars, feedVars, stopVars, endVars, histVars
<1> QED BY <1>1, <1>2, <1>3, <1>4 DEF StoreInv

\* The stop lets the record go as it was.
LEMMA StopMarkFailsKeeps ==
    ASSUME StoreInv, StopMarkFails
    PROVE  StoreInv'
<1>f. TypeOK /\ SoundSession /\ Memory /\ MarkIsTheStops
  BY DEF StoreInv
<1>p. stop' \in Stops /\ stop'.at = "reap" /\ stop'.segment = stop.segment
  BY <1>f, StopAt DEF StopMarkFails, TypeOK
<1>1. TypeOK'
  BY <1>f, <1>p, Nothings
  DEF StopMarkFails, StopMayMark, TypeOK, diskVars, feedVars, stopVars, endVars, histVars
<1>2. SoundSession'
  <2>1. OutputStays /\ (Sound' => Sound) /\ (fclosed => fclosed')
    BY <1>f, <1>p, Nothings DEF StopMarkFails, StopMayMark, OutputStays, Sound, TypeOK,
       diskVars, feedVars, stopVars, endVars, histVars
  <2>2. /\ UNCHANGED <<files, written, pending, worker, chunk, writer, mapped, target>>
        /\ (Up' => Up) /\ (life' = "opening" => life = "opening")
    BY <1>f, <1>p, Nothings DEF StopMarkFails, StopMayMark, Up, diskVars, feedVars, stopVars,
       endVars, histVars
  <2>3. Up' /\ Sound /\ StopReadTheRecord => StopReadTheRecord'
    BY <1>f, <2>1, <1>p, Nothings DEF StopMarkFails, StopMayMark, StopReadTheRecord,
       OutputStays, diskVars, feedVars, stopVars, endVars, histVars
  <2> QED BY <1>f, <2>1, <2>2, <2>3, QuietKeepsSound
<1>3. Memory'
  BY <1>f, <1>p, Nothings
  DEF StopMarkFails, StopMayMark, TypeOK, Memory, diskVars, feedVars, stopVars, endVars, histVars
<1>4. MarkIsTheStops'
  BY <1>f, <1>p, Nothings
  DEF StopMarkFails, StopMayMark, TypeOK, MarkIsTheStops, diskVars, feedVars, stopVars, endVars, histVars
<1> QED BY <1>1, <1>2, <1>3, <1>4 DEF StoreInv

\* The stop waits for the feed no longer.
LEMMA StopDrainsKeeps ==
    ASSUME StoreInv, StopDrains
    PROVE  StoreInv'
<1>f. TypeOK /\ SoundSession /\ Memory /\ MarkIsTheStops
  BY DEF StoreInv
<1>p. stop' \in Stops /\ stop'.at = "out" /\ stop'.segment = stop.segment
  BY <1>f, StopAt DEF StopDrains, TypeOK
<1>1. TypeOK'
  BY <1>f, <1>p, Nothings
  DEF StopDrains, TypeOK, diskVars, feedVars, stopVars, endVars, histVars
<1>2. SoundSession'
  <2>1. OutputStays /\ (Sound' => Sound) /\ (fclosed => fclosed')
    BY <1>f, <1>p, Nothings DEF StopDrains, OutputStays, Sound, TypeOK, diskVars, feedVars,
       stopVars, endVars, histVars
  <2>2. /\ UNCHANGED <<files, written, pending, worker, chunk, writer, mapped, target>>
        /\ (Up' => Up) /\ (life' = "opening" => life = "opening")
    BY <1>f, <1>p, Nothings DEF StopDrains, Up, diskVars, feedVars, stopVars, endVars, histVars
  <2>3. Up' /\ Sound /\ StopReadTheRecord => StopReadTheRecord'
    BY <1>f, <2>1, <1>p, Nothings DEF StopDrains, StopReadTheRecord, OutputStays, diskVars,
       feedVars, stopVars, endVars, histVars
  <2> QED BY <1>f, <2>1, <2>2, <2>3, QuietKeepsSound
<1>3. Memory'
  BY <1>f, <1>p, Nothings
  DEF StopDrains, TypeOK, Memory, diskVars, feedVars, stopVars, endVars, histVars
<1>4. MarkIsTheStops'
  BY <1>f, <1>p, Nothings
  DEF StopDrains, TypeOK, MarkIsTheStops, diskVars, feedVars, stopVars, endVars, histVars
<1> QED BY <1>1, <1>2, <1>3, <1>4 DEF StoreInv

\* The stop closes the feed.
LEMMA StopReapsKeeps ==
    ASSUME StoreInv, StopReaps
    PROVE  StoreInv'
<1>f. TypeOK /\ SoundSession /\ Memory /\ MarkIsTheStops
  BY DEF StoreInv
<1>p. stop' \in Stops /\ stop'.at \in {"drain", "out"}
  <2>1. PICK v \in {"drain", "out"} : stop' = [stop EXCEPT !.at = v]
    BY DEF StopReaps
  <2>2. stop \in Stops
    BY <1>f DEF TypeOK
  <2> QED BY <2>1, <2>2 DEF Stops
<1>1. TypeOK'
  BY <1>f, <1>p, Nothings
  DEF StopReaps, TypeOK, diskVars, feedVars, stopVars, endVars, histVars
<1>2. SoundSession'
  <2>1. OutputStays /\ (Sound' => Sound) /\ (fclosed => fclosed')
    BY <1>f, <1>p, Nothings DEF StopReaps, OutputStays, Sound, TypeOK, diskVars, feedVars,
       stopVars, endVars, histVars
  <2>2. /\ UNCHANGED <<files, written, pending, worker, chunk, writer, mapped, target>>
        /\ (Up' => Up) /\ (life' = "opening" => life = "opening")
    BY <1>f, <1>p, Nothings DEF StopReaps, Up, diskVars, feedVars, stopVars, endVars, histVars
  <2>3. Up' /\ Sound /\ StopReadTheRecord => StopReadTheRecord'
    BY <1>f, <2>1, <1>p, Nothings DEF StopReaps, StopReadTheRecord, OutputStays, diskVars,
       feedVars, stopVars, endVars, histVars
  <2> QED BY <1>f, <2>1, <2>2, <2>3, QuietKeepsSound
<1>3. Memory'
  BY <1>f, <1>p, Nothings
  DEF StopReaps, TypeOK, Memory, diskVars, feedVars, stopVars, endVars, histVars
<1>4. MarkIsTheStops'
  BY <1>f, <1>p, Nothings
  DEF StopReaps, TypeOK, MarkIsTheStops, diskVars, feedVars, stopVars, endVars, histVars
<1> QED BY <1>1, <1>2, <1>3, <1>4 DEF StoreInv

\* A close begins, and with it the session's end.
LEMMA CloseBeginsKeeps ==
    ASSUME StoreInv, CloseBegins
    PROVE  StoreInv'
<1>f. TypeOK /\ SoundSession /\ Memory /\ MarkIsTheStops
  BY DEF StoreInv
<1>p. closer' \in Closers /\ closer'.at = "unmap"
  BY <1>f DEF CloseBegins, Closers
<1>1. TypeOK'
  BY <1>f, <1>p, Nothings
  DEF CloseBegins, TypeOK, diskVars, feedVars, stopVars, endVars, histVars
<1>2. SoundSession'
  <2>1. OutputStays /\ (Sound' => Sound) /\ (fclosed => fclosed')
    BY <1>f, <1>p, Nothings DEF CloseBegins, OutputStays, Sound, TypeOK, diskVars, feedVars,
       stopVars, endVars, histVars
  <2>2. /\ UNCHANGED <<files, written, pending, worker, chunk, writer, mapped, target>>
        /\ (Up' => Up) /\ (life' = "opening" => life = "opening")
    BY <1>f, <1>p, Nothings DEF CloseBegins, Up, diskVars, feedVars, stopVars, endVars,
       histVars
  <2>3. Up' /\ Sound /\ StopReadTheRecord => StopReadTheRecord'
    BY <1>f, <2>1, <1>p, Nothings DEF CloseBegins, StopReadTheRecord, OutputStays, diskVars,
       feedVars, stopVars, endVars, histVars
  <2> QED BY <1>f, <2>1, <2>2, <2>3, QuietKeepsSound
<1>3. Memory'
  BY <1>f, <1>p, Nothings
  DEF CloseBegins, TypeOK, Memory, diskVars, feedVars, stopVars, endVars, histVars
<1>4. MarkIsTheStops'
  BY <1>f, <1>p, Nothings
  DEF CloseBegins, TypeOK, MarkIsTheStops, diskVars, feedVars, stopVars, endVars, histVars
<1> QED BY <1>1, <1>2, <1>3, <1>4 DEF StoreInv

\* The shell's exit begins the session's end.
LEMMA ShellExitsKeeps ==
    ASSUME StoreInv, ShellExits
    PROVE  StoreInv'
<1>f. TypeOK /\ SoundSession /\ Memory /\ MarkIsTheStops
  BY DEF StoreInv
<1>p. closer' \in Closers /\ closer'.at = "reap"
  BY <1>f DEF ShellExits, Closers
<1>1. TypeOK'
  BY <1>f, <1>p, Nothings
  DEF ShellExits, TypeOK, diskVars, feedVars, stopVars, endVars, histVars
<1>2. SoundSession'
  <2>1. OutputStays /\ (Sound' => Sound) /\ (fclosed => fclosed')
    BY <1>f, <1>p, Nothings DEF ShellExits, OutputStays, Sound, TypeOK, diskVars, feedVars,
       stopVars, endVars, histVars
  <2>2. /\ UNCHANGED <<files, written, pending, worker, chunk, writer, mapped, target>>
        /\ (Up' => Up) /\ (life' = "opening" => life = "opening")
    BY <1>f, <1>p, Nothings DEF ShellExits, Up, diskVars, feedVars, stopVars, endVars, histVars
  <2>3. Up' /\ Sound /\ StopReadTheRecord => StopReadTheRecord'
    BY <1>f, <2>1, <1>p, Nothings DEF ShellExits, StopReadTheRecord, OutputStays, diskVars,
       feedVars, stopVars, endVars, histVars
  <2> QED BY <1>f, <2>1, <2>2, <2>3, QuietKeepsSound
<1>3. Memory'
  BY <1>f, <1>p, Nothings
  DEF ShellExits, TypeOK, Memory, diskVars, feedVars, stopVars, endVars, histVars
<1>4. MarkIsTheStops'
  BY <1>f, <1>p, Nothings
  DEF ShellExits, TypeOK, MarkIsTheStops, diskVars, feedVars, stopVars, endVars, histVars
<1> QED BY <1>1, <1>2, <1>3, <1>4 DEF StoreInv

\* A remove takes the writer out of the map.
LEMMA RemoveUnmapsKeeps ==
    ASSUME StoreInv, RemoveUnmaps
    PROVE  StoreInv'
<1>f. TypeOK /\ SoundSession /\ Memory /\ MarkIsTheStops
  BY DEF StoreInv
<1>e. ending
  BY <1>f DEF RemoveUnmaps, Memory
<1>p. closer' \in Closers /\ closer'.at = "unlink" /\ closer'.last = closer.last
  BY <1>f, CloserAt DEF RemoveUnmaps, TypeOK
<1>b. busy' \in BOOLEAN
  BY DEF RemoveUnmaps
<1>1. TypeOK'
  <2>1. /\ mapped' \in BOOLEAN
        /\ UNCHANGED <<rec, segs, files, life, closed, written, pending, fclosed, worker, chunk,
                       writer, target, stop, rlock, starts, outcome, reached, holed, marked,
                       ending, crossed>>
    BY DEF RemoveUnmaps, diskVars, histVars, endVars
  <2> QED BY <1>f, <1>p, <1>b, <2>1 DEF TypeOK
<1>2. SoundSession'
  BY <1>e DEF RemoveUnmaps, SoundSession, Sound, histVars, endVars
<1>3. Memory'
  BY <1>f, <1>p, <1>e, Nothings, <1>b
  DEF RemoveUnmaps, TypeOK, Memory, diskVars, feedVars, stopVars, endVars, histVars
<1>4. MarkIsTheStops'
  BY <1>f, <1>p, <1>e, Nothings, <1>b
  DEF RemoveUnmaps, TypeOK, MarkIsTheStops, diskVars, feedVars, stopVars, endVars, histVars
<1> QED BY <1>1, <1>2, <1>3, <1>4 DEF StoreInv

\* A remove drops the segments.
LEMMA RemoveUnlinksKeeps ==
    ASSUME StoreInv, RemoveUnlinks
    PROVE  StoreInv'
<1>f. TypeOK /\ SoundSession /\ Memory /\ MarkIsTheStops
  BY DEF StoreInv
<1>e. ending
  BY <1>f DEF RemoveUnlinks, Memory
<1>p. closer' \in Closers /\ closer'.at = "unrecord" /\ closer'.last = closer.last
  BY <1>f, CloserAt DEF RemoveUnlinks, TypeOK
<1>s. segs' \in [0..1 -> Seq(Nat)]
  BY DEF RemoveUnlinks
<1>1. TypeOK'
  BY <1>f, <1>p, <1>e, Nothings, <1>s
  DEF RemoveUnlinks, TypeOK, diskVars, feedVars, stopVars, endVars, histVars
<1>2. SoundSession'
  BY <1>e DEF RemoveUnlinks, SoundSession, Sound, histVars, endVars
<1>3. Memory'
  BY <1>f, <1>p, <1>e, Nothings, <1>s
  DEF RemoveUnlinks, TypeOK, Memory, diskVars, feedVars, stopVars, endVars, histVars
<1>4. MarkIsTheStops'
  BY <1>f, <1>p, <1>e, Nothings, <1>s
  DEF RemoveUnlinks, TypeOK, MarkIsTheStops, diskVars, feedVars, stopVars, endVars, histVars
<1> QED BY <1>1, <1>2, <1>3, <1>4 DEF StoreInv

\* A remove drops the record.
LEMMA RemoveUnrecordsKeeps ==
    ASSUME StoreInv, RemoveUnrecords
    PROVE  StoreInv'
<1>f. TypeOK /\ SoundSession /\ Memory /\ MarkIsTheStops
  BY DEF StoreInv
<1>e. ending
  BY <1>f DEF RemoveUnrecords, Memory
<1>p. closer' \in Closers /\ closer'.at \in {"done", "reap"}
  <2>1. PICK v \in {"done", "reap"} : closer' = [closer EXCEPT !.at = v]
    BY DEF RemoveUnrecords
  <2>2. closer \in Closers
    BY <1>f DEF TypeOK
  <2> QED BY <2>1, <2>2 DEF Closers
<1>1. TypeOK'
  BY <1>f, <1>p, <1>e, Nothings
  DEF RemoveUnrecords, TypeOK, diskVars, feedVars, stopVars, endVars, histVars
<1>2. SoundSession'
  BY <1>e DEF RemoveUnrecords, SoundSession, Sound, histVars, endVars
<1>3. Memory'
  BY <1>f, <1>p, <1>e, Nothings
  DEF RemoveUnrecords, TypeOK, Memory, diskVars, feedVars, stopVars, endVars, histVars
<1>4. MarkIsTheStops'
  BY <1>f, <1>p, <1>e, Nothings
  DEF RemoveUnrecords, TypeOK, MarkIsTheStops, diskVars, feedVars, stopVars, endVars, histVars
<1> QED BY <1>1, <1>2, <1>3, <1>4 DEF StoreInv

\* A remove leaves what it could not remove.
LEMMA RemoveFailsKeeps ==
    ASSUME StoreInv, RemoveFails
    PROVE  StoreInv'
<1>f. TypeOK /\ SoundSession /\ Memory /\ MarkIsTheStops
  BY DEF StoreInv
<1>e. ending
  BY <1>f DEF RemoveFails, Memory
<1>p. closer' \in Closers /\ closer'.at \in {"done", "reap"}
  <2>1. PICK v \in {"done", "reap"} : closer' = [closer EXCEPT !.at = v]
    BY DEF RemoveFails
  <2>2. closer \in Closers
    BY <1>f DEF TypeOK
  <2> QED BY <2>1, <2>2 DEF Closers
<1>1. TypeOK'
  BY <1>f, <1>p, <1>e, Nothings
  DEF RemoveFails, TypeOK, diskVars, feedVars, stopVars, endVars, histVars
<1>2. SoundSession'
  BY <1>e DEF RemoveFails, SoundSession, Sound, histVars, endVars
<1>3. Memory'
  BY <1>f, <1>p, <1>e, Nothings
  DEF RemoveFails, TypeOK, Memory, diskVars, feedVars, stopVars, endVars, histVars
<1>4. MarkIsTheStops'
  BY <1>f, <1>p, <1>e, Nothings
  DEF RemoveFails, TypeOK, MarkIsTheStops, diskVars, feedVars, stopVars, endVars, histVars
<1> QED BY <1>1, <1>2, <1>3, <1>4 DEF StoreInv

\* The end closes the feed.
LEMMA CloserReapsKeeps ==
    ASSUME StoreInv, CloserReaps
    PROVE  StoreInv'
<1>f. TypeOK /\ SoundSession /\ Memory /\ MarkIsTheStops
  BY DEF StoreInv
<1>e. ending
  BY <1>f DEF CloserReaps, Memory
<1>p. closer' \in Closers /\ closer'.at \in {"done", "drain"}
  <2>1. PICK v \in {"done", "drain"} : closer' = [closer EXCEPT !.at = v]
    BY DEF CloserReaps
  <2>2. closer \in Closers
    BY <1>f DEF TypeOK
  <2> QED BY <2>1, <2>2 DEF Closers
<1>b. fclosed' \in BOOLEAN /\ closed' \in BOOLEAN
  BY <1>f DEF CloserReaps, TypeOK
<1>1. TypeOK'
  <2>1. UNCHANGED <<rec, segs, files, life, written, pending, worker, chunk, writer, mapped, target,
                    stop, busy, rlock, starts, outcome, reached, holed, marked, ending, crossed>>
    BY DEF CloserReaps, diskVars, histVars, endVars
  <2> QED BY <1>f, <1>p, <1>b, <2>1 DEF TypeOK
<1>2. SoundSession'
  BY <1>e DEF CloserReaps, SoundSession, Sound, histVars, endVars
<1>3. Memory'
  BY <1>f, <1>p, <1>e, Nothings, <1>b
  DEF CloserReaps, TypeOK, Memory, diskVars, feedVars, stopVars, endVars, histVars
<1>4. MarkIsTheStops'
  BY <1>f, <1>p, <1>e, Nothings, <1>b
  DEF CloserReaps, TypeOK, MarkIsTheStops, diskVars, feedVars, stopVars, endVars, histVars
<1> QED BY <1>1, <1>2, <1>3, <1>4 DEF StoreInv

\* The feed has drained.
LEMMA CloserDrainsKeeps ==
    ASSUME StoreInv, CloserDrains
    PROVE  StoreInv'
<1>f. TypeOK /\ SoundSession /\ Memory /\ MarkIsTheStops
  BY DEF StoreInv
<1>e. ending
  BY <1>f DEF CloserDrains, Memory
<1>p. closer' \in Closers /\ closer'.at = "unmap"
  BY DEF CloserDrains, Closers
<1>1. TypeOK'
  BY <1>f, <1>p, <1>e, Nothings
  DEF CloserDrains, TypeOK, diskVars, feedVars, stopVars, endVars, histVars
<1>2. SoundSession'
  BY <1>e DEF CloserDrains, SoundSession, Sound, histVars, endVars
<1>3. Memory'
  BY <1>f, <1>p, <1>e, Nothings
  DEF CloserDrains, TypeOK, Memory, diskVars, feedVars, stopVars, endVars, histVars
<1>4. MarkIsTheStops'
  BY <1>f, <1>p, <1>e, Nothings
  DEF CloserDrains, TypeOK, MarkIsTheStops, diskVars, feedVars, stopVars, endVars, histVars
<1> QED BY <1>1, <1>2, <1>3, <1>4 DEF StoreInv

\* A session whose creation write failed has no record.
LEMMA CreateFailsKeeps ==
    ASSUME StoreInv, CreateFails
    PROVE  StoreInv'
<1>f. TypeOK /\ SoundSession /\ Memory /\ MarkIsTheStops
  BY DEF StoreInv
<1>1. TypeOK'
  BY <1>f, Nothings
  DEF CreateFails, TypeOK, diskVars, feedVars, stopVars, endVars, histVars
<1>2. SoundSession'
  <2>1. CASE ending
    BY <2>1 DEF CreateFails, SoundSession, Sound, stopVars, histVars, endVars
  <2>2. CASE ~ending
    BY <1>f, <2>2 DEF CreateFails, SoundSession, Sound, Memory, diskVars
  <2> QED BY <2>1, <2>2
<1>3. Memory'
  BY <1>f, Nothings
  DEF CreateFails, TypeOK, Memory, diskVars, feedVars, stopVars, endVars, histVars
<1>4. MarkIsTheStops'
  BY <1>f, Nothings
  DEF CreateFails, TypeOK, MarkIsTheStops, diskVars, feedVars, stopVars, endVars, histVars
<1> QED BY <1>1, <1>2, <1>3, <1>4 DEF StoreInv

\* The process goes, and what is on disk stays.
LEMMA ProcessGoesKeeps ==
    ASSUME StoreInv, ProcessGoes
    PROVE  StoreInv'
<1>f. TypeOK /\ SoundSession /\ Memory /\ MarkIsTheStops
  BY DEF StoreInv
<1>p. <<>> \in Seq(Chunks)
  OBVIOUS
<1>1. TypeOK'
  <2>1. /\ fclosed' \in BOOLEAN /\ mapped' \in BOOLEAN /\ busy' \in BOOLEAN
    BY DEF ProcessGoes
  <2>2. target' \in 0..1 /\ pending' \in Seq(Chunks)
    BY <1>p DEF ProcessGoes
  <2>3. UNCHANGED <<rec, segs, files, closed, written, starts, outcome, reached, holed, marked, ending, crossed>>
    BY DEF ProcessGoes, diskVars, histVars, endVars
  <2> QED BY <1>f, <2>1, <2>2, <2>3, Nothings DEF ProcessGoes, TypeOK
<1>2. SoundSession'
  BY <1>f, OutputFrame
  DEF ProcessGoes, OutputStays, SoundSession, Sound, Up, diskVars, histVars, endVars
<1>3. Memory'
  BY <1>f, Nothings, <1>p
  DEF ProcessGoes, TypeOK, Memory, diskVars, feedVars, stopVars, endVars, histVars
<1>4. MarkIsTheStops'
  BY <1>f, Nothings, <1>p
  DEF ProcessGoes, TypeOK, MarkIsTheStops, diskVars, feedVars, stopVars, endVars, histVars
<1> QED BY <1>1, <1>2, <1>3, <1>4 DEF StoreInv

\* The mark of the stop before stays, and the session is holed.
LEMMA RestoreKeepsMarkKeeps ==
    ASSUME StoreInv, RestoreKeepsMark
    PROVE  StoreInv'
<1>f. TypeOK /\ SoundSession /\ Memory /\ MarkIsTheStops
  BY DEF StoreInv
<1>1. TypeOK'
  BY <1>f
  DEF RestoreKeepsMark, TypeOK, diskVars, feedVars, stopVars, endVars, histVars
<1>2. SoundSession'
  BY DEF RestoreKeepsMark, SoundSession, Sound
<1>3. Memory'
  BY <1>f
  DEF RestoreKeepsMark, TypeOK, Memory, diskVars, feedVars, stopVars, endVars, histVars
<1>4. MarkIsTheStops'
  BY <1>f
  DEF RestoreKeepsMark, TypeOK, MarkIsTheStops, diskVars, feedVars, stopVars, endVars, histVars
<1> QED BY <1>1, <1>2, <1>3, <1>4 DEF StoreInv

\* The mark of the stop before is cleared.
LEMMA RestoreClearsMarkKeeps ==
    ASSUME StoreInv, RestoreClearsMark
    PROVE  StoreInv'
<1>f. TypeOK /\ SoundSession /\ Memory /\ MarkIsTheStops
  BY DEF StoreInv
<1>p. /\ rec' \in Records /\ ~rec'.ended /\ rec'.on = rec.on
      /\ rec'.segment = rec.segment /\ rec'.written = rec.written
  BY <1>f DEF RestoreClearsMark, Records, TypeOK
<1>1. TypeOK'
  BY <1>f, <1>p
  DEF RestoreClearsMark, TypeOK, diskVars, feedVars, stopVars, endVars, histVars
<1>2. SoundSession'
  <2>1. OutputStays /\ (Sound' => Sound) /\ (fclosed => fclosed')
    BY <1>f, <1>p DEF RestoreClearsMark, OutputStays, Sound, TypeOK, diskVars, feedVars,
       stopVars, endVars, histVars
  <2>2. /\ UNCHANGED <<files, written, pending, worker, chunk, writer, mapped, target>>
        /\ (Up' => Up) /\ (life' = "opening" => life = "opening")
    BY <1>f, <1>p DEF RestoreClearsMark, Up, diskVars, feedVars, stopVars, endVars, histVars
  <2>3. Up' /\ Sound /\ StopReadTheRecord => StopReadTheRecord'
    BY <1>f, <2>1, <1>p DEF RestoreClearsMark, StopReadTheRecord, OutputStays, diskVars,
       feedVars, stopVars, endVars, histVars
  <2> QED BY <1>f, <2>1, <2>2, <2>3, QuietKeepsSound
<1>3. Memory'
  BY <1>f, <1>p
  DEF RestoreClearsMark, TypeOK, Memory, diskVars, feedVars, stopVars, endVars, histVars
<1>4. MarkIsTheStops'
  BY <1>f, <1>p
  DEF RestoreClearsMark, TypeOK, MarkIsTheStops, diskVars, feedVars, stopVars, endVars, histVars
<1> QED BY <1>1, <1>2, <1>3, <1>4 DEF StoreInv

\* The stop marks the record, with the segment the record has.
LEMMA StopMarksKeeps ==
    ASSUME StoreInv, StopMarks
    PROVE  StoreInv'
<1>f. TypeOK /\ SoundSession /\ Memory /\ MarkIsTheStops
  BY DEF StoreInv
<1>p. stop' \in Stops /\ stop'.at = "reap" /\ stop'.segment = stop.segment
  BY <1>f, StopAt DEF StopMarks, TypeOK
<1>r. /\ rec' \in Records /\ rec'.on = rec.on /\ rec'.written = rec.written
      /\ rec.on => /\ rec'.ended /\ rec'.through = stop.through
                   /\ rec'.segment = IF stop.segment = Nil THEN rec.segment ELSE stop.segment
  <2>1. CASE ~rec.on
    BY <2>1, <1>f DEF StopMarks, TypeOK
  <2>2. CASE rec.on /\ stop.segment = Nil
    BY <2>2, <1>f, Fields DEF StopMarks, Records, TypeOK
  <2>3. CASE rec.on /\ stop.segment # Nil
    <3>1. stop.segment \in 0..1
      BY <2>3, <1>f, Fields DEF Nil
    <3> QED BY <2>3, <3>1, <1>f, Fields DEF StopMarks, Records, TypeOK
  <2> QED BY <2>1, <2>2, <2>3
<1>1. TypeOK'
  BY <1>f, <1>p, <1>r, Nothings, Fields
  DEF StopMarks, StopMayMark, TypeOK, diskVars, feedVars, stopVars, endVars, histVars
<1>2. SoundSession'
  <2> SUFFICES ASSUME Sound' PROVE SoundSession'
    BY DEF SoundSession
  <2>0. Sound /\ life = life'
    BY <1>f, <1>r DEF StopMarks, Sound, histVars, endVars
  <2>e. Up
    BY <1>f, <2>0, Nothings DEF StopMarks, StopMayMark, Memory, Up, Sound
  <2>1. OutputStays
    BY <1>f, <1>r, <2>0, <2>e
    DEF StopMarks, StopMayMark, OutputStays, SoundSession, Sound, StopReadTheRecord
  <2>2. /\ UNCHANGED <<files, written, pending, worker, chunk, writer, mapped, target>>
        /\ fclosed' = fclosed
    BY DEF StopMarks, feedVars
  <2>3. StopReadTheRecord'
    BY <1>p DEF StopReadTheRecord
  <2> QED BY <1>f, <2>0, <2>1, <2>2, <2>3, QuietKeepsSound DEF Up
<1>3. Memory'
  BY <1>f, <1>p, <1>r, Nothings, Fields
  DEF StopMarks, StopMayMark, TypeOK, Memory, diskVars, feedVars, stopVars, endVars, histVars
<1>4. MarkIsTheStops'
  BY <1>f, <1>p, <1>r, Nothings, Fields
  DEF StopMarks, StopMayMark, TypeOK, MarkIsTheStops, diskVars, feedVars, stopVars, endVars, histVars
<1> QED BY <1>1, <1>2, <1>3, <1>4 DEF StoreInv

\* The creation write: nothing is stored and nothing is on its way.
LEMMA CreateRecordKeeps ==
    ASSUME StoreInv, CreateRecord
    PROVE  StoreInv'
<1>f. TypeOK /\ SoundSession /\ Memory /\ MarkIsTheStops
  BY DEF StoreInv
<1>p. /\ rec' \in Records /\ rec'.on /\ ~rec'.ended /\ rec'.segment = 0 /\ rec'.written = 0
  <2>1. rec' = [on |-> TRUE, segment |-> 0, written |-> 0, ended |-> FALSE, through |-> 0]
    BY DEF CreateRecord, NoRecord
  <2> QED BY <2>1 DEF Records
<1>1. TypeOK'
  BY <1>f, <1>p
  DEF CreateRecord, TypeOK, diskVars, feedVars, stopVars, endVars, histVars
<1>2. SoundSession'
  <2> SUFFICES ASSUME Sound' PROVE SoundSession'
    BY DEF SoundSession
  <2>1. /\ ~ending /\ segs' = [s \in 0..1 |-> <<>>] /\ written' = 0 /\ pending' = <<>>
        /\ ~mapped' /\ stop' = NoStop /\ worker' = "idle" /\ life' = "live"
    BY <1>f DEF CreateRecord, Sound, Memory, stopVars, histVars, endVars
  <2>2. segs'[0] = <<>> /\ segs'[1] = <<>> /\ Len(<<>>) = 0
    BY <2>1
  <2>3. Filed' /\ StoredThrough' = 0
    BY <1>p, <2>2 DEF Filed, StoredThrough
  <2>4. ~InHand' /\ ~WriterLocked'
    BY <2>1 DEF InHand, WriterLocked
  <2>5. OneAfterAnother' /\ QueueEnd' = written'
    BY <2>1, <2>2, <2>3, <2>4 DEF OneAfterAnother, QueueEnd, HandEnd
  <2>6. WriterIsAtTheRecord' /\ StopReadTheRecord'
    BY <2>1, <2>4, Nothings DEF WriterIsAtTheRecord, StopReadTheRecord
  <2> QED BY <2>1, <2>3, <2>5, <2>6 DEF SoundSession
<1>3. Memory'
  BY <1>f, <1>p
  DEF CreateRecord, TypeOK, Memory, diskVars, feedVars, stopVars, endVars, histVars
<1>4. MarkIsTheStops'
  BY <1>f, <1>p
  DEF CreateRecord, TypeOK, MarkIsTheStops, diskVars, feedVars, stopVars, endVars, histVars
<1> QED BY <1>1, <1>2, <1>3, <1>4 DEF StoreInv

\* The pump's output goes on where the queue ends.
LEMMA PumpOffersKeeps ==
    ASSUME StoreInv, NEW n \in ChunkSizes, PumpOffers(n)
    PROVE  StoreInv'
<1>f. TypeOK /\ SoundSession /\ Memory /\ MarkIsTheStops
  BY DEF StoreInv
<1>n. n \in Nat /\ written \in Nat /\ written + n \in Nat /\ reached \in Nat
  BY <1>f, StoreConstants DEF TypeOK
<1> DEFINE c == [data |-> Produced(written, n), through |-> written + n]
<1>c. c \in Chunks /\ Follows(c, written) /\ c.through = written + n
  <2>1. Produced(written, n) \in Seq(Nat) /\ Len(Produced(written, n)) = n
    BY <1>n DEF Produced
  <2>2. \A j \in 1..n : Produced(written, n)[j] = written + j - 1
    BY DEF Produced
  <2> QED BY <1>n, <2>1, <2>2 DEF Chunks, Follows
<1>o. pending' = pending \/ (pending' = Append(pending, c) /\ ~fclosed)
  BY DEF PumpOffers
<1>p. /\ pending' \in Seq(Chunks) /\ written' = written + n /\ written' \in Nat
      /\ reached' \in Nat /\ holed' \in BOOLEAN /\ (holed => holed')
  <2>1. pending' \in Seq(Chunks)
    <3>1. pending \in Seq(Chunks) /\ c \in Chunks
      BY <1>f, <1>c DEF TypeOK
    <3> HIDE DEF c
    <3> QED BY <3>1, <1>o, QueueTakes
  <2>2. reached' \in Nat /\ written' = written + n
    BY <1>n DEF PumpOffers, Max2
  <2>3. holed' \in BOOLEAN /\ (holed => holed')
    BY <1>f DEF PumpOffers, TypeOK
  <2> QED BY <1>n, <2>1, <2>2, <2>3
<1>1. TypeOK'
  <2>u. UNCHANGED <<rec, segs, files, life, closed, fclosed, worker, chunk, writer, mapped, target,
                     stop, closer, busy, rlock, starts, outcome, marked, ending,
                     crossed>>
    BY DEF PumpOffers, diskVars, feedVars, stopVars, histVars, endVars
  <2> QED BY <1>f, <1>p, <2>u DEF TypeOK
<1>2. SoundSession'
  <2> SUFFICES ASSUME Sound' PROVE SoundSession'
    BY DEF SoundSession
  <2>u. UNCHANGED <<rec, segs, files, life, fclosed, worker, chunk, writer, mapped, target, stop,
                    ending, crossed>>
    BY DEF PumpOffers, diskVars, stopVars, endVars
  <2>0. Sound /\ Up
    BY <1>p, <2>u DEF Sound, PumpOffers, Up
  <2>1. OutputStays
    BY <2>u DEF OutputStays
  <2>2. Filed' /\ StoredThrough' = StoredThrough /\ WriterIsAtTheRecord' /\ StopReadTheRecord'
    BY <1>f, <2>0, <2>1, <2>u, OutputFrame, WriterFrame DEF SoundSession, StopReadTheRecord
  <2>3. (InHand' <=> InHand) /\ HandEnd' = HandEnd
    BY <2>2, <2>u DEF InHand, HandEnd
  <2>4. CASE pending' = pending /\ fclosed
    BY <1>f, <2>0, <2>2, <2>3, <2>4, <2>u, FeedFrame DEF SoundSession, Up
  <2>5. CASE ~fclosed
    <3>1. pending' = Append(pending, c) /\ QueueEnd = written
      BY <1>f, <2>0, <2>5 DEF PumpOffers, Sound, SoundSession
    <3>2. /\ pending \in Seq(Chunks) /\ Len(pending) \in Nat /\ Len(pending') = Len(pending) + 1
          /\ pending' # <<>> /\ pending'[Len(pending')] = c
          /\ \A i \in 1..Len(pending) : pending'[i] = pending[i]
      <4>1. pending \in Seq(Chunks)
        BY <1>f DEF TypeOK
      <4> HIDE DEF c
      <4> QED BY <1>c, <3>1, <4>1, QueueTakes
    <3>3. QueueEnd' = written'
      BY <1>c, <1>p, <3>2 DEF QueueEnd
    <3>4. Follows(c, IF Len(pending') = 1 THEN HandEnd ELSE pending'[Len(pending') - 1].through)
      <4>1. CASE pending = <<>>
        BY <1>c, <3>1, <3>2, <4>1 DEF QueueEnd
      <4>2. CASE pending # <<>>
        <5>1. Len(pending) # 0 /\ Len(pending') # 1 /\ Len(pending') - 1 = Len(pending)
          BY <3>2, <4>2
        <5>2. pending'[Len(pending)] = pending[Len(pending)]
          BY <3>2, <5>1
        <5> QED BY <1>c, <3>1, <4>2, <5>1, <5>2 DEF QueueEnd
      <4> QED BY <4>1, <4>2
    <3>5. ASSUME NEW i \in 1..Len(pending')
          PROVE  Follows(pending'[i], IF i = 1 THEN HandEnd ELSE pending'[i - 1].through)
      <4>1. CASE i = Len(pending')
        BY <3>2, <3>4, <4>1
      <4>2. CASE i # Len(pending')
        <5>1. i \in 1..Len(pending) /\ (i # 1 => i - 1 \in 1..Len(pending))
          BY <3>2, <4>2
        <5>2. Follows(pending[i], IF i = 1 THEN HandEnd ELSE pending[i - 1].through)
          BY <1>f, <2>0, <5>1 DEF SoundSession, OneAfterAnother
        <5> QED BY <3>2, <5>1, <5>2
      <4> QED BY <4>1, <4>2
    <3>6. InHand => Follows(chunk, StoredThrough)
      BY <1>f, <2>0 DEF SoundSession, OneAfterAnother
    <3>7. OneAfterAnother'
      BY <2>2, <2>3, <2>u, <3>5, <3>6 DEF OneAfterAnother, Follows
    <3> QED BY <1>f, <2>0, <2>2, <2>u, <3>3, <3>7 DEF SoundSession, Up
  <2> QED BY <1>f, <1>o, <2>4, <2>5 DEF TypeOK
<1>3. Memory'
  BY <1>f, <1>p
  DEF PumpOffers, TypeOK, Memory, diskVars, feedVars, stopVars, endVars, histVars
<1>4. MarkIsTheStops'
  BY <1>f, <1>p
  DEF PumpOffers, TypeOK, MarkIsTheStops, diskVars, feedVars, stopVars, endVars, histVars
<1> QED BY <1>1, <1>2, <1>3, <1>4 DEF StoreInv

\* The worker takes the chunk that goes on where the stored output ends.
LEMMA WorkerTakesKeeps ==
    ASSUME StoreInv, WorkerTakes
    PROVE  StoreInv'
<1>f. TypeOK /\ SoundSession /\ Memory /\ MarkIsTheStops
  BY DEF StoreInv
<1>t. pending \in Seq(Chunks) /\ chunk \in Chunks /\ worker = "idle" /\ ~InHand
  BY <1>f DEF WorkerTakes, TypeOK, InHand
<1>p. /\ pending' \in Seq(Chunks) /\ chunk' \in Chunks /\ worker' \in {"took", "gone"}
  <2>1. CASE pending = <<>>
    BY <2>1, <1>t DEF WorkerTakes
  <2>2. CASE pending # <<>>
    BY <2>2, <1>t, QueueGives DEF WorkerTakes
  <2> QED BY <2>1, <2>2
<1>u. UNCHANGED <<rec, segs, files, life, written, fclosed, writer, mapped, target, stop, closer,
                  rlock, holed, marked, ending, crossed>>
  BY DEF WorkerTakes, diskVars, stopVars, histVars, endVars
<1>1. TypeOK'
  <2>u. UNCHANGED <<rec, segs, files, life, closed, written, fclosed, writer, mapped, target, stop,
                     closer, busy, rlock, starts, outcome, reached, holed,
                     marked, ending, crossed>>
    BY DEF WorkerTakes, diskVars, feedVars, stopVars, histVars, endVars
  <2> QED BY <1>f, <1>p, <2>u DEF TypeOK
<1>2. SoundSession'
  <2> SUFFICES ASSUME Sound' PROVE SoundSession'
    BY DEF SoundSession
  <2>0. Sound
    BY <1>u DEF Sound
  <2>1. Filed' /\ StoredThrough' = StoredThrough
    BY <1>f, <1>u, <2>0, OutputFrame DEF SoundSession, OutputStays
  <2> SUFFICES ASSUME Up'
               PROVE  /\ OneAfterAnother' /\ WriterIsAtTheRecord' /\ StopReadTheRecord'
                      /\ life' # "opening" /\ (~fclosed' => QueueEnd' = written')
    BY <2>1 DEF SoundSession
  <2>2. Up /\ OneAfterAnother /\ (~fclosed => QueueEnd = written)
    BY <1>f, <1>u, <2>0 DEF SoundSession, Up
  <2>3. WriterIsAtTheRecord' /\ StopReadTheRecord' /\ life' # "opening"
    BY <1>f, <1>t, <1>p, <1>u, <2>0, <2>2
    DEF SoundSession, WriterIsAtTheRecord, WriterLocked, StopReadTheRecord
  <2>4. CASE pending = <<>>
    <3>1. worker' = "gone" /\ UNCHANGED <<chunk, pending>>
      BY <2>4 DEF WorkerTakes
    <3>2. InHand' <=> InHand
      BY <1>t, <3>1 DEF InHand
    <3> QED BY <1>u, <2>1, <2>2, <2>3, <3>1, <3>2, FeedFrame
  <2>5. CASE pending # <<>>
    <3>1. /\ worker' = "took" /\ chunk' = pending[1] /\ pending' = Tail(pending)
          /\ Len(pending) \in Nat \ {0} /\ Len(pending') = Len(pending) - 1
          /\ \A i \in 1..(Len(pending) - 1) : pending'[i] = pending[i + 1]
      BY <1>t, <2>5, QueueGives DEF WorkerTakes
    <3>2. InHand' /\ HandEnd' = pending[1].through /\ HandEnd = StoredThrough
      BY <1>t, <3>1 DEF InHand, HandEnd
    <3>3. Follows(pending[1], StoredThrough)
      BY <2>2, <3>1, <3>2 DEF OneAfterAnother
    <3>4. ASSUME NEW i \in 1..Len(pending')
          PROVE  Follows(pending'[i], IF i = 1 THEN HandEnd' ELSE pending'[i - 1].through)
      <4>1. i + 1 \in 1..Len(pending) /\ pending'[i] = pending[i + 1] /\ i + 1 # 1 /\ (i + 1) - 1 = i
        BY <3>1
      <4>2. Follows(pending[i + 1], pending[i].through)
        BY <2>2, <4>1 DEF OneAfterAnother
      <4>3. CASE i = 1
        BY <3>2, <4>1, <4>2, <4>3
      <4>4. CASE i # 1
        <5>1. pending'[i - 1] = pending[i]
          BY <3>1, <4>4
        <5> QED BY <4>1, <4>2, <4>4, <5>1
      <4> QED BY <4>3, <4>4
    <3>5. OneAfterAnother'
      BY <2>1, <3>1, <3>2, <3>3, <3>4 DEF OneAfterAnother, Follows
    <3>6. QueueEnd' = QueueEnd
      <4>1. CASE pending' = <<>>
        <5>1. Len(pending) = 1
          BY <3>1, <4>1
        <5> QED BY <2>5, <3>2, <4>1, <5>1 DEF QueueEnd
      <4>2. CASE pending' # <<>>
        <5>1. Len(pending') # 0
          BY <1>p, <4>2
        <5>2. Len(pending') \in 1..(Len(pending) - 1) /\ Len(pending') + 1 = Len(pending)
          BY <3>1, <5>1
        <5>3. pending'[Len(pending')] = pending[Len(pending)]
          BY <3>1, <5>2
        <5> QED BY <2>5, <4>2, <5>3 DEF QueueEnd
      <4> QED BY <4>1, <4>2
    <3> QED BY <1>u, <2>2, <2>3, <3>5, <3>6
  <2> QED BY <2>4, <2>5
<1>3. Memory'
  BY <1>f, <1>t, <1>p, <1>u DEF WorkerTakes, Memory, TypeOK
<1>4. MarkIsTheStops'
  BY <1>f, <1>u DEF MarkIsTheStops
<1> QED BY <1>1, <1>2, <1>3, <1>4 DEF StoreInv

\* The worker finds the writer's file open, or the record's segment to open.
LEMMA AppendBeginsKeeps ==
    ASSUME StoreInv, AppendBegins
    PROVE  StoreInv'
<1>f. TypeOK /\ SoundSession /\ Memory /\ MarkIsTheStops
  BY DEF StoreInv
<1>t. worker = "took" /\ InHand /\ mapped' /\ chunk \in Chunks /\ target \in 0..1
  BY <1>f DEF AppendBegins, TypeOK, InHand
<1>u. UNCHANGED <<rec, segs, files, life, closed, written, pending, fclosed, stop, closer, rlock,
                  starts, outcome, reached, marked, ending, crossed>>
  BY DEF AppendBegins, diskVars, endVars
<1>w. \/ writer' = writer /\ mapped
      \/ writer' = NoWriter /\ ~mapped
  BY <1>f DEF AppendBegins, TypeOK
<1>p. writer' \in Writers
  BY <1>f, <1>w, Nothings DEF TypeOK
<1>c. \/ /\ writer'.file # Nil /\ worker' = "ready" /\ UNCHANGED <<target, chunk, busy, holed>>
      \/ /\ writer'.file = Nil /\ rec.on /\ worker' = "open" /\ target' = rec.segment
         /\ UNCHANGED <<chunk, busy, holed>>
      \/ /\ worker' = "idle" /\ chunk' = NoChunk /\ ~busy' /\ busy' \in BOOLEAN /\ holed' = TRUE
         /\ UNCHANGED target
  BY DEF AppendBegins, AppendReturns
<1>1. TypeOK'
  <2>1. mapped' \in BOOLEAN
    BY DEF AppendBegins
  <2>2. /\ chunk' \in Chunks /\ target' \in 0..1 /\ busy' \in BOOLEAN /\ holed' \in BOOLEAN
        /\ worker' \in {"idle", "open", "ready"}
    BY <1>c, <1>t, <1>f, Nothings, Fields DEF TypeOK
  <2> QED BY <1>f, <1>p, <1>u, <2>1, <2>2 DEF TypeOK
<1>2. SoundSession'
  <2> SUFFICES ASSUME Sound' PROVE SoundSession'
    BY DEF SoundSession
  <2>0. Sound /\ UNCHANGED <<chunk, holed>> /\ worker' \in {"ready", "open"}
    BY <1>c, <1>u, <1>f DEF Sound, TypeOK
  <2>1. Filed' /\ StoredThrough' = StoredThrough
    BY <1>f, <1>u, <2>0, OutputFrame DEF SoundSession, OutputStays
  <2> SUFFICES ASSUME Up'
               PROVE  /\ OneAfterAnother' /\ WriterIsAtTheRecord' /\ StopReadTheRecord'
                      /\ life' # "opening" /\ (~fclosed' => QueueEnd' = written')
    BY <2>1 DEF SoundSession
  <2>2. /\ Up /\ OneAfterAnother /\ WriterIsAtTheRecord /\ StopReadTheRecord
        /\ life # "opening" /\ (~fclosed => QueueEnd = written)
    BY <1>f, <1>u, <2>0 DEF SoundSession, Up
  <2>3. InHand'
    BY <2>0 DEF InHand
  <2>4. OneAfterAnother' /\ QueueEnd' = QueueEnd
    BY <1>t, <1>u, <2>0, <2>1, <2>2, <2>3, FeedFrame
  <2>5. mapped => /\ writer.file = rec.segment /\ writer.file \in files
                  /\ writer.size = Len(segs[rec.segment])
    BY <1>t, <2>2 DEF WriterIsAtTheRecord
  <2>6. WriterIsAtTheRecord'
    <3>1. CASE worker' = "ready"
      <4>1. writer' = writer /\ mapped
        BY <1>c, <1>w, <3>1, <2>0, Nothings
      <4> QED BY <1>t, <1>u, <2>5, <3>1, <4>1 DEF WriterIsAtTheRecord
    <3>2. CASE worker' = "open"
      BY <1>c, <1>t, <1>u, <3>2 DEF WriterIsAtTheRecord
    <3> QED BY <2>0, <3>1, <3>2
  <2> QED BY <1>u, <2>2, <2>4, <2>6 DEF StopReadTheRecord
<1>3. Memory'
  <2>1. life # "opening" \/ ending
    BY <1>f, <1>t DEF Memory
  <2>2. life # "down"
    BY <1>f, <1>t DEF Memory
  <2>3. worker' = "ready" => writer'.file # Nil
    BY <1>c
  <2> QED BY <1>f, <1>u, <2>1, <2>2, <2>3 DEF Memory, TypeOK
<1>4. MarkIsTheStops'
  <2>1. holed' \/ holed' = holed
    BY <1>c
  <2> QED BY <1>f, <1>u, <2>1 DEF MarkIsTheStops
<1> QED BY <1>1, <1>2, <1>3, <1>4 DEF StoreInv

\* The worker has the record's segment open.
LEMMA OpenIntoKeeps ==
    ASSUME StoreInv, OpenInto
    PROVE  StoreInv'
<1>f. TypeOK /\ SoundSession /\ Memory /\ MarkIsTheStops
  BY DEF StoreInv
<1>t. worker = "open" /\ worker' = "ready" /\ target \in 0..1 /\ InHand /\ InHand'
  BY <1>f DEF OpenInto, TypeOK, InHand
<1>p. /\ writer' \in Writers /\ writer'.file = target /\ writer'.size = Len(segs[target])
      /\ files' \subseteq 0..1 /\ target \in files'
  <2>1. Len(segs[target]) \in Nat /\ files \subseteq 0..1
    BY <1>f, <1>t, Fields DEF TypeOK
  <2> QED BY <1>t, <2>1 DEF OpenInto, Writers
<1>u. UNCHANGED <<rec, segs, life, closed, written, pending, fclosed, chunk, mapped, target, stop,
                  closer, rlock, holed, marked, ending, crossed>>
  BY DEF OpenInto, stopVars, histVars, endVars
<1>1. TypeOK'
  <2>u. UNCHANGED <<rec, segs, life, closed, written, pending, fclosed, chunk, mapped, target, stop,
                     closer, busy, rlock, starts, outcome, reached, holed,
                     marked, ending, crossed>>
    BY DEF OpenInto, diskVars, feedVars, stopVars, histVars, endVars
  <2> QED BY <1>f, <1>p, <1>t, <2>u DEF TypeOK
<1>2. SoundSession'
  <2> SUFFICES ASSUME Sound' PROVE SoundSession'
    BY DEF SoundSession
  <2>0. Sound
    BY <1>u DEF Sound
  <2>1. Filed' /\ StoredThrough' = StoredThrough
    BY <1>f, <1>u, <2>0, OutputFrame DEF SoundSession, OutputStays
  <2>2. OneAfterAnother => OneAfterAnother' /\ QueueEnd' = QueueEnd
    BY <1>t, <1>u, <2>1, FeedFrame
  <2>3. WriterIsAtTheRecord => WriterIsAtTheRecord'
    BY <1>t, <1>p, <1>u DEF WriterIsAtTheRecord, WriterLocked
  <2> QED BY <1>f, <1>u, <2>0, <2>1, <2>2, <2>3 DEF SoundSession, StopReadTheRecord, Up
<1>3. Memory'
  BY <1>f, <1>t, <1>p, <1>u DEF Memory, Nil
<1>4. MarkIsTheStops'
  BY <1>f, <1>u DEF MarkIsTheStops
<1> QED BY <1>1, <1>2, <1>3, <1>4 DEF StoreInv

\* A rotation drops the older segment, which the record does not name.
LEMMA RollRemovesKeeps ==
    ASSUME StoreInv, RollRemoves
    PROVE  StoreInv'
<1>f. TypeOK /\ SoundSession /\ Memory /\ MarkIsTheStops
  BY DEF StoreInv
<1>t. worker = "ready" /\ worker' = "rolled" /\ InHand /\ InHand' /\ writer.file \in 0..1
  BY <1>f, Fields DEF RollRemoves, InHand, Memory
<1> DEFINE next == 1 - writer.file
<1>n. next \in 0..1 /\ next # writer.file
  BY <1>t
<1>p. /\ target' = next /\ target' \in 0..1 /\ writer' = NoWriter /\ writer' \in Writers /\ files' \subseteq 0..1
      /\ segs' \in [0..1 -> Seq(Nat)] /\ segs'[next] = <<>> /\ Len(segs'[next]) = 0
      /\ segs'[writer.file] = segs[writer.file]
  <2>1. segs \in [0..1 -> Seq(Nat)] /\ files \subseteq 0..1
    BY <1>f DEF TypeOK
  <2>2. /\ segs' = [segs EXCEPT ![next] = <<>>] /\ files' = files \ {next} /\ target' = next
        /\ writer' = NoWriter
    BY DEF RollRemoves
  <2>3. <<>> \in Seq(Nat) /\ Len(<<>>) = 0
    OBVIOUS
  <2> HIDE DEF next
  <2>4. /\ segs' \in [0..1 -> Seq(Nat)] /\ segs'[next] = <<>>
        /\ segs'[writer.file] = segs[writer.file]
    BY <1>t, <1>n, <2>1, <2>2, <2>3
  <2> QED BY <1>n, <2>1, <2>2, <2>3, <2>4, Nothings
<1>u. UNCHANGED <<rec, life, closed, written, pending, fclosed, chunk, mapped, stop,
                  closer, rlock, holed, marked, ending, crossed>>
  BY DEF RollRemoves, stopVars, histVars, endVars
<1>1. TypeOK'
  <2>u. UNCHANGED <<rec, life, closed, written, pending, fclosed, chunk, mapped, stop, closer, busy,
                     rlock, starts, outcome, reached, holed, marked, ending,
                     crossed>>
    BY DEF RollRemoves, diskVars, feedVars, stopVars, histVars, endVars
  <2> QED BY <1>f, <1>p, <1>t, <2>u DEF TypeOK
<1>2. SoundSession'
  <2> SUFFICES ASSUME Sound' PROVE SoundSession'
    BY DEF SoundSession
  <2>0. Sound
    BY <1>u DEF Sound
  <2>l. Up
    BY <1>f, <1>t DEF Memory, Up
  <2>1. /\ Filed /\ OneAfterAnother /\ WriterIsAtTheRecord /\ StopReadTheRecord
        /\ life # "opening" /\ (~fclosed => QueueEnd = written)
    BY <1>f, <2>0, <2>l DEF SoundSession
  <2>2. mapped /\ writer.file = rec.segment /\ next = 1 - rec.segment
    BY <1>t, <2>1 DEF WriterIsAtTheRecord, WriterLocked
  <2>3. segs'[rec'.segment] = segs[rec.segment] /\ segs'[1 - rec'.segment] = <<>> /\ rec' = rec
    BY <1>p, <1>u, <2>2
  <2>4. rec.written \in Nat
    BY <1>f, Fields
  <2>5. Filed' /\ StoredThrough' = StoredThrough
    BY <2>1, <2>3, <2>4 DEF Filed, StoredThrough
  <2>6. OneAfterAnother' /\ QueueEnd' = QueueEnd
    BY <1>t, <1>u, <2>1, <2>5, FeedFrame
  <2>7. WriterIsAtTheRecord'
    BY <1>t, <1>p, <1>u, <2>2, Nothings DEF WriterIsAtTheRecord
  <2> QED BY <1>u, <2>1, <2>5, <2>6, <2>7 DEF SoundSession, StopReadTheRecord
<1>3. Memory'
  BY <1>f, <1>t, <1>u DEF Memory
<1>4. MarkIsTheStops'
  BY <1>f, <1>u DEF MarkIsTheStops
<1> QED BY <1>1, <1>2, <1>3, <1>4 DEF StoreInv

\* A rotation records the coordinate the newer segment begins at, which is where the output
\* it has stored ends.
LEMMA RollRecordsKeeps ==
    ASSUME StoreInv, RollRecords
    PROVE  StoreInv'
<1>f. TypeOK /\ SoundSession /\ Memory /\ MarkIsTheStops
  BY DEF StoreInv
<1>t. /\ worker = "rolled" /\ rlock = "none" /\ InHand /\ chunk \in Chunks /\ target \in 0..1
      /\ crossed' = (crossed \/ stop.at = "record")
  BY <1>f DEF RollRecords, InHand, TypeOK
<1>b. crossed' \in BOOLEAN /\ (crossed => crossed') /\ (stop.at = "record" => crossed')
  BY <1>t, <1>f DEF TypeOK
<1>u. UNCHANGED <<segs, files, life, closed, written, pending, fclosed, writer, mapped, target, stop,
                  closer, rlock, starts, outcome, reached, marked, ending>>
  BY DEF RollRecords
<1>c. \/ /\ rec.on /\ worker' = "open" /\ UNCHANGED <<chunk, busy, holed>>
         /\ rec' = [rec EXCEPT !.segment = target, !.written = chunk.through - Len(chunk.data)]
      \/ /\ worker' = "idle" /\ chunk' = NoChunk /\ busy' \in BOOLEAN /\ holed' = TRUE
         /\ UNCHANGED rec
  BY DEF RollRecords, AppendReturns
<1>w. chunk.through - Len(chunk.data) \in Nat
  BY <1>f, Fields
<1>p. /\ rec' \in Records /\ rec'.on = rec.on /\ rec'.ended = rec.ended /\ rec'.through = rec.through
      /\ ~holed' => rec'.segment = target /\ rec'.written = chunk.through - Len(chunk.data)
  <2>1. rec \in Records
    BY <1>f DEF TypeOK
  <2>2. CASE UNCHANGED rec /\ holed' = TRUE
    BY <2>1, <2>2
  <2>3. CASE rec' = [rec EXCEPT !.segment = target, !.written = chunk.through - Len(chunk.data)]
    <3>1. /\ rec'.on = rec.on /\ rec'.ended = rec.ended /\ rec'.through = rec.through
          /\ rec'.segment = target /\ rec'.written = chunk.through - Len(chunk.data)
      BY <2>1, <2>3 DEF Records
    <3>2. rec' \in Records
      BY <1>t, <1>w, <2>1, <2>3 DEF Records
    <3> QED BY <3>1, <3>2
  <2> QED BY <1>c, <2>2, <2>3
<1>1. TypeOK'
  <2>1. /\ chunk' \in Chunks /\ busy' \in BOOLEAN /\ holed' \in BOOLEAN
        /\ worker' \in {"idle", "open"}
    BY <1>c, <1>t, <1>f, Nothings DEF TypeOK
  <2> QED BY <1>f, <1>p, <1>b, <1>u, <2>1 DEF TypeOK
<1>2. SoundSession'
  <2> SUFFICES ASSUME Sound' PROVE SoundSession'
    BY DEF SoundSession
  <2>0. /\ Sound /\ UNCHANGED <<chunk, holed>> /\ worker' = "open" /\ stop.at # "record"
    BY <1>b, <1>c, <1>u, <1>p DEF Sound
  <2>l. Up
    BY <1>f, <1>t DEF Memory, Up
  <2>1. /\ Filed /\ OneAfterAnother /\ WriterIsAtTheRecord
        /\ life # "opening" /\ (~fclosed => QueueEnd = written)
    BY <1>f, <2>0, <2>l DEF SoundSession
  <2>2. mapped /\ target = 1 - rec.segment /\ writer.file = Nil /\ segs[target] = <<>>
    BY <1>t, <2>1 DEF WriterIsAtTheRecord, WriterLocked
  <2>3. /\ rec.segment \in 0..1 /\ rec.written \in Nat /\ Len(chunk.data) \in Nat
        /\ Len(segs[rec.segment]) \in Nat
    BY <1>f, Fields
  <2>4. rec'.written = StoredThrough /\ rec'.segment = target /\ 1 - rec'.segment = rec.segment
    <3>1. chunk.through = StoredThrough + Len(chunk.data)
      BY <1>t, <2>1 DEF OneAfterAnother, Follows
    <3>2. rec'.segment = target /\ rec'.written = chunk.through - Len(chunk.data)
      BY <1>p DEF Sound
    <3>3. StoredThrough \in Nat
      BY <2>3 DEF StoredThrough
    <3> QED BY <2>2, <2>3, <3>1, <3>2, <3>3
  <2>5. /\ segs'[rec'.segment] = <<>> /\ segs'[1 - rec'.segment] = segs[rec.segment]
        /\ Len(<<>>) = 0
    BY <1>u, <2>2, <2>4
  <2>6. Filed' /\ StoredThrough' = StoredThrough
    <3>1. StoredThrough = rec.written + Len(segs[rec.segment])
      BY DEF StoredThrough
    <3>2. StoredThrough' = StoredThrough
      BY <2>3, <2>4, <2>5, <3>1 DEF StoredThrough
    <3>3. \A i \in 1..Len(segs[rec.segment]) : segs[rec.segment][i] = rec.written + i - 1
      BY <2>1 DEF Filed
    <3> QED BY <2>3, <2>4, <2>5, <3>1, <3>2, <3>3 DEF Filed
  <2>7. InHand'
    BY <2>0 DEF InHand
  <2>8. OneAfterAnother' /\ QueueEnd' = QueueEnd
    BY <1>t, <1>u, <2>0, <2>1, <2>6, <2>7, FeedFrame
  <2>9. WriterIsAtTheRecord'
    BY <1>u, <2>0, <2>2, <2>4 DEF WriterIsAtTheRecord
  <2>10. StopReadTheRecord'
    BY <1>f, <1>t, <1>u, <2>0 DEF StopReadTheRecord, Memory
  <2> QED BY <1>u, <2>1, <2>6, <2>8, <2>9, <2>10 DEF SoundSession
<1>3. Memory'
  <2>1. life # "opening" \/ ending
    BY <1>f, <1>t DEF Memory
  <2>2. life # "down"
    BY <1>f, <1>t DEF Memory
  <2>3. worker' # "ready"
    BY <1>c
  <2> QED BY <1>f, <1>u, <2>1, <2>2, <2>3 DEF Memory
<1>4. MarkIsTheStops'
  <2>1. holed' \/ holed' = holed
    BY <1>c
  <2> QED BY <1>f, <1>u, <1>p, <2>1 DEF MarkIsTheStops
<1> QED BY <1>1, <1>2, <1>3, <1>4 DEF StoreInv

\* The chunk in hand is written where the stored output ends.
LEMMA AppendWritesKeeps ==
    ASSUME StoreInv, AppendWrites
    PROVE  StoreInv'
<1>f. TypeOK /\ SoundSession /\ Memory /\ MarkIsTheStops
  BY DEF StoreInv
<1>t. /\ worker = "ready" /\ worker' = "idle" /\ chunk' = NoChunk /\ busy' = FALSE
      /\ InHand /\ ~InHand' /\ writer.file \in 0..1
  BY <1>f, Fields DEF AppendWrites, AppendReturns, InHand, Memory
<1>u. UNCHANGED <<rec, files, life, closed, written, pending, fclosed, mapped, target, stop, closer,
                  rlock, starts, outcome, reached, holed, marked, ending, crossed>>
  BY DEF AppendWrites, histVars, endVars
<1>d. /\ chunk.data \in Seq(Nat) /\ Len(chunk.data) \in Nat
      /\ \A s \in 0..1 : segs[s] \in Seq(Nat) /\ Len(segs[s]) \in Nat
  BY <1>f, Fields
<1>p. /\ writer' \in Writers /\ writer'.file = writer.file
      /\ writer'.size = writer.size + Len(chunk.data)
      /\ segs' \in [0..1 -> Seq(Nat)]
  <2>1. writer \in Writers /\ segs \in [0..1 -> Seq(Nat)] /\ writer.size \in Nat
    BY <1>f, Fields DEF TypeOK
  <2>2. writer.size + Len(chunk.data) \in Nat
    BY <1>d, <2>1
  <2>3. writer' = [writer EXCEPT !.size = writer.size + Len(chunk.data)]
    BY DEF AppendWrites
  <2>4. segs' \in [0..1 -> Seq(Nat)]
    <3>1. segs[writer.file] \o chunk.data \in Seq(Nat)
      BY <1>t, <1>d, SegmentGrows
    <3>2. segs' = segs \/ segs' = [segs EXCEPT ![writer.file] = segs[writer.file] \o chunk.data]
      BY DEF AppendWrites
    <3> QED BY <2>1, <3>1, <3>2
  <2> QED BY <2>1, <2>2, <2>3, <2>4 DEF Writers
<1>1. TypeOK'
  <2>1. busy' \in BOOLEAN
    BY <1>t
  <2> QED BY <1>f, <1>p, <1>t, <1>u, <2>1, Nothings DEF TypeOK
<1>2. SoundSession'
  <2> SUFFICES ASSUME Sound' PROVE SoundSession'
    BY DEF SoundSession
  <2>0. Sound
    BY <1>u DEF Sound
  <2>l. Up
    BY <1>f, <1>t DEF Memory, Up
  <2>1. /\ Filed /\ OneAfterAnother /\ WriterIsAtTheRecord /\ StopReadTheRecord
        /\ life # "opening" /\ (~fclosed => QueueEnd = written)
    BY <1>f, <2>0, <2>l DEF SoundSession
  <2>2. /\ mapped /\ writer.file = rec.segment /\ writer.file \in files
        /\ writer.size = Len(segs[rec.segment])
    BY <1>t, <2>1 DEF WriterIsAtTheRecord, WriterLocked
  <2> DEFINE newer == segs[rec.segment]
  <2>3. /\ newer \in Seq(Nat) /\ Len(newer) \in Nat /\ rec.written \in Nat /\ rec.segment \in 0..1
    BY <1>f, Fields
  <2>4. /\ segs'[rec.segment] = newer \o chunk.data
        /\ segs'[1 - rec.segment] = segs[1 - rec.segment]
    <3>1. segs' = [segs EXCEPT ![rec.segment] = segs[rec.segment] \o chunk.data]
      BY <2>2 DEF AppendWrites
    <3>2. segs \in [0..1 -> Seq(Nat)] /\ 1 - rec.segment \in 0..1 /\ 1 - rec.segment # rec.segment
      BY <1>f, <2>3 DEF TypeOK
    <3> QED BY <2>3, <3>1, <3>2
  <2> HIDE DEF newer
  <2>5. /\ Len(newer \o chunk.data) = Len(newer) + Len(chunk.data)
        /\ \A i \in 1..Len(newer) : (newer \o chunk.data)[i] = newer[i]
        /\ \A i \in (Len(newer) + 1)..(Len(newer) + Len(chunk.data)) :
              (newer \o chunk.data)[i] = chunk.data[i - Len(newer)]
    BY <1>d, <2>3, SegmentGrows
  <2>6. StoredThrough = rec.written + Len(newer) /\ StoredThrough \in Nat
    BY <2>3 DEF StoredThrough, newer
  <2>7. /\ chunk.through = StoredThrough + Len(chunk.data)
        /\ \A j \in 1..Len(chunk.data) : chunk.data[j] = StoredThrough + j - 1
    BY <1>t, <2>1 DEF OneAfterAnother, Follows
  <2>8. StoredThrough' = chunk.through
    <3>1. StoredThrough' = rec.written + (Len(newer) + Len(chunk.data))
      BY <1>u, <2>4, <2>5 DEF StoredThrough
    <3> QED BY <1>d, <2>3, <2>6, <2>7, <3>1
  <2>9. Filed'
    <3>1. \A i \in 1..Len(newer) : newer[i] = rec.written + i - 1
      BY <2>1 DEF Filed, newer
    <3>2. ASSUME NEW i \in 1..(Len(newer) + Len(chunk.data))
          PROVE  (newer \o chunk.data)[i] = rec.written + i - 1
      <4>1. CASE i <= Len(newer)
        BY <2>3, <2>5, <3>1, <4>1
      <4>2. CASE i > Len(newer)
        <5>1. /\ i \in (Len(newer) + 1)..(Len(newer) + Len(chunk.data))
              /\ i - Len(newer) \in 1..Len(chunk.data)
          BY <1>d, <2>3, <4>2
        <5>2. chunk.data[i - Len(newer)] = StoredThrough + (i - Len(newer)) - 1
          BY <2>7, <5>1
        <5>3. StoredThrough + (i - Len(newer)) - 1 = rec.written + i - 1
          BY <2>3, <2>6
        <5> QED BY <2>5, <5>1, <5>2, <5>3
      <4> QED BY <2>3, <4>1, <4>2
    <3>3. /\ Len(segs[1 - rec.segment]) <= rec.written
          /\ \A i \in 1..Len(segs[1 - rec.segment]) :
                segs[1 - rec.segment][i] = rec.written - Len(segs[1 - rec.segment]) + i - 1
      BY <2>1 DEF Filed
    <3> QED BY <1>u, <2>4, <2>5, <3>2, <3>3 DEF Filed
  <2>10. HandEnd' = HandEnd
    BY <1>t, <2>8 DEF HandEnd
  <2>11. OneAfterAnother' /\ QueueEnd' = QueueEnd
    BY <1>t, <1>u, <2>1, <2>10 DEF OneAfterAnother, QueueEnd, Follows
  <2>12. WriterIsAtTheRecord'
    BY <1>t, <1>p, <1>u, <2>2, <2>4, <2>5 DEF WriterIsAtTheRecord, WriterLocked, newer
  <2> QED BY <1>u, <2>1, <2>9, <2>11, <2>12 DEF SoundSession, StopReadTheRecord
<1>3. Memory'
  <2>1. life # "opening" \/ ending
    BY <1>f, <1>t DEF Memory
  <2>2. life # "down"
    BY <1>f, <1>t DEF Memory
  <2> QED BY <1>f, <1>t, <1>u, <2>1, <2>2 DEF Memory
<1>4. MarkIsTheStops'
  BY <1>f, <1>u DEF MarkIsTheStops
<1> QED BY <1>1, <1>2, <1>3, <1>4 DEF StoreInv

\* An append that fails leaves the session holed.
LEMMA AppendFailsKeeps ==
    ASSUME StoreInv, NEW k \in 0..MaxSeq, AppendFails(k)
    PROVE  StoreInv'
<1>f. TypeOK /\ SoundSession /\ Memory /\ MarkIsTheStops
  BY DEF StoreInv
<1>t. /\ worker \in {"open", "ready", "rolled"} /\ worker' = "idle" /\ chunk' = NoChunk
      /\ busy' = FALSE /\ holed' = TRUE
  BY DEF AppendFails, AppendReturns
<1>u. UNCHANGED <<rec, files, life, closed, written, pending, fclosed, mapped, target, stop, closer,
                  rlock, starts, outcome, reached, marked, ending, crossed>>
  BY DEF AppendFails, endVars
<1>p. writer' \in Writers /\ segs' \in [0..1 -> Seq(Nat)]
  <2>1. /\ writer \in Writers /\ segs \in [0..1 -> Seq(Nat)] /\ writer.size \in Nat
        /\ chunk.data \in Seq(Nat) /\ Len(chunk.data) \in Nat /\ k \in Nat /\ files \subseteq 0..1
        /\ \A s \in 0..1 : segs[s] \in Seq(Nat)
    BY <1>f, Fields, StoreConstants DEF TypeOK
  <2>2. writer' = NoWriter \/ writer' = [writer EXCEPT !.size = writer.size + k]
    BY DEF AppendFails
  <2>3. writer' \in Writers
    BY <2>1, <2>2, Nothings DEF Writers
  <2>4. CASE k > 0 /\ writer.file \in files
    <3>1. k <= Len(chunk.data) /\ k \in 1..Len(chunk.data)
      BY <2>1, <2>4 DEF AppendFails
    <3>2. SubSeq(chunk.data, 1, k) \in Seq(Nat)
      BY <2>1, <3>1
    <3>3. segs[writer.file] \o SubSeq(chunk.data, 1, k) \in Seq(Nat)
      BY <2>1, <2>4, <3>2, SegmentGrows
    <3>4. segs' = [segs EXCEPT ![writer.file] = segs[writer.file] \o SubSeq(chunk.data, 1, k)]
      BY <2>4 DEF AppendFails
    <3> QED BY <2>1, <2>3, <3>3, <3>4
  <2>5. CASE ~(k > 0 /\ writer.file \in files)
    BY <2>1, <2>3, <2>5 DEF AppendFails
  <2> QED BY <2>4, <2>5
<1>1. TypeOK'
  <2>1. busy' \in BOOLEAN /\ holed' \in BOOLEAN
    BY <1>t
  <2> QED BY <1>f, <1>p, <1>t, <1>u, <2>1, Nothings DEF TypeOK
<1>2. SoundSession'
  BY <1>t DEF SoundSession, Sound
<1>3. Memory'
  <2>1. life # "opening" \/ ending
    BY <1>f, <1>t DEF Memory
  <2>2. life # "down"
    BY <1>f, <1>t DEF Memory
  <2> QED BY <1>f, <1>t, <1>u, <2>1, <2>2 DEF Memory
<1>4. MarkIsTheStops'
  BY <1>t DEF MarkIsTheStops
<1> QED BY <1>1, <1>2, <1>3, <1>4 DEF StoreInv

\* A restore goes on where the stored output ends.
LEMMA RestoreKeeps ==
    ASSUME StoreInv, NEW b \in 0..1, Restore(b)
    PROVE  StoreInv'
<1>f. TypeOK /\ SoundSession /\ Memory /\ MarkIsTheStops
  BY DEF StoreInv
<1> DEFINE live == Max2(StoredThrough, Len(StoredBytes))
<1> DEFINE c == [data |-> Produced(live, 1), through |-> live + 1]
<1>t. /\ life = "down" /\ life' = "restored" /\ rec.on /\ starts < MaxStarts /\ starts' = starts + 1
      /\ closed' = FALSE /\ written' = live + b /\ worker' = "idle" /\ worker = "gone"
      /\ outcome' \in {"full", "degraded"} /\ reached' = Max2(reached, live + b)
      /\ pending' = IF b = 0 THEN <<>> ELSE <<c>>
  BY <1>f DEF Restore, Memory
<1>u. UNCHANGED <<rec, segs, files, fclosed, chunk, writer, mapped, target, stop, closer, busy,
                  rlock, holed, marked, ending, crossed>>
  BY DEF Restore, diskVars, stopVars, endVars
<1>n. /\ StoredThrough \in Nat /\ Len(StoredBytes) \in Nat
      /\ Filed => InPlace /\ Len(StoredBytes) <= StoredThrough
  BY <1>f, StoredBytesFacts
<1>l. live \in Nat /\ (Filed => live = StoredThrough)
  BY <1>n DEF Max2
<1> HIDE DEF live
<1>c. c \in Chunks /\ Follows(c, live) /\ c.through = live + 1
  <2>1. /\ Produced(live, 1) \in Seq(Nat) /\ Len(Produced(live, 1)) = 1
        /\ \A j \in 1..1 : Produced(live, 1)[j] = live + j - 1
    BY <1>l DEF Produced
  <2>2. c.data = Produced(live, 1) /\ c.through = live + 1
    OBVIOUS
  <2>3. live + 1 \in Nat /\ 1 <= live + 1
    BY <1>l
  <2>4. c \in Chunks
    BY <2>1, <2>3, AChunk
  <2> QED BY <2>1, <2>2, <2>4 DEF Follows
<1> HIDE DEF c
<1>p. /\ written' \in Nat /\ reached' \in Nat /\ starts' \in 0..MaxStarts
      /\ pending' \in Seq(Chunks)
  <2>1. written' \in Nat /\ reached' \in Nat /\ starts' \in 0..MaxStarts
    BY <1>f, <1>t, <1>l, StoreConstants DEF TypeOK, Max2
  <2>2. pending' \in Seq(Chunks)
    BY <1>t, <1>c
  <2> QED BY <2>1, <2>2
<1>1. TypeOK'
  <2>1. closed' \in BOOLEAN
    BY <1>t
  <2> QED BY <1>f, <1>p, <1>t, <1>u, <2>1 DEF TypeOK
<1>2. SoundSession'
  <2> SUFFICES ASSUME Sound' PROVE SoundSession'
    BY DEF SoundSession
  <2>0. Sound /\ ~fclosed /\ ~mapped /\ stop = NoStop
    BY <1>f, <1>t, <1>u DEF Sound, Memory
  <2>1. Filed /\ Filed' /\ StoredThrough' = StoredThrough
    BY <1>f, <1>u, <2>0, OutputFrame DEF SoundSession, OutputStays
  <2>2. ~InHand' /\ ~WriterLocked' /\ HandEnd' = live
    BY <1>t, <1>l, <2>1 DEF InHand, WriterLocked, HandEnd
  <2>3. WriterIsAtTheRecord' /\ StopReadTheRecord'
    BY <1>u, <2>0, <2>2, Nothings DEF WriterIsAtTheRecord, StopReadTheRecord
  <2>4. OneAfterAnother' /\ QueueEnd' = written'
    <3>1. CASE b = 0
      <4>1. pending' = <<>> /\ Len(<<>>) = 0 /\ written' = live
        BY <1>t, <1>l, <3>1
      <4> QED BY <2>2, <4>1 DEF OneAfterAnother, QueueEnd
    <3>2. CASE b = 1
      <4>1. pending' = <<c>> /\ Len(<<c>>) = 1 /\ <<c>>[1] = c /\ <<c>> # <<>> /\ written' = live + 1
        BY <1>t, <3>2
      <4>2. \A i \in 1..Len(pending') : i = 1
        BY <4>1
      <4>3. QueueEnd' = written'
        BY <1>c, <4>1 DEF QueueEnd
      <4>4. OneAfterAnother'
        <5>1. ASSUME NEW i \in 1..Len(pending')
              PROVE  Follows(pending'[i], IF i = 1 THEN HandEnd' ELSE pending'[i - 1].through)
          BY <1>c, <2>2, <4>1, <4>2
        <5> QED BY <2>2, <5>1 DEF OneAfterAnother, Follows
      <4> QED BY <4>3, <4>4
    <3> QED BY <3>1, <3>2
  <2> QED BY <1>t, <2>1, <2>3, <2>4 DEF SoundSession
<1>3. Memory'
  BY <1>f, <1>t, <1>u DEF Memory
<1>4. MarkIsTheStops'
  BY <1>f, <1>u DEF MarkIsTheStops
<1> QED BY <1>1, <1>2, <1>3, <1>4 DEF StoreInv

\* A session that is opening has nothing on disk and nothing in memory.
LEMMA InitEstablishesStoreInv == Init => StoreInv
<1> SUFFICES ASSUME Init PROVE StoreInv
  OBVIOUS
<1>1. TypeOK
  <2>1. <<>> \in Seq(Nat) /\ <<>> \in Seq(Chunks) /\ 0 \in 0..MaxStarts
    BY StoreConstants
  <2>2. segs \in [0..1 -> Seq(Nat)] /\ files \subseteq 0..1
    BY <2>1 DEF Init
  <2>3. /\ closed \in BOOLEAN /\ fclosed \in BOOLEAN /\ mapped \in BOOLEAN /\ busy \in BOOLEAN
        /\ holed \in BOOLEAN /\ ending \in BOOLEAN /\ crossed \in BOOLEAN
    BY DEF Init
  <2>4. /\ written \in Nat /\ reached \in Nat /\ starts \in 0..MaxStarts /\ target \in 0..1
        /\ pending \in Seq(Chunks) /\ marked \in Nat \cup {Nil}
    BY <2>1 DEF Init
  <2> QED BY <2>2, <2>3, <2>4, Nothings DEF Init, TypeOK
<1>2. SoundSession /\ MarkIsTheStops
  BY Nothings DEF Init, SoundSession, Sound, MarkIsTheStops
<1>3. Memory
  BY Nothings DEF Init, Memory
<1> QED BY <1>1, <1>2, <1>3 DEF StoreInv

\* Every step keeps the invariant, a step that changes nothing too.
LEMMA StepPreservesStoreInv == StoreInv /\ [Next]_vars => StoreInv'
<1> SUFFICES ASSUME StoreInv, [Next]_vars PROVE StoreInv'
  OBVIOUS
<1>1. ASSUME NEW n \in ChunkSizes, PumpOffers(n) PROVE StoreInv'
  BY <1>1, PumpOffersKeeps
<1>2. CASE WorkerStep
  <2>1. ASSUME NEW k \in 0..MaxSeq, AppendFails(k) PROVE StoreInv'
    BY <2>1, AppendFailsKeeps
  <2> QED BY <1>2, <2>1, WorkerTakesKeeps, AppendBeginsKeeps, OpenIntoKeeps, RollRemovesKeeps,
             RollRecordsKeeps, AppendWritesKeeps
          DEF WorkerStep
<1>3. CASE StopStep
  BY <1>3, StopReadsSegmentKeeps, StopLocksRecordKeeps, StopMarksKeeps, StopMarkFailsKeeps,
     StopReapsKeeps, StopDrainsKeeps, ProcessGoesKeeps
  DEF StopStep, StopExits
<1>4. CASE CloserStep
  BY <1>4, RemoveUnmapsKeeps, RemoveUnlinksKeeps, RemoveUnrecordsKeeps, RemoveFailsKeeps,
     CloserReapsKeeps, CloserDrainsKeeps
  DEF CloserStep
<1>5. CASE CreateRecord \/ CreateFails \/ StopBegins \/ CloseBegins \/ ShellExits \/ Crash
  BY <1>5, CreateRecordKeeps, CreateFailsKeeps, StopBeginsKeeps, CloseBeginsKeeps,
     ShellExitsKeeps, ProcessGoesKeeps
  DEF Crash
<1>6. ASSUME NEW b \in 0..1, Restore(b) PROVE StoreInv'
  BY <1>6, RestoreKeeps
<1>7. CASE RestoreClearsMark \/ RestoreKeepsMark
  BY <1>7, RestoreClearsMarkKeeps, RestoreKeepsMarkKeeps
<1>8. CASE UNCHANGED vars
  <2>u. UNCHANGED <<rec, segs, files, life, closed, written, pending, fclosed, worker, chunk, writer,
                    mapped, target, stop, closer, busy, rlock, starts, outcome, reached, holed, marked,
                    ending, crossed>>
    BY <1>8 DEF vars, diskVars, feedVars, stopVars, histVars, endVars
  <2>1. TypeOK' /\ Memory' /\ MarkIsTheStops'
    BY <2>u DEF StoreInv, TypeOK, Memory, MarkIsTheStops
  <2>2. SoundSession'
    BY <2>u, QuietKeepsSound DEF StoreInv, OutputStays, Sound, Up, StopReadTheRecord
  <2> QED BY <2>1, <2>2 DEF StoreInv
<1> QED BY <1>1, <1>2, <1>3, <1>4, <1>5, <1>6, <1>7, <1>8 DEF Next

----------------------------------------------------------------------------
(* What the store promises *)

\* The invariant holds in every behaviour of the store, whatever crashes, fails or times
\* out in it.
THEOREM StoreInvariance == Safety => []StoreInv
BY InitEstablishesStoreInv, StepPreservesStoreInv, PTL DEF Safety

\* Every variable of the store holds a value of its kind, always: a rotation never leaves
\* the two segments (roll 378-398), and a chunk never ends before it began.
THEOREM StoreTypeCorrect == Safety => []TypeOK
<1>1. StoreInv => TypeOK
  BY DEF StoreInv
<1> QED BY <1>1, StoreInvariance, PTL

\* As long as no chunk was lost and no rotation crossed a stop, the output a restore would
\* read now is filed at the coordinates it was produced at, at every instant the process
\* may die at, in the middle of an append, a rotation or a stop write (roll 378-398,
\* output 445-454).
THEOREM TheStoredOutputIsInPlace ==
    Safety => [](~holed /\ ~crossed => StoredOutputIsInPlace)
<1>1. StoreInv => (~holed /\ ~crossed => StoredOutputIsInPlace)
  BY StoredBytesFacts DEF StoreInv, SoundSession, Sound, StoredOutputIsInPlace
<1> QED BY <1>1, StoreInvariance, PTL

\* While the store keeps up, every byte the ring took is on disk, in the worker's hand or
\* in the queue, once and in its place, across rotations, crashes and restores (feed.go
\* 49-112, store.go 298-398).
THEOREM NoByteIsLostOnItsWay == Safety => []EveryByteIsOnItsWay
<1>1. StoreInv => EveryByteIsOnItsWay
  BY DEF StoreInv, SoundSession, Sound, EveryByteIsOnItsWay
<1> QED BY <1>1, StoreInvariance, PTL

\* Only a restore counts as one, and it reports what the record says.
LEMMA OnlyARestoreStarts ==
    ASSUME StoreInv, [Next]_vars, starts' > starts, outcome' = "full"
    PROVE  rec.on /\ Full
<1>0. starts \in Nat
  BY StoreConstants DEF StoreInv, TypeOK
<1>1. starts' # starts
  BY <1>0
<1>2. ASSUME NEW n \in ChunkSizes, PumpOffers(n) PROVE FALSE
  BY <1>1, <1>2 DEF PumpOffers
<1>3. CASE WorkerStep
  <2>1. ASSUME NEW k \in 0..MaxSeq, AppendFails(k) PROVE FALSE
    BY <1>1, <2>1 DEF AppendFails
  <2> QED BY <1>1, <1>3, <2>1
          DEF WorkerStep, WorkerTakes, AppendBegins, OpenInto, RollRemoves, RollRecords,
              AppendWrites, histVars
<1>4. CASE StopStep
  BY <1>1, <1>4 DEF StopStep, StopReadsSegment, StopLocksRecord, StopMarks, StopMarkFails,
     StopReaps, StopDrains, StopExits, ProcessGoes, histVars
<1>5. CASE CloserStep
  BY <1>1, <1>5 DEF CloserStep, RemoveUnmaps, RemoveUnlinks, RemoveUnrecords, RemoveFails,
     CloserReaps, CloserDrains, histVars
<1>6. CASE \/ CreateRecord \/ CreateFails \/ StopBegins \/ CloseBegins \/ ShellExits \/ Crash
           \/ RestoreClearsMark \/ RestoreKeepsMark \/ UNCHANGED vars
  BY <1>1, <1>6 DEF CreateRecord, CreateFails, StopBegins, CloseBegins, ShellExits, Crash,
     ProcessGoes, RestoreClearsMark, RestoreKeepsMark, vars, histVars
<1>7. ASSUME NEW b \in 0..1, Restore(b) PROVE rec.on /\ Full
  BY <1>7 DEF Restore
<1> QED BY <1>2, <1>3, <1>4, <1>5, <1>6, <1>7 DEF Next

\* A restore that reports full stands up what a stop on purpose left, with nothing missing:
\* the stored output is in place and reaches the coordinate that stop recorded
\* (restoreOne 160-179, markEnded 286-308).
THEOREM FullIsTheWholeOutput == Safety => FullMeansNothingIsMissing
<1>1. StoreInv /\ [Next]_vars =>
        (starts' > starts /\ outcome' = "full" /\ ~holed /\ ~crossed /\ ~ending =>
            /\ marked # Nil
            /\ StoredThrough >= marked
            /\ InPlace)
  <2> SUFFICES ASSUME StoreInv, [Next]_vars, starts' > starts, outcome' = "full",
                      ~holed, ~crossed, ~ending
               PROVE  marked # Nil /\ StoredThrough >= marked /\ InPlace
    OBVIOUS
  <2>1. rec.on /\ rec.ended /\ StoredThrough >= rec.through
    BY OnlyARestoreStarts DEF Full
  <2>2. marked = rec.through /\ rec.through \in Nat
    BY <2>1, Fields DEF StoreInv, MarkIsTheStops
  <2>3. InPlace
    BY <2>1, StoredBytesFacts DEF StoreInv, SoundSession, Sound
  <2> QED BY <2>1, <2>2, <2>3 DEF Nil
<1> QED BY <1>1, StoreInvariance, PTL DEF Safety, FullMeansNothingIsMissing

----------------------------------------------------------------------------
(* A close leaves nothing, where no close comes before the creation write, no call fails *)
(* and every feed drains in time *)

\* What keeps the close in its place: a step that leaves the close alone.
LEMMA CloseFrame ==
    ASSUME CloseInv, UNCHANGED closer,
           closer.at # "none" => /\ life' = life /\ (worker = "gone" => worker' = "gone" /\ files' = files)
                                 /\ (rec'.on => rec.on) /\ (fclosed => fclosed'),
           stop'.at = "none" => stop.at = "none" /\ (closed' /\ Up' => closed /\ Up)
    PROVE  CloseInv'
BY DEF CloseInv, CloseHasItsPlace, CloseLeavesNothing, Up

\* Every step keeps the close in its place.
LEMMA StepPreservesCloseInv ==
    ASSUME {"early", "fail", "timeout"} \cap Allowed = {}, TypeOK, CloseInv, [Next]_vars
    PROVE  CloseInv'
<1>a. "early" \notin Allowed /\ "fail" \notin Allowed /\ "timeout" \notin Allowed
  OBVIOUS
<1>c. closer \in Closers /\ stop \in Stops /\ rec \in Records /\ closed \in BOOLEAN
  BY DEF TypeOK
<1>n. ~NoRecord.on
  BY Nothings
<1>1. CASE CreateRecord
  <2>1. closer.at = "none" /\ UNCHANGED <<closer, stop, closed>> /\ Up
    BY <1>1 DEF CreateRecord, CloseInv, CloseHasItsPlace, stopVars, Up
  <2> QED BY <2>1, CloseFrame
<1>2. ASSUME NEW n \in ChunkSizes, PumpOffers(n) PROVE CloseInv'
  <2>1. UNCHANGED <<closer, stop, closed, life, worker, files, rec, fclosed>> /\ Up
    BY <1>2 DEF PumpOffers, stopVars, diskVars, Up
  <2> QED BY <2>1, CloseFrame
<1>3. CASE WorkerTakes \/ AppendBegins \/ OpenInto \/ RollRemoves \/ RollRecords \/ AppendWrites
  <2>1. UNCHANGED <<closer, stop, closed, life, fclosed>> /\ worker # "gone"
    BY <1>3 DEF WorkerTakes, AppendBegins, OpenInto, RollRemoves, RollRecords, AppendWrites,
       stopVars
  <2>2. rec'.on = rec.on
    BY <1>3, <1>c DEF WorkerTakes, AppendBegins, OpenInto, RollRemoves, RollRecords,
       AppendWrites,
       diskVars, Records
  <2> QED BY <2>1, <2>2, CloseFrame DEF Up
<1>4. CASE StopBegins \/ StopReadsSegment \/ StopLocksRecord \/ StopMarks \/ StopReaps \/ StopDrains
  <2>1. UNCHANGED <<closer, life, worker, files>> /\ (fclosed => fclosed')
    BY <1>4 DEF StopBegins, StopReadsSegment, StopLocksRecord, StopMarks, StopReaps,
       StopDrains,
       feedVars, diskVars
  <2>2. rec'.on = rec.on
    BY <1>4, <1>c DEF StopBegins, StopReadsSegment, StopLocksRecord, StopMarks, StopReaps,
       StopDrains,
       diskVars, Records
  <2>3. stop'.at # "none"
    <3>1. CASE StopBegins
      BY <3>1 DEF StopBegins, NoStop
    <3>2. CASE StopReadsSegment
      BY <3>2, <1>c DEF StopReadsSegment, Stops
    <3>3. CASE StopReaps
      BY <3>3, <1>c DEF StopReaps, Stops
    <3>4. CASE StopLocksRecord \/ StopMarks \/ StopDrains
      BY <3>4, <1>c, StopAt DEF StopLocksRecord, StopMarks, StopDrains
    <3> QED BY <1>4, <3>1, <3>2, <3>3, <3>4
  <2> QED BY <2>1, <2>2, <2>3, CloseFrame
<1>5. CASE Crash \/ StopExits
  BY <1>5, Nothings DEF Crash, StopExits, ProcessGoes, CloseInv, CloseHasItsPlace,
     CloseLeavesNothing, Up
<1>6. CASE CloseBegins
  BY <1>6, <1>a DEF CloseBegins, CloseInv, CloseHasItsPlace, CloseLeavesNothing, Up, feedVars,
     diskVars
<1>7. CASE ShellExits
  BY <1>7 DEF ShellExits, CloseInv, CloseHasItsPlace, CloseLeavesNothing, Up, feedVars,
     diskVars
<1>8. CASE RemoveUnmaps
  <2>1. closer'.at = "unlink" /\ closer'.last = closer.last
    BY <1>8, <1>c, CloserAt DEF RemoveUnmaps
  <2> QED BY <1>8, <2>1 DEF RemoveUnmaps, CloseInv, CloseHasItsPlace, CloseLeavesNothing, Up,
       diskVars
<1>9. CASE RemoveUnlinks
  <2>1. closer'.at = "unrecord" /\ closer'.last = closer.last
    BY <1>9, <1>c, CloserAt DEF RemoveUnlinks
  <2> QED BY <1>9, <2>1 DEF RemoveUnlinks, CloseInv, CloseHasItsPlace, CloseLeavesNothing, Up,
       feedVars
<1>10. CASE RemoveUnrecords
  <2>1. closer'.at = (IF closer.last THEN "done" ELSE "reap") /\ closer'.last = closer.last
    BY <1>10, <1>c DEF RemoveUnrecords, Closers
  <2> QED BY <1>10, <1>n, <2>1
          DEF RemoveUnrecords, CloseInv, CloseHasItsPlace, CloseLeavesNothing, Up, feedVars
<1>11. CASE CloserReaps
  <2>1. closer'.at = (IF closed THEN "done" ELSE "drain") /\ closer'.last = closer.last
    BY <1>11, <1>c DEF CloserReaps, Closers
  <2>2. ~closer.last /\ life = "live" /\ (stop.at = "none" => ~closed)
    BY <1>11 DEF CloserReaps, CloseInv, CloseHasItsPlace, Up
  <2> QED BY <1>11, <2>1, <2>2
          DEF CloserReaps, CloseInv, CloseHasItsPlace, CloseLeavesNothing, Up, diskVars
<1>12. CASE CloserDrains
  <2>1. closer'.at = "unmap" /\ closer'.last /\ worker = "gone"
    BY <1>12, <1>a DEF CloserDrains, Drained, CloseInv, CloseHasItsPlace
  <2> QED BY <1>12, <2>1
          DEF CloserDrains, CloseInv, CloseHasItsPlace, CloseLeavesNothing, Up, feedVars, diskVars
<1>13. ASSUME NEW b \in 0..1, Restore(b) PROVE CloseInv'
  <2>1. closer.at = "none" /\ UNCHANGED <<closer, stop>> /\ ~closed'
    BY <1>13 DEF Restore, CloseInv, CloseHasItsPlace, stopVars
  <2> QED BY <2>1, CloseFrame
<1>14. CASE RestoreClearsMark
  <2>1. closer.at = "none" /\ UNCHANGED <<closer, stop, closed>> /\ Up
    BY <1>14 DEF RestoreClearsMark, CloseInv, CloseHasItsPlace, stopVars, Up
  <2> QED BY <2>1, CloseFrame
<1>15. CASE UNCHANGED vars
  BY <1>15 DEF vars, diskVars, feedVars, stopVars, CloseInv, CloseHasItsPlace,
     CloseLeavesNothing, Up
<1>16. CASE CreateFails \/ StopMarkFails \/ RemoveFails \/ (\E k \in 0..MaxSeq : AppendFails(k))
            \/ ("fail" \in Allowed /\ RestoreKeepsMark)
  BY <1>16, <1>a DEF CreateFails, StopMarkFails, RemoveFails, AppendFails
<1> QED BY <1>1, <1>2, <1>3, <1>4, <1>5, <1>6, <1>7, <1>8, <1>9, <1>10, <1>11, <1>12, <1>13,
     <1>14,
           <1>15, <1>16
        DEF Next, WorkerStep, StopStep, CloserStep

\* In every behaviour in which no close comes before the creation write, no call fails and
\* no drain times out, a close that has finished, or the removal after a shell's exit,
\* leaves neither a record nor a segment, however the feed, a crash or a restore cut across
\* it (close 694-696, reap 637-640).
THEOREM AFinishedCloseLeavesNothing ==
    ASSUME {"early", "fail", "timeout"} \cap Allowed = {}
    PROVE  Safety => []CloseLeavesNothing
<1>1. Init => CloseInv
  BY Nothings DEF Init, CloseInv, CloseHasItsPlace, CloseLeavesNothing, Up
<1>2. TypeOK /\ CloseInv /\ [Next]_vars => CloseInv'
  BY StepPreservesCloseInv
<1>3. CloseInv => CloseLeavesNothing
  BY DEF CloseInv
<1> QED BY <1>1, <1>2, <1>3, StoreTypeCorrect, PTL DEF Safety
=============================================================================

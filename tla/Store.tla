-------------------------------- MODULE Store --------------------------------
(***************************************************************************)
(* store.go, feed.go and restore.go: one session's record and output on    *)
(* disk, the feed that carries the pump's output there, and the ways a     *)
(* session's process ends and starts: a crash at any point, the daemon's   *)
(* stop (registry.shutdown), a close, a shell that exits, and the restore  *)
(* that stands the session back up.                                        *)
(*                                                                         *)
(* The feed's goroutine, the stop, the close and the pump interleave.  A   *)
(* record is replaced by a rename, so a record write is one step; the      *)
(* steps of an append, a rotation, a stop write and a remove are separate, *)
(* and a crash may come between any two.  A stored byte is represented by  *)
(* the coordinate the ring gave it.                                        *)
(***************************************************************************)
EXTENDS Integers, Sequences, SequencesExt

CONSTANTS
    SegmentBound, \* outputSegmentBound
    FeedDepth,    \* feedDepth
    HighWatermark, \* how much tail a restore reads
    ChunkSizes,   \* sizes one chunk of output may have
    MaxSeq,       \* bound: output written
    MaxStarts,    \* bound: restores
    Allowed       \* bound: which of StoreEvents this instance explores

StoreEvents == {"crash", "stop", "close", "exit", "early", "drop", "fail", "timeout"}

ASSUME StoreConstants ==
    /\ SegmentBound \in Nat \ {0} /\ FeedDepth \in Nat \ {0} /\ HighWatermark \in Nat \ {0}
    /\ ChunkSizes \subseteq Nat \ {0}
    /\ MaxSeq \in Nat /\ MaxStarts \in Nat
    /\ Allowed \subseteq StoreEvents

VARIABLES
    rec,     \* the record on disk
    segs,    \* the two output segments on disk
    files,   \* which of the two exist
    life,    \* "opening", "live", "restored", "down"
    closed,  \* session.closed
    written, \* session.written
    pending, \* storeFeed.pending
    fclosed, \* storeFeed.closed
    worker,  \* where the feed's goroutine is
    chunk,   \* the chunk it holds
    writer,  \* the session's segmentWriter: its open segment (Nil if none) and size
    mapped,  \* whether store.open holds that writer
    target,  \* the segment the worker is about to open
    stop,    \* where registry.shutdown is, and what it read
    closer,  \* where a close's or a reap's remove is, and whether it is the last
    busy,    \* the writer a remove took from the map is in the middle of an append
    rlock,   \* who holds the record's lock between two steps
    starts,  \* restores so far
    outcome, \* what the last restore reported
    reached, \* history: the furthest coordinate the ring ever gave out
    holed,   \* history: a chunk was lost on its way to the record
    marked,  \* history: the coordinate a stop of this start recorded, or Nil
    ending,  \* history: a close or a reap of this session has begun
    crossed  \* history: a rotation came between the two locks of a stop

diskVars == <<rec, segs, files>>
feedVars == <<pending, fclosed, worker, chunk, writer, mapped, target>>
stopVars == <<stop, closer, busy, rlock>>
endVars == <<ending, crossed>>
histVars == <<starts, outcome, reached, holed, marked, endVars>>
vars == <<diskVars, life, closed, written, feedVars, stopVars, histVars>>

Nil == -1
NoRecord == [on |-> FALSE, segment |-> 0, written |-> 0, ended |-> FALSE, through |-> 0]
NoChunk == [data |-> <<>>, through |-> 0]
NoWriter == [file |-> Nil, size |-> 0]
NoStop == [at |-> "none", through |-> 0, segment |-> Nil]
NoCloser == [at |-> "none", last |-> FALSE]

\* What each of them may be.  A chunk is some output and the coordinate it reaches.
Records == [on : BOOLEAN, segment : 0..1, written : Nat, ended : BOOLEAN, through : Nat]
Chunks == {c \in [data : Seq(Nat), through : Nat] : Len(c.data) <= c.through}
Writers == [file : {Nil, 0, 1}, size : Nat]
Stops == [at : {"none", "segment", "record", "mark", "reap", "drain", "out"},
          through : Nat, segment : {Nil, 0, 1}]
Closers == [at : {"none", "unmap", "unlink", "unrecord", "reap", "drain", "done"},
            last : BOOLEAN]

Produced(from, n) == [i \in 1..n |-> from + i - 1]
Max2(a, b) == IF a > b THEN a ELSE b

\* The last n bytes of a segment, or all of it.
TailOf(s, n) == IF Len(s) > n THEN SubSeq(s, Len(s) - n + 1, Len(s)) ELSE s

\* store.output for a process that has no writer open: as much of the older
\* segment as there is room for, then the newer one.
StoredBytes ==
    LET newer == TailOf(segs[rec.segment], HighWatermark) IN
    TailOf(segs[1 - rec.segment], HighWatermark - Len(newer)) \o newer

StoredThrough == rec.written + Len(segs[rec.segment])

Up == life # "down"
Queued == FoldLeft(LAMBDA n, c : n + Len(c.data), 0, pending)

----------------------------------------------------------------------------
(* The session opens and the pump feeds its store *)

\* openWithObserver, after the session was registered: the creation write and
\* the feed.
CreateRecord ==
    /\ life = "opening"
    /\ rlock = "none"
    /\ rec' = [NoRecord EXCEPT !.on = TRUE]
    /\ life' = "live"
    /\ worker' = "idle"
    /\ UNCHANGED <<segs, files, closed, written, pending, fclosed, chunk, writer, mapped,
                   target, stopVars, histVars>>

\* The creation write fails: the session runs with neither record nor feed.
CreateFails ==
    /\ "fail" \in Allowed
    /\ life = "opening"
    /\ life' = "live"
    /\ fclosed' = TRUE
    /\ UNCHANGED <<diskVars, closed, written, pending, worker, chunk, writer, mapped,
                   target, stopVars, histVars>>

\* The pump writes n bytes to the ring and offers them; a feed that is closed
\* takes nothing, and one with no room drops them.
PumpOffers(n) ==
    LET c == [data |-> Produced(written, n), through |-> written + n]
        full == Queued + n > FeedDepth
    IN /\ life = "live"
       /\ written + n <= MaxSeq
       /\ written' = written + n
       /\ reached' = Max2(reached, written + n)
       /\ full /\ ~fclosed => "drop" \in Allowed
       /\ pending' = IF fclosed \/ full THEN pending ELSE Append(pending, c)
       /\ holed' = (holed \/ (full /\ ~fclosed))
       /\ UNCHANGED <<diskVars, life, closed, fclosed, worker, chunk, writer, mapped, target,
                      stopVars, starts, outcome, marked, endVars>>

----------------------------------------------------------------------------
(* The feed's goroutine: append, and the rotation inside it *)

\* run takes the next chunk, or finds the feed closed and drained.
WorkerTakes ==
    /\ worker = "idle"
    /\ IF pending # <<>>
       THEN /\ worker' = "took"
            /\ chunk' = Head(pending)
            /\ pending' = Tail(pending)
       ELSE /\ fclosed
            /\ worker' = "gone"
            /\ UNCHANGED <<chunk, pending>>
    /\ UNCHANGED <<diskVars, life, closed, written, fclosed, writer, mapped, target,
                   stopVars, histVars>>

\* The worker is done with its chunk and lets the writer's lock go.
AppendReturns ==
    /\ worker' = "idle"
    /\ chunk' = NoChunk
    /\ busy' = FALSE

\* writerFor and the writer's lock; with no file open the record names the
\* segment, and is read without its lock.
AppendBegins ==
    LET own == IF mapped THEN writer ELSE NoWriter IN
    /\ worker = "took"
    /\ mapped' = TRUE
    /\ writer' = own
    /\ IF own.file # Nil
       THEN worker' = "ready" /\ UNCHANGED <<target, chunk, busy, holed>>
       ELSE IF rec.on
       THEN worker' = "open" /\ target' = rec.segment /\ UNCHANGED <<chunk, busy, holed>>
       ELSE AppendReturns /\ holed' = TRUE /\ UNCHANGED target
    /\ UNCHANGED <<diskVars, life, closed, written, pending, fclosed, stop, closer, rlock,
                   starts, outcome, reached, marked, endVars>>

OpenInto ==
    /\ worker = "open"
    /\ writer' = [file |-> target, size |-> Len(segs[target])]
    /\ files' = files \cup {target}
    /\ worker' = "ready"
    /\ UNCHANGED <<rec, segs, life, closed, written, pending, fclosed, chunk, mapped, target,
                   stopVars, histVars>>

Overflows == writer.size + Len(chunk.data) > SegmentBound /\ writer.size > 0

\* roll closes the file and removes the other segment ...
RollRemoves ==
    LET next == 1 - writer.file IN
    /\ worker = "ready"
    /\ Overflows
    /\ segs' = [segs EXCEPT ![next] = <<>>]
    /\ files' = files \ {next}
    /\ writer' = NoWriter
    /\ target' = next
    /\ worker' = "rolled"
    /\ UNCHANGED <<rec, life, closed, written, pending, fclosed, chunk, mapped,
                   stopVars, histVars>>

\* Mutant: the coordinate past the chunk is recorded instead of where it begins.
RollRecordsEnd ==
    /\ worker = "rolled"
    /\ rlock = "none"
    /\ rec' = [rec EXCEPT !.segment = target, !.written = chunk.through]
    /\ worker' = "open"
    /\ UNCHANGED <<segs, files, life, closed, written, pending, fclosed, chunk, writer, mapped,
                   target, stopVars, histVars>>

\* ... and then records where the new segment begins, under the record's lock.
RollRecords ==
    /\ worker = "rolled"
    /\ rlock = "none"
    /\ crossed' = (crossed \/ stop.at = "record")
    /\ IF rec.on
       THEN /\ rec' = [rec EXCEPT !.segment = target,
                                  !.written = chunk.through - Len(chunk.data)]
            /\ worker' = "open"
            /\ UNCHANGED <<chunk, busy, holed>>
       ELSE /\ AppendReturns
            /\ holed' = TRUE
            /\ UNCHANGED rec
    /\ UNCHANGED <<segs, files, life, closed, written, pending, fclosed, writer, mapped,
                   target, stop, closer, rlock, starts, outcome, reached, marked, ending>>

\* Mutant: the first byte of a chunk is left out.
AppendWritesLess ==
    /\ worker = "ready"
    /\ ~Overflows
    /\ LET data == IF Len(chunk.data) > 1 THEN Tail(chunk.data) ELSE chunk.data IN
       /\ segs' = [segs EXCEPT ![writer.file] = @ \o data]
       /\ writer' = [writer EXCEPT !.size = @ + Len(data)]
    /\ AppendReturns
    /\ UNCHANGED <<rec, files, life, closed, written, pending, fclosed, mapped, target,
                   stop, closer, rlock, histVars>>

\* An open file whose name a remove took away still accepts the write.
AppendWrites ==
    /\ worker = "ready"
    /\ ~Overflows
    /\ segs' = IF writer.file \in files
               THEN [segs EXCEPT ![writer.file] = @ \o chunk.data] ELSE segs
    /\ writer' = [writer EXCEPT !.size = @ + Len(chunk.data)]
    /\ AppendReturns
    /\ UNCHANGED <<rec, files, life, closed, written, pending, fclosed, mapped, target,
                   stop, closer, rlock, histVars>>

\* A filesystem call of append fails with k bytes written: the rest of the chunk is
\* lost, and a rotation that did not finish leaves the writer with no file.
AppendFails(k) ==
    LET writing == worker = "ready" /\ ~Overflows IN
    /\ "fail" \in Allowed
    /\ worker \in {"open", "ready", "rolled"} /\ (worker = "rolled" => rlock = "none")
    /\ k < Len(chunk.data) /\ (k > 0 => writing)
    /\ segs' = IF k > 0 /\ writer.file \in files
               THEN [segs EXCEPT ![writer.file] = @ \o SubSeq(chunk.data, 1, k)] ELSE segs
    /\ writer' = IF writing THEN [writer EXCEPT !.size = @ + k] ELSE NoWriter
    /\ AppendReturns
    /\ holed' = TRUE
    /\ UNCHANGED <<rec, files, life, closed, written, pending, fclosed, mapped, target,
                   stop, closer, rlock, starts, outcome, reached, marked, endVars>>

\* The writer's lock is held from AppendBegins to AppendReturns.
WriterLocked == worker \in {"open", "ready", "rolled"}

----------------------------------------------------------------------------
(* registry.shutdown: the stop write, and the reap after it *)

StopBegins ==
    /\ "stop" \in Allowed
    /\ life = "live" /\ stop.at = "none" /\ closer.at = "none"
    /\ stop' = [NoStop EXCEPT !.at = "segment", !.through = written]
    /\ UNCHANGED <<diskVars, life, closed, written, feedVars, closer, busy, rlock, histVars>>

\* markEnded reads the writer's segment under the writer's lock ...
StopReadsSegment ==
    /\ stop.at = "segment"
    /\ mapped => ~WriterLocked
    /\ stop' = [stop EXCEPT !.at = "record", !.segment = IF mapped THEN writer.file ELSE Nil]
    /\ UNCHANGED <<diskVars, life, closed, written, feedVars, closer, busy, rlock, histVars>>

\* ... lets it go, takes the record's ...
StopLocksRecord ==
    /\ stop.at = "record"
    /\ rlock = "none"
    /\ rlock' = "stop"
    /\ stop' = [stop EXCEPT !.at = "mark"]
    /\ UNCHANGED <<diskVars, life, closed, written, feedVars, closer, busy, histVars>>

\* Mutant: the segment is read with the record's lock already held.
StopMayMarkUnderBoth == stop.at = "mark" /\ (mapped => ~WriterLocked)

\* It holds the record's lock and waits for no other.
StopMayMark == stop.at = "mark"

\* ... and marks the record with the segment it read before.
StopMarks ==
    /\ StopMayMark
    /\ rec' = IF rec.on
              THEN [rec EXCEPT !.ended = TRUE, !.through = stop.through,
                               !.segment = IF stop.segment = Nil THEN @ ELSE stop.segment]
              ELSE rec
    /\ rlock' = "none"
    /\ stop' = [stop EXCEPT !.at = "reap"]
    /\ marked' = IF rec.on THEN stop.through ELSE Nil
    /\ UNCHANGED <<segs, files, life, closed, written, feedVars, closer, busy, starts, outcome,
                   reached, holed, endVars>>

\* The stop write fails and the reap follows all the same.
StopMarkFails ==
    /\ "fail" \in Allowed
    /\ StopMayMark
    /\ rlock' = "none"
    /\ stop' = [stop EXCEPT !.at = "reap"]
    /\ UNCHANGED <<diskVars, life, closed, written, feedVars, closer, busy, histVars>>

\* reap(false): the feed is closed, unless a reap was there before.
StopReaps ==
    /\ stop.at = "reap"
    /\ closed' = TRUE
    /\ fclosed' = TRUE
    /\ stop' = [stop EXCEPT !.at = IF closed THEN "out" ELSE "drain"]
    /\ UNCHANGED <<diskVars, life, written, pending, worker, chunk, writer, mapped, target,
                   closer, busy, rlock, histVars>>

\* closeWithin: the feed has drained, or its deadline has passed.
Drained == worker = "gone" \/ "timeout" \in Allowed

StopDrains ==
    /\ stop.at = "drain"
    /\ Drained
    /\ stop' = [stop EXCEPT !.at = "out"]
    /\ UNCHANGED <<diskVars, life, closed, written, feedVars, closer, busy, rlock, histVars>>

----------------------------------------------------------------------------
(* registry.close, and the reap(true) of a shell that exited *)

\* close removes the record first and reaps then.
CloseBegins ==
    /\ "close" \in Allowed
    /\ life = "live" \/ ("early" \in Allowed /\ life = "opening")
    /\ closer.at = "none" /\ stop.at = "none"
    /\ closer' = [at |-> "unmap", last |-> FALSE]
    /\ ending' = TRUE
    /\ UNCHANGED <<diskVars, life, closed, written, feedVars, stop, busy, rlock, starts,
                   outcome, reached, holed, marked, crossed>>

ShellExits ==
    /\ "exit" \in Allowed
    /\ life = "live" /\ closer.at = "none" /\ ~closed
    /\ closer' = [at |-> "reap", last |-> FALSE]
    /\ ending' = TRUE
    /\ UNCHANGED <<diskVars, life, closed, written, feedVars, stop, busy, rlock, starts,
                   outcome, reached, holed, marked, crossed>>

\* remove takes the writer out of the map ...
RemoveUnmaps ==
    /\ closer.at = "unmap"
    /\ mapped' = FALSE
    /\ busy' = (mapped /\ WriterLocked)
    /\ closer' = [closer EXCEPT !.at = "unlink"]
    /\ UNCHANGED <<diskVars, life, closed, written, pending, fclosed, worker, chunk, writer,
                   target, stop, rlock, histVars>>

\* ... waits for its lock, and drops the segments under the record's lock ...
RemoveUnlinks ==
    /\ closer.at = "unlink"
    /\ ~busy
    /\ rlock = "none"
    /\ rlock' = "close"
    /\ segs' = [s \in 0..1 |-> <<>>]
    /\ files' = {}
    /\ closer' = [closer EXCEPT !.at = "unrecord"]
    /\ UNCHANGED <<rec, life, closed, written, feedVars, stop, busy, histVars>>

\* ... and the record last.
RemoveUnrecords ==
    /\ closer.at = "unrecord"
    /\ rec' = NoRecord
    /\ rlock' = "none"
    /\ closer' = [closer EXCEPT !.at = IF closer.last THEN "done" ELSE "reap"]
    /\ UNCHANGED <<segs, files, life, closed, written, feedVars, stop, busy, histVars>>

\* A removal fails: it is reported, what was not removed stays and the caller goes on.
RemoveFails ==
    /\ "fail" \in Allowed
    /\ \/ closer.at = "unlink" /\ ~busy /\ rlock = "none"
       \/ closer.at = "unrecord"
    /\ rlock' = "none"
    /\ closer' = [closer EXCEPT !.at = IF closer.last THEN "done" ELSE "reap"]
    /\ UNCHANGED <<diskVars, life, closed, written, feedVars, stop, busy, histVars>>

\* reap(true), unless the stop's came first.  A session still opening has no
\* feed to close.
CloserReaps ==
    /\ closer.at = "reap"
    /\ closed' = TRUE
    /\ fclosed' = IF closed \/ life = "opening" THEN fclosed ELSE TRUE
    /\ closer' = [closer EXCEPT !.at = IF closed THEN "done" ELSE "drain"]
    /\ UNCHANGED <<diskVars, life, written, pending, worker, chunk, writer, mapped, target,
                   stop, busy, rlock, histVars>>

\* Mutant: the record is removed while the feed still drains.
CloserSkipsDrain ==
    /\ closer.at = "drain"
    /\ closer' = [at |-> "unmap", last |-> TRUE]
    /\ UNCHANGED <<diskVars, life, closed, written, feedVars, stop, busy, rlock, histVars>>

\* The feed has drained; the record is removed once more.
CloserDrains ==
    /\ closer.at = "drain"
    /\ Drained \/ ~fclosed
    /\ closer' = [at |-> "unmap", last |-> TRUE]
    /\ UNCHANGED <<diskVars, life, closed, written, feedVars, stop, busy, rlock, histVars>>

----------------------------------------------------------------------------
(* The process goes and comes back *)

\* What is in memory is gone; what was handed to the operating system is not.
ProcessGoes ==
    /\ life' = "down"
    /\ pending' = <<>> /\ fclosed' = FALSE /\ worker' = "gone" /\ chunk' = NoChunk
    /\ writer' = NoWriter /\ mapped' = FALSE /\ target' = 0
    /\ stop' = NoStop /\ closer' = NoCloser /\ busy' = FALSE /\ rlock' = "none"
    /\ UNCHANGED <<diskVars, closed, written, histVars>>

Crash == "crash" \in Allowed /\ Up /\ ProcessGoes

StopExits == Up /\ stop.at = "out" /\ ProcessGoes

\* restoreOne's verdict.
Full == rec.ended /\ StoredThrough >= rec.through

\* restoreOne: the ring is stood up at the coordinate the stored output ends at,
\* and a line break is written after output that did not end a line.
Restore(boundary) ==
    LET live == Max2(StoredThrough, Len(StoredBytes)) IN
    /\ life = "down" /\ rec.on /\ starts < MaxStarts
    /\ boundary = 1 => StoredBytes # <<>>
    /\ starts' = starts + 1
    /\ life' = "restored"
    /\ closed' = FALSE
    /\ outcome' = IF Full THEN "full" ELSE "degraded"
    /\ written' = live + boundary
    /\ reached' = Max2(reached, live + boundary)
    /\ worker' = "idle"
    /\ pending' = IF boundary = 0 THEN <<>>
                  ELSE <<[data |-> Produced(live, 1), through |-> live + 1]>>
    /\ UNCHANGED <<diskVars, fclosed, chunk, writer, mapped, target, stopVars, holed, marked,
                   endVars>>

\* clearStopMark fails: the mark of the previous stop stays, and the pump starts.
RestoreKeepsMark ==
    /\ life = "restored"
    /\ rlock = "none"
    /\ life' = "live"
    /\ marked' = Nil
    /\ holed' = TRUE
    /\ UNCHANGED <<diskVars, closed, written, feedVars, stopVars, starts, outcome, reached,
                   endVars>>

\* Mutant: the mark of the previous stop is not cleared.
RestoreForgetsMark ==
    /\ life = "restored"
    /\ rlock = "none"
    /\ life' = "live"
    /\ marked' = Nil
    /\ UNCHANGED <<diskVars, closed, written, feedVars, stopVars, starts, outcome, reached,
                   holed, endVars>>

\* clearStopMark, and the pump starts.
RestoreClearsMark ==
    /\ life = "restored"
    /\ rlock = "none"
    /\ rec' = [rec EXCEPT !.ended = FALSE, !.through = 0]
    /\ life' = "live"
    /\ marked' = Nil
    /\ UNCHANGED <<segs, files, closed, written, feedVars, stopVars, starts, outcome, reached,
                   holed, endVars>>

----------------------------------------------------------------------------
Init ==
    /\ rec = NoRecord /\ segs = [s \in 0..1 |-> <<>>] /\ files = {}
    /\ life = "opening" /\ closed = FALSE /\ written = 0
    /\ pending = <<>> /\ fclosed = FALSE /\ worker = "gone" /\ chunk = NoChunk
    /\ writer = NoWriter /\ mapped = FALSE /\ target = 0
    /\ stop = NoStop /\ closer = NoCloser /\ busy = FALSE /\ rlock = "none"
    /\ starts = 0 /\ outcome = "none" /\ reached = 0 /\ holed = FALSE
    /\ marked = Nil /\ ending = FALSE /\ crossed = FALSE

WorkerStep ==
    \/ WorkerTakes \/ AppendBegins \/ OpenInto \/ RollRemoves \/ RollRecords
    \/ AppendWrites
    \/ \E k \in 0..MaxSeq : AppendFails(k)

StopStep ==
    \/ StopReadsSegment \/ StopLocksRecord \/ StopMarks \/ StopMarkFails
    \/ StopReaps \/ StopDrains \/ StopExits

CloserStep ==
    \/ RemoveUnmaps \/ RemoveUnlinks \/ RemoveUnrecords \/ RemoveFails
    \/ CloserReaps \/ CloserDrains

Next ==
    \/ CreateRecord \/ CreateFails
    \/ \E n \in ChunkSizes : PumpOffers(n)
    \/ WorkerStep
    \/ StopBegins \/ StopStep
    \/ CloseBegins \/ ShellExits \/ CloserStep
    \/ Crash
    \/ \E boundary \in 0..1 : Restore(boundary)
    \/ RestoreClearsMark
    \/ ("fail" \in Allowed /\ RestoreKeepsMark)

Safety == Init /\ [][Next]_vars

\* Goroutines run, and the filesystem answers the feed's ...
Spec == Safety /\ WF_vars(WorkerStep) /\ WF_vars(StopStep) /\ WF_vars(CloserStep)

\* ... or it has stopped answering it.
StalledSpec == Safety /\ WF_vars(StopStep) /\ WF_vars(CloserStep)

----------------------------------------------------------------------------
(* What the store promises *)

\* Every variable holds a value of its kind.
TypeOK ==
    /\ rec \in Records /\ segs \in [0..1 -> Seq(Nat)] /\ files \subseteq 0..1
    /\ life \in {"opening", "live", "restored", "down"} /\ closed \in BOOLEAN
    /\ written \in Nat /\ reached \in Nat /\ starts \in 0..MaxStarts
    /\ pending \in Seq(Chunks) /\ chunk \in Chunks /\ fclosed \in BOOLEAN
    /\ worker \in {"gone", "idle", "took", "open", "ready", "rolled"}
    /\ writer \in Writers /\ mapped \in BOOLEAN /\ target \in 0..1
    /\ stop \in Stops /\ closer \in Closers
    /\ busy \in BOOLEAN /\ rlock \in {"none", "stop", "close"}
    /\ outcome \in {"none", "full", "degraded"} /\ marked \in Nat \cup {Nil}
    /\ holed \in BOOLEAN /\ ending \in BOOLEAN /\ crossed \in BOOLEAN

\* What a restore would read now is filed at the coordinates it was produced at.
InPlace ==
    LET bytes == StoredBytes IN
    \A i \in 1..Len(bytes) : bytes[i] = StoredThrough - Len(bytes) + i - 1

\* The stored output of a session nobody has closed is filed at the coordinates it
\* was produced at, in the middle of a rotation as between two, whatever instant
\* the process dies at (roll 378-398, output 445-454, store_coordinate_test.go 8,
\* 50).
StoredOutputIsInPlace == rec.on /\ ~ending => InPlace

\* The worker holds a chunk it has not written.
InHand == worker \in {"took", "open", "ready", "rolled"}

\* The chunk is the output that was produced from a coordinate on.
Follows(c, from) ==
    /\ c.through = from + Len(c.data)
    /\ \A j \in 1..Len(c.data) : c.data[j] = from + j - 1

\* Where the chunk in hand ends, and the first of the queue begins.
HandEnd == IF InHand THEN chunk.through ELSE StoredThrough

\* The chunk in hand goes on where the stored output ends, the queue where that one
\* does, and every chunk of it where the one before it does.
OneAfterAnother ==
    /\ InHand => Follows(chunk, StoredThrough)
    /\ \A i \in 1..Len(pending) :
          Follows(pending[i], IF i = 1 THEN HandEnd ELSE pending[i - 1].through)

\* Where the queue ends.
QueueEnd == IF pending = <<>> THEN HandEnd ELSE pending[Len(pending)].through

\* While the store keeps up, every byte the ring took is on disk, in the worker's
\* hand or in the queue, once and in its place, across rotations, crashes and
\* restores, until a stop closes the feed or a rotation crosses it: nothing is lost
\* that is not reported lost (feed_test.go 37).
EveryByteIsOnItsWay ==
    rec.on /\ Up /\ ~holed /\ ~fclosed /\ ~ending /\ ~crossed =>
        OneAfterAnother /\ QueueEnd = written

\* A close that has finished leaves neither a record for the next start to stand
\* up nor a segment nothing names, whatever the feed was doing (close 694-696,
\* reap 637-640, store_remove_test.go 47-49).
CloseLeavesNothing == closer.at = "done" /\ stop.at = "none" => ~rec.on /\ files = {}

\* While no write was lost, no rotation crossed a stop and no removal of the session
\* was cut short, a restore reports full only when the process before it was stopped
\* on purpose and the stored output, each byte where it was produced, reaches the
\* coordinate that stop recorded.  A crash of a session that had been stood back up
\* never passes for the stop before it (restoreOne 160-179, clearStopMark 298-302).
FullMeansNothingIsMissing ==
    [][starts' > starts /\ outcome' = "full" /\ ~holed /\ ~crossed /\ ~ending =>
          /\ marked # Nil
          /\ StoredThrough >= marked
          /\ InPlace]_vars

\* A restore after lost bytes never reports full with what is left in the wrong
\* place (feed.go 25-26).
HoleIsDegraded == [][starts' > starts /\ outcome' = "full" /\ holed => InPlace]_vars

\* A stop finishes: it waits neither for a rotation that waits for it nor for a
\* feed that is slow (store_lock_order_test.go 12, feed.go 115-117).
StopFinishes == (stop.at # "none") ~> (life = "down")

\* A record that carries the stop's mark is behind output that reaches it
\* (session.go 628-629, feed_test.go 65).
StopMarkIsReached == rec.on /\ rec.ended => StoredThrough >= rec.through

\* A coordinate is never given to two bytes: a restored session goes on where the
\* one before it stopped, after a crash as after a stop (store_coordinate_test.go 8).
CoordinatesAreNotReused == [][starts' > starts => written' >= reached]_vars
=============================================================================

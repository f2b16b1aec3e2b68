-------------------------------- MODULE Ring --------------------------------
(***************************************************************************)
(* ring.go: one session's retained output.  Every byte the session ever    *)
(* produced carries a sequence number that never restarts; the ring holds  *)
(* the bytes from floor up to live.  Readers (the goroutine of stream.go's *)
(* deliver) block in read until there is something after their cursor, and *)
(* a snapshot lease keeps the bytes after its cursor from being trimmed,   *)
(* within a budget.                                                        *)
(*                                                                         *)
(* Every operation runs under ring.mu from its first access to its last,   *)
(* so each is one action.  A byte is represented by its own coordinate in  *)
(* the session's output, which is what makes a byte filed under a wrong    *)
(* sequence visible.                                                       *)
(***************************************************************************)
EXTENDS Integers, Sequences, FiniteSets

CONSTANTS
    Capacity,      \* ring.capacity
    LeaseBuffer,   \* ptycontract.LeaseBufferBytes: what one lease may retain
    Tokens,        \* lease tokens; each is issued at most once
    Readers,       \* goroutines that may call read
    ChunkSizes,    \* sizes one write may have
    RestoredThrough, \* coordinates a restored ring may have reached
    RestoredSizes, \* how many bytes the store may hand to restore
    MaxSeq         \* bound: no byte beyond this coordinate is written

ASSUME RingConstants ==
    /\ Capacity \in Nat \ {0}
    /\ LeaseBuffer \in Nat
    /\ IsFiniteSet(Tokens)
    /\ ChunkSizes \subseteq Nat \ {0}
    /\ RestoredThrough \subseteq Nat
    /\ RestoredSizes \subseteq Nat
    /\ MaxSeq \in Nat

VARIABLES
    bytes,    \* ring.bytes, each byte named by the coordinate it was produced at
    floor,    \* ring.floor
    ended,    \* ring.ended
    leases,   \* ring.leases: per token its status and cursor
    pc,       \* where each reader is: not attached, about to lock, in waiters, finished
    at,       \* the cursor each reader passes to read
    drawn     \* one past the last byte each reader was handed (its start before that)

vars == <<bytes, floor, ended, leases, pc, at, drawn>>

live == floor + Len(bytes)

LeaseStates == {"unissued", "held", "broken", "gone"}

Held(L) == {t \in Tokens : L[t].state = "held"}

----------------------------------------------------------------------------
(* trimLocked *)

\* What the capacity alone would trim to.
CapFloor(n) == IF n > Capacity THEN n - Capacity ELSE 0

\* Mutant: the budget is not enforced.
OverrunNever(lease, n) == FALSE

\* Mutant: a lease is broken when it reaches its budget.
OverrunAtBudget(lease, n) ==
    /\ lease.state = "held"
    /\ lease.after < CapFloor(n)
    /\ n - lease.after >= LeaseBuffer

\* A held lease that would keep more than its budget.  The loop tests this
\* against the target the leases before it have lowered; a lease over budget
\* lies below every lease within it, so the order does not matter.
Overrun(lease, n) ==
    /\ lease.state = "held"
    /\ lease.after < CapFloor(n)
    /\ n - lease.after > LeaseBuffer

Broken(L, n) ==
    [t \in Tokens |-> IF Overrun(L[t], n) THEN [L[t] EXCEPT !.state = "broken"]
                                          ELSE L[t]]

\* Mutant: the leases do not lower the cut.
TargetIgnoringLeases(f, L, n) == f = CapFloor(n)

\* f is where the trim cuts: the capacity floor, lowered to the oldest lease still held.
Target(f, L, n) ==
    /\ f \in {CapFloor(n)} \cup {L[t].after : t \in Held(L)}
    /\ f <= CapFloor(n)
    /\ \A t \in Held(L) : f <= L[t].after

\* Mutant: the slice starts one byte late.
TrimOneTooMany(b, L) ==
    LET n == floor + Len(b) IN
    /\ leases' = Broken(L, n)
    /\ \E f \in 0..n :
         /\ Target(f, Broken(L, n), n)
         /\ floor' = IF f > floor THEN f ELSE floor
         /\ bytes' = IF f > floor THEN SubSeq(b, f - floor + 2, Len(b)) ELSE b

\* Mutant: a lease within budget always becomes the target.
TrimStepTakesLast(L, n, acc, t) ==
    IF n - L[t].after > LeaseBuffer
    THEN [acc EXCEPT !.broken = @ \cup {t}]
    ELSE [acc EXCEPT !.target = L[t].after]

\* The loop's body on one lease: acc carries the target so far and the tokens
\* broken so far.
TrimStep(L, n, acc, t) ==
    IF L[t].after >= acc.target THEN acc
    ELSE IF n - L[t].after > LeaseBuffer
         THEN [acc EXCEPT !.broken = @ \cup {t}]
         ELSE [acc EXCEPT !.target = L[t].after]

\* The loop over the leases in the order the map yields them.
TrimLoop(L, n, order) ==
    LET run[i \in 0..Len(order)] ==
            IF i = 0 THEN [target |-> CapFloor(n), broken |-> {}]
            ELSE TrimStep(L, n, run[i - 1], order[i])
    IN run[Len(order)]

\* The ring left holding b from floor, under the leases L.
TrimLocked(b, L) ==
    LET n == floor + Len(b) IN
    /\ leases' = Broken(L, n)
    /\ \E f \in 0..n :
         /\ Target(f, Broken(L, n), n)
         /\ floor' = IF f > floor THEN f ELSE floor
         /\ bytes' = IF f > floor THEN SubSeq(b, f - floor + 1, Len(b)) ELSE b

----------------------------------------------------------------------------
\* Mutant: one waiter is released instead of all of them.
WakeOne == pc' \in {[r \in Readers |-> IF pc[r] = "parked" /\ r = s THEN "reading" ELSE pc[r]] :
                       s \in Readers}

\* wakeLocked closes every waiter's channel.
WakeLocked == pc' = [r \in Readers |-> IF pc[r] = "parked" THEN "reading" ELSE pc[r]]

\* Output produced at the coordinates from..from+n-1.
Produced(from, n) == [i \in 1..n |-> from + i - 1]

Write(n) ==
    /\ live + n <= MaxSeq
    /\ TrimLocked(bytes \o Produced(live, n), leases)
    /\ WakeLocked
    /\ UNCHANGED <<ended, at, drawn>>

\* A cursor outside [floor, live] is refused and changes nothing.
Lease(t, after) ==
    /\ leases[t].state = "unissued"
    /\ floor <= after /\ after <= live
    /\ leases' = [leases EXCEPT ![t] = [state |-> "held", after |-> after]]
    /\ UNCHANGED <<bytes, floor, ended, pc, at, drawn>>

Gone(t) == [leases EXCEPT ![t].state = "gone"]

\* consumeLease: the lease goes, the ring is trimmed without it, and the reader
\* starts at the lease's cursor; or the lease was broken and nobody starts.
ConsumeLease(t, r) ==
    /\ pc[r] = "idle"
    /\ leases[t].state \in {"held", "broken"}
    /\ TrimLocked(bytes, Gone(t))
    /\ IF leases[t].state = "broken" \/ leases[t].after < floor
       THEN UNCHANGED <<pc, at, drawn>>
       ELSE /\ pc' = [pc EXCEPT ![r] = "reading"]
            /\ at' = [at EXCEPT ![r] = leases[t].after]
            /\ drawn' = [drawn EXCEPT ![r] = leases[t].after]
    /\ UNCHANGED ended

ExpireLease(t) ==
    /\ leases[t].state \in {"held", "broken"}
    /\ TrimLocked(bytes, Gone(t))
    /\ UNCHANGED <<ended, pc, at, drawn>>

\* end may come before a last write: reap ends the ring while the pump still
\* holds a chunk it has read.
End ==
    /\ ended' = TRUE
    /\ WakeLocked
    /\ UNCHANGED <<bytes, floor, leases, at, drawn>>

\* resolve with no cursor: the live edge.
ResolveLive(r) ==
    /\ pc[r] = "idle"
    /\ pc' = [pc EXCEPT ![r] = "reading"]
    /\ at' = [at EXCEPT ![r] = live]
    /\ drawn' = [drawn EXCEPT ![r] = live]
    /\ UNCHANGED <<bytes, floor, ended, leases>>

\* resolve with a cursor: served from it, or restarted at the floor when the
\* ring does not reach it.
Resolve(r, from) ==
    LET start == IF from < floor \/ from > live THEN floor ELSE from IN
    /\ pc[r] = "idle"
    /\ pc' = [pc EXCEPT ![r] = "reading"]
    /\ at' = [at EXCEPT ![r] = start]
    /\ drawn' = [drawn EXCEPT ![r] = start]
    /\ UNCHANGED <<bytes, floor, ended, leases>>

\* Where a read at this cursor starts.
ReadFrom(r) == IF at[r] < floor THEN floor ELSE at[r]

\* Mutant: the copy ends one byte early and the cursor does not follow it.
ReadBytesShifted(r) ==
    LET start == ReadFrom(r)
        out == SubSeq(bytes, start - floor + 1, Len(bytes))
    IN /\ pc[r] = "reading"
       /\ start < live
       /\ drawn' = [drawn EXCEPT ![r] = out[Len(out)]]
       /\ at' = [at EXCEPT ![r] = live]
       /\ UNCHANGED <<bytes, floor, ended, leases, pc>>

\* The bytes from the cursor to live are handed over and the cursor follows.
ReadBytes(r) ==
    LET start == ReadFrom(r)
        out == SubSeq(bytes, start - floor + 1, Len(bytes))
    IN /\ pc[r] = "reading"
       /\ start < live
       /\ drawn' = [drawn EXCEPT ![r] = out[Len(out)] + 1]
       /\ at' = [at EXCEPT ![r] = live]
       /\ UNCHANGED <<bytes, floor, ended, leases, pc>>

ReadEnded(r) ==
    /\ pc[r] = "reading"
    /\ ReadFrom(r) >= live
    /\ ended
    /\ pc' = [pc EXCEPT ![r] = "done"]
    /\ UNCHANGED <<bytes, floor, ended, leases, at, drawn>>

ReadParks(r) ==
    /\ pc[r] = "reading"
    /\ ReadFrom(r) >= live
    /\ ~ended
    /\ at' = [at EXCEPT ![r] = ReadFrom(r)]
    /\ pc' = [pc EXCEPT ![r] = "parked"]
    /\ UNCHANGED <<bytes, floor, ended, leases, drawn>>

\* deliver has returned: its reader finds done closed and goes, and the cursor
\* goes with it (stream.go 49-53).  Its place is free for another reader.
Leave(r) ==
    /\ pc[r] # "idle"
    /\ pc' = [pc EXCEPT ![r] = "idle"]
    /\ at' = [at EXCEPT ![r] = 0]
    /\ drawn' = [drawn EXCEPT ![r] = 0]
    /\ UNCHANGED <<bytes, floor, ended, leases>>

----------------------------------------------------------------------------
\* Mutant: a coordinate behind its bytes is kept.
RestoreKeepingCoordinate(n, through) ==
    [kept |-> IF n > Capacity THEN Capacity ELSE n, through |-> through]

\* restore: what is kept of n stored bytes that end at through.
Restore(n, through) ==
    [kept |-> IF n > Capacity THEN Capacity ELSE n,
     through |-> IF through < n THEN n ELSE through]

\* A new ring is the restored one with nothing stored.
Init ==
    /\ \E n \in RestoredSizes, through \in RestoredThrough :
         LET r == Restore(n, through) IN
         /\ floor = r.through - r.kept
         /\ bytes = Produced(r.through - r.kept, r.kept)
    /\ ended = FALSE
    /\ leases = [t \in Tokens |-> [state |-> "unissued", after |-> 0]]
    /\ pc = [r \in Readers |-> "idle"]
    /\ at = [r \in Readers |-> 0]
    /\ drawn = [r \in Readers |-> 0]

Next ==
    \/ \E n \in ChunkSizes : Write(n)
    \/ \E t \in Tokens, after \in 0..MaxSeq : Lease(t, after)
    \/ \E t \in Tokens, r \in Readers : ConsumeLease(t, r)
    \/ \E t \in Tokens : ExpireLease(t)
    \/ End
    \/ \E r \in Readers : ResolveLive(r)
    \/ \E r \in Readers, from \in 0..MaxSeq : Resolve(r, from)
    \/ \E r \in Readers : ReadBytes(r)
    \/ \E r \in Readers : ReadEnded(r)
    \/ \E r \in Readers : ReadParks(r)
    \/ \E r \in Readers : Leave(r)

Spec == Init /\ [][Next]_vars

----------------------------------------------------------------------------
(* What the ring promises *)

\* Every variable holds a value of its kind.
TypeOK ==
    /\ bytes \in Seq(Nat)
    /\ floor \in Nat
    /\ ended \in BOOLEAN
    /\ leases \in [Tokens -> [state : LeaseStates, after : Nat]]
    /\ pc \in [Readers -> {"idle", "reading", "parked", "done"}]
    /\ at \in [Readers -> Nat]
    /\ drawn \in [Readers -> Nat]

\* A sequence names one byte for the life of the session: the byte the ring
\* files under a coordinate is the byte produced there, whatever was trimmed,
\* leased or restored before (ring.go 15-16, 53-56).
BytesKeepTheirCoordinate ==
    \A i \in 1..Len(bytes) : bytes[i] = floor + i - 1

\* A lease that is not broken can still be served: the ring has trimmed nothing
\* after its cursor, however many other leases came, broke, expired or were
\* consumed (trimLocked, consumeLease).
HeldLeaseIsRetained ==
    \A t \in Held(leases) : floor <= leases[t].after /\ leases[t].after <= live

\* One session's memory is bounded whatever its leases do: the ring never keeps
\* more than its capacity or one lease's budget (ring.go 25).
RetentionIsBounded ==
    Len(bytes) <= Capacity \/ Len(bytes) <= LeaseBuffer

\* No lost wake-up: a reader waiting on the ring has taken everything written,
\* and the ring has not ended (ring.go 148-149: a reader that stays parked on a
\* dead session waits for a byte nobody will write).
ParkedReaderHasNothingToRead ==
    \A r \in Readers : pc[r] = "parked" => at[r] = live /\ ~ended

\* The cursor a reader resumes from is one past the last byte it was handed, so
\* the coordinate a client holds names what it really drew (read 190-201).
CursorIsWhatWasDrawn ==
    \A r \in Readers : pc[r] # "idle" => at[r] = drawn[r] /\ at[r] <= live

\* The orders in which the leases of a set may come.
Orders(S) == {q \in [1..Cardinality(S) -> S] : \A t \in S : \E i \in 1..Cardinality(S) : q[i] = t}

\* Go iterates a map in no fixed order, and the loop lowers its target as it goes.
\* Whatever the order, it breaks the leases and cuts at the place that trimLocked's
\* closed form says, now and after a write of any size (trimLocked 97-106).
TrimOrderIsIrrelevant ==
    \A n \in {live} \cup {live + k : k \in ChunkSizes}, order \in Orders(Held(leases)) :
        LET loop == TrimLoop(leases, n, order)
        IN /\ loop.broken = {t \in Tokens : Overrun(leases[t], n)}
           /\ Target(loop.target, Broken(leases, n), n)

\* Sequences never restart: neither end of the retained window ever moves back
\* (ring.go 15).
SequencesNeverRestart ==
    [][floor' >= floor /\ floor' + Len(bytes') >= live]_vars

\* A start position the ring answers is one it can serve: the client is told it
\* resumes there, and anything older is restarted instead (ring.go 25-27).
AnsweredStartIsRetained ==
    [][\A r \in Readers : pc[r] = "idle" /\ pc'[r] = "reading" => at'[r] >= floor']_vars

----------------------------------------------------------------------------
(* The ring as Output sees it *)

Log == INSTANCE Output WITH
    produced <- live,
    oldest <- floor,
    held <- Held(leases),
    promise <- [t \in Tokens |-> leases[t].after],
    mode <- [r \in Readers |-> IF pc[r] = "parked" THEN "reading" ELSE pc[r]],
    next <- drawn

\* The buffer, its trims and its waiters implement the output they stand for: each
\* operation of ring.go is one step of Output or none.  A lease is broken only for
\* being over its budget and only by a write, a reader is handed everything up to the
\* live edge and is told of the end only then.
RingIsAnOutput == Log!Spec
=============================================================================

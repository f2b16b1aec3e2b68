----------------------------- MODULE RingProofs -----------------------------
(***************************************************************************)
(* The ring's invariants for every capacity, lease budget, set of tokens   *)
(* and readers, chunk size and restored state.  One lemma says what        *)
(* trimLocked leaves behind; the operations that trim (write, consumeLease,*)
(* expireLease) follow from it.  Then: that the ring implements Output.    *)
(***************************************************************************)
EXTENDS Ring, SequenceTheorems, FiniteSetTheorems, TLAPS

LeaseRecords == [state : LeaseStates, after : Nat]

\* b holds the bytes produced from floor on.
Contents(b) == \A i \in 1..Len(b) : b[i] = floor + i - 1

\* A cursor the trim has overtaken has bytes to jump to, so read never parks
\* at a floor that is also the live edge while it is behind it.
OvertakenReaderHasBytes ==
    \A r \in Readers : pc[r] # "idle" => at[r] >= floor \/ Len(bytes) > 0

\* The conjunction that every step preserves.
RingInv ==
    /\ TypeOK
    /\ BytesKeepTheirCoordinate
    /\ HeldLeaseIsRetained
    /\ RetentionIsBounded
    /\ ParkedReaderHasNothingToRead
    /\ CursorIsWhatWasDrawn
    /\ OvertakenReaderHasBytes

----------------------------------------------------------------------------
\* A suffix of the contents, refiled from its own first coordinate, is filed right.
LEMMA SuffixKeepsCoordinates ==
    ASSUME NEW b \in Seq(Nat), floor \in Nat, Contents(b),
           NEW f \in Nat, floor < f, f <= floor + Len(b)
    PROVE  LET s == SubSeq(b, f - floor + 1, Len(b)) IN
           /\ s \in Seq(Nat)
           /\ Len(s) = floor + Len(b) - f
           /\ \A i \in 1..Len(s) : s[i] = f + i - 1
<1> DEFINE m == f - floor + 1
           s == SubSeq(b, m, Len(b))
<1>1. Len(b) \in Nat /\ m \in 1..Len(b)+1
  BY LenProperties
<1>2. /\ s \in Seq(Nat)
      /\ Len(s) = IF m <= Len(b) THEN Len(b) - m + 1 ELSE 0
      /\ \A i \in 1..(Len(b) - m + 1) : s[i] = b[m + i - 1]
  BY <1>1, SubSeqProperties
<1>3. Len(s) = floor + Len(b) - f
  BY <1>1, <1>2
<1>4. ASSUME NEW i \in 1..Len(s) PROVE s[i] = f + i - 1
  <2>1. m + i - 1 \in 1..Len(b) /\ i \in 1..(Len(b) - m + 1)
    BY <1>1, <1>3
  <2>2. b[m + i - 1] = floor + (m + i - 1) - 1
    BY <2>1 DEF Contents
  <2> QED BY <1>1, <1>2, <2>1, <2>2
<1> QED BY <1>2, <1>3, <1>4

\* What trimLocked leaves behind (ring.go 91-112).
LEMMA TrimFacts ==
    ASSUME NEW b \in Seq(Nat), NEW L \in [Tokens -> LeaseRecords],
           floor \in Nat, Contents(b), TrimLocked(b, L)
    PROVE  /\ bytes' \in Seq(Nat)
           /\ floor' \in Nat
           /\ leases' \in [Tokens -> LeaseRecords]
           /\ floor' >= floor
           /\ floor' + Len(bytes') = floor + Len(b)
           /\ BytesKeepTheirCoordinate'
           /\ RetentionIsBounded'
           /\ floor' = floor \/ Len(bytes') > 0
           /\ \A t \in Held(leases') :
                 /\ t \in Held(L)
                 /\ leases'[t].after = L[t].after
                 /\ floor' = floor \/ floor' <= L[t].after
<1> DEFINE n == floor + Len(b)
           M == Broken(L, n)
<1>0. Len(b) \in Nat /\ n \in Nat
  BY LenProperties
<1>1. PICK f \in 0..n :
         /\ Target(f, M, n)
         /\ floor' = IF f > floor THEN f ELSE floor
         /\ bytes' = IF f > floor THEN SubSeq(b, f - floor + 1, Len(b)) ELSE b
  BY DEF TrimLocked
<1>2. leases' = M
  BY DEF TrimLocked
<1>3. M \in [Tokens -> LeaseRecords]
  BY DEF Broken, LeaseRecords, LeaseStates
<1>4. CapFloor(n) \in Nat /\ n - CapFloor(n) <= Capacity /\ (CapFloor(n) < n \/ CapFloor(n) = 0)
  BY <1>0, RingConstants DEF CapFloor
<1>5. \A t \in Held(M) :
         /\ t \in Held(L)
         /\ M[t] = L[t]
         /\ ~Overrun(L[t], n)
         /\ L[t].after \in Nat
         /\ L[t].state = "held"
  BY DEF Held, Broken, LeaseRecords, LeaseStates
<1>6. f <= CapFloor(n) /\ \A t \in Held(M) : f <= L[t].after
  BY <1>1, <1>5 DEF Target
<1>7. f = CapFloor(n) \/ n - f <= LeaseBuffer
  <2>1. CASE f = CapFloor(n)
    BY <2>1
  <2>2. CASE f # CapFloor(n)
    <3>1. PICK t \in Held(M) : f = M[t].after
      BY <1>1, <2>2 DEF Target
    <3>2. f < CapFloor(n)
      BY <1>4, <1>6, <2>2
    <3>3. ~(n - L[t].after > LeaseBuffer)
      BY <1>5, <3>1, <3>2 DEF Overrun
    <3> QED BY <1>0, <1>5, <3>1, <3>3, RingConstants
  <2> QED BY <2>1, <2>2
<1>8. /\ floor' \in Nat /\ floor' >= floor /\ bytes' \in Seq(Nat)
      /\ floor' + Len(bytes') = n
      /\ \A i \in 1..Len(bytes') : bytes'[i] = floor' + i - 1
      /\ floor' >= f
  <2>1. CASE f > floor
    <3> DEFINE s == SubSeq(b, f - floor + 1, Len(b))
    <3>1. f \in Nat /\ floor < f /\ f <= floor + Len(b)
      BY <1>0, <2>1
    <3>2. /\ s \in Seq(Nat) /\ Len(s) = floor + Len(b) - f
          /\ \A i \in 1..Len(s) : s[i] = f + i - 1
      BY <3>1, SuffixKeepsCoordinates
    <3>3. floor' = f /\ bytes' = s
      BY <1>1, <2>1
    <3> HIDE DEF s
    <3> QED BY <1>0, <3>1, <3>2, <3>3
  <2>2. CASE ~(f > floor)
    BY <1>0, <1>1, <2>2 DEF Contents
  <2> QED BY <2>1, <2>2
<1>9. Len(bytes') \in Nat
  BY <1>8, LenProperties
<1>10. Len(bytes') <= n - f
  BY <1>0, <1>8, <1>9
<1>11. Len(bytes') <= Capacity \/ Len(bytes') <= LeaseBuffer
  BY <1>0, <1>4, <1>7, <1>9, <1>10, RingConstants
<1>12. floor' = floor \/ Len(bytes') > 0
  BY <1>0, <1>1, <1>4, <1>6, <1>8, <1>9
<1>13. \A t \in Held(leases') :
          /\ t \in Held(L)
          /\ leases'[t].after = L[t].after
          /\ floor' = floor \/ floor' <= L[t].after
  BY <1>1, <1>2, <1>5, <1>6
<1> QED
  BY <1>2, <1>3, <1>8, <1>11, <1>12, <1>13
     DEF BytesKeepTheirCoordinate, RetentionIsBounded

\* Output appended after the contents is filed at the coordinates after live.
LEMMA AppendKeepsCoordinates ==
    ASSUME TypeOK, BytesKeepTheirCoordinate, NEW n \in Nat
    PROVE  LET b == bytes \o Produced(live, n) IN
           /\ b \in Seq(Nat)
           /\ Len(b) = Len(bytes) + n
           /\ Contents(b)
<1> DEFINE p == Produced(live, n)
           b == bytes \o p
<1>1. bytes \in Seq(Nat) /\ Len(bytes) \in Nat /\ floor \in Nat /\ live \in Nat
  BY LenProperties DEF TypeOK, live
<1>2. p = [i \in 1..n |-> live + i - 1]
  BY DEF Produced
<1>3. p \in Seq(Nat)
  <2>1. \A i \in 1..n : live + i - 1 \in Nat
    BY <1>1
  <2> QED BY <1>2, <2>1, IsASeq
<1>4. Len(p) = n
  BY <1>2, <1>3, LenProperties
<1>5. /\ b \in Seq(Nat) /\ Len(b) = Len(bytes) + n
      /\ \A i \in 1..Len(bytes) + n : b[i] = IF i <= Len(bytes) THEN bytes[i]
                                             ELSE p[i - Len(bytes)]
  BY <1>1, <1>3, <1>4, ConcatProperties
<1>6. ASSUME NEW i \in 1..Len(b) PROVE b[i] = floor + i - 1
  <2>1. CASE i <= Len(bytes)
    BY <1>1, <1>5, <2>1 DEF BytesKeepTheirCoordinate
  <2>2. CASE ~(i <= Len(bytes))
    <3>1. i - Len(bytes) \in 1..n
      BY <1>1, <1>5, <2>2
    <3>2. p[i - Len(bytes)] = live + (i - Len(bytes)) - 1
      BY <1>2, <3>1
    <3> QED BY <1>1, <1>5, <2>2, <3>2 DEF live
  <2> QED BY <2>1, <2>2
<1> QED BY <1>5, <1>6 DEF Contents

----------------------------------------------------------------------------
\* Init is a ring newRing or restore built.
LEMMA InitEstablishesRingInv == Init => RingInv
<1> SUFFICES ASSUME Init PROVE RingInv
  OBVIOUS
<1>1. PICK n \in RestoredSizes, through \in RestoredThrough :
         LET r == Restore(n, through) IN
         /\ floor = r.through - r.kept
         /\ bytes = Produced(r.through - r.kept, r.kept)
  BY DEF Init
<1> DEFINE kept == IF n > Capacity THEN Capacity ELSE n
           edge == IF through < n THEN n ELSE through
<1>2. kept \in Nat /\ edge \in Nat /\ kept <= edge /\ kept <= Capacity
  BY RingConstants
<1>3. floor = edge - kept /\ bytes = [i \in 1..kept |-> floor + i - 1]
  BY <1>1 DEF Restore, Produced
<1> HIDE DEF kept, edge
<1>4. floor \in Nat
  BY <1>2, <1>3
<1>5. bytes \in Seq(Nat)
  <2>1. \A i \in 1..kept : floor + i - 1 \in Nat
    BY <1>4
  <2> QED BY <1>2, <1>3, <2>1, IsASeq
<1>6. Len(bytes) = kept
  BY <1>2, <1>3, <1>5, LenProperties
<1>7. TypeOK
  BY <1>4, <1>5 DEF Init, TypeOK, LeaseStates
<1>8. BytesKeepTheirCoordinate /\ RetentionIsBounded
  BY <1>2, <1>3, <1>6 DEF BytesKeepTheirCoordinate, RetentionIsBounded
<1>9. HeldLeaseIsRetained
  BY DEF Init, HeldLeaseIsRetained, Held
<1>10. ParkedReaderHasNothingToRead /\ CursorIsWhatWasDrawn /\ OvertakenReaderHasBytes
  BY DEF Init, ParkedReaderHasNothingToRead, CursorIsWhatWasDrawn, OvertakenReaderHasBytes
<1> QED BY <1>7, <1>8, <1>9, <1>10 DEF RingInv

\* A step that trims under the leases L, each of them a lease of the ring that
\* was retained, keeps the retained leases and the readers that do not move.
LEMMA TrimKeepsRing ==
    ASSUME RingInv, NEW b \in Seq(Nat), NEW L \in [Tokens -> LeaseRecords],
           Contents(b), Len(b) >= Len(bytes), TrimLocked(b, L),
           \A t \in Held(L) : t \in Held(leases) /\ L[t].after = leases[t].after
    PROVE  /\ bytes' \in Seq(Nat) /\ floor' \in Nat
           /\ leases' \in [Tokens -> LeaseRecords]
           /\ floor' >= floor
           /\ floor' + Len(bytes') = floor + Len(b)
           /\ live \in Nat /\ live' \in Nat /\ live' >= live
           /\ BytesKeepTheirCoordinate'
           /\ HeldLeaseIsRetained'
           /\ RetentionIsBounded'
           /\ floor' = floor \/ Len(bytes') > 0
           /\ Len(bytes) > 0 => Len(bytes') > 0
<1>0. /\ floor \in Nat /\ Len(bytes) \in Nat /\ Len(b) \in Nat
      /\ leases \in [Tokens -> LeaseRecords]
  BY LenProperties DEF RingInv, TypeOK, LeaseRecords
<1>1. /\ bytes' \in Seq(Nat) /\ floor' \in Nat
      /\ leases' \in [Tokens -> LeaseRecords]
      /\ floor' >= floor
      /\ floor' + Len(bytes') = floor + Len(b)
      /\ BytesKeepTheirCoordinate'
      /\ RetentionIsBounded'
      /\ floor' = floor \/ Len(bytes') > 0
      /\ \A t \in Held(leases') :
            /\ t \in Held(L)
            /\ leases'[t].after = L[t].after
            /\ floor' = floor \/ floor' <= L[t].after
  BY <1>0, TrimFacts
<1>2. Len(bytes') \in Nat
  BY <1>1, LenProperties
<1>3. live \in Nat /\ live' \in Nat /\ live' >= live
  BY <1>0, <1>1, <1>2 DEF live
<1>4. Len(bytes) > 0 => Len(bytes') > 0
  BY <1>0, <1>1, <1>2
<1>5. ASSUME NEW t \in Held(leases')
      PROVE  floor' <= leases'[t].after /\ leases'[t].after <= live'
  <2>1. /\ t \in Held(L) /\ t \in Held(leases) /\ t \in Tokens
        /\ leases'[t].after = leases[t].after
        /\ floor' = floor \/ floor' <= leases[t].after
    BY <1>1 DEF Held
  <2>2. /\ leases[t].after \in Nat
        /\ floor <= leases[t].after /\ leases[t].after <= live
    BY <1>0, <2>1 DEF RingInv, HeldLeaseIsRetained, LeaseRecords
  <2> QED BY <1>0, <1>1, <1>3, <2>1, <2>2
<1> QED BY <1>1, <1>3, <1>4, <1>5 DEF HeldLeaseIsRetained

\* The readers that keep their cursor stay consistent when the window only moves forward.
LEMMA CursorsSurviveForwardWindow ==
    ASSUME RingInv,
           floor' \in Nat, floor' >= floor, live \in Nat, live' \in Nat, live' >= live,
           floor' = floor \/ Len(bytes') > 0,
           Len(bytes) > 0 => Len(bytes') > 0,
           NEW r \in Readers, at'[r] = at[r], drawn'[r] = drawn[r], pc[r] # "idle"
    PROVE  /\ at'[r] = drawn'[r] /\ at'[r] <= live'
           /\ at'[r] >= floor' \/ Len(bytes') > 0
<1>1. at[r] \in Nat /\ floor \in Nat
  BY DEF RingInv, TypeOK
<1>2. at[r] = drawn[r] /\ at[r] <= live
  BY DEF RingInv, CursorIsWhatWasDrawn
<1>3. at[r] >= floor \/ Len(bytes) > 0
  BY DEF RingInv, OvertakenReaderHasBytes
<1> QED BY <1>1, <1>2, <1>3

\* Every operation of the ring preserves the conjunction.
LEMMA StepPreservesRingInv == RingInv /\ [Next]_vars => RingInv'
<1> SUFFICES ASSUME RingInv, [Next]_vars PROVE RingInv'
  OBVIOUS
<1>0. /\ bytes \in Seq(Nat) /\ Len(bytes) \in Nat /\ floor \in Nat /\ live \in Nat
      /\ leases \in [Tokens -> LeaseRecords]
      /\ pc \in [Readers -> {"idle", "reading", "parked", "done"}]
      /\ at \in [Readers -> Nat] /\ drawn \in [Readers -> Nat]
      /\ ended \in BOOLEAN
  BY LenProperties DEF RingInv, TypeOK, LeaseRecords, live
<1>c. Contents(bytes)
  BY DEF RingInv, BytesKeepTheirCoordinate, Contents
<1>1. ASSUME NEW n \in ChunkSizes, Write(n) PROVE RingInv'
  <2> DEFINE b == bytes \o Produced(live, n)
  <2>1. n \in Nat
    BY RingConstants
  <2>2. b \in Seq(Nat) /\ Len(b) = Len(bytes) + n /\ Contents(b)
    BY <2>1, AppendKeepsCoordinates DEF RingInv
  <2>3. TrimLocked(b, leases)
    BY <1>1 DEF Write
  <2>4. Len(b) >= Len(bytes)
    BY <1>0, <2>1, <2>2
  <2> HIDE DEF b
  <2>5. /\ bytes' \in Seq(Nat) /\ floor' \in Nat
        /\ leases' \in [Tokens -> LeaseRecords]
        /\ floor' >= floor /\ live' \in Nat /\ live' >= live
        /\ BytesKeepTheirCoordinate' /\ HeldLeaseIsRetained' /\ RetentionIsBounded'
        /\ floor' = floor \/ Len(bytes') > 0
        /\ Len(bytes) > 0 => Len(bytes') > 0
    BY <1>0, <2>2, <2>3, <2>4, TrimKeepsRing
  <2>6. /\ pc' = [r \in Readers |-> IF pc[r] = "parked" THEN "reading" ELSE pc[r]]
        /\ UNCHANGED <<ended, at, drawn>>
    BY <1>1 DEF Write, WakeLocked
  <2>7. TypeOK'
    BY <1>0, <2>5, <2>6 DEF TypeOK, LeaseRecords
  <2>8. ParkedReaderHasNothingToRead'
    BY <2>6 DEF ParkedReaderHasNothingToRead
  <2>9. ASSUME NEW r \in Readers, pc'[r] # "idle"
        PROVE  /\ at'[r] = drawn'[r] /\ at'[r] <= live'
               /\ at'[r] >= floor' \/ Len(bytes') > 0
    <3>1. pc[r] # "idle" /\ at'[r] = at[r] /\ drawn'[r] = drawn[r]
      BY <2>6, <2>9
    <3> QED BY <1>0, <2>5, <3>1, CursorsSurviveForwardWindow
  <2> QED BY <2>5, <2>7, <2>8, <2>9
          DEF RingInv, CursorIsWhatWasDrawn, OvertakenReaderHasBytes
<1>2. ASSUME NEW t \in Tokens, NEW after \in 0..MaxSeq, Lease(t, after) PROVE RingInv'
  <2>1. /\ leases' = [leases EXCEPT ![t] = [state |-> "held", after |-> after]]
        /\ floor <= after /\ after <= live /\ after \in Nat
        /\ UNCHANGED <<bytes, floor, ended, pc, at, drawn>>
    BY <1>2 DEF Lease
  <2>2. TypeOK' /\ live' = live
    BY <1>0, <2>1 DEF TypeOK, LeaseRecords, LeaseStates, live
  <2>3. HeldLeaseIsRetained'
    BY <1>0, <2>1, <2>2 DEF RingInv, HeldLeaseIsRetained, Held, LeaseRecords
  <2> QED BY <2>1, <2>2, <2>3
          DEF RingInv, BytesKeepTheirCoordinate, RetentionIsBounded,
              ParkedReaderHasNothingToRead, CursorIsWhatWasDrawn, OvertakenReaderHasBytes
<1>g. ASSUME NEW t \in Tokens, TrimLocked(bytes, Gone(t))
      PROVE  /\ bytes' \in Seq(Nat) /\ floor' \in Nat
             /\ leases' \in [Tokens -> LeaseRecords]
             /\ floor' >= floor /\ live' = live
             /\ BytesKeepTheirCoordinate' /\ HeldLeaseIsRetained' /\ RetentionIsBounded'
             /\ floor' = floor \/ Len(bytes') > 0
             /\ Len(bytes) > 0 => Len(bytes') > 0
  <2>1. /\ Gone(t) \in [Tokens -> LeaseRecords]
        /\ \A u \in Held(Gone(t)) : u \in Held(leases) /\ Gone(t)[u].after = leases[u].after
    BY <1>0 DEF Gone, Held, LeaseRecords, LeaseStates
  <2>2. Len(bytes) >= Len(bytes)
    BY <1>0
  <2>3. /\ bytes' \in Seq(Nat) /\ floor' \in Nat
        /\ leases' \in [Tokens -> LeaseRecords]
        /\ floor' >= floor /\ floor' + Len(bytes') = floor + Len(bytes)
        /\ BytesKeepTheirCoordinate' /\ HeldLeaseIsRetained' /\ RetentionIsBounded'
        /\ floor' = floor \/ Len(bytes') > 0
        /\ Len(bytes) > 0 => Len(bytes') > 0
    BY <1>0, <1>c, <1>g, <2>1, <2>2, TrimKeepsRing
  <2> QED BY <2>3 DEF live
<1>3. ASSUME NEW t \in Tokens, NEW s \in Readers, ConsumeLease(t, s) PROVE RingInv'
  <2>1. TrimLocked(bytes, Gone(t))
    BY <1>3 DEF ConsumeLease
  <2>2. /\ bytes' \in Seq(Nat) /\ floor' \in Nat
        /\ leases' \in [Tokens -> LeaseRecords]
        /\ floor' >= floor /\ live' = live
        /\ BytesKeepTheirCoordinate' /\ HeldLeaseIsRetained' /\ RetentionIsBounded'
        /\ floor' = floor \/ Len(bytes') > 0
        /\ Len(bytes) > 0 => Len(bytes') > 0
    BY <1>g, <2>1
  <2>3. CASE leases[t].state = "broken" \/ leases[t].after < floor
    <3>1. UNCHANGED <<ended, pc, at, drawn>>
      BY <1>3, <2>3 DEF ConsumeLease
    <3>2. TypeOK' /\ ParkedReaderHasNothingToRead'
      BY <1>0, <2>2, <3>1 DEF TypeOK, LeaseRecords, RingInv, ParkedReaderHasNothingToRead
    <3>3. ASSUME NEW r \in Readers, pc'[r] # "idle"
          PROVE  /\ at'[r] = drawn'[r] /\ at'[r] <= live'
                 /\ at'[r] >= floor' \/ Len(bytes') > 0
      BY <1>0, <2>2, <3>1, <3>3, CursorsSurviveForwardWindow
    <3> QED BY <2>2, <3>2, <3>3
            DEF RingInv, CursorIsWhatWasDrawn, OvertakenReaderHasBytes
  <2>4. CASE ~(leases[t].state = "broken" \/ leases[t].after < floor)
    <3>1. /\ pc[s] = "idle" /\ leases[t].state = "held"
          /\ pc' = [pc EXCEPT ![s] = "reading"]
          /\ at' = [at EXCEPT ![s] = leases[t].after]
          /\ drawn' = [drawn EXCEPT ![s] = leases[t].after]
          /\ UNCHANGED ended
      BY <1>3, <2>4 DEF ConsumeLease
    <3>2. leases[t].after \in Nat /\ floor <= leases[t].after /\ leases[t].after <= live
      BY <1>0, <3>1 DEF RingInv, HeldLeaseIsRetained, Held, LeaseRecords
    <3>3. TypeOK' /\ ParkedReaderHasNothingToRead'
      BY <1>0, <2>2, <3>1, <3>2 DEF TypeOK, LeaseRecords, RingInv, ParkedReaderHasNothingToRead
    <3>4. ASSUME NEW r \in Readers, pc'[r] # "idle"
          PROVE  /\ at'[r] = drawn'[r] /\ at'[r] <= live'
                 /\ at'[r] >= floor' \/ Len(bytes') > 0
      <4>1. CASE r = s
        BY <1>0, <2>2, <3>1, <3>2, <4>1
      <4>2. CASE r # s
        <5>1. pc[r] # "idle" /\ at'[r] = at[r] /\ drawn'[r] = drawn[r]
          BY <1>0, <3>1, <3>4, <4>2
        <5> QED BY <1>0, <2>2, <5>1, CursorsSurviveForwardWindow
      <4> QED BY <4>1, <4>2
    <3> QED BY <2>2, <3>3, <3>4
            DEF RingInv, CursorIsWhatWasDrawn, OvertakenReaderHasBytes
  <2> QED BY <2>3, <2>4
<1>4. ASSUME NEW t \in Tokens, ExpireLease(t) PROVE RingInv'
  <2>1. TrimLocked(bytes, Gone(t)) /\ UNCHANGED <<ended, pc, at, drawn>>
    BY <1>4 DEF ExpireLease
  <2>2. /\ bytes' \in Seq(Nat) /\ floor' \in Nat
        /\ leases' \in [Tokens -> LeaseRecords]
        /\ floor' >= floor /\ live' = live
        /\ BytesKeepTheirCoordinate' /\ HeldLeaseIsRetained' /\ RetentionIsBounded'
        /\ floor' = floor \/ Len(bytes') > 0
        /\ Len(bytes) > 0 => Len(bytes') > 0
    BY <1>g, <2>1
  <2>3. TypeOK' /\ ParkedReaderHasNothingToRead'
    BY <1>0, <2>1, <2>2 DEF TypeOK, LeaseRecords, RingInv, ParkedReaderHasNothingToRead
  <2>4. ASSUME NEW r \in Readers, pc'[r] # "idle"
        PROVE  /\ at'[r] = drawn'[r] /\ at'[r] <= live'
               /\ at'[r] >= floor' \/ Len(bytes') > 0
    BY <1>0, <2>1, <2>2, <2>4, CursorsSurviveForwardWindow
  <2> QED BY <2>2, <2>3, <2>4
          DEF RingInv, CursorIsWhatWasDrawn, OvertakenReaderHasBytes
<1>u. ASSUME UNCHANGED <<bytes, floor, leases>>
      PROVE  /\ live' = live
             /\ BytesKeepTheirCoordinate' /\ HeldLeaseIsRetained' /\ RetentionIsBounded'
  BY <1>u DEF RingInv, live, BytesKeepTheirCoordinate, HeldLeaseIsRetained, RetentionIsBounded
<1>5. CASE End
  <2>1. /\ ended' = TRUE
        /\ pc' = [r \in Readers |-> IF pc[r] = "parked" THEN "reading" ELSE pc[r]]
        /\ UNCHANGED <<bytes, floor, leases, at, drawn>>
    BY <1>5 DEF End, WakeLocked
  <2>2. TypeOK'
    BY <1>0, <2>1 DEF TypeOK, LeaseRecords
  <2> QED BY <1>u, <2>1, <2>2
          DEF RingInv, ParkedReaderHasNothingToRead, CursorIsWhatWasDrawn,
              OvertakenReaderHasBytes
<1>s. ASSUME NEW s \in Readers, NEW start \in Nat, start <= live, floor <= start,
             pc[s] = "idle",
             pc' = [pc EXCEPT ![s] = "reading"],
             at' = [at EXCEPT ![s] = start],
             drawn' = [drawn EXCEPT ![s] = start],
             UNCHANGED <<bytes, floor, ended, leases>>
      PROVE  RingInv'
  <2>1. TypeOK'
    BY <1>0, <1>s DEF TypeOK, LeaseRecords
  <2>2. ParkedReaderHasNothingToRead'
    BY <1>0, <1>s, <1>u DEF RingInv, ParkedReaderHasNothingToRead
  <2>3. CursorIsWhatWasDrawn' /\ OvertakenReaderHasBytes'
    BY <1>0, <1>s, <1>u DEF RingInv, CursorIsWhatWasDrawn, OvertakenReaderHasBytes
  <2> QED BY <1>s, <1>u, <2>1, <2>2, <2>3 DEF RingInv
<1>6. ASSUME NEW s \in Readers, ResolveLive(s) PROVE RingInv'
  <2>1. floor <= live
    BY <1>0 DEF live
  <2>2. /\ pc[s] = "idle"
        /\ pc' = [pc EXCEPT ![s] = "reading"]
        /\ at' = [at EXCEPT ![s] = live]
        /\ drawn' = [drawn EXCEPT ![s] = live]
        /\ UNCHANGED <<bytes, floor, ended, leases>>
    BY <1>6 DEF ResolveLive
  <2>3. live <= live
    BY <1>0
  <2> QED BY <1>0, <1>s, <2>1, <2>2, <2>3
<1>7. ASSUME NEW s \in Readers, NEW from \in 0..MaxSeq, Resolve(s, from) PROVE RingInv'
  <2> DEFINE start == IF from < floor \/ from > live THEN floor ELSE from
  <2>1. start \in Nat /\ start <= live /\ floor <= start
    BY <1>0, RingConstants DEF live
  <2>2. /\ pc[s] = "idle"
        /\ pc' = [pc EXCEPT ![s] = "reading"]
        /\ at' = [at EXCEPT ![s] = start]
        /\ drawn' = [drawn EXCEPT ![s] = start]
        /\ UNCHANGED <<bytes, floor, ended, leases>>
    BY <1>7 DEF Resolve
  <2> HIDE DEF start
  <2> QED BY <1>s, <2>1, <2>2
<1>8. ASSUME NEW s \in Readers, ReadBytes(s) PROVE RingInv'
  <2> DEFINE start == ReadFrom(s)
             out == SubSeq(bytes, start - floor + 1, Len(bytes))
  <2>1. /\ pc[s] = "reading" /\ start < live
        /\ drawn' = [drawn EXCEPT ![s] = out[Len(out)] + 1]
        /\ at' = [at EXCEPT ![s] = live]
        /\ UNCHANGED <<bytes, floor, ended, leases, pc>>
    BY <1>8 DEF ReadBytes
  <2>2. start \in Nat /\ floor <= start
    BY <1>0 DEF ReadFrom
  <2>3. /\ start - floor + 1 \in 1..Len(bytes)
        /\ start - floor + 1 \in 1..Len(bytes)+1
    BY <1>0, <2>1, <2>2 DEF live
  <2>4. /\ Len(out) = Len(bytes) - (start - floor + 1) + 1
        /\ \A i \in 1..(Len(bytes) - (start - floor + 1) + 1) :
              out[i] = bytes[(start - floor + 1) + i - 1]
    BY <1>0, <2>3, SubSeqProperties
  <2> HIDE DEF start, out
  <2>5. out[Len(out)] = bytes[Len(bytes)]
    <3>1. Len(out) \in 1..(Len(bytes) - (start - floor + 1) + 1)
      BY <1>0, <2>2, <2>3, <2>4
    <3>2. (start - floor + 1) + Len(out) - 1 = Len(bytes)
      BY <1>0, <2>2, <2>3, <2>4
    <3> QED BY <2>4, <3>1, <3>2
  <2>6. bytes[Len(bytes)] = live - 1
    BY <1>0, <1>c, <2>3 DEF Contents, live
  <2>7. out[Len(out)] + 1 = live
    BY <1>0, <2>5, <2>6
  <2>8. drawn' = [drawn EXCEPT ![s] = live]
    BY <2>1, <2>7
  <2>9. TypeOK'
    BY <1>0, <2>1, <2>8 DEF TypeOK, LeaseRecords
  <2>10. ParkedReaderHasNothingToRead'
    BY <1>0, <2>1, <1>u DEF RingInv, ParkedReaderHasNothingToRead
  <2>11. CursorIsWhatWasDrawn' /\ OvertakenReaderHasBytes'
    <3>1. floor <= live
      BY <1>0 DEF live
    <3>2. live' = live
      BY <1>u, <2>1
    <3>3. ASSUME NEW r \in Readers, pc'[r] # "idle"
          PROVE  /\ at'[r] = drawn'[r] /\ at'[r] <= live'
                 /\ at'[r] >= floor' \/ Len(bytes') > 0
      <4>1. CASE r = s
        BY <1>0, <2>1, <2>8, <3>1, <3>2, <4>1
      <4>2. CASE r # s
        <5>1. pc[r] # "idle" /\ at'[r] = at[r] /\ drawn'[r] = drawn[r]
          BY <1>0, <2>1, <2>8, <3>3, <4>2
        <5> QED BY <2>1, <3>2, <5>1
                DEF RingInv, CursorIsWhatWasDrawn, OvertakenReaderHasBytes
      <4> QED BY <4>1, <4>2
    <3> QED BY <3>3 DEF CursorIsWhatWasDrawn, OvertakenReaderHasBytes
  <2> QED BY <1>u, <2>1, <2>9, <2>10, <2>11 DEF RingInv
<1>9. ASSUME NEW s \in Readers, ReadEnded(s) PROVE RingInv'
  <2>1. /\ pc' = [pc EXCEPT ![s] = "done"] /\ pc[s] = "reading"
        /\ UNCHANGED <<bytes, floor, ended, leases, at, drawn>>
    BY <1>9 DEF ReadEnded
  <2>2. TypeOK'
    BY <1>0, <2>1 DEF TypeOK, LeaseRecords
  <2> QED BY <1>0, <1>u, <2>1, <2>2
          DEF RingInv, ParkedReaderHasNothingToRead, CursorIsWhatWasDrawn,
              OvertakenReaderHasBytes
<1>10. ASSUME NEW s \in Readers, ReadParks(s) PROVE RingInv'
  <2>1. /\ pc[s] = "reading" /\ ReadFrom(s) >= live /\ ~ended
        /\ at' = [at EXCEPT ![s] = ReadFrom(s)]
        /\ pc' = [pc EXCEPT ![s] = "parked"]
        /\ UNCHANGED <<bytes, floor, ended, leases, drawn>>
    BY <1>10 DEF ReadParks
  <2>2. at[s] = drawn[s] /\ at[s] <= live /\ (at[s] >= floor \/ Len(bytes) > 0)
    BY <2>1 DEF RingInv, CursorIsWhatWasDrawn, OvertakenReaderHasBytes
  <2>3. ReadFrom(s) = at[s] /\ at[s] = live
    BY <1>0, <2>1, <2>2 DEF ReadFrom, live
  <2>4. at' = at
    BY <1>0, <2>1, <2>3
  <2>5. TypeOK'
    BY <1>0, <2>1, <2>4 DEF TypeOK, LeaseRecords
  <2> QED BY <1>0, <1>u, <2>1, <2>3, <2>4, <2>5
          DEF RingInv, ParkedReaderHasNothingToRead, CursorIsWhatWasDrawn,
              OvertakenReaderHasBytes
<1>12. ASSUME NEW s \in Readers, Leave(s) PROVE RingInv'
  <2>1. /\ pc' = [pc EXCEPT ![s] = "idle"]
        /\ at' = [at EXCEPT ![s] = 0]
        /\ drawn' = [drawn EXCEPT ![s] = 0]
        /\ UNCHANGED <<bytes, floor, ended, leases>>
    BY <1>12 DEF Leave
  <2>2. TypeOK'
    BY <1>0, <2>1 DEF TypeOK, LeaseRecords
  <2> QED BY <1>0, <1>u, <2>1, <2>2
          DEF RingInv, ParkedReaderHasNothingToRead, CursorIsWhatWasDrawn,
              OvertakenReaderHasBytes
<1>11. CASE UNCHANGED vars
  BY <1>11 DEF vars, RingInv, TypeOK, live, BytesKeepTheirCoordinate, HeldLeaseIsRetained,
               RetentionIsBounded, ParkedReaderHasNothingToRead, CursorIsWhatWasDrawn,
               OvertakenReaderHasBytes
<1> QED
  BY <1>1, <1>2, <1>3, <1>4, <1>5, <1>6, <1>7, <1>8, <1>9, <1>10, <1>11, <1>12 DEF Next

----------------------------------------------------------------------------
\* The inductive invariant holds in every reachable state, whatever the sizes.
THEOREM RingInvariance == Spec => []RingInv
<1> QED BY InitEstablishesRingInv, StepPreservesRingInv, PTL DEF Spec

\* Every variable of the ring keeps its type (ring.go 19-41).
THEOREM RingTypeCorrect == Spec => []TypeOK
<1>1. RingInv => TypeOK
  BY DEF RingInv
<1> QED BY <1>1, RingInvariance, PTL

\* A sequence names the byte produced there, for the life of the session
\* (ring.go 15-16): trims, leases and a restore never shift a coordinate.
THEOREM CoordinatesNeverShift == Spec => []BytesKeepTheirCoordinate
<1>1. RingInv => BytesKeepTheirCoordinate
  BY DEF RingInv
<1> QED BY <1>1, RingInvariance, PTL

\* A lease that is not broken is retained, for any number of leases (trimLocked).
THEOREM HeldLeasesAreRetained == Spec => []HeldLeaseIsRetained
<1>1. RingInv => HeldLeaseIsRetained
  BY DEF RingInv
<1> QED BY <1>1, RingInvariance, PTL

\* What the ring keeps is bounded by its capacity or one lease's budget.
THEOREM RetentionBound == Spec => []RetentionIsBounded
<1>1. RingInv => RetentionIsBounded
  BY DEF RingInv
<1> QED BY <1>1, RingInvariance, PTL

\* No reader is left parked with bytes to read or on a ring that has ended
\* (read 203-210, wakeLocked).
THEOREM NoLostWakeup == Spec => []ParkedReaderHasNothingToRead
<1>1. RingInv => ParkedReaderHasNothingToRead
  BY DEF RingInv
<1> QED BY <1>1, RingInvariance, PTL

\* A cursor is one past the last byte its reader was handed (read 197-201).
THEOREM CursorsNameWhatWasDrawn == Spec => []CursorIsWhatWasDrawn
<1>1. RingInv => CursorIsWhatWasDrawn
  BY DEF RingInv
<1> QED BY <1>1, RingInvariance, PTL

\* Neither end of the retained window moves back, in any step (ring.go 15).
THEOREM SequencesAreMonotonic == Spec => SequencesNeverRestart
<1> DEFINE Forward == floor' >= floor /\ floor' + Len(bytes') >= live
<1>1. ASSUME RingInv, [Next]_vars PROVE [Forward]_vars
  <2>0. /\ bytes \in Seq(Nat) /\ Len(bytes) \in Nat /\ floor \in Nat /\ live \in Nat
        /\ leases \in [Tokens -> LeaseRecords]
    BY <1>1, LenProperties DEF RingInv, TypeOK, LeaseRecords, live
  <2>1. ASSUME NEW n \in ChunkSizes, Write(n) PROVE Forward
    <3> DEFINE b == bytes \o Produced(live, n)
    <3>1. n \in Nat
      BY RingConstants
    <3>2. b \in Seq(Nat) /\ Len(b) = Len(bytes) + n /\ Contents(b)
      BY <1>1, <3>1, AppendKeepsCoordinates DEF RingInv
    <3>3. TrimLocked(b, leases)
      BY <2>1 DEF Write
    <3> HIDE DEF b
    <3>4. floor' >= floor /\ floor' + Len(bytes') = floor + Len(b)
      BY <2>0, <3>2, <3>3, TrimFacts
    <3> QED BY <2>0, <3>1, <3>2, <3>4 DEF live
  <2>2. ASSUME NEW t \in Tokens, TrimLocked(bytes, Gone(t)) PROVE Forward
    <3>1. Gone(t) \in [Tokens -> LeaseRecords] /\ Contents(bytes)
      BY <1>1, <2>0
         DEF Gone, LeaseRecords, LeaseStates, RingInv, BytesKeepTheirCoordinate, Contents
    <3>2. floor' >= floor /\ floor' + Len(bytes') = floor + Len(bytes)
      BY <2>0, <2>2, <3>1, TrimFacts
    <3> QED BY <2>0, <3>2 DEF live
  <2>3. ASSUME UNCHANGED <<bytes, floor>> PROVE Forward
    BY <2>0, <2>3 DEF live
  <2> HIDE DEF Forward
  <2> QED
    BY <1>1, <2>1, <2>2, <2>3
       DEF Next, Lease, ConsumeLease, ExpireLease, End, ResolveLive, Resolve, ReadBytes,
           ReadEnded, ReadParks, Leave
<1> HIDE DEF Forward
<1>2. Spec => [][Forward]_vars
  BY <1>1, RingInvariance, PTL DEF Spec
<1> QED BY <1>2 DEF Forward, SequencesNeverRestart

----------------------------------------------------------------------------
(* trimLocked's loop *)

\* Of the numbers a set has, one is the least.
LEMMA LeastNumber ==
    ASSUME NEW T \in SUBSET Nat, T # {}
    PROVE  \E x \in T : \A y \in T : x <= y
<1> DEFINE R == OpToRel(<, Nat)
<1>1. IsWellFoundedOn(R, Nat)
  BY NatLessThanWellFounded
<1>2. \E x \in T : \A y \in T : ~(<<y, x>> \in R)
  <2> HIDE DEF R
  <2> QED BY <1>1, WFMin
<1>3. PICK x \in T : \A y \in T : ~(<<y, x>> \in OpToRel(<, Nat))
  BY <1>2
<1>4. \A y \in T : ~(y < x)
  BY <1>3 DEF OpToRel
<1> QED BY <1>4

\* g is a run of n steps from a start.
IsRun(g, S, start, step, n) ==
    /\ g \in [0..n -> S] /\ g[0] = start
    /\ \A i \in 1..n : g[i] = step[<<i, g[i - 1]>>]

\* A step that is taken some number of times from a start has a run.
LEMMA RunExists ==
    ASSUME NEW S, NEW start \in S, NEW step \in [Nat \X S -> S], NEW N \in Nat
    PROVE  \E g : IsRun(g, S, start, step, N)
<1> DEFINE Run(g, n) == IsRun(g, S, start, step, n)
           Bad == {n \in Nat : ~\E g : Run(g, n)}
<1> SUFFICES ASSUME Bad # {} PROVE FALSE
  OBVIOUS
<1>1. PICK n \in Bad : \A m \in Bad : n <= m
  BY LeastNumber
<1>2. n \in Nat /\ ~\E g : Run(g, n)
  BY <1>1
<1>3. n # 0
  <2> SUFFICES ASSUME n = 0 PROVE FALSE
    OBVIOUS
  <2>1. Run([i \in 0..0 |-> start], 0)
    BY DEF IsRun
  <2> QED BY <1>2, <2>1
<1>4. n - 1 \in Nat /\ n - 1 \notin Bad
  <2> HIDE DEF Bad, Run
  <2> QED BY <1>1, <1>2, <1>3
<1>5. PICK g : Run(g, n - 1)
  BY <1>4
<1> DEFINE h == [i \in 0..n |-> IF i = n THEN step[<<n, g[n - 1]>>] ELSE g[i]]
<1>6. \A i \in 0..n : i = n \/ i \in 0..(n - 1)
  BY <1>2
<1>7. g[n - 1] \in S /\ step[<<n, g[n - 1]>>] \in S
  BY <1>2, <1>4, <1>5 DEF IsRun
<1>8. h \in [0..n -> S] /\ h[0] = start
  <2>1. \A i \in 0..n : h[i] \in S
    BY <1>5, <1>6, <1>7 DEF IsRun
  <2>2. 0 \in 0..n /\ 0 # n
    BY <1>2, <1>3
  <2> QED BY <1>4, <1>5, <2>1, <2>2 DEF IsRun
<1>9. ASSUME NEW i \in 1..n PROVE h[i] = step[<<i, h[i - 1]>>]
  <2>1. i - 1 \in 0..n /\ i - 1 # n /\ i \in 0..n
    BY <1>2
  <2>2. h[i - 1] = g[i - 1]
    BY <2>1
  <2>3. CASE i = n
    BY <2>1, <2>2, <2>3
  <2>4. CASE i # n
    <3>1. i \in 1..(n - 1)
      BY <1>2, <2>4
    <3> QED BY <1>5, <2>1, <2>2, <2>4, <3>1 DEF IsRun
  <2> QED BY <2>3, <2>4
<1>10. Run(h, n)
  BY <1>8, <1>9 DEF IsRun
<1> QED BY <1>2, <1>10

\* What the loop carries.
TrimStates == [target : Nat, broken : SUBSET Tokens]

\* The loop's result is the last of the states it goes through.
LEMMA TrimLoopRuns ==
    ASSUME NEW L \in [Tokens -> LeaseRecords], NEW n \in Nat, NEW order \in Seq(Tokens)
    PROVE  \E run \in [0..Len(order) -> TrimStates] :
                /\ run[0] = [target |-> CapFloor(n), broken |-> {}]
                /\ \A i \in 1..Len(order) : run[i] = TrimStep(L, n, run[i - 1], order[i])
                /\ TrimLoop(L, n, order) = run[Len(order)]
<1> DEFINE start == [target |-> CapFloor(n), broken |-> {}]
           Steps(r) == r = [i \in 0..Len(order) |->
                               IF i = 0 THEN start ELSE TrimStep(L, n, r[i - 1], order[i])]
<1>1. Len(order) \in Nat /\ \A i \in 1..Len(order) : order[i] \in Tokens
  BY LenProperties, ElementOfSeq
<1>2. start \in TrimStates
  BY RingConstants DEF CapFloor, TrimStates
<1>3. \A acc \in TrimStates, t \in Tokens : TrimStep(L, n, acc, t) \in TrimStates
  BY DEF TrimStep, TrimStates, LeaseRecords
<1> DEFINE step == [x \in Nat \X TrimStates |->
                       IF x[1] \in 1..Len(order) THEN TrimStep(L, n, x[2], order[x[1]]) ELSE x[2]]
<1>4. step \in [Nat \X TrimStates -> TrimStates]
  BY <1>1, <1>3
<1>5. \A i \in 1..Len(order), acc \in TrimStates :
        step[<<i, acc>>] = TrimStep(L, n, acc, order[i])
  BY <1>1
<1> HIDE DEF start, step
<1>6. PICK g \in [0..Len(order) -> TrimStates] :
        g[0] = start /\ \A i \in 1..Len(order) : g[i] = step[<<i, g[i - 1]>>]
  <2> HIDE DEF Steps
  <2>1. Len(order) \in Nat /\ start \in TrimStates /\ step \in [Nat \X TrimStates -> TrimStates]
    BY <1>1, <1>2, <1>4
  <2>2. PICK g : IsRun(g, TrimStates, start, step, Len(order))
    BY <2>1, RunExists
  <2> QED BY <2>2 DEF IsRun
<1>7. \A i \in 1..Len(order) : g[i] = TrimStep(L, n, g[i - 1], order[i])
  <2> SUFFICES ASSUME NEW i \in 1..Len(order) PROVE g[i] = TrimStep(L, n, g[i - 1], order[i])
    OBVIOUS
  <2>1. i - 1 \in 0..Len(order)
    BY <1>1
  <2> QED BY <1>5, <1>6, <2>1
<1>8. Steps(g)
  <2>1. \A i \in 0..Len(order) : g[i] = IF i = 0 THEN start ELSE TrimStep(L, n, g[i - 1], order[i])
    <3>1. \A i \in 0..Len(order) : i = 0 \/ i \in 1..Len(order)
      BY <1>1
    <3> QED BY <1>6, <1>7, <3>1
  <2>2. g = [i \in 0..Len(order) |-> g[i]]
    BY <1>6
  <2> QED BY <2>1, <2>2, Zenon
<1> DEFINE run == CHOOSE r : Steps(r)
<1>9. Steps(run)
  BY <1>8, Zenon
<1>10. TrimLoop(L, n, order) = run[Len(order)]
  BY DEF TrimLoop, start
<1> HIDE DEF run
<1>11. /\ run[0] = start /\ \A i \in 1..Len(order) : run[i] = TrimStep(L, n, run[i - 1], order[i])
       /\ run = [i \in 0..Len(order) |-> run[i]]
  <2>1. \A i \in 0..Len(order) :
            run[i] = IF i = 0 THEN start ELSE TrimStep(L, n, run[i - 1], order[i])
    BY <1>9, Zenon
  <2>3. run = [i \in 0..Len(order) |-> run[i]]
    BY <1>9, Zenon
  <2>4. run[0] = start
    BY <1>1, <2>1
  <2>5. ASSUME NEW i \in 1..Len(order) PROVE run[i] = TrimStep(L, n, run[i - 1], order[i])
    <3>1. i \in 0..Len(order) /\ i # 0
      BY <1>1
    <3> QED BY <2>1, <3>1
  <2> QED BY <2>3, <2>4, <2>5
<1>12. \A i \in 0..Len(order) : run[i] \in TrimStates
  <2> DEFINE Bad == {i \in Nat : i <= Len(order) /\ run[i] \notin TrimStates}
  <2> SUFFICES ASSUME Bad # {} PROVE FALSE
    BY <1>1
  <2>1. PICK k \in Bad : \A m \in Bad : k <= m
    BY LeastNumber
  <2>2. k # 0
    BY <1>2, <1>11, <2>1
  <2>3. k \in 1..Len(order) /\ k - 1 \in Nat /\ k - 1 <= Len(order) /\ k - 1 \notin Bad
    BY <1>1, <2>1, <2>2
  <2> QED BY <1>1, <1>3, <1>11, <2>1, <2>3
<1> QED BY <1>10, <1>11, <1>12 DEF start

\* What the loop has when it has come to lease i: the leases before it that are over their
\* budget are broken, and the target is the capacity's floor or the oldest of the others.
TrimmedSoFar(L, n, order, acc, i) ==
    /\ \A t \in Tokens :
        t \in acc.broken <=> Overrun(L[t], n) /\ \E j \in 1..i : order[j] = t
    /\ acc.target <= CapFloor(n)
    /\ \/ acc.target = CapFloor(n)
       \/ \E j \in 1..i : acc.target = L[order[j]].after /\ n - L[order[j]].after <= LeaseBuffer
    /\ \A j \in 1..i : ~Overrun(L[order[j]], n) => acc.target <= L[order[j]].after

\* One more lease.
LEMMA TrimStepKeeps ==
    ASSUME NEW L \in [Tokens -> LeaseRecords], NEW n \in Nat, NEW order \in Seq(Tokens),
           NEW i \in 1..Len(order), NEW acc \in TrimStates, L[order[i]].state = "held",
           TrimmedSoFar(L, n, order, acc, i - 1)
    PROVE  TrimmedSoFar(L, n, order, TrimStep(L, n, acc, order[i]), i)
<1> DEFINE t == order[i]
           new == TrimStep(L, n, acc, t)
<1>1. /\ Len(order) \in Nat /\ i \in Nat /\ i >= 1 /\ t \in Tokens
      /\ \A j \in 1..Len(order) : order[j] \in Tokens
  BY LenProperties, ElementOfSeq
<1>2. /\ \A j \in 1..i : j \in 1..(i - 1) \/ j = i
      /\ \A j \in 1..(i - 1) : j \in 1..i
      /\ i \in 1..i
  BY <1>1
<1>3. /\ acc.target \in Nat /\ CapFloor(n) \in Nat /\ LeaseBuffer \in Nat
      /\ \A u \in Tokens : L[u].after \in Nat
  BY RingConstants DEF TrimStates, LeaseRecords, CapFloor
<1>4. \A j \in 1..i : order[j] \in Tokens /\ L[order[j]].after \in Nat
  BY <1>1, <1>3
<1>5. Overrun(L[t], n) <=> L[t].after < CapFloor(n) /\ n - L[t].after > LeaseBuffer
  BY DEF Overrun
<1>6. Overrun(L[t], n) => L[t].after < acc.target
  <2> SUFFICES ASSUME Overrun(L[t], n) PROVE L[t].after < acc.target
    OBVIOUS
  <2>1. CASE acc.target = CapFloor(n)
    BY <1>5, <2>1
  <2>2. CASE acc.target # CapFloor(n)
    <3>1. PICK j \in 1..(i - 1) :
            acc.target = L[order[j]].after /\ n - L[order[j]].after <= LeaseBuffer
      BY <2>2 DEF TrimmedSoFar
    <3>2. L[order[j]].after \in Nat /\ L[t].after \in Nat /\ n \in Nat
      BY <1>1, <1>2, <1>3, <1>4
    <3>3. n - L[t].after > LeaseBuffer
      BY <1>5
    <3> QED BY <1>3, <3>1, <3>2, <3>3
  <2> QED BY <2>1, <2>2
<1>7. /\ \A u \in Tokens : u \in acc.broken <=> Overrun(L[u], n) /\ \E j \in 1..(i - 1) : order[j] = u
      /\ acc.target <= CapFloor(n)
      /\ \/ acc.target = CapFloor(n)
         \/ \E j \in 1..(i - 1) :
                acc.target = L[order[j]].after /\ n - L[order[j]].after <= LeaseBuffer
      /\ \A j \in 1..(i - 1) : ~Overrun(L[order[j]], n) => acc.target <= L[order[j]].after
  BY DEF TrimmedSoFar
<1>8. acc.broken \in SUBSET Tokens
  BY DEF TrimStates
<1>a. CASE L[t].after >= acc.target
  <2>1. new = acc /\ ~Overrun(L[t], n)
    BY <1>1, <1>3, <1>6, <1>a DEF TrimStep
  <2>2. \A u \in Tokens : u \in new.broken <=> Overrun(L[u], n) /\ \E j \in 1..i : order[j] = u
    BY <1>2, <1>7, <2>1
  <2>3. \A j \in 1..i : ~Overrun(L[order[j]], n) => new.target <= L[order[j]].after
    BY <1>1, <1>2, <1>3, <1>7, <1>a, <2>1
  <2> HIDE DEF new, t
  <2> QED BY <1>2, <1>7, <2>1, <2>2, <2>3 DEF TrimmedSoFar, new, t
<1>b. CASE L[t].after < acc.target /\ n - L[t].after > LeaseBuffer
  <2>1. new = [acc EXCEPT !.broken = acc.broken \cup {t}] /\ ~(L[t].after >= acc.target)
    BY <1>1, <1>3, <1>b DEF TrimStep
  <2>2. new.target = acc.target /\ new.broken = acc.broken \cup {t} /\ Overrun(L[t], n)
    BY <1>1, <1>3, <1>5, <1>7, <1>b, <2>1 DEF TrimStates
  <2>3. \A u \in Tokens : u \in new.broken <=> Overrun(L[u], n) /\ \E j \in 1..i : order[j] = u
    BY <1>1, <1>2, <1>7, <2>2
  <2>4. \A j \in 1..i : ~Overrun(L[order[j]], n) => new.target <= L[order[j]].after
    BY <1>2, <1>7, <2>2
  <2>5. \/ new.target = CapFloor(n)
        \/ \E j \in 1..i : new.target = L[order[j]].after /\ n - L[order[j]].after <= LeaseBuffer
    BY <1>2, <1>7, <2>2
  <2> HIDE DEF new, t
  <2> QED BY <1>7, <2>2, <2>3, <2>4, <2>5 DEF TrimmedSoFar, new, t
<1>c. CASE L[t].after < acc.target /\ ~(n - L[t].after > LeaseBuffer)
  <2>1. new = [acc EXCEPT !.target = L[t].after]
    BY <1>1, <1>3, <1>c DEF TrimStep
  <2>2. new.target = L[t].after /\ new.broken = acc.broken /\ ~Overrun(L[t], n)
    BY <1>5, <1>c, <2>1 DEF TrimStates
  <2>3. \A u \in Tokens : u \in new.broken <=> Overrun(L[u], n) /\ \E j \in 1..i : order[j] = u
    BY <1>2, <1>7, <2>2
  <2>4. ASSUME NEW j \in 1..i, ~Overrun(L[order[j]], n) PROVE new.target <= L[order[j]].after
    <3>1. CASE j = i
      BY <1>1, <1>3, <2>2, <3>1
    <3>2. CASE j # i
      <4>1. acc.target <= L[order[j]].after
        BY <1>2, <1>7, <2>4, <3>2
      <4> QED BY <1>1, <1>3, <1>4, <1>c, <2>2, <4>1
    <3> QED BY <3>1, <3>2
  <2>5. n - L[t].after <= LeaseBuffer /\ new.target <= CapFloor(n)
    BY <1>1, <1>3, <1>7, <1>c, <2>2
  <2> HIDE DEF new
  <2> QED BY <1>2, <2>2, <2>3, <2>4, <2>5 DEF TrimmedSoFar, new
<1>9. \/ L[t].after >= acc.target
      \/ L[t].after < acc.target /\ n - L[t].after > LeaseBuffer
      \/ L[t].after < acc.target /\ ~(n - L[t].after > LeaseBuffer)
  BY <1>1, <1>3
<1> QED BY <1>9, <1>a, <1>b, <1>c

\* Whatever the order of the leases, the loop does what the closed form says.
LEMMA TrimLoopIsTheClosedForm ==
    ASSUME NEW L \in [Tokens -> LeaseRecords], NEW n \in Nat, NEW order \in Seq(Tokens),
           \A i \in 1..Len(order) : order[i] \in Held(L),
           \A t \in Held(L) : \E i \in 1..Len(order) : order[i] = t
    PROVE  /\ TrimLoop(L, n, order).broken = {t \in Tokens : Overrun(L[t], n)}
           /\ Target(TrimLoop(L, n, order).target, Broken(L, n), n)
<1>1. PICK run \in [0..Len(order) -> TrimStates] :
        /\ run[0] = [target |-> CapFloor(n), broken |-> {}]
        /\ \A i \in 1..Len(order) : run[i] = TrimStep(L, n, run[i - 1], order[i])
        /\ TrimLoop(L, n, order) = run[Len(order)]
  BY TrimLoopRuns
<1>2. Len(order) \in Nat /\ CapFloor(n) \in Nat
  BY LenProperties, RingConstants DEF CapFloor
<1>3. \A i \in 0..Len(order) : TrimmedSoFar(L, n, order, run[i], i)
  <2> DEFINE Bad == {i \in Nat : i <= Len(order) /\ ~TrimmedSoFar(L, n, order, run[i], i)}
  <2> SUFFICES ASSUME Bad # {} PROVE FALSE
    BY <1>2
  <2>1. PICK k \in Bad : \A m \in Bad : k <= m
    BY LeastNumber
  <2>2. TrimmedSoFar(L, n, order, run[0], 0)
    <3>1. 1..0 = {}
      OBVIOUS
    <3>2. run[0].target = CapFloor(n) /\ run[0].broken = {}
      BY <1>1
    <3> QED BY <1>2, <3>1, <3>2 DEF TrimmedSoFar
  <2>3. k \in Nat /\ k <= Len(order) /\ ~TrimmedSoFar(L, n, order, run[k], k) /\ k # 0
    BY <2>1, <2>2
  <2>4. k - 1 \in Nat /\ k - 1 \notin Bad
    <3> HIDE DEF Bad
    <3> QED BY <2>1, <2>3
  <2>5. TrimmedSoFar(L, n, order, run[k - 1], k - 1) /\ k \in 1..Len(order) /\ k - 1 \in 0..Len(order)
    BY <1>2, <2>3, <2>4
  <2>6. run[k - 1] \in TrimStates /\ run[k] = TrimStep(L, n, run[k - 1], order[k])
    BY <1>1, <2>5
  <2>7. L[order[k]].state = "held"
    BY <2>5 DEF Held
  <2>8. TrimmedSoFar(L, n, order, TrimStep(L, n, run[k - 1], order[k]), k)
    BY <2>5, <2>6, <2>7, TrimStepKeeps
  <2> QED BY <2>3, <2>6, <2>8
<1> DEFINE last == run[Len(order)]
<1>4. TrimmedSoFar(L, n, order, last, Len(order)) /\ last \in TrimStates
  BY <1>1, <1>2, <1>3
<1>5. TrimLoop(L, n, order) = last
  BY <1>1
<1> HIDE DEF last
<1>6. \A t \in Tokens : t \in last.broken <=> Overrun(L[t], n)
  <2>1. \A t \in Tokens : Overrun(L[t], n) => t \in Held(L)
    BY DEF Overrun, Held
  <2> QED BY <1>4, <2>1 DEF TrimmedSoFar
<1>7. \A t \in Tokens : /\ Broken(L, n)[t].after = L[t].after
                        /\ Broken(L, n)[t].state = "held" <=> L[t].state = "held" /\ ~Overrun(L[t], n)
  BY DEF Broken, LeaseRecords, LeaseStates
<1>8. Held(Broken(L, n)) = {t \in Held(L) : ~Overrun(L[t], n)}
  BY <1>7 DEF Held
<1>9. \A t \in Held(L) : t \in Tokens /\ L[t].after \in Nat
  BY DEF Held, LeaseRecords
<1>10. ASSUME NEW t \in Held(Broken(L, n)) PROVE last.target <= Broken(L, n)[t].after
  <2>1. t \in Held(L) /\ ~Overrun(L[t], n) /\ Broken(L, n)[t].after = L[t].after
    BY <1>7, <1>8, <1>9
  <2> QED BY <1>4, <2>1 DEF TrimmedSoFar
<1>11. last.target \in {CapFloor(n)} \cup {Broken(L, n)[t].after : t \in Held(Broken(L, n))}
  <2>1. CASE last.target = CapFloor(n)
    BY <2>1
  <2>2. CASE last.target # CapFloor(n)
    <3>1. PICK j \in 1..Len(order) :
            last.target = L[order[j]].after /\ n - L[order[j]].after <= LeaseBuffer
      BY <1>4, <2>2 DEF TrimmedSoFar
    <3>2. order[j] \in Held(L) /\ L[order[j]].after \in Nat
      BY <1>9
    <3>3. ~Overrun(L[order[j]], n)
      BY <3>1, <3>2, RingConstants DEF Overrun
    <3>4. order[j] \in Held(Broken(L, n)) /\ Broken(L, n)[order[j]].after = last.target
      BY <1>7, <1>8, <1>9, <3>1, <3>2, <3>3
    <3> QED BY <3>4
  <2> QED BY <2>1, <2>2
<1>12. Target(last.target, Broken(L, n), n)
  BY <1>4, <1>10, <1>11 DEF Target, TrimmedSoFar
<1>13. last.broken = {t \in Tokens : Overrun(L[t], n)}
  BY <1>4, <1>6 DEF TrimStates
<1> QED BY <1>5, <1>12, <1>13

\* The trim is the same whatever order the map of leases is walked in: trimLocked's loop
\* breaks the leases and cuts at the place its closed form says, in every state a ring
\* reaches and after every write there (trimLocked 97-106).
THEOREM TheTrimHasNoOrder == Spec => []TrimOrderIsIrrelevant
<1>1. RingInv => TrimOrderIsIrrelevant
  <2> SUFFICES ASSUME RingInv, NEW n \in {live} \cup {live + k : k \in ChunkSizes},
                      NEW order \in Orders(Held(leases))
               PROVE  /\ TrimLoop(leases, n, order).broken = {t \in Tokens : Overrun(leases[t], n)}
                      /\ Target(TrimLoop(leases, n, order).target, Broken(leases, n), n)
    BY DEF TrimOrderIsIrrelevant
  <2>1. leases \in [Tokens -> LeaseRecords] /\ live \in Nat
    BY LenProperties DEF RingInv, TypeOK, LeaseRecords, live
  <2>2. n \in Nat
    BY <2>1, RingConstants
  <2> DEFINE m == Cardinality(Held(leases))
  <2>3. m \in Nat
    <3>1. Held(leases) \subseteq Tokens
      BY DEF Held
    <3> QED BY <3>1, RingConstants, FS_Subset, FS_CardinalityType
  <2>4. /\ order \in [1..m -> Held(leases)]
        /\ \A t \in Held(leases) : \E i \in 1..m : order[i] = t
    BY DEF Orders
  <2> HIDE DEF m
  <2>5. order \in Seq(Tokens) /\ Len(order) = m
    <3>1. order \in [1..m -> Tokens]
      BY <2>4 DEF Held
    <3> QED BY <2>3, <3>1
  <2> QED BY <2>1, <2>2, <2>4, <2>5, TrimLoopIsTheClosedForm
<1> QED BY <1>1, RingInvariance, PTL

----------------------------------------------------------------------------
(* Ring implements Output.  The inductive invariant is what makes each operation a step of *)
(* Output: a consumed or expired lease takes no other lease with it because the ring never *)
(* keeps more than its capacity or one budget, and a copy ends at the live edge because    *)
(* every byte is filed under its own coordinate.                                           *)

\* The readers as Output sees them: one that waits is still reading.
Modes == [r \in Readers |-> IF pc[r] = "parked" THEN "reading" ELSE pc[r]]

Promises == [t \in Tokens |-> leases[t].after]

\* What a trim does to the leases: it breaks those over budget and moves no cursor.
LEMMA TrimLeases ==
    ASSUME NEW b, NEW L \in [Tokens -> LeaseRecords], TrimLocked(b, L)
    PROVE  /\ \A t \in Tokens : leases'[t].after = L[t].after
           /\ Held(leases') = {t \in Held(L) : ~Overrun(L[t], floor + Len(b))}
<1>1. leases' = Broken(L, floor + Len(b))
  BY DEF TrimLocked
<1>2. ASSUME NEW t \in Tokens
      PROVE  /\ leases'[t].after = L[t].after
             /\ leases'[t].state = "held" <=>
                   L[t].state = "held" /\ ~Overrun(L[t], floor + Len(b))
  BY <1>1 DEF Broken, LeaseRecords, LeaseStates
<1> QED BY <1>2 DEF Held

\* A lease over its budget would reach further back than the ring keeps anything, so
\* a trim that follows no write breaks none.
LEMMA NoLeaseIsOverrun ==
    ASSUME RingInv, NEW t \in Held(leases) PROVE ~Overrun(leases[t], live)
<1>1. /\ floor \in Nat /\ Len(bytes) \in Nat /\ live = floor + Len(bytes)
      /\ leases[t].after \in Nat
  BY LenProperties DEF RingInv, TypeOK, live, Held
<1>2. floor <= leases[t].after /\ leases[t].after <= live
  BY DEF RingInv, HeldLeaseIsRetained
<1>3. Len(bytes) <= Capacity \/ Len(bytes) <= LeaseBuffer
  BY DEF RingInv, RetentionIsBounded
<1> QED BY <1>1, <1>2, <1>3, RingConstants DEF Overrun, CapFloor

\* A trim without t, after no write: the other leases stand.
LEMMA ReleaseKeepsTheOthers ==
    ASSUME RingInv, NEW t \in Tokens, TrimLocked(bytes, Gone(t))
    PROVE  Held(leases') = Held(leases) \ {t} /\ Promises' = Promises
<1>0. leases \in [Tokens -> LeaseRecords]
  BY DEF RingInv, TypeOK, LeaseRecords
<1>1. Gone(t) \in [Tokens -> LeaseRecords]
  BY <1>0 DEF Gone, LeaseRecords, LeaseStates
<1>2. /\ \A u \in Tokens : leases'[u].after = Gone(t)[u].after
      /\ Held(leases') = {u \in Held(Gone(t)) : ~Overrun(Gone(t)[u], live)}
  BY <1>1, TrimLeases DEF live
<1>3. \A u \in Tokens : Gone(t)[u].after = leases[u].after
  BY <1>0 DEF Gone, LeaseRecords
<1>4. /\ Held(Gone(t)) = Held(leases) \ {t}
      /\ \A u \in Held(Gone(t)) : Gone(t)[u] = leases[u]
  BY <1>0 DEF Gone, Held, LeaseRecords
<1>5. \A u \in Held(Gone(t)) : ~Overrun(Gone(t)[u], live)
  BY <1>4, NoLeaseIsOverrun
<1> QED BY <1>2, <1>3, <1>4, <1>5 DEF Promises

\* The window the invariant describes is one Output allows.
LEMMA WindowIsAllowed ==
    ASSUME RingInv', floor \in Nat, floor' >= floor, Promises' = Promises
    PROVE  Log!Forgets
<1>1. floor' \in Nat /\ Len(bytes') \in Nat /\ live' = floor' + Len(bytes')
  BY LenProperties DEF RingInv, TypeOK, live
<1>2. \A t \in Tokens : leases'[t].after = leases[t].after
  BY DEF Promises
<1>3. \A t \in Held(leases') : t \in Tokens /\ floor' <= leases[t].after
  BY <1>2 DEF RingInv, HeldLeaseIsRetained, Held
<1>4. live' - floor' <= Capacity \/ live' - floor' <= LeaseBuffer
  BY <1>1 DEF RingInv, RetentionIsBounded
<1> QED BY <1>1, <1>3, <1>4 DEF Log!Forgets

\* A ring newRing or restore built is an output nobody reads yet.
LEMMA InitImplements == Init => Log!Init
<1> SUFFICES ASSUME Init PROVE Log!Init
  OBVIOUS
<1>1. floor \in Nat /\ Len(bytes) \in Nat /\ live = floor + Len(bytes)
  BY InitEstablishesRingInv, LenProperties DEF RingInv, TypeOK, live
<1>2. Len(bytes) <= Capacity
  <2>1. PICK n \in RestoredSizes, through \in RestoredThrough :
           bytes = Produced(Restore(n, through).through - Restore(n, through).kept,
                            Restore(n, through).kept)
    BY DEF Init
  <2> DEFINE kept == IF n > Capacity THEN Capacity ELSE n
             from == Restore(n, through).through - kept
  <2>2. kept \in Nat /\ kept <= Capacity
    BY RingConstants
  <2>3. bytes = [i \in 1..kept |-> from + i - 1]
    BY <2>1 DEF Restore, Produced
  <2> HIDE DEF kept, from
  <2>4. bytes \in Seq(Nat)
    BY InitEstablishesRingInv DEF RingInv, TypeOK
  <2>5. Len(bytes) = kept
    BY <2>2, <2>3, <2>4, LenProperties
  <2> QED BY <2>2, <2>5
<1>3. Held(leases) = {}
  BY DEF Init, Held
<1>4. Promises = [t \in Tokens |-> 0] /\ Modes = [r \in Readers |-> "idle"]
  BY DEF Init, Promises, Modes
<1>5. ended = FALSE /\ drawn = [r \in Readers |-> 0]
  BY DEF Init
<1> QED BY <1>1, <1>2, <1>3, <1>4, <1>5 DEF Log!Init, Promises, Modes

\* Every operation of ring.go is a step of Output, or none.
LEMMA StepImplements == RingInv /\ RingInv' /\ [Next]_vars => [Log!Next]_(Log!vars)
<1> SUFFICES ASSUME RingInv, RingInv', [Next]_vars PROVE [Log!Next]_(Log!vars)
  OBVIOUS
<1>0. /\ bytes \in Seq(Nat) /\ Len(bytes) \in Nat /\ floor \in Nat
      /\ live \in Nat /\ live = floor + Len(bytes)
      /\ leases \in [Tokens -> LeaseRecords]
      /\ pc \in [Readers -> {"idle", "reading", "parked", "done"}]
      /\ at \in [Readers -> Nat] /\ drawn \in [Readers -> Nat]
  BY LenProperties DEF RingInv, TypeOK, LeaseRecords, live
<1>c. Contents(bytes)
  BY DEF RingInv, BytesKeepTheirCoordinate, Contents
<1>1. ASSUME NEW n \in ChunkSizes, Write(n) PROVE Log!Produce
  <2> DEFINE b == bytes \o Produced(live, n)
  <2>1. n \in Nat \ {0}
    BY RingConstants
  <2>2. b \in Seq(Nat) /\ Len(b) = Len(bytes) + n /\ Contents(b)
    BY <2>1, AppendKeepsCoordinates DEF RingInv
  <2>3. TrimLocked(b, leases)
    BY <1>1 DEF Write
  <2>4. floor' >= floor /\ floor' + Len(bytes') = floor + Len(b)
    <3> HIDE DEF b
    <3> QED BY <1>0, <2>2, <2>3, TrimFacts
  <2>5. /\ \A t \in Tokens : leases'[t].after = leases[t].after
        /\ Held(leases') = {t \in Held(leases) : ~Overrun(leases[t], floor + Len(b))}
    <3> HIDE DEF b
    <3> QED BY <1>0, <2>3, TrimLeases
  <2> HIDE DEF b
  <2>6. live' = live + n /\ live' = floor + Len(b)
    BY <1>0, <2>1, <2>2, <2>4 DEF live
  <2>7. Promises' = Promises
    BY <2>5 DEF Promises
  <2>8. Log!Forgets
    BY <1>0, <2>4, <2>7, WindowIsAllowed
  <2>9. Modes' = Modes /\ UNCHANGED <<ended, drawn>>
    BY <1>0, <1>1 DEF Write, WakeLocked, Modes
  <2>10. ASSUME NEW t \in Held(leases) \ Held(leases')
         PROVE  t \in Tokens /\ live' - leases[t].after > LeaseBuffer
    BY <2>5, <2>6, <2>10 DEF Overrun, Held
  <2>11. Held(leases') \subseteq Held(leases)
    BY <2>5
  <2>12. live' > live
    BY <1>0, <2>1, <2>6
  <2> QED BY <2>7, <2>8, <2>9, <2>10, <2>11, <2>12 DEF Log!Produce, Promises, Modes
<1>2. ASSUME NEW t \in Tokens, NEW after \in 0..MaxSeq, Lease(t, after)
      PROVE  after \in floor..live /\ Log!Promise(t, after)
  <2>1. /\ leases[t].state = "unissued"
        /\ leases' = [leases EXCEPT ![t] = [state |-> "held", after |-> after]]
        /\ after \in floor..live
        /\ UNCHANGED <<bytes, floor, ended, pc, drawn>>
    BY <1>0, <1>2 DEF Lease
  <2>2. t \notin Held(leases) /\ Held(leases') = Held(leases) \cup {t}
    BY <1>0, <2>1 DEF Held
  <2>3. Promises' = [Promises EXCEPT ![t] = after]
    BY <1>0, <2>1 DEF Promises
  <2>4. Modes' = Modes /\ live' = live
    BY <2>1 DEF Modes, live
  <2> QED BY <2>1, <2>2, <2>3, <2>4 DEF Log!Promise, Promises, Modes
<1>t. ASSUME NEW t \in Tokens, TrimLocked(bytes, Gone(t))
      PROVE  /\ Held(leases') = Held(leases) \ {t} /\ Promises' = Promises
             /\ live' = live /\ Log!Forgets
  <2>1. Gone(t) \in [Tokens -> LeaseRecords]
    BY <1>0 DEF Gone, LeaseRecords, LeaseStates
  <2>2. floor' >= floor /\ floor' + Len(bytes') = floor + Len(bytes)
    BY <1>0, <1>c, <1>t, <2>1, TrimFacts
  <2>3. Held(leases') = Held(leases) \ {t} /\ Promises' = Promises
    BY <1>t, ReleaseKeepsTheOthers
  <2>4. Log!Forgets
    BY <1>0, <2>2, <2>3, WindowIsAllowed
  <2> QED BY <2>2, <2>3, <2>4 DEF live
<1>r. ASSUME NEW s \in Readers, pc[s] = "idle", pc' = [pc EXCEPT ![s] = "reading"]
      PROVE  Modes[s] = "idle" /\ Modes' = [Modes EXCEPT ![s] = "reading"]
  BY <1>0, <1>r DEF Modes
<1>3. ASSUME NEW t \in Tokens, NEW s \in Readers, ConsumeLease(t, s)
      PROVE  Log!Redeem(t, s) \/ Log!Release(t)
  <2>1. TrimLocked(bytes, Gone(t)) /\ UNCHANGED ended
    BY <1>3 DEF ConsumeLease
  <2>2. /\ Held(leases') = Held(leases) \ {t} /\ Promises' = Promises
        /\ live' = live /\ Log!Forgets
    BY <1>t, <2>1
  <2>3. CASE leases[t].state = "broken" \/ leases[t].after < floor
    <3>1. UNCHANGED <<pc, drawn>>
      BY <1>3, <2>3 DEF ConsumeLease
    <3>2. Modes' = Modes
      BY <3>1 DEF Modes
    <3> QED BY <2>1, <2>2, <3>1, <3>2 DEF Log!Release, Promises, Modes
  <2>4. CASE ~(leases[t].state = "broken" \/ leases[t].after < floor)
    <3>1. /\ pc[s] = "idle" /\ leases[t].state = "held"
          /\ pc' = [pc EXCEPT ![s] = "reading"]
          /\ drawn' = [drawn EXCEPT ![s] = leases[t].after]
      BY <1>3, <2>4 DEF ConsumeLease
    <3>2. t \in Held(leases) /\ Promises[t] = leases[t].after
      BY <3>1 DEF Held, Promises
    <3>3. Modes[s] = "idle" /\ Modes' = [Modes EXCEPT ![s] = "reading"]
      BY <1>r, <3>1
    <3> QED BY <2>1, <2>2, <3>1, <3>2, <3>3 DEF Log!Redeem, Log!Stands, Promises, Modes
  <2> QED BY <2>3, <2>4
<1>4. ASSUME NEW t \in Tokens, ExpireLease(t) PROVE Log!Release(t)
  <2>1. TrimLocked(bytes, Gone(t)) /\ UNCHANGED <<ended, pc, drawn>>
    BY <1>4 DEF ExpireLease
  <2>2. /\ Held(leases') = Held(leases) \ {t} /\ Promises' = Promises
        /\ live' = live /\ Log!Forgets
    BY <1>t, <2>1
  <2>3. Modes' = Modes
    BY <2>1 DEF Modes
  <2> QED BY <2>1, <2>2, <2>3 DEF Log!Release, Promises, Modes
<1>u. ASSUME UNCHANGED <<bytes, floor, leases>>
      PROVE  UNCHANGED <<live, floor, Held(leases), Promises>>
  BY <1>u DEF live, Promises, Held
<1>5. CASE End
  <2>1. ended' = TRUE /\ UNCHANGED <<bytes, floor, leases, drawn>> /\ Modes' = Modes
    BY <1>0, <1>5 DEF End, WakeLocked, Modes
  <2>2. Log!Finish
    BY <1>u, <2>1 DEF Log!Finish, Promises, Modes
  <2> QED BY <2>2 DEF Log!Next
<1>6. ASSUME NEW s \in Readers, ResolveLive(s) PROVE live \in floor..live /\ Log!Join(s, live)
  <2>1. /\ pc[s] = "idle" /\ pc' = [pc EXCEPT ![s] = "reading"]
        /\ drawn' = [drawn EXCEPT ![s] = live] /\ UNCHANGED <<bytes, floor, ended, leases>>
    BY <1>6 DEF ResolveLive
  <2>2. Modes[s] = "idle" /\ Modes' = [Modes EXCEPT ![s] = "reading"]
    BY <1>r, <2>1
  <2> QED BY <1>0, <1>u, <2>1, <2>2 DEF Log!Join, Log!Stands, Promises, Modes
<1>7. ASSUME NEW s \in Readers, NEW from \in 0..MaxSeq, Resolve(s, from)
      PROVE  \E start \in floor..live : Log!Join(s, start)
  <2> DEFINE start == IF from < floor \/ from > live THEN floor ELSE from
  <2>1. start \in floor..live
    BY <1>0, RingConstants
  <2>2. /\ pc[s] = "idle" /\ pc' = [pc EXCEPT ![s] = "reading"]
        /\ drawn' = [drawn EXCEPT ![s] = start] /\ UNCHANGED <<bytes, floor, ended, leases>>
    BY <1>7 DEF Resolve
  <2> HIDE DEF start
  <2>3. Modes[s] = "idle" /\ Modes' = [Modes EXCEPT ![s] = "reading"]
    BY <1>r, <2>2
  <2> QED BY <1>u, <2>1, <2>2, <2>3 DEF Log!Join, Log!Stands, Promises, Modes
<1>8. ASSUME NEW s \in Readers, ReadBytes(s) PROVE Log!Draw(s)
  <2>1. /\ pc[s] = "reading" /\ ReadFrom(s) < live
        /\ at' = [at EXCEPT ![s] = live]
        /\ \E end : drawn' = [drawn EXCEPT ![s] = end]
        /\ UNCHANGED <<bytes, floor, ended, leases, pc>>
    BY <1>8 DEF ReadBytes
  <2>2. at[s] < live /\ at[s] = drawn[s]
    BY <1>0, <2>1 DEF ReadFrom, RingInv, CursorIsWhatWasDrawn
  <2>3. pc'[s] # "idle" /\ at'[s] = live
    BY <1>0, <2>1
  <2>4. drawn'[s] = live
    BY <2>3 DEF RingInv, CursorIsWhatWasDrawn
  <2>5. drawn' = [drawn EXCEPT ![s] = live]
    BY <1>0, <2>1, <2>4
  <2>6. Modes[s] = "reading" /\ Modes' = Modes
    BY <2>1 DEF Modes
  <2> QED BY <1>u, <2>1, <2>2, <2>5, <2>6 DEF Log!Draw, Promises, Modes
<1>9. ASSUME NEW s \in Readers, ReadEnded(s) PROVE Log!Complete(s)
  <2>1. /\ pc[s] = "reading" /\ ReadFrom(s) >= live /\ ended
        /\ pc' = [pc EXCEPT ![s] = "done"]
        /\ UNCHANGED <<bytes, floor, ended, leases, drawn>>
    BY <1>9 DEF ReadEnded
  <2>2. at[s] = drawn[s] /\ at[s] <= live /\ (at[s] >= floor \/ Len(bytes) > 0)
    BY <2>1 DEF RingInv, CursorIsWhatWasDrawn, OvertakenReaderHasBytes
  <2>3. drawn[s] = live
    BY <1>0, <2>1, <2>2 DEF ReadFrom
  <2>4. Modes[s] = "reading" /\ Modes' = [Modes EXCEPT ![s] = "done"]
    BY <1>0, <2>1 DEF Modes
  <2> QED BY <1>u, <2>1, <2>3, <2>4 DEF Log!Complete, Promises, Modes
<1>10. ASSUME NEW s \in Readers, ReadParks(s) PROVE UNCHANGED Log!vars
  <2>1. /\ pc[s] = "reading" /\ pc' = [pc EXCEPT ![s] = "parked"]
        /\ UNCHANGED <<bytes, floor, ended, leases, drawn>>
    BY <1>10 DEF ReadParks
  <2>2. Modes' = Modes
    BY <1>0, <2>1 DEF Modes
  <2> QED BY <1>u, <2>1, <2>2 DEF Log!vars, Promises, Modes
<1>11. ASSUME NEW s \in Readers, Leave(s) PROVE Log!Depart(s)
  <2>1. /\ pc' = [pc EXCEPT ![s] = "idle"] /\ drawn' = [drawn EXCEPT ![s] = 0]
        /\ UNCHANGED <<bytes, floor, ended, leases>>
    BY <1>11 DEF Leave
  <2>2. Modes' = [Modes EXCEPT ![s] = "idle"]
    BY <1>0, <2>1 DEF Modes
  <2> QED BY <1>u, <2>1, <2>2 DEF Log!Depart, Promises, Modes
<1>12. CASE UNCHANGED vars
  <2>1. UNCHANGED <<bytes, floor, ended, leases, pc, drawn>>
    BY <1>12 DEF vars
  <2>2. Modes' = Modes
    BY <2>1 DEF Modes
  <2> QED BY <1>u, <2>1, <2>2 DEF Log!vars, Promises, Modes
<1> QED
  BY <1>1, <1>2, <1>3, <1>4, <1>5, <1>6, <1>7, <1>8, <1>9, <1>10, <1>11, <1>12
     DEF Next, Log!Next

----------------------------------------------------------------------------
\* The ring implements Output whatever the sizes: no operation of ring.go, in any order
\* and with any number of leases and readers, does what Output does not allow.
THEOREM RingImplementsOutput == Spec => RingIsAnOutput
<1>1. RingInv /\ RingInv' /\ [Next]_vars => [Log!Next]_(Log!vars)
  BY StepImplements
<1>2. Init => Log!Init
  BY InitImplements
<1> QED BY <1>1, <1>2, RingInvariance, PTL DEF Spec, RingIsAnOutput, Log!Spec
=============================================================================

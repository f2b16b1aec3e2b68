----------------------------- MODULE FlowProofs -----------------------------
(***************************************************************************)
(* Flow control, for any number of connections and tokens, any watermarks, *)
(* chunk sizes and cursors, and everything the environment may do.         *)
(*                                                                         *)
(* Every step of the session leaves its ring alone or is one operation of  *)
(* the ring, so what RingProofs shows of the ring holds here.  Only the    *)
(* pump moves the live edge, and never while it waits: an ack taken while  *)
(* it waits has read the live edge the pump waits at.                      *)
(***************************************************************************)
EXTENDS Flow, RingProofs

\* A generation is given to one handler, and the newest is the session's.
GenerationsAreGivenOnce ==
    /\ \A r \in Readers : mygen[r] <= gen
    /\ \A r, s \in Readers : mygen[r] = mygen[s] /\ mygen[r] # 0 => r = s
    /\ seen <= gen

\* Nobody acks what was not written.
AckedWasWritten == acked <= written

\* A detach the pump has not looked at since it asked has left a token.
DetachLeavesAToken == pump \in {"behind?", "wait"} /\ resume = 0 => attached

\* An ack that brought the renderer below the low mark of a pump that waits is about
\* to look, with the position the pump waits at.
ReleaseIsComing ==
    pump = "wait" /\ resume = 0 /\ written - acked <= LowWatermark =>
        \E r \in Readers : ack[r].step = "release?" /\ ack[r].written = written

\* Who the renderer is.
RendererFacts == RendererMarkIsExact /\ GenerationsAreGivenOnce

\* What the pump is held by.
PumpFacts ==
    /\ AckedWasWritten
    /\ DetachLeavesAToken
    /\ ReleaseIsComing
    /\ PumpHoldsForTheRenderer

\* The conjunction that every step preserves.
FlowInv ==
    /\ RingInv
    /\ FlowTypeOK
    /\ RendererFacts
    /\ PumpFacts

----------------------------------------------------------------------------
\* Every step of the session is one operation of its ring or leaves the ring alone.
LEMMA StepRunsTheRing == [FlowNext]_flowVars => [Next]_vars
<1> SUFFICES ASSUME [FlowNext]_flowVars PROVE [Next]_vars
  OBVIOUS
<1> USE DEF Next
<1>1. CASE PumpStep
  BY <1>1 DEF PumpStep, PumpAsksAttached, PumpAsksBehind, PumpWakes, PumpEndsRing, PumpReaps
<1>2. CASE CloserStep
  BY <1>2 DEF CloserStep, CloserMarksClosed, CloserTerminates, CloserEndsRing
<1>3. ASSUME NEW r \in Readers, HandlerStep(r) PROVE [Next]_vars
  BY <1>3 DEF HandlerStep, AttachResolvesLive, AttachLeaseStands, AttachLeaseBroken,
              AttachLeaseGone, StreamReads, StreamParks, StreamSeesEnd, StreamReturns,
              HandlerDetaches, HandlerGone, AckReleases
<1>4. ASSUME NEW r \in Readers, ClientStep(r) PROVE [Next]_vars
  BY <1>4 DEF ClientStep, StreamDelivers, ClientAcks, AckTaken
<1>5. CASE Environment
  BY <1>5, FlowConstants DEF Environment, PumpReads, ShellExits, CloseRequested, DetachActive,
     Attach, AttachResolves, PeerDies, ClientMiscounts, AckTaken, LeaseIssued, LeaseExpires,
     AttachLease
<1>6. CASE UNCHANGED flowVars
  BY <1>6 DEF flowVars
<1> QED BY <1>1, <1>2, <1>3, <1>4, <1>5, <1>6 DEF FlowNext

\* The live edge is a number.
LEMMA WrittenIsANumber == RingInv => written \in Nat
BY LenProperties DEF RingInv, TypeOK, written, live

\* Only the pump's read moves the live edge, and only forward.
LEMMA OnlyThePumpWrites ==
    ASSUME RingInv, FlowNext
    PROVE  \/ written' = written
           \/ /\ pump = "read" /\ pump' = "attached?" /\ written' >= written
              /\ UNCHANGED <<sessionVars, connVars>>
<1> DEFINE Pumped == /\ pump = "read" /\ pump' = "attached?" /\ written' >= written
                     /\ UNCHANGED <<sessionVars, connVars>>
<1>0. /\ bytes \in Seq(Nat) /\ floor \in Nat /\ Len(bytes) \in Nat
      /\ leases \in [Tokens -> LeaseRecords] /\ Contents(bytes)
  BY LenProperties DEF RingInv, TypeOK, LeaseRecords, BytesKeepTheirCoordinate, Contents
<1>t. ASSUME NEW t \in Tokens, TrimLocked(bytes, Gone(t)) PROVE written' = written
  <2>1. Gone(t) \in [Tokens -> LeaseRecords]
    BY <1>0 DEF Gone, LeaseRecords, LeaseStates
  <2> QED BY <1>0, <1>t, <2>1, TrimFacts DEF written, live
<1>u. (UNCHANGED vars \/ UNCHANGED <<bytes, floor>>) => written' = written
  BY DEF vars, written, live
<1>1. CASE PumpStep
  BY <1>1, <1>u DEF PumpStep, PumpAsksAttached, PumpAsksBehind, PumpWakes, PumpEndsRing,
     PumpReaps, End
<1>2. CASE CloserStep
  BY <1>2, <1>u DEF CloserStep, CloserMarksClosed, CloserTerminates, CloserEndsRing, End
<1>3. ASSUME NEW r \in Readers, HandlerStep(r) PROVE written' = written
  BY <1>3, <1>t, <1>u DEF HandlerStep, AttachResolvesLive, AttachLeaseStands,
     AttachLeaseBroken, AttachLeaseGone, StreamReads, StreamParks, StreamSeesEnd,
     StreamReturns, HandlerDetaches, HandlerGone, AckReleases, ResolveLive, ConsumeLease,
     ReadBytes, ReadParks, ReadEnded, Leave
<1>4. ASSUME NEW r \in Readers, ClientStep(r) PROVE written' = written
  BY <1>4, <1>u DEF ClientStep, StreamDelivers, ClientAcks, AckTaken
<1>5. ASSUME NEW n \in ChunkSizes, PumpReads(n) PROVE Pumped
  <2> DEFINE b == bytes \o Produced(live, n)
  <2>1. n \in Nat /\ b \in Seq(Nat) /\ Len(b) = Len(bytes) + n /\ Contents(b)
    BY <1>0, RingConstants, AppendKeepsCoordinates DEF RingInv
  <2>2. TrimLocked(b, leases)
    BY <1>5 DEF PumpReads, Write
  <2> HIDE DEF b
  <2>3. floor' + Len(bytes') = floor + Len(bytes) + n
    BY <1>0, <2>1, <2>2, TrimFacts
  <2>4. written' >= written
    BY <1>0, <2>1, <2>3 DEF written, live
  <2> QED BY <1>5, <2>4 DEF PumpReads
<1>6. CASE Environment
  BY <1>6, <1>t, <1>u, <1>5 DEF Environment, ShellExits, CloseRequested, DetachActive,
     Attach, AttachResolves, PeerDies, ClientMiscounts, AckTaken, LeaseIssued, LeaseExpires,
     AttachLease, Resolve, Lease, ExpireLease
<1> QED BY <1>1, <1>2, <1>3, <1>4, <1>6 DEF FlowNext

\* A session that opens has no renderer, and its pump reads.
LEMMA InitEstablishesFlowInv == FlowInit => FlowInv
<1> SUFFICES ASSUME FlowInit PROVE FlowInv
  OBVIOUS
<1>1. RingInv
  BY InitEstablishesRingInv DEF FlowInit
<1>2. FlowTypeOK
  <2>1. ack \in [Readers -> [step : {"none", "release?"}, written : Nat]]
    BY DEF FlowInit, NoAck
  <2>2. /\ attached \in BOOLEAN /\ closed \in BOOLEAN /\ registered \in BOOLEAN
        /\ miscounted \in BOOLEAN /\ dismissed \in BOOLEAN
        /\ peer \in [Readers -> BOOLEAN] /\ owes \in [Readers -> BOOLEAN]
    BY DEF FlowInit
  <2>3. /\ acked \in Nat /\ gen \in Nat /\ resume \in 0..1 /\ seen \in Nat
        /\ mygen \in [Readers -> Nat] /\ sent \in [Readers -> Nat]
    BY DEF FlowInit
  <2>4. conn \in [Readers -> Tokens \cup HandlerPlaces]
    BY DEF FlowInit, HandlerPlaces
  <2> QED BY <1>1, <2>1, <2>2, <2>3, <2>4 DEF FlowInit, FlowTypeOK, RingInv
<1>3. RendererMarkIsExact /\ GenerationsAreGivenOnce /\ DetachLeavesAToken
      /\ PumpHoldsForTheRenderer
  BY DEF FlowInit, RendererMarkIsExact, GenerationsAreGivenOnce, DetachLeavesAToken,
     PumpHoldsForTheRenderer
<1>4. AckedWasWritten /\ ReleaseIsComing
  BY <1>1, WrittenIsANumber DEF FlowInit, AckedWasWritten, ReleaseIsComing
<1> QED BY <1>1, <1>2, <1>3, <1>4 DEF FlowInv, RendererFacts, PumpFacts

\* Every operation keeps the types.
LEMMA TypesAreKept ==
    ASSUME FlowInv, RingInv', FlowNext PROVE FlowTypeOK'
<1>a. TypeOK'
  BY DEF RingInv
<1>b. FlowTypeOK
  BY DEF FlowInv
<1>w. written \in Nat
  BY WrittenIsANumber DEF FlowInv
<1>k. Cursors \subseteq Nat /\ AckOnAttach \in BOOLEAN
  BY FlowConstants, RingConstants
<1> USE <1>k DEF FlowTypeOK, HandlerPlaces
<1>1. CASE PumpAsksAttached
  BY <1>1, <1>a, <1>b DEF PumpAsksAttached, sessionVars, procVars, connVars
<1>2. CASE PumpAsksBehind
  BY <1>2, <1>a, <1>b DEF PumpAsksBehind, sessionVars, procVars, connVars
<1>3. CASE PumpWakes
  BY <1>3, <1>a, <1>b DEF PumpWakes, sessionVars, procVars, connVars
<1>4. CASE PumpEndsRing
  BY <1>4, <1>a, <1>b DEF PumpEndsRing, sessionVars, procVars, connVars
<1>5. CASE PumpReaps
  BY <1>5, <1>a, <1>b DEF PumpReaps, sessionVars, procVars, connVars
<1>6. CASE CloserMarksClosed
  BY <1>6, <1>a, <1>b DEF CloserMarksClosed, sessionVars, procVars, connVars
<1>7. CASE CloserTerminates
  BY <1>7, <1>a, <1>b DEF CloserTerminates, sessionVars, procVars, connVars
<1>8. CASE CloserEndsRing
  BY <1>8, <1>a, <1>b DEF CloserEndsRing, sessionVars, procVars, connVars
<1>9. ASSUME NEW r \in Readers, AttachResolvesLive(r) PROVE FlowTypeOK'
  <2>1. conn' \in [Readers -> Tokens \cup HandlerPlaces]
    BY <1>9, <1>b DEF AttachResolvesLive, Answered
  <2>2. sent' \in [Readers -> Nat]
    BY <1>9, <1>a, <1>b DEF AttachResolvesLive, Answered, TypeOK
  <2>3. owes' \in [Readers -> BOOLEAN] /\ owner' \in Readers \cup {"nobody"}
    BY <1>9, <1>b DEF AttachResolvesLive, Answered
  <2> QED BY <1>9, <1>a, <1>b, <2>1, <2>2, <2>3 DEF AttachResolvesLive, sessionVars, procVars,
       connVars
<1>10. ASSUME NEW r \in Readers, NEW t \in Tokens, AttachLeaseStands(r, t) PROVE FlowTypeOK'
  <2>1. conn' \in [Readers -> Tokens \cup HandlerPlaces]
    BY <1>10, <1>b DEF AttachLeaseStands, Answered
  <2>2. sent' \in [Readers -> Nat]
    BY <1>10, <1>b DEF AttachLeaseStands, Answered, TypeOK
  <2>3. owes' \in [Readers -> BOOLEAN] /\ owner' \in Readers \cup {"nobody"}
    BY <1>10, <1>b DEF AttachLeaseStands, Answered
  <2> QED BY <1>10, <1>a, <1>b, <2>1, <2>2, <2>3 DEF AttachLeaseStands, sessionVars, procVars,
       connVars
<1>11. ASSUME NEW r \in Readers, NEW t \in Tokens, AttachLeaseBroken(r, t) PROVE FlowTypeOK'
  BY <1>11, <1>a, <1>b DEF AttachLeaseBroken, sessionVars, procVars, connVars
<1>12. ASSUME NEW r \in Readers, NEW t \in Tokens, AttachLeaseGone(r, t) PROVE FlowTypeOK'
  BY <1>12, <1>a, <1>b DEF AttachLeaseGone, sessionVars, procVars, connVars
<1>13. ASSUME NEW r \in Readers, StreamReads(r) PROVE FlowTypeOK'
  BY <1>13, <1>a, <1>b DEF StreamReads, sessionVars, procVars, connVars
<1>14. ASSUME NEW r \in Readers, StreamParks(r) PROVE FlowTypeOK'
  BY <1>14, <1>a, <1>b DEF StreamParks, sessionVars, procVars, connVars
<1>15. ASSUME NEW r \in Readers, StreamSeesEnd(r) PROVE FlowTypeOK'
  BY <1>15, <1>a, <1>b DEF StreamSeesEnd, sessionVars, procVars, connVars
<1>16. ASSUME NEW r \in Readers, StreamReturns(r) PROVE FlowTypeOK'
  BY <1>16, <1>a, <1>b DEF StreamReturns, sessionVars, procVars, connVars
<1>17. ASSUME NEW r \in Readers, HandlerDetaches(r) PROVE FlowTypeOK'
  BY <1>17, <1>a, <1>b DEF HandlerDetaches, HandlerGone, sessionVars, procVars, connVars
<1>18. ASSUME NEW r \in Readers, AckReleases(r) PROVE FlowTypeOK'
  BY <1>18, <1>a, <1>b DEF AckReleases, NoAck, sessionVars, procVars, connVars
<1>19. ASSUME NEW r \in Readers, StreamDelivers(r) PROVE FlowTypeOK'
  <2>1. sent' \in [Readers -> Nat] /\ owes' \in [Readers -> BOOLEAN]
    BY <1>19, <1>b DEF StreamDelivers, TypeOK
  <2> QED BY <1>19, <1>a, <1>b, <2>1 DEF StreamDelivers, sessionVars, procVars, connVars
<1>20. ASSUME NEW r \in Readers, ClientAcks(r) PROVE FlowTypeOK'
  <2>1. acked' \in Nat
    BY <1>20, <1>b, <1>w DEF ClientAcks, AckTaken, ClampedAck
  <2>2. ack' \in [Readers -> [step : {"none", "release?"}, written : Nat]]
    BY <1>20, <1>b, <1>w DEF ClientAcks, AckTaken
  <2>3. owes' \in [Readers -> BOOLEAN] /\ miscounted' \in BOOLEAN
    BY <1>20, <1>b DEF ClientAcks
  <2> QED BY <1>20, <1>a, <1>b, <2>1, <2>2, <2>3 DEF ClientAcks, AckTaken, sessionVars,
       procVars, connVars
<1>21. ASSUME NEW n \in ChunkSizes, PumpReads(n) PROVE FlowTypeOK'
  BY <1>21, <1>a, <1>b DEF PumpReads, sessionVars, procVars, connVars
<1>22. CASE ShellExits
  BY <1>22, <1>a, <1>b DEF ShellExits, sessionVars, procVars, connVars
<1>23. CASE CloseRequested
  BY <1>23, <1>a, <1>b DEF CloseRequested, sessionVars, procVars, connVars
<1>24. CASE DetachActive
  <2>1. attached' \in BOOLEAN /\ dismissed' \in BOOLEAN
    BY <1>24 DEF DetachActive
  <2>2. owner' \in Readers \cup {"nobody"} /\ resume' \in 0..1
    BY <1>24 DEF DetachActive
  <2> QED BY <1>24, <1>a, <1>b, <2>1, <2>2 DEF DetachActive, sessionVars, procVars, connVars
<1>25. ASSUME NEW r \in Readers, Attach(r) PROVE FlowTypeOK'
  <2>1. conn' \in [Readers -> Tokens \cup HandlerPlaces] /\ table' \subseteq Tokens
    BY <1>25, <1>b DEF Attach
  <2>2. mygen' \in [Readers -> Nat] /\ gen' \in Nat
    BY <1>25, <1>b DEF Attach, TakesRenderer
  <2>3. attached' \in BOOLEAN /\ dismissed' \in BOOLEAN
    BY <1>25 DEF Attach, TakesRenderer
  <2> QED BY <1>25, <1>a, <1>b, <2>1, <2>2, <2>3 DEF Attach, sessionVars, procVars, connVars
<1>26. ASSUME NEW r \in Readers, NEW from \in Cursors, AttachResolves(r, from)
     PROVE FlowTypeOK'
  <2>1. conn' \in [Readers -> Tokens \cup HandlerPlaces]
    BY <1>26, <1>b DEF AttachResolves, Answered
  <2>2. sent' \in [Readers -> Nat]
    BY <1>26, <1>a, <1>b DEF AttachResolves, Answered, TypeOK
  <2>3. owes' \in [Readers -> BOOLEAN] /\ owner' \in Readers \cup {"nobody"}
    BY <1>26, <1>b DEF AttachResolves, Answered
  <2> QED BY <1>26, <1>a, <1>b, <2>1, <2>2, <2>3 DEF AttachResolves, sessionVars, procVars,
       connVars
<1>27. ASSUME NEW r \in Readers, PeerDies(r) PROVE FlowTypeOK'
  BY <1>27, <1>a, <1>b DEF PeerDies, sessionVars, procVars, connVars
<1>28. ASSUME NEW r \in Readers, NEW n \in Cursors, ClientMiscounts(r, n) PROVE FlowTypeOK'
  <2>1. acked' \in Nat
    BY <1>28, <1>b, <1>w DEF ClientMiscounts, AckTaken, ClampedAck
  <2>2. ack' \in [Readers -> [step : {"none", "release?"}, written : Nat]]
    BY <1>28, <1>b, <1>w DEF ClientMiscounts, AckTaken
  <2>3. owes' \in [Readers -> BOOLEAN] /\ miscounted' \in BOOLEAN
    BY <1>28, <1>b DEF ClientMiscounts
  <2> QED BY <1>28, <1>a, <1>b, <2>1, <2>2, <2>3 DEF ClientMiscounts, AckTaken, sessionVars,
       procVars, connVars
<1>29. ASSUME NEW t \in Tokens, NEW after \in Cursors, LeaseIssued(t, after) PROVE FlowTypeOK'
  BY <1>29, <1>a, <1>b DEF LeaseIssued, sessionVars, procVars, connVars
<1>30. ASSUME NEW t \in Tokens, LeaseExpires(t) PROVE FlowTypeOK'
  BY <1>30, <1>a, <1>b DEF LeaseExpires, sessionVars, procVars, connVars
<1>31. ASSUME NEW r \in Readers, NEW t \in Tokens, AttachLease(r, t) PROVE FlowTypeOK'
  <2>1. conn' \in [Readers -> Tokens \cup HandlerPlaces] /\ table' \subseteq Tokens
    BY <1>31, <1>b DEF AttachLease
  <2>2. mygen' \in [Readers -> Nat] /\ gen' \in Nat
    BY <1>31, <1>b DEF AttachLease, TakesRenderer
  <2>3. attached' \in BOOLEAN /\ dismissed' \in BOOLEAN
    BY <1>31 DEF AttachLease, TakesRenderer
  <2> QED BY <1>31, <1>a, <1>b, <2>1, <2>2, <2>3 DEF AttachLease, sessionVars, procVars,
       connVars
<1> QED BY <1>1, <1>2, <1>3, <1>4, <1>5, <1>6, <1>7, <1>8, <1>9, <1>10, <1>11, <1>12, <1>13,
     <1>14, <1>15, <1>16, <1>17, <1>18, <1>19, <1>20, <1>21, <1>22, <1>23, <1>24, <1>25,
     <1>26, <1>27, <1>28, <1>29, <1>30, <1>31
     DEF FlowNext, PumpStep, CloserStep, HandlerStep, ClientStep, Environment

\* The last handler to attach is the renderer, through every operation.
LEMMA RendererIsKept ==
    ASSUME FlowInv, RingInv', FlowNext PROVE RendererFacts'
<1>a. FlowTypeOK /\ RendererFacts
  BY DEF FlowInv
<1> USE FlowConstants DEF FlowTypeOK, HandlerPlaces, RendererFacts, RendererMarkIsExact,
     GenerationsAreGivenOnce
<1>1. CASE PumpAsksAttached
  BY <1>1, <1>a DEF PumpAsksAttached, sessionVars, procVars, connVars
<1>2. CASE PumpAsksBehind
  BY <1>2, <1>a DEF PumpAsksBehind, sessionVars, procVars, connVars
<1>3. CASE PumpWakes
  BY <1>3, <1>a DEF PumpWakes, sessionVars, procVars, connVars
<1>4. CASE PumpEndsRing
  BY <1>4, <1>a DEF PumpEndsRing, sessionVars, procVars, connVars
<1>5. CASE PumpReaps
  BY <1>5, <1>a DEF PumpReaps, sessionVars, procVars, connVars
<1>6. CASE CloserMarksClosed
  BY <1>6, <1>a DEF CloserMarksClosed, sessionVars, procVars, connVars
<1>7. CASE CloserTerminates
  BY <1>7, <1>a DEF CloserTerminates, sessionVars, procVars, connVars
<1>8. CASE CloserEndsRing
  BY <1>8, <1>a DEF CloserEndsRing, sessionVars, procVars, connVars
<1>9. ASSUME NEW r \in Readers, AttachResolvesLive(r) PROVE RendererFacts'
  BY <1>9, <1>a DEF AttachResolvesLive, Answered, sessionVars, procVars, connVars
<1>10. ASSUME NEW r \in Readers, NEW t \in Tokens, AttachLeaseStands(r, t) PROVE RendererFacts'
  BY <1>10, <1>a DEF AttachLeaseStands, Answered, sessionVars, procVars, connVars
<1>11. ASSUME NEW r \in Readers, NEW t \in Tokens, AttachLeaseBroken(r, t) PROVE RendererFacts'
  BY <1>11, <1>a DEF AttachLeaseBroken, sessionVars, procVars, connVars
<1>12. ASSUME NEW r \in Readers, NEW t \in Tokens, AttachLeaseGone(r, t) PROVE RendererFacts'
  BY <1>12, <1>a DEF AttachLeaseGone, sessionVars, procVars, connVars
<1>13. ASSUME NEW r \in Readers, StreamReads(r) PROVE RendererFacts'
  BY <1>13, <1>a DEF StreamReads, sessionVars, procVars, connVars
<1>14. ASSUME NEW r \in Readers, StreamParks(r) PROVE RendererFacts'
  BY <1>14, <1>a DEF StreamParks, sessionVars, procVars, connVars
<1>15. ASSUME NEW r \in Readers, StreamSeesEnd(r) PROVE RendererFacts'
  BY <1>15, <1>a DEF StreamSeesEnd, sessionVars, procVars, connVars
<1>16. ASSUME NEW r \in Readers, StreamReturns(r) PROVE RendererFacts'
  <2>1. /\ conn' = [conn EXCEPT ![r] = "leaving"] /\ conn[r] \notin {"new", "closed"}
        /\ UNCHANGED <<gen, attached, mygen, dismissed, seen>>
    BY <1>16 DEF StreamReturns, Streaming, sessionVars
  <2> QED BY <1>a, <2>1
<1>17. ASSUME NEW r \in Readers, HandlerDetaches(r) PROVE RendererFacts'
  BY <1>17, <1>a DEF HandlerDetaches, HandlerGone, sessionVars, procVars, connVars
<1>18. ASSUME NEW r \in Readers, AckReleases(r) PROVE RendererFacts'
  BY <1>18, <1>a DEF AckReleases, NoAck, sessionVars, procVars, connVars
<1>19. ASSUME NEW r \in Readers, StreamDelivers(r) PROVE RendererFacts'
  BY <1>19, <1>a DEF StreamDelivers, sessionVars, procVars, connVars
<1>20. ASSUME NEW r \in Readers, ClientAcks(r) PROVE RendererFacts'
  BY <1>20, <1>a DEF ClientAcks, AckTaken, NoAck, sessionVars, procVars, connVars
<1>21. ASSUME NEW n \in ChunkSizes, PumpReads(n) PROVE RendererFacts'
  BY <1>21, <1>a DEF PumpReads, sessionVars, procVars, connVars
<1>22. CASE ShellExits
  BY <1>22, <1>a DEF ShellExits, sessionVars, procVars, connVars
<1>23. CASE CloseRequested
  BY <1>23, <1>a DEF CloseRequested, sessionVars, procVars, connVars
<1>24. CASE DetachActive
  BY <1>24, <1>a DEF DetachActive, sessionVars, procVars, connVars
<1>25. ASSUME NEW r \in Readers, Attach(r) PROVE RendererFacts'
  BY <1>25, <1>a DEF Attach, TakesRenderer, sessionVars, procVars, connVars
<1>26. ASSUME NEW r \in Readers, NEW from \in Cursors, AttachResolves(r, from)
     PROVE RendererFacts'
  BY <1>26, <1>a DEF AttachResolves, Answered, sessionVars, procVars, connVars
<1>27. ASSUME NEW r \in Readers, PeerDies(r) PROVE RendererFacts'
  BY <1>27, <1>a DEF PeerDies, sessionVars, procVars, connVars
<1>28. ASSUME NEW r \in Readers, NEW n \in Cursors, ClientMiscounts(r, n) PROVE RendererFacts'
  BY <1>28, <1>a DEF ClientMiscounts, AckTaken, NoAck, sessionVars, procVars, connVars
<1>29. ASSUME NEW t \in Tokens, NEW after \in Cursors, LeaseIssued(t, after)
     PROVE RendererFacts'
  BY <1>29, <1>a DEF LeaseIssued, sessionVars, procVars, connVars
<1>30. ASSUME NEW t \in Tokens, LeaseExpires(t) PROVE RendererFacts'
  BY <1>30, <1>a DEF LeaseExpires, sessionVars, procVars, connVars
<1>31. ASSUME NEW r \in Readers, NEW t \in Tokens, AttachLease(r, t) PROVE RendererFacts'
  BY <1>31, <1>a DEF AttachLease, TakesRenderer, sessionVars, procVars, connVars
<1> QED BY <1>1, <1>2, <1>3, <1>4, <1>5, <1>6, <1>7, <1>8, <1>9, <1>10, <1>11, <1>12, <1>13,
     <1>14, <1>15, <1>16, <1>17, <1>18, <1>19, <1>20, <1>21, <1>22, <1>23, <1>24, <1>25,
     <1>26, <1>27, <1>28, <1>29, <1>30, <1>31
     DEF FlowNext, PumpStep, CloserStep, HandlerStep, ClientStep, Environment

\* The pump waits with a reason, and runs only where it may.
LEMMA PumpIsKept ==
    ASSUME FlowInv, RingInv', FlowNext PROVE PumpFacts'
<1>a. FlowTypeOK /\ RendererFacts /\ PumpFacts
  BY DEF FlowInv
<1>b. written \in Nat /\ written' \in Nat
  <2>1. RingInv' => written' \in Nat
    BY LenProperties DEF RingInv, TypeOK, written, live
  <2> QED BY <2>1, WrittenIsANumber DEF FlowInv
<1>c. \/ written' = written
      \/ /\ pump = "read" /\ pump' = "attached?" /\ written' >= written
         /\ UNCHANGED <<sessionVars, connVars>>
  BY OnlyThePumpWrites DEF FlowInv
<1>k. LowWatermark \in Nat /\ HighWatermark \in Nat /\ LowWatermark < HighWatermark
      /\ Cursors \subseteq Nat
  BY FlowConstants, RingConstants DEF HighWatermark
<1> HIDE DEF written, HighWatermark
<1> USE <1>k DEF FlowTypeOK, PumpFacts, AckedWasWritten, DetachLeavesAToken, ReleaseIsComing,
     PumpHoldsForTheRenderer
<1>f. ASSUME UNCHANGED <<pump, acked, gen, attached, resume, ack, seen>> PROVE PumpFacts'
  BY <1>f, <1>a, <1>b, <1>c
<1>g. ASSUME NEW r \in Readers, NEW m \in Nat, AckTaken(r, m) PROVE PumpFacts'
  <2>0. /\ UNCHANGED <<pump, gen, attached, resume, seen>> /\ written' = written
        /\ ack' = [ack EXCEPT ![r] = [step |-> "release?", written |-> written]]
        /\ acked' = ClampedAck(m)
    BY <1>g, <1>b, <1>c DEF AckTaken, procVars
  <2>1. acked' \in Nat /\ acked' >= acked /\ acked' <= written
    BY <1>a, <1>b, <2>0 DEF ClampedAck
  <2>2. ReleaseIsComing'
    <3>1. ack'[r].step = "release?" /\ ack'[r].written = written'
      BY <1>a, <2>0
    <3> QED BY <3>1
  <2>3. AckedWasWritten' /\ DetachLeavesAToken' /\ PumpHoldsForTheRenderer'
    BY <1>a, <1>b, <2>0, <2>1
  <2> QED BY <2>2, <2>3
<1>1. CASE PumpAsksAttached
  BY <1>1, <1>a, <1>b, <1>c DEF PumpAsksAttached, sessionVars, procVars, connVars
<1>2. CASE PumpAsksBehind
  BY <1>2, <1>a, <1>b, <1>c DEF Behind, PumpAsksBehind, sessionVars, procVars, connVars
<1>3. CASE PumpWakes
  BY <1>3, <1>a, <1>b, <1>c DEF PumpWakes, sessionVars, procVars, connVars
<1>4. CASE PumpEndsRing
  BY <1>4, <1>a, <1>b, <1>c DEF PumpEndsRing, sessionVars, procVars, connVars
<1>5. CASE PumpReaps
  BY <1>5, <1>a, <1>b, <1>c DEF PumpReaps, sessionVars, procVars, connVars
<1>6. CASE CloserMarksClosed
  BY <1>6, <1>f DEF CloserMarksClosed, sessionVars, procVars, connVars
<1>7. CASE CloserTerminates
  BY <1>7, <1>f DEF CloserTerminates, sessionVars, procVars, connVars
<1>8. CASE CloserEndsRing
  <2>0. /\ UNCHANGED <<pump, acked, gen, ack, seen>> /\ resume' = 1 /\ written' = written
        /\ attached' => attached
    BY <1>8, <1>b, <1>c DEF CloserEndsRing, sessionVars, procVars, connVars
  <2>1. AckedWasWritten'
    BY <1>a, <1>b, <2>0
  <2>2. DetachLeavesAToken'
    BY <1>a, <2>0
  <2>3. ReleaseIsComing'
    BY <1>a, <1>b, <2>0
  <2>4. PumpHoldsForTheRenderer'
    BY <1>a, <1>b, <2>0
  <2> QED BY <2>1, <2>2, <2>3, <2>4
<1>9. ASSUME NEW r \in Readers, AttachResolvesLive(r) PROVE PumpFacts'
  BY <1>9, <1>f DEF AttachResolvesLive, sessionVars, procVars, connVars
<1>10. ASSUME NEW r \in Readers, NEW t \in Tokens, AttachLeaseStands(r, t) PROVE PumpFacts'
  BY <1>10, <1>f DEF AttachLeaseStands, sessionVars, procVars, connVars
<1>11. ASSUME NEW r \in Readers, NEW t \in Tokens, AttachLeaseBroken(r, t) PROVE PumpFacts'
  BY <1>11, <1>f DEF AttachLeaseBroken, sessionVars, procVars, connVars
<1>12. ASSUME NEW r \in Readers, NEW t \in Tokens, AttachLeaseGone(r, t) PROVE PumpFacts'
  BY <1>12, <1>f DEF AttachLeaseGone, sessionVars, procVars, connVars
<1>13. ASSUME NEW r \in Readers, StreamReads(r) PROVE PumpFacts'
  BY <1>13, <1>f DEF StreamReads, sessionVars, procVars, connVars
<1>14. ASSUME NEW r \in Readers, StreamParks(r) PROVE PumpFacts'
  BY <1>14, <1>f DEF StreamParks, sessionVars, procVars, connVars
<1>15. ASSUME NEW r \in Readers, StreamSeesEnd(r) PROVE PumpFacts'
  BY <1>15, <1>f DEF StreamSeesEnd, sessionVars, procVars, connVars
<1>16. ASSUME NEW r \in Readers, StreamReturns(r) PROVE PumpFacts'
  BY <1>16, <1>f DEF StreamReturns, sessionVars, procVars, connVars
<1>17. ASSUME NEW r \in Readers, HandlerDetaches(r) PROVE PumpFacts'
  <2>0. /\ UNCHANGED <<pump, acked, gen, ack, seen>> /\ resume' = 1 /\ written' = written
        /\ attached' => attached
    BY <1>17, <1>b, <1>c DEF HandlerDetaches, sessionVars, procVars, connVars
  <2>1. AckedWasWritten'
    BY <1>a, <1>b, <2>0
  <2>2. DetachLeavesAToken'
    BY <1>a, <2>0
  <2>3. ReleaseIsComing'
    BY <1>a, <1>b, <2>0
  <2>4. PumpHoldsForTheRenderer'
    BY <1>a, <1>b, <2>0
  <2> QED BY <2>1, <2>2, <2>3, <2>4
<1>18. ASSUME NEW r \in Readers, AckReleases(r) PROVE PumpFacts'
  <2>0. /\ UNCHANGED <<pump, acked, gen, attached, seen>> /\ written' = written
        /\ ack[r].step = "release?" /\ ack' = [ack EXCEPT ![r] = NoAck]
        /\ resume' = IF Released(ack[r].written) THEN 1 ELSE resume
    BY <1>18, <1>b, <1>c DEF Released, AckReleases, procVars
  <2>1. AckedWasWritten'
    BY <1>a, <1>b, <2>0
  <2>2. DetachLeavesAToken'
    BY <1>a, <2>0
  <2>3. ReleaseIsComing'
    <3> SUFFICES ASSUME pump = "wait", resume' = 0, written - acked <= LowWatermark
                 PROVE  \E s \in Readers : ack'[s].step = "release?" /\ ack'[s].written = written
      BY <2>0
    <3>1. resume = 0 /\ ~Released(ack[r].written)
      BY <2>0
    <3>2. PICK s \in Readers : ack[s].step = "release?" /\ ack[s].written = written
      BY <1>a, <3>1
    <3>3. s # r
      BY <1>a, <1>b, <3>1, <3>2 DEF Released
    <3> QED BY <1>a, <2>0, <3>2, <3>3
  <2>4. PumpHoldsForTheRenderer'
    BY <1>a, <1>b, <2>0
  <2> QED BY <2>1, <2>2, <2>3, <2>4
<1>19. ASSUME NEW r \in Readers, StreamDelivers(r) PROVE PumpFacts'
  BY <1>19, <1>f DEF StreamDelivers, sessionVars, procVars, connVars
<1>20. ASSUME NEW r \in Readers, ClientAcks(r) PROVE PumpFacts'
  BY <1>20, <1>a, <1>g DEF ClientAcks
<1>21. ASSUME NEW n \in ChunkSizes, PumpReads(n) PROVE PumpFacts'
  BY <1>21, <1>a, <1>b, <1>c DEF PumpReads, sessionVars, procVars, connVars
<1>22. CASE ShellExits
  BY <1>22, <1>f DEF ShellExits, sessionVars, procVars, connVars
<1>23. CASE CloseRequested
  BY <1>23, <1>f DEF CloseRequested, sessionVars, procVars, connVars
<1>24. CASE DetachActive
  <2>0. /\ UNCHANGED <<pump, acked, gen, ack, seen>> /\ resume' = 1 /\ written' = written
        /\ attached' => attached
    BY <1>24, <1>b, <1>c DEF DetachActive, sessionVars, procVars, connVars
  <2>1. AckedWasWritten'
    BY <1>a, <1>b, <2>0
  <2>2. DetachLeavesAToken'
    BY <1>a, <2>0
  <2>3. ReleaseIsComing'
    BY <1>a, <1>b, <2>0
  <2>4. PumpHoldsForTheRenderer'
    BY <1>a, <1>b, <2>0
  <2> QED BY <2>1, <2>2, <2>3, <2>4
<1>25. ASSUME NEW r \in Readers, Attach(r) PROVE PumpFacts'
  <2>0. /\ UNCHANGED <<pump, acked, resume, ack, seen>> /\ written' = written
        /\ attached' /\ gen' = gen + 1
    BY <1>25, <1>b, <1>c DEF Attach, TakesRenderer, sessionVars, procVars, connVars
  <2>1. AckedWasWritten'
    BY <1>a, <1>b, <2>0
  <2>2. DetachLeavesAToken'
    BY <1>a, <2>0
  <2>3. ReleaseIsComing'
    BY <1>a, <1>b, <2>0
  <2>4. PumpHoldsForTheRenderer'
    BY <1>a, <2>0 DEF RendererFacts, GenerationsAreGivenOnce
  <2> QED BY <2>1, <2>2, <2>3, <2>4
<1>26. ASSUME NEW r \in Readers, NEW from \in Cursors, AttachResolves(r, from) PROVE PumpFacts'
  BY <1>26, <1>f DEF AttachResolves, sessionVars, procVars, connVars
<1>27. ASSUME NEW r \in Readers, PeerDies(r) PROVE PumpFacts'
  BY <1>27, <1>f DEF PeerDies, sessionVars, procVars, connVars
<1>28. ASSUME NEW r \in Readers, NEW n \in Cursors, ClientMiscounts(r, n) PROVE PumpFacts'
  BY <1>28, <1>g DEF ClientMiscounts
<1>29. ASSUME NEW t \in Tokens, NEW after \in Cursors, LeaseIssued(t, after) PROVE PumpFacts'
  BY <1>29, <1>f DEF LeaseIssued, sessionVars, procVars, connVars
<1>30. ASSUME NEW t \in Tokens, LeaseExpires(t) PROVE PumpFacts'
  BY <1>30, <1>f DEF LeaseExpires, sessionVars, procVars, connVars
<1>31. ASSUME NEW r \in Readers, NEW t \in Tokens, AttachLease(r, t) PROVE PumpFacts'
  <2>0. /\ UNCHANGED <<pump, acked, resume, ack, seen>> /\ written' = written
        /\ attached' /\ gen' = gen + 1
    BY <1>31, <1>b, <1>c DEF AttachLease, TakesRenderer, sessionVars, procVars, connVars
  <2>1. AckedWasWritten'
    BY <1>a, <1>b, <2>0
  <2>2. DetachLeavesAToken'
    BY <1>a, <2>0
  <2>3. ReleaseIsComing'
    BY <1>a, <1>b, <2>0
  <2>4. PumpHoldsForTheRenderer'
    BY <1>a, <2>0 DEF RendererFacts, GenerationsAreGivenOnce
  <2> QED BY <2>1, <2>2, <2>3, <2>4
<1> QED BY <1>1, <1>2, <1>3, <1>4, <1>5, <1>6, <1>7, <1>8, <1>9, <1>10, <1>11, <1>12, <1>13,
     <1>14, <1>15, <1>16, <1>17, <1>18, <1>19, <1>20, <1>21, <1>22, <1>23, <1>24, <1>25,
     <1>26, <1>27, <1>28, <1>29, <1>30, <1>31
     DEF FlowNext, PumpStep, CloserStep, HandlerStep, ClientStep, Environment

\* The conjunction is an invariant.
LEMMA StepPreservesFlowInv == FlowInv /\ [FlowNext]_flowVars => FlowInv'
<1> SUFFICES ASSUME FlowInv, [FlowNext]_flowVars PROVE FlowInv'
  OBVIOUS
<1>1. RingInv'
  BY StepRunsTheRing, StepPreservesRingInv DEF FlowInv
<1>2. CASE FlowNext
  BY <1>1, <1>2, TypesAreKept, RendererIsKept, PumpIsKept DEF FlowInv
<1>3. CASE UNCHANGED flowVars
  <2>1. /\ UNCHANGED vars /\ UNCHANGED <<acked, gen, attached, resume>>
        /\ UNCHANGED <<pump, shell, closed, registered, closer>>
        /\ UNCHANGED <<conn, mygen, sent, peer, table, ack, owes, miscounted, dismissed,
             owner, seen>>
    BY <1>3 DEF flowVars, sessionVars, procVars, connVars
  <2>2. FlowTypeOK'
    BY <1>1, <2>1 DEF FlowInv, FlowTypeOK, RingInv
  <2>3. RendererFacts'
    BY <2>1 DEF FlowInv, RendererFacts, RendererMarkIsExact, GenerationsAreGivenOnce
  <2>4. PumpFacts'
    BY <2>1 DEF FlowInv, PumpFacts, AckedWasWritten, DetachLeavesAToken, ReleaseIsComing,
       PumpHoldsForTheRenderer, written, live, vars
  <2> QED BY <1>1, <2>2, <2>3, <2>4 DEF FlowInv
<1> QED BY <1>2, <1>3

----------------------------------------------------------------------------
\* A session's ring is a ring: whatever the pump, the handlers, the clients, the timers
\* and the close do, what its ring does is a behaviour of Ring (session.go's only way to
\* the ring is its methods), so every theorem of RingProofs holds of it.
THEOREM SessionRunsItsRing == FlowSafety => Spec
<1>1. FlowInit => Init
  BY DEF FlowInit
<1> QED BY <1>1, StepRunsTheRing, PTL DEF FlowSafety, Spec

\* The conjunction holds in every state (pump, ack, attachRenderer, detachRenderer).
THEOREM FlowInvariance == FlowSafety => []FlowInv
<1> QED BY InitEstablishesFlowInv, StepPreservesFlowInv, PTL DEF FlowSafety

\* Every variable of the session's flow control keeps its type (session.go 50-80).
THEOREM FlowTypeCorrect == FlowSafety => []FlowTypeOK
<1>1. FlowInv => FlowTypeOK
  BY DEF FlowInv
<1> QED BY <1>1, FlowInvariance, PTL

\* The session is marked rendered exactly while the handler that attached last is there
\* and was not dismissed, for any number of attaches, refusals and detaches
\* (session.go 358-361).
THEOREM TheMarkIsExact == FlowSafety => []RendererMarkIsExact
<1>1. FlowInv => RendererMarkIsExact
  BY DEF FlowInv, RendererFacts
<1> QED BY <1>1, FlowInvariance, PTL

\* No wake-up of the pump is lost, for any number of clients that ack at once (pump
\* 339-344, ack 590, detachRenderer 396).
THEOREM NoPumpWaitsInVain == FlowSafety => []WaitingPumpHasAReason
<1>1. FlowInv => WaitingPumpHasAReason
  <2> SUFFICES ASSUME FlowInv, pump = "wait", resume = 0
               PROVE  \/ attached /\ written - acked > LowWatermark
                      \/ \E r \in Readers : ack[r].step = "release?"
    BY DEF WaitingPumpHasAReason
  <2>1. attached
    BY DEF FlowInv, PumpFacts, DetachLeavesAToken
  <2>2. written - acked \in Int /\ LowWatermark \in Nat
    BY WrittenIsANumber, FlowConstants DEF FlowInv, FlowTypeOK
  <2>3. CASE written - acked <= LowWatermark
    BY <2>3 DEF FlowInv, PumpFacts, ReleaseIsComing
  <2>4. CASE ~(written - acked <= LowWatermark)
    BY <2>1, <2>2, <2>4
  <2> QED BY <2>3, <2>4
<1> QED BY <1>1, FlowInvariance, PTL

\* What an attached renderer has not acked is bounded by the high mark when the pump
\* reads on, whoever woke it (pump 307-309, 339).
THEOREM ThePumpHolds == FlowSafety => []PumpHoldsForTheRenderer
<1>1. FlowInv => PumpHoldsForTheRenderer
  BY DEF FlowInv, PumpFacts
<1> QED BY <1>1, FlowInvariance, PTL
=============================================================================

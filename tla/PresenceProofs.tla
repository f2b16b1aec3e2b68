--------------------------- MODULE PresenceProofs ---------------------------
(***************************************************************************)
(* The sweep spares what is shown, for any number of renderers and         *)
(* observers and any window.                                               *)
(*                                                                         *)
(* A detach stamp that stands says that nothing shows the session, and     *)
(* that nothing has since the stamp was made: whoever comes to show it     *)
(* clears the stamp, except a display that is adopted, and a stamp is made *)
(* only by the last that leaves.                                           *)
(***************************************************************************)
EXTENDS Presence, TLAPS

\* Before the session is opened nobody shows it and nobody has left it.
AbsentIsUnshown ==
    sess = "absent" =>
        /\ detached = None /\ ~attached /\ displaying = {}
        /\ \A r \in Renderers : rconn[r] = "none"
        /\ \A o \in Observers : ostream[o] \in {"none", "prepared", "over"}

\* The stamp is no older than the time nothing has shown the session.
StampIsOfTheUnshown ==
    detached # None /\ ~overStamp => ~Presence /\ unshown >= detached

\* The conjunction that every step preserves.
PresenceInv == TypeOK /\ AbsentIsUnshown /\ StampIsOfTheUnshown

----------------------------------------------------------------------------
\* The clock keeps an age an age, and two of them in order.
LEMMA OlderFacts ==
    ASSUME NEW a \in Ages, NEW b \in Ages
    PROVE  /\ Older(a) \in Ages
           /\ Older(a) = None <=> a = None
           /\ a >= b /\ b # None => Older(a) >= Older(b)
BY PresenceConstants DEF Older, Ages, None

\* A session begins with no stamp.
LEMMA InitEstablishesPresenceInv == Init => PresenceInv
<1> SUFFICES ASSUME Init PROVE PresenceInv
  OBVIOUS
<1>0. None \in Ages
  BY DEF Ages
<1>a. attached \in BOOLEAN /\ overStamp \in BOOLEAN
  BY DEF Init
<1>b. gen \in Nat /\ outputs \in 0..MaxOutputs
  BY PresenceConstants DEF Init
<1>c. /\ rconn \in [Renderers -> {"none", "found", "on", "failing", "over"}]
      /\ mygen \in [Renderers -> Nat]
      /\ pending \in [Observers -> {"none", "waiting", "ready", "gone"}]
      /\ ostream \in [Observers -> {"none", "prepared", "observe", "failing", "over"}]
  BY DEF Init
<1>1. TypeOK
  BY <1>0, <1>a, <1>b, <1>c DEF Init, TypeOK
<1>2. AbsentIsUnshown
  BY DEF Init, AbsentIsUnshown
<1>3. StampIsOfTheUnshown
  BY DEF Init, StampIsOfTheUnshown
<1> QED BY <1>1, <1>2, <1>3 DEF PresenceInv

\* Every step keeps the stamp honest.
LEMMA StepPreservesPresenceInv == PresenceInv /\ [Next]_vars => PresenceInv'
<1> SUFFICES ASSUME PresenceInv, [Next]_vars PROVE PresenceInv'
  OBVIOUS
<1>0. /\ None = -1 /\ 0 \in Ages /\ None \in Ages /\ Window \in Nat \ {0}
      /\ \A a \in Ages : a # None => a >= 0
  BY PresenceConstants DEF Ages, None
<1> USE DEF PresenceInv, sessionVars, rendererVars, observerVars
<1>1. CASE SweepFinds
  <2> TypeOK'
    BY <1>1, <1>0, PresenceConstants DEF SweepFinds, Shows, Stamps, Clears, TypeOK
  <2> AbsentIsUnshown'
    BY <1>1, <1>0 DEF SweepFinds, Shows, Stamps, Clears, TypeOK, AbsentIsUnshown
  <2> StampIsOfTheUnshown'
    BY <1>1, <1>0
    DEF SweepFinds, Shows, Stamps, Clears, TypeOK, AbsentIsUnshown, StampIsOfTheUnshown, Presence
  <2> QED OBVIOUS
<1>2. CASE SweepReaps
  <2> TypeOK'
    BY <1>2, <1>0, PresenceConstants DEF SweepReaps, Shows, Stamps, Clears, TypeOK
  <2> AbsentIsUnshown'
    BY <1>2, <1>0 DEF SweepReaps, Shows, Stamps, Clears, TypeOK, AbsentIsUnshown
  <2> StampIsOfTheUnshown'
    BY <1>2, <1>0
    DEF SweepReaps, Shows, Stamps, Clears, TypeOK, AbsentIsUnshown, StampIsOfTheUnshown, Presence
  <2> QED OBVIOUS
<1>3. ASSUME NEW r \in Renderers, RendererAttaches(r) PROVE PresenceInv'
  <2> TypeOK'
    BY <1>3, <1>0, PresenceConstants DEF RendererAttaches, Shows, Stamps, Clears, TypeOK
  <2> AbsentIsUnshown'
    BY <1>3, <1>0 DEF RendererAttaches, Shows, Stamps, Clears, TypeOK, AbsentIsUnshown
  <2> StampIsOfTheUnshown'
    BY <1>3, <1>0
    DEF RendererAttaches, Shows, Stamps, Clears, TypeOK, AbsentIsUnshown, StampIsOfTheUnshown, Presence
  <2> QED OBVIOUS
<1>4. ASSUME NEW r \in Renderers, RendererLeaves(r) PROVE PresenceInv'
  <2> TypeOK'
    BY <1>4, <1>0, PresenceConstants DEF RendererLeaves, Shows, Stamps, Clears, TypeOK
  <2> AbsentIsUnshown'
    BY <1>4, <1>0 DEF RendererLeaves, Shows, Stamps, Clears, TypeOK, AbsentIsUnshown
  <2> StampIsOfTheUnshown'
    BY <1>4, <1>0
    DEF RendererLeaves, Shows, Stamps, Clears, TypeOK, AbsentIsUnshown, StampIsOfTheUnshown, Presence
  <2> QED OBVIOUS
<1>5. ASSUME NEW o \in Observers, ObserverEnds(o) PROVE PresenceInv'
  <2> TypeOK'
    BY <1>5, <1>0, PresenceConstants DEF ObserverEnds, Shows, Stamps, Clears, TypeOK
  <2> AbsentIsUnshown'
    BY <1>5, <1>0 DEF ObserverEnds, Shows, Stamps, Clears, TypeOK, AbsentIsUnshown
  <2> StampIsOfTheUnshown'
    BY <1>5, <1>0
    DEF ObserverEnds, Shows, Stamps, Clears, TypeOK, AbsentIsUnshown, StampIsOfTheUnshown, Presence
  <2> QED OBVIOUS
<1>6. CASE Tick
  <2>1. /\ Older(detached) \in Ages /\ Older(quiet) \in Ages /\ Older(unshown) \in Ages
        /\ Older(detached) = None <=> detached = None
        /\ unshown >= detached /\ detached # None => Older(unshown) >= Older(detached)
    BY OlderFacts DEF TypeOK
  <2> TypeOK'
    BY <1>6, <1>0, <2>1, PresenceConstants DEF Tick, Shows, Stamps, Clears, TypeOK
  <2> AbsentIsUnshown'
    BY <1>6, <1>0, <2>1 DEF Tick, Shows, Stamps, Clears, TypeOK, AbsentIsUnshown
  <2> StampIsOfTheUnshown'
    BY <1>6, <1>0, <2>1
    DEF Tick, Shows, Stamps, Clears, TypeOK, AbsentIsUnshown, StampIsOfTheUnshown, Presence
  <2> QED OBVIOUS
<1>7. CASE Output
  <2> TypeOK'
    BY <1>7, <1>0, PresenceConstants DEF Output, Shows, Stamps, Clears, TypeOK
  <2> AbsentIsUnshown'
    BY <1>7, <1>0 DEF Output, Shows, Stamps, Clears, TypeOK, AbsentIsUnshown
  <2> StampIsOfTheUnshown'
    BY <1>7, <1>0
    DEF Output, Shows, Stamps, Clears, TypeOK, AbsentIsUnshown, StampIsOfTheUnshown, Presence
  <2> QED OBVIOUS
<1>8. CASE OpenPlain
  <2> TypeOK'
    BY <1>8, <1>0, PresenceConstants DEF OpenPlain, Shows, Stamps, Clears, TypeOK
  <2> AbsentIsUnshown'
    BY <1>8, <1>0 DEF OpenPlain, Shows, Stamps, Clears, TypeOK, AbsentIsUnshown
  <2> StampIsOfTheUnshown'
    BY <1>8, <1>0
    DEF OpenPlain, Shows, Stamps, Clears, TypeOK, AbsentIsUnshown, StampIsOfTheUnshown, Presence
  <2> QED OBVIOUS
<1>9. CASE DetachActive
  <2> TypeOK'
    BY <1>9, <1>0, PresenceConstants DEF DetachActive, Shows, Stamps, Clears, TypeOK
  <2> AbsentIsUnshown'
    BY <1>9, <1>0 DEF DetachActive, Shows, Stamps, Clears, TypeOK, AbsentIsUnshown
  <2> StampIsOfTheUnshown'
    BY <1>9, <1>0
    DEF DetachActive, Shows, Stamps, Clears, TypeOK, AbsentIsUnshown, StampIsOfTheUnshown, Presence
  <2> QED OBVIOUS
<1>10. ASSUME NEW r \in Renderers, RendererLooksUp(r) PROVE PresenceInv'
  <2> TypeOK'
    BY <1>10, <1>0, PresenceConstants DEF RendererLooksUp, Shows, Stamps, Clears, TypeOK
  <2> AbsentIsUnshown'
    BY <1>10, <1>0 DEF RendererLooksUp, Shows, Stamps, Clears, TypeOK, AbsentIsUnshown
  <2> StampIsOfTheUnshown'
    BY <1>10, <1>0
    DEF RendererLooksUp, Shows, Stamps, Clears, TypeOK, AbsentIsUnshown, StampIsOfTheUnshown, Presence
  <2> QED OBVIOUS
<1>11. ASSUME NEW o \in Observers, OpenWith(o) PROVE PresenceInv'
  <2> TypeOK'
    BY <1>11, <1>0, PresenceConstants DEF OpenWith, Binds, Shows, Stamps, Clears, TypeOK
  <2> AbsentIsUnshown'
    BY <1>11, <1>0 DEF OpenWith, Binds, Shows, Stamps, Clears, TypeOK, AbsentIsUnshown
  <2> StampIsOfTheUnshown'
    BY <1>11, <1>0
    DEF OpenWith, Binds, Shows, Stamps, Clears, TypeOK, AbsentIsUnshown, StampIsOfTheUnshown, Presence
  <2> QED OBVIOUS
<1>12. ASSUME NEW o \in Observers, Adopt(o) PROVE PresenceInv'
  <2> TypeOK'
    BY <1>12, <1>0, PresenceConstants DEF Adopt, Binds, Shows, Stamps, Clears, TypeOK
  <2> AbsentIsUnshown'
    BY <1>12, <1>0 DEF Adopt, Binds, Shows, Stamps, Clears, TypeOK, AbsentIsUnshown
  <2>1. CASE detached # None /\ o \in wants
    BY <1>12, <2>1 DEF Adopt, StampIsOfTheUnshown
  <2>2. CASE detached # None /\ o \notin wants
    <3>1. displaying' = displaying /\ attached' = attached /\ detached' = detached
      BY <1>12, <2>2 DEF Adopt, Binds, Shows
    <3>2. (overStamp' <=> overStamp) /\ (~Presence => unshown' = unshown)
      BY <1>12, <2>2 DEF Adopt, Binds, Shows, Presence
    <3> QED BY <3>1, <3>2, <2>2 DEF StampIsOfTheUnshown, Presence
  <2>3. CASE detached = None
    BY <1>12, <2>3 DEF Adopt, StampIsOfTheUnshown
  <2> StampIsOfTheUnshown'
    BY <2>1, <2>2, <2>3
  <2> QED OBVIOUS
<1>13. ASSUME NEW o \in Observers, ObservePrepared(o) PROVE PresenceInv'
  <2> TypeOK'
    BY <1>13, <1>0, PresenceConstants DEF ObservePrepared, Shows, Stamps, Clears, TypeOK
  <2> AbsentIsUnshown'
    BY <1>13, <1>0 DEF ObservePrepared, Shows, Stamps, Clears, TypeOK, AbsentIsUnshown
  <2> StampIsOfTheUnshown'
    BY <1>13, <1>0
    DEF ObservePrepared, Shows, Stamps, Clears, TypeOK, AbsentIsUnshown, StampIsOfTheUnshown, Presence
  <2> QED OBVIOUS
<1>14. ASSUME NEW o \in Observers, PrepareExpires(o) PROVE PresenceInv'
  <2> TypeOK'
    BY <1>14, <1>0, PresenceConstants DEF PrepareExpires, Shows, Stamps, Clears, TypeOK
  <2> AbsentIsUnshown'
    BY <1>14, <1>0 DEF PrepareExpires, Shows, Stamps, Clears, TypeOK, AbsentIsUnshown
  <2> StampIsOfTheUnshown'
    BY <1>14, <1>0
    DEF PrepareExpires, Shows, Stamps, Clears, TypeOK, AbsentIsUnshown, StampIsOfTheUnshown, Presence
  <2> QED OBVIOUS
<1>15. ASSUME NEW o \in Observers, NEW d \in BOOLEAN, Prepare(o, d) PROVE PresenceInv'
  <2> TypeOK'
    BY <1>15, <1>0, PresenceConstants DEF Prepare, Shows, Stamps, Clears, TypeOK
  <2> AbsentIsUnshown'
    BY <1>15, <1>0 DEF Prepare, Shows, Stamps, Clears, TypeOK, AbsentIsUnshown
  <2> StampIsOfTheUnshown'
    BY <1>15, <1>0
    DEF Prepare, Shows, Stamps, Clears, TypeOK, AbsentIsUnshown, StampIsOfTheUnshown, Presence
  <2> QED OBVIOUS
<1>16. ASSUME NEW o \in Observers, NEW d \in BOOLEAN, Observe(o, d) PROVE PresenceInv'
  <2> TypeOK'
    BY <1>16, <1>0, PresenceConstants DEF Observe, Shows, Stamps, Clears, TypeOK
  <2> AbsentIsUnshown'
    BY <1>16, <1>0 DEF Observe, Shows, Stamps, Clears, TypeOK, AbsentIsUnshown
  <2> StampIsOfTheUnshown'
    BY <1>16, <1>0
    DEF Observe, Shows, Stamps, Clears, TypeOK, AbsentIsUnshown, StampIsOfTheUnshown, Presence
  <2> QED OBVIOUS
<1>17. ASSUME NEW o \in Observers, NEW d \in BOOLEAN, SetDisplays(o, d) PROVE PresenceInv'
  <2> TypeOK'
    BY <1>17, <1>0, PresenceConstants DEF SetDisplays, Shows, Stamps, Clears, TypeOK
  <2> AbsentIsUnshown'
    BY <1>17, <1>0 DEF SetDisplays, Shows, Stamps, Clears, TypeOK, AbsentIsUnshown
  <2> StampIsOfTheUnshown'
    BY <1>17, <1>0
    DEF SetDisplays, Shows, Stamps, Clears, TypeOK, AbsentIsUnshown, StampIsOfTheUnshown, Presence
  <2> QED OBVIOUS
<1>18. ASSUME NEW c \in Renderers \cup Observers, PeerDies(c) PROVE PresenceInv'
  <2> TypeOK'
    BY <1>18, <1>0, PresenceConstants DEF PeerDies, Shows, Stamps, Clears, TypeOK
  <2> AbsentIsUnshown'
    BY <1>18, <1>0 DEF PeerDies, Shows, Stamps, Clears, TypeOK, AbsentIsUnshown
  <2> StampIsOfTheUnshown'
    BY <1>18, <1>0
    DEF PeerDies, Shows, Stamps, Clears, TypeOK, AbsentIsUnshown, StampIsOfTheUnshown, Presence
  <2> QED OBVIOUS
<1>19. CASE UNCHANGED vars
  BY <1>19 DEF vars, TypeOK, AbsentIsUnshown, StampIsOfTheUnshown, Presence
<1> QED BY <1>1, <1>2, <1>3, <1>4, <1>5, <1>6, <1>7, <1>8, <1>9, <1>10, <1>11, <1>12, <1>13,
     <1>14, <1>15, <1>16, <1>17, <1>18, <1>19
   DEF Next, DaemonStep

\* What the sweep relies on holds in every state.
THEOREM PresenceInvariance == Safety => []PresenceInv
BY InitEstablishesPresenceInv, StepPreservesPresenceInv, PTL DEF Safety

\* Every variable of the presence model always holds a value of its kind.
THEOREM PresenceTypeCorrect == Safety => []TypeOK
<1>1. PresenceInv => TypeOK
  BY DEF PresenceInv
<1> QED BY <1>1, PresenceInvariance, PTL

\* While no display was adopted over a standing stamp, the sweep of endAbandoned ends
\* only what nothing has shown for longer than the window and what has been quiet
\* for as long (abandonedSince).
THEOREM TheSweepSparesTheShown == Safety => SweepSparesTheShown
<1>1. PresenceInv /\ [Next]_vars =>
        [sess = "here" /\ sess' = "swept" /\ ~overStamp =>
            unshown > Window /\ (quiet = None \/ quiet > Window)]_vars
  <2> SUFFICES ASSUME PresenceInv, Next, sess = "here", sess' = "swept", ~overStamp
               PROVE  unshown > Window /\ (quiet = None \/ quiet > Window)
    OBVIOUS
  <2>1. SweepFinds
    BY DEF Next, DaemonStep, SweepReaps, RendererAttaches, RendererLeaves, ObserverEnds, Tick,
           Output, OpenPlain, DetachActive, RendererLooksUp, OpenWith, Adopt, ObservePrepared,
           PrepareExpires, Prepare, Observe, SetDisplays, PeerDies, sessionVars
  <2>2. detached > Window /\ detached # None /\ (quiet = None \/ quiet > Window)
    BY <2>1, PresenceConstants DEF SweepFinds, Abandoned, None
  <2>3. unshown >= detached
    BY <2>2 DEF PresenceInv, StampIsOfTheUnshown
  <2> QED BY <2>2, <2>3, PresenceConstants DEF PresenceInv, TypeOK, Ages, None
<1> QED BY <1>1, PresenceInvariance, PTL DEF Safety, SweepSparesTheShown
=============================================================================

------------------------------ MODULE Presence ------------------------------
(***************************************************************************)
(* Who is showing a session, and when a session nobody shows is ended:     *)
(* session.go's rendererAttached, displaying and detachedAt, the requests  *)
(* of control.go that change them, and the sweep of main.go.               *)
(*                                                                         *)
(* Times are kept as ages, the ticks since a stamp was made, counted up to *)
(* one past the window: a stamp is before now - Window exactly when its    *)
(* age is greater than Window.                                             *)
(***************************************************************************)
EXTENDS Integers, FiniteSets

CONSTANTS
    Renderers,  \* connections that may attach
    Observers,  \* observers that may be prepared or ask to observe
    Window,     \* registry.abandonAfter, in ticks
    MaxOutputs, \* bound: chunks the shell writes
    Allowed     \* bound: which of PresenceEvents this instance explores

PresenceEvents == {"renderer", "prepare", "observe", "adopt", "die", "leave"}

ASSUME PresenceConstants ==
    /\ Window \in Nat \ {0}
    /\ MaxOutputs \in Nat
    /\ Allowed \subseteq PresenceEvents

None == -1
Ages == {None} \cup 0..Window + 1

VARIABLES
    sess,       \* "absent", "here" (registered), "swept" (unregistered, not reaped), "ended"
    gen,        \* session.rendererGeneration
    attached,   \* session.rendererAttached
    displaying, \* session.displaying
    tokens,     \* observers in session.observerTokens
    detached,   \* the age of session.detachedAt, None for the zero time
    quiet,      \* the age of session.writtenAt, None for the zero time
    outputs,    \* chunks written so far
    rconn,      \* each renderer's handler
    mygen,      \* the generation each renderer's handler holds
    pending,    \* each observer in daemon.pendingObservers
    ostream,    \* each observer's handler
    wants,      \* observers whose request asked to display
    peers,      \* clients that are there
    unshown,    \* history: ticks since the session was last shown, None before
    overStamp   \* history: a display was adopted while a detach stamp stood

sessionVars == <<sess, gen, attached, displaying, tokens, detached, quiet, outputs>>
rendererVars == <<rconn, mygen>>
observerVars == <<pending, ostream, wants>>
vars == <<sessionVars, rendererVars, observerVars, peers, unshown, overStamp>>

\* A stamp one tick later.
Older(age) == IF age = None THEN None ELSE IF age > Window THEN age ELSE age + 1

\* presenceLocked.
Presence == attached \/ displaying # {}

----------------------------------------------------------------------------
(* Changing who shows the session *)

\* The session is shown by a renderer or not, and by the observers d.
Shows(a, d) ==
    /\ attached' = a
    /\ displaying' = d
    /\ unshown' = IF a \/ d # {} \/ Presence THEN 0 ELSE unshown

\* Mutant: losing one display starts the clock whoever else is showing it.
StampsOnAnyLoss(lost) == detached' = IF lost THEN 0 ELSE detached

\* The stamp is made when something that showed the session is lost and nothing
\* else shows it.
Stamps(lost) ==
    detached' = IF lost /\ ~attached' /\ displaying' = {} THEN 0 ELSE detached

Clears == detached' = None

----------------------------------------------------------------------------
(* Renderers *)

\* attach looks the session up ...
RendererLooksUp(r) ==
    /\ "renderer" \in Allowed
    /\ rconn[r] = "none"
    /\ sess = "here"
    /\ rconn' = [rconn EXCEPT ![r] = "found"]
    /\ UNCHANGED <<sessionVars, mygen, observerVars, peers, unshown, overStamp>>

\* ... and then attaches to it: attachRenderer, replaceRenderer.  The registry's
\* lock is not held in between.
RendererAttaches(r) ==
    /\ rconn[r] = "found"
    /\ rconn' = [rconn EXCEPT ![r] = "on"]
    /\ gen' = gen + 1
    /\ mygen' = [mygen EXCEPT ![r] = gen + 1]
    /\ Shows(TRUE, displaying)
    /\ Clears
    /\ UNCHANGED <<sess, tokens, quiet, outputs, observerVars, peers, overStamp>>

\* Mutant: the stamp is left out when a handler leaves.
RendererLeavesUnstamped(r) ==
    /\ rconn[r] = "failing" \/ (rconn[r] = "on" /\ sess = "ended")
    /\ rconn' = [rconn EXCEPT ![r] = "over"]
    /\ Shows(attached /\ gen # mygen[r], displaying)
    /\ UNCHANGED <<detached, sess, gen, tokens, quiet, outputs, mygen, observerVars, peers,
                   overStamp>>

\* The handler's deferred detachRenderer: deliver returned, because a write to
\* the client failed or the session ended.
RendererLeaves(r) ==
    /\ rconn[r] = "failing" \/ (rconn[r] = "on" /\ sess = "ended")
    /\ rconn' = [rconn EXCEPT ![r] = "over"]
    /\ Shows(attached /\ gen # mygen[r], displaying)
    /\ Stamps(attached /\ gen = mygen[r])
    /\ UNCHANGED <<sess, gen, tokens, quiet, outputs, mygen, observerVars, peers, overStamp>>

\* The detach request: detachActiveRenderer.
DetachActive ==
    /\ "leave" \in Allowed
    /\ sess = "here" /\ attached
    /\ Shows(FALSE, displaying)
    /\ Stamps(TRUE)
    /\ UNCHANGED <<sess, gen, tokens, quiet, outputs, rendererVars, observerVars, peers,
                   overStamp>>

----------------------------------------------------------------------------
(* Observers *)

Prepare(o, displays) ==
    /\ "prepare" \in Allowed
    /\ pending[o] = "none" /\ ostream[o] = "none"
    /\ pending' = [pending EXCEPT ![o] = "waiting"]
    /\ wants' = IF displays THEN wants \cup {o} ELSE wants
    /\ UNCHANGED <<sessionVars, rendererVars, ostream, peers, unshown, overStamp>>

ObservePrepared(o) ==
    /\ pending[o] = "waiting"
    /\ pending' = [pending EXCEPT ![o] = "ready"]
    /\ ostream' = [ostream EXCEPT ![o] = "prepared"]
    /\ UNCHANGED <<sessionVars, rendererVars, wants, peers, unshown, overStamp>>

\* The timer of prepareObserver.
PrepareExpires(o) ==
    /\ pending[o] \in {"waiting", "ready"}
    /\ pending' = [pending EXCEPT ![o] = "gone"]
    /\ UNCHANGED <<sessionVars, rendererVars, ostream, wants, peers, unshown, overStamp>>

Binds(o) ==
    /\ pending[o] = "ready"
    /\ pending' = [pending EXCEPT ![o] = "gone"]
    /\ tokens' = tokens \cup {o}
    /\ Shows(attached, displaying \cup ({o} \cap wants))

\* open with no session for the pane.  Whether the prepared stream is still
\* served is not asked.
OpenWith(o) ==
    /\ sess = "absent"
    /\ sess' = "here"
    /\ Binds(o)
    /\ UNCHANGED <<gen, detached, quiet, outputs, rendererVars, ostream, wants, peers,
                   overStamp>>

OpenPlain ==
    /\ sess = "absent"
    /\ sess' = "here"
    /\ UNCHANGED <<gen, attached, displaying, tokens, detached, quiet, outputs,
                   rendererVars, observerVars, peers, unshown, overStamp>>

\* open on a pane that holds a session: adoptObserver.  detachedAt is left as it is.
Adopt(o) ==
    /\ "adopt" \in Allowed
    /\ sess = "here"
    /\ Binds(o)
    /\ overStamp' = (overStamp \/ (detached # None /\ o \in wants))
    /\ UNCHANGED <<sess, gen, detached, quiet, outputs, rendererVars, ostream, wants, peers>>

\* observe without a token.
Observe(o, displays) ==
    /\ "observe" \in Allowed
    /\ pending[o] = "none" /\ ostream[o] = "none"
    /\ sess = "here"
    /\ ostream' = [ostream EXCEPT ![o] = "observe"]
    /\ Shows(attached, IF displays THEN displaying \cup {o} ELSE displaying)
    /\ detached' = IF displays THEN None ELSE detached
    /\ UNCHANGED <<sess, gen, tokens, quiet, outputs, rendererVars, pending, wants, peers,
                   overStamp>>

\* The displays request: setDisplays.
SetDisplays(o, displays) ==
    /\ sess = "here"
    /\ o \in tokens
    /\ IF displays
       THEN Shows(attached, displaying \cup {o}) /\ Clears
       ELSE Shows(attached, displaying \ {o}) /\ Stamps(o \in displaying)
    /\ UNCHANGED <<sess, gen, tokens, quiet, outputs, rendererVars, observerVars, peers,
                   overStamp>>

\* The connection reader of observePrepared sees its client gone; a stream that
\* came by observe finds out when it writes.  An ended session ends both.
ObserverEnds(o) ==
    /\ \/ ostream[o] = "prepared" /\ (o \notin peers \/ sess = "ended")
       \/ ostream[o] = "failing"
       \/ ostream[o] = "observe" /\ sess = "ended"
    /\ ostream' = [ostream EXCEPT ![o] = "over"]
    /\ IF sess = "here" \/ ostream[o] # "prepared"
       THEN /\ tokens' = tokens \ {o}
            /\ Shows(attached, displaying \ {o})
            /\ IF detached = None THEN Stamps(o \in displaying) ELSE UNCHANGED detached
       ELSE UNCHANGED <<tokens, attached, displaying, unshown, detached>>
    /\ UNCHANGED <<sess, gen, quiet, outputs, rendererVars, pending, wants, peers, overStamp>>

----------------------------------------------------------------------------
(* The shell, the clock and the sweep *)

PeerDies(c) ==
    /\ "die" \in Allowed
    /\ c \in peers
    /\ peers' = peers \ {c}
    /\ UNCHANGED <<sessionVars, rendererVars, observerVars, unshown, overStamp>>

\* Output stamps writtenAt, and a stream whose client is gone fails to write it.
Output ==
    /\ sess = "here"
    /\ outputs < MaxOutputs
    /\ outputs' = outputs + 1
    /\ quiet' = 0
    /\ rconn' = [r \in Renderers |->
                    IF rconn[r] = "on" /\ r \notin peers THEN "failing" ELSE rconn[r]]
    /\ ostream' = [o \in Observers |->
                    IF ostream[o] = "observe" /\ o \notin peers THEN "failing" ELSE ostream[o]]
    /\ UNCHANGED <<sess, gen, attached, displaying, tokens, detached, mygen,
                   pending, wants, peers, unshown, overStamp>>

Tick ==
    /\ sess = "here"
    /\ detached' = Older(detached)
    /\ quiet' = Older(quiet)
    /\ unshown' = IF Presence THEN 0 ELSE Older(unshown)
    /\ UNCHANGED <<sess, gen, attached, displaying, tokens, outputs,
                   rendererVars, observerVars, peers, overStamp>>

\* abandonedSince(now - Window).
Abandoned ==
    /\ ~Presence
    /\ detached > Window
    /\ quiet = None \/ quiet > Window

\* endAbandoned judges and unregisters under registry.mu ...
SweepFinds ==
    /\ sess = "here"
    /\ Abandoned
    /\ sess' = "swept"
    /\ UNCHANGED <<gen, attached, displaying, tokens, detached, quiet, outputs,
                   rendererVars, observerVars, peers, unshown, overStamp>>

\* ... and reaps afterwards.
SweepReaps ==
    /\ sess = "swept"
    /\ sess' = "ended"
    /\ UNCHANGED <<gen, attached, displaying, tokens, detached, quiet, outputs,
                   rendererVars, observerVars, peers, unshown, overStamp>>

----------------------------------------------------------------------------
Init ==
    /\ sess = "absent" /\ gen = 0 /\ attached = FALSE
    /\ displaying = {} /\ tokens = {}
    /\ detached = None /\ quiet = None /\ outputs = 0
    /\ rconn = [r \in Renderers |-> "none"]
    /\ mygen = [r \in Renderers |-> 0]
    /\ pending = [o \in Observers |-> "none"]
    /\ ostream = [o \in Observers |-> "none"]
    /\ wants = {}
    /\ peers = Renderers \cup Observers
    /\ unshown = None
    /\ overStamp = FALSE

\* The daemon's own goroutines.
DaemonStep ==
    \/ SweepFinds \/ SweepReaps
    \/ \E r \in Renderers : RendererAttaches(r) \/ RendererLeaves(r)
    \/ \E o \in Observers : ObserverEnds(o)

Next ==
    \/ DaemonStep
    \/ Tick
    \/ Output
    \/ OpenPlain
    \/ DetachActive
    \/ \E r \in Renderers : RendererLooksUp(r)
    \/ \E o \in Observers : OpenWith(o) \/ Adopt(o)
    \/ \E o \in Observers : ObservePrepared(o) \/ PrepareExpires(o)
    \/ \E o \in Observers, displays \in BOOLEAN :
          Prepare(o, displays) \/ Observe(o, displays) \/ SetDisplays(o, displays)
    \/ \E c \in Renderers \cup Observers : PeerDies(c)

Safety == Init /\ [][Next]_vars

\* Time passes, the sweep's ticker fires and handlers run.
Spec == Safety /\ WF_vars(Tick) /\ WF_vars(DaemonStep)

----------------------------------------------------------------------------
(* What the sweep promises *)

\* Every variable holds a value of its kind.
TypeOK ==
    /\ sess \in {"absent", "here", "swept", "ended"}
    /\ gen \in Nat /\ attached \in BOOLEAN /\ overStamp \in BOOLEAN
    /\ displaying \subseteq Observers /\ tokens \subseteq Observers /\ wants \subseteq Observers
    /\ detached \in Ages /\ quiet \in Ages /\ unshown \in Ages
    /\ outputs \in 0..MaxOutputs
    /\ rconn \in [Renderers -> {"none", "found", "on", "failing", "over"}]
    /\ mygen \in [Renderers -> Nat]
    /\ pending \in [Observers -> {"none", "waiting", "ready", "gone"}]
    /\ ostream \in [Observers -> {"none", "prepared", "observe", "failing", "over"}]
    /\ peers \subseteq Renderers \cup Observers

\* While no display was adopted over a standing stamp, the sweep ends only a session
\* that nothing has shown for longer than the window and that has written nothing
\* in it, whatever renderers and displays came, went and died before, in whatever
\* order (abandonedSince 426-428, removeObserver 544, README 39-42).
SweepSparesTheShown ==
    [][sess = "here" /\ sess' = "swept" /\ ~overStamp =>
          unshown > Window /\ (quiet = None \/ quiet > Window)]_vars

\* The sweep ends only a session that nothing has shown for longer than the
\* window and that has written nothing in it, whatever came and went before
\* (abandonedSince 426-428, README 39-42).
SweepEndsOnlyTheAbandoned ==
    [][sess = "here" /\ sess' = "swept" =>
          unshown > Window /\ (quiet = None \/ quiet > Window)]_vars

\* A session that was shown once and that nothing shows any more ends: its clock
\* was started by whoever left last (main.go 134-135).
UnshownSessionsEnd ==
    <>[](sess = "here" /\ ~Presence /\ unshown # None) => <>(sess = "ended")

\* Some client is there to be shown the session, or may still come.
Deserted == peers = {} /\ unshown # None

\* A session whose every client is gone ends (main.go 134-135, abandon_test.go
\* 14-16).
DesertedSessionsEnd == <>[](sess = "here" /\ Deserted) => <>(sess = "ended")

\* A session that the sweep ends has no renderer (session.go 427-428).
SweptSessionHasNoRenderer == sess = "swept" => ~attached
=============================================================================

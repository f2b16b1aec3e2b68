-------------------------------- MODULE Flow --------------------------------
(***************************************************************************)
(* One session's flow control: the pump of session.go that fills the ring  *)
(* and holds off while the renderer is behind, the attach, lease and       *)
(* detach requests of control.go that decide who the renderer is, the      *)
(* streams that read the ring, and the acks that release the pump.         *)
(*                                                                         *)
(* The ring is Ring; a Reader is one attach connection with its deliver.   *)
(* Session fields change under session.mu and ring fields under ring.mu,   *)
(* and no operation holds session.mu across its whole life: every place    *)
(* where a lock is released between a test and its use is a pair of        *)
(* actions here.                                                           *)
(***************************************************************************)
EXTENDS Ring

CONSTANTS
    LowWatermark,  \* ptycontract.LowWatermark
    Cursors,       \* bound: the positions a client may name in a request
    Allowed,       \* bound: which of EnvironmentEvents this instance explores
    AckOnAttach    \* whether a client acks the start it was answered, or only
                   \* bytes that were delivered to it (client side, external)

EnvironmentEvents == {"die", "close", "exit", "detach", "miscount", "seek"}

\* Where a connection's handler may be; one that took a token is at its token.
HandlerPlaces == {"new", "resolving", "streaming", "draining", "refused", "leaving", "closed"}

\* The session's ring is made with newRing(HighWatermark).
HighWatermark == Capacity

ASSUME FlowConstants ==
    /\ LowWatermark \in Nat
    /\ LowWatermark < HighWatermark
    /\ Cursors \subseteq 0..MaxSeq
    /\ Allowed \subseteq EnvironmentEvents
    /\ Tokens \cap HandlerPlaces = {}
    /\ AckOnAttach \in BOOLEAN

VARIABLES
    acked,      \* ring.acked
    gen,        \* session.rendererGeneration
    attached,   \* session.rendererAttached
    resume,     \* tokens in session.resume, a channel of capacity one
    pump,       \* where the pump goroutine is
    shell,      \* "running" or "exited"
    closed,     \* session.closed
    registered, \* whether registry.sessions still holds the session
    closer,     \* where a close request's reap is
    conn,       \* where each connection's handler is
    mygen,      \* the generation each handler was given, 0 before
    sent,       \* how far each connection's bytes have reached its client
    peer,       \* whether the client at the other end is still there
    table,      \* daemon.leases: tokens a client may attach with
    ack,        \* the ack request each client has in progress
    owes,       \* whether each client has something to ack
    miscounted, \* a client has acked a position it made up
    dismissed,  \* history: the current generation was detached on request
    owner,      \* history: the connection last answered as the renderer, if any
    seen        \* history: the generation the pump last found attached, or 0

sessionVars == <<acked, gen, attached, resume>>
procVars == <<pump, shell, closed, registered, closer>>
connVars == <<conn, mygen, sent, peer, table, ack, owes, miscounted, dismissed, owner, seen>>
flowVars == <<vars, sessionVars, procVars, connVars>>

\* A client with no ack request in progress.
NoAck == [step |-> "none", written |-> 0]

\* session.written is what ring.write last answered.
written == live

----------------------------------------------------------------------------
(* pump *)

\* process.Read answers n bytes, left in the tty by a shell that may be gone by
\* now: they enter the ring and written follows.
PumpReads(n) ==
    /\ pump = "read"
    /\ Write(n)
    /\ pump' = "attached?"
    /\ UNCHANGED <<sessionVars, shell, closed, registered, closer, connVars>>

\* shouldPause reads rendererAttached under session.mu ...
PumpAsksAttached ==
    /\ pump = "attached?"
    /\ pump' = IF attached THEN "behind?" ELSE "read"
    /\ seen' = IF attached THEN gen ELSE 0
    /\ UNCHANGED <<vars, sessionVars, shell, closed, registered, closer,
                   conn, mygen, sent, peer, table, ack, owes, miscounted, dismissed, owner>>

\* ring.paused.  The subtraction is unsigned: an ack past w reads as far behind.
Behind(w) == w < acked \/ w - acked >= HighWatermark

\* ... and then the ring's acked under ring.mu.  session.paused, which a status
\* reports, is set on the way to "wait" and cleared on the way to "read"; nothing
\* reads it here.
PumpAsksBehind ==
    /\ pump = "behind?"
    /\ pump' = IF Behind(written) THEN "wait" ELSE "read"
    /\ UNCHANGED <<vars, sessionVars, shell, closed, registered, closer, connVars>>

\* Mutant: a wake-up is taken for permission to run.
PumpWakesWithoutRecheck ==
    /\ pump = "wait"
    /\ resume = 1
    /\ resume' = 0
    /\ pump' = "read"
    /\ UNCHANGED <<vars, acked, gen, attached, shell, closed, registered, closer, connVars>>

\* <-value.resume, and the condition is asked again.
PumpWakes ==
    /\ pump = "wait"
    /\ resume = 1
    /\ resume' = 0
    /\ pump' = "attached?"
    /\ UNCHANGED <<vars, acked, gen, attached, shell, closed, registered, closer, connVars>>

\* The read fails once the shell is gone: the ring ends ...
PumpEndsRing ==
    /\ pump = "read"
    /\ shell = "exited"
    /\ End
    /\ pump' = "reap"
    /\ UNCHANGED <<sessionVars, shell, closed, registered, closer, connVars>>

\* ... and the pump reaps, unless a close already did.  The session stays in
\* the registry.
PumpReaps ==
    /\ pump = "reap"
    /\ closed' = TRUE
    /\ resume' = IF closed THEN resume ELSE 1
    /\ pump' = "done"
    /\ UNCHANGED <<vars, acked, gen, attached, shell, registered, closer, connVars>>

ShellExits ==
    /\ "exit" \in Allowed
    /\ shell = "running"
    /\ shell' = "exited"
    /\ UNCHANGED <<vars, sessionVars, pump, closed, registered, closer, connVars>>

----------------------------------------------------------------------------
(* registry.close and the reap it runs *)

CloseRequested ==
    /\ "close" \in Allowed
    /\ registered
    /\ registered' = FALSE
    /\ closer' = "reap"
    /\ UNCHANGED <<vars, sessionVars, pump, shell, closed, connVars>>

\* reap takes closed under session.mu; the second to come returns at once.
CloserMarksClosed ==
    /\ closer = "reap"
    /\ closer' = IF closed THEN "done" ELSE "terminate"
    /\ closed' = TRUE
    /\ UNCHANGED <<vars, sessionVars, pump, shell, registered, connVars>>

CloserTerminates ==
    /\ closer = "terminate"
    /\ shell' = "exited"
    /\ closer' = "end"
    /\ UNCHANGED <<vars, sessionVars, pump, closed, registered, connVars>>

\* The ring ends and the pump is released.
CloserEndsRing ==
    /\ closer = "end"
    /\ End
    /\ resume' = 1
    /\ closer' = "done"
    /\ UNCHANGED <<acked, gen, attached, pump, shell, closed, registered, connVars>>

----------------------------------------------------------------------------
(* attach, attachLease, and the stream each becomes *)

\* attachRenderer and replaceRenderer: the last to come is the renderer.
TakesRenderer(r) ==
    /\ gen' = gen + 1
    /\ attached' = TRUE
    /\ mygen' = [mygen EXCEPT ![r] = gen + 1]
    /\ dismissed' = FALSE

Attach(r) ==
    /\ conn[r] = "new"
    /\ registered
    /\ TakesRenderer(r)
    /\ conn' = [conn EXCEPT ![r] = "resolving"]
    /\ UNCHANGED <<vars, acked, resume, procVars,
                   sent, peer, table, ack, owes, miscounted, owner, seen>>

\* The client is answered where its stream starts; the answer to one that is
\* gone fails and the handler leaves.
Answered(r, start) ==
    /\ conn' = [conn EXCEPT ![r] = IF peer[r] THEN "streaming" ELSE "leaving"]
    /\ sent' = [sent EXCEPT ![r] = start]
    /\ owes' = [owes EXCEPT ![r] = AckOnAttach]
    /\ owner' = IF mygen[r] = gen /\ ~dismissed THEN r ELSE owner

AttachResolvesLive(r) ==
    /\ conn[r] = "resolving"
    /\ ResolveLive(r)
    /\ Answered(r, at'[r])
    /\ UNCHANGED <<sessionVars, procVars, mygen, peer, table, ack, miscounted, dismissed, seen>>

AttachResolves(r, from) ==
    /\ "seek" \in Allowed
    /\ conn[r] = "resolving"
    /\ Resolve(r, from)
    /\ Answered(r, at'[r])
    /\ UNCHANGED <<sessionVars, procVars, mygen, peer, table, ack, miscounted, dismissed, seen>>

\* The lease request: the ring holds the cursor and the token is handed out.
LeaseIssued(t, after) ==
    /\ registered
    /\ Lease(t, after)
    /\ table' = table \cup {t}
    /\ UNCHANGED <<sessionVars, procVars, conn, mygen, sent, peer, ack, owes, miscounted,
                   dismissed, owner, seen>>

\* The timer armed by the lease request fires.
LeaseExpires(t) ==
    /\ ExpireLease(t)
    /\ table' = table \ {t}
    /\ UNCHANGED <<sessionVars, procVars, conn, mygen, sent, peer, ack, owes, miscounted,
                   dismissed, owner, seen>>

\* attachLease takes the token and makes itself the renderer before it knows
\* whether the lease still stands.
AttachLease(r, t) ==
    /\ conn[r] = "new"
    /\ t \in table
    /\ registered
    /\ table' = table \ {t}
    /\ TakesRenderer(r)
    /\ conn' = [conn EXCEPT ![r] = t]
    /\ UNCHANGED <<vars, acked, resume, procVars,
                   sent, peer, ack, owes, miscounted, owner, seen>>

AttachLeaseStands(r, t) ==
    /\ conn[r] = t
    /\ leases[t].state = "held"
    /\ ConsumeLease(t, r)
    /\ Answered(r, leases[t].after)
    /\ UNCHANGED <<sessionVars, procVars, mygen, peer, table, ack, miscounted, dismissed, seen>>

\* Broken by the budget: consumeLease drops it and refuses.
AttachLeaseBroken(r, t) ==
    /\ conn[r] = t
    /\ leases[t].state = "broken"
    /\ ConsumeLease(t, r)
    /\ conn' = [conn EXCEPT ![r] = "refused"]
    /\ UNCHANGED <<sessionVars, procVars, mygen, sent, peer, table, ack, owes, miscounted,
                   dismissed, owner, seen>>

\* Expired between the token and the ring: there is no lease to consume.
AttachLeaseGone(r, t) ==
    /\ conn[r] = t
    /\ leases[t].state = "gone"
    /\ conn' = [conn EXCEPT ![r] = "refused"]
    /\ UNCHANGED <<vars, sessionVars, procVars,
                   mygen, sent, peer, table, ack, owes, miscounted, dismissed, owner, seen>>

Streaming(r) == conn[r] \in {"streaming", "draining"}

StreamReads(r) ==
    /\ conn[r] = "streaming"
    /\ ReadBytes(r)
    /\ UNCHANGED <<sessionVars, procVars, connVars>>

StreamParks(r) ==
    /\ conn[r] = "streaming"
    /\ ReadParks(r)
    /\ UNCHANGED <<sessionVars, procVars, connVars>>

\* read answers nothing: what is left is flushed and deliver returns.
StreamSeesEnd(r) ==
    /\ conn[r] = "streaming"
    /\ ReadEnded(r)
    /\ conn' = [conn EXCEPT ![r] = "draining"]
    /\ UNCHANGED <<sessionVars, procVars, mygen, sent, peer, table, ack, owes, miscounted,
                   dismissed, owner, seen>>

\* deliver's flush reaches the client.
StreamDelivers(r) ==
    /\ Streaming(r)
    /\ peer[r]
    /\ sent[r] < at[r]
    /\ sent' = [sent EXCEPT ![r] = at[r]]
    /\ owes' = [owes EXCEPT ![r] = TRUE]
    /\ UNCHANGED <<vars, sessionVars, procVars,
                   conn, mygen, peer, table, ack, miscounted, dismissed, owner, seen>>

\* deliver returns: the stream ended and all of it is out, or a write failed.
\* Nothing else notices that the client is gone.
StreamReturns(r) ==
    /\ \/ conn[r] = "draining" /\ sent[r] = at[r]
       \/ Streaming(r) /\ ~peer[r] /\ sent[r] < at[r]
    /\ conn' = [conn EXCEPT ![r] = "leaving"]
    /\ UNCHANGED <<vars, sessionVars, procVars,
                   mygen, sent, peer, table, ack, owes, miscounted, dismissed, owner, seen>>

PeerDies(r) ==
    /\ "die" \in Allowed
    /\ peer[r] /\ conn[r] \notin {"new", "leaving", "closed"}
    /\ peer' = [peer EXCEPT ![r] = FALSE]
    /\ UNCHANGED <<vars, sessionVars, procVars,
                   conn, mygen, sent, table, ack, owes, miscounted, dismissed, owner, seen>>

\* The handler's locals, and its place in the history, go with it.
HandlerGone(r) ==
    /\ conn' = [conn EXCEPT ![r] = "closed"]
    /\ mygen' = [mygen EXCEPT ![r] = 0]
    /\ sent' = [sent EXCEPT ![r] = 0]
    /\ peer' = [peer EXCEPT ![r] = TRUE]
    /\ owes' = [owes EXCEPT ![r] = FALSE]
    /\ owner' = IF owner = r THEN "nobody" ELSE owner
    /\ IF pc[r] = "idle" THEN UNCHANGED vars ELSE Leave(r)

\* Mutant: any handler that leaves takes the renderer's mark with it.
HandlerDetachesAnyone(r) ==
    /\ conn[r] \in {"leaving", "refused"}
    /\ attached' = FALSE
    /\ resume' = 1
    /\ HandlerGone(r)
    /\ UNCHANGED <<acked, gen, procVars, table, ack, miscounted, dismissed, seen>>

\* Mutant: the pump is not told that a handler left.
HandlerDetachesQuietly(r) ==
    /\ conn[r] \in {"leaving", "refused"}
    /\ attached' = (attached /\ gen # mygen[r])
    /\ HandlerGone(r)
    /\ UNCHANGED <<resume, acked, gen, procVars, table, ack, miscounted, dismissed, seen>>

\* The handler's deferred detachRenderer: only the current generation detaches,
\* and the pump is asked to look again either way.
HandlerDetaches(r) ==
    /\ conn[r] \in {"leaving", "refused"}
    /\ attached' = (attached /\ gen # mygen[r])
    /\ resume' = 1
    /\ HandlerGone(r)
    /\ UNCHANGED <<acked, gen, procVars, table, ack, miscounted, dismissed, seen>>

\* The detach request: detachActiveRenderer.
DetachActive ==
    /\ "detach" \in Allowed
    /\ registered
    /\ attached
    /\ attached' = FALSE
    /\ resume' = 1
    /\ dismissed' = TRUE
    /\ owner' = "nobody"
    /\ UNCHANGED <<vars, acked, gen, procVars,
                   conn, mygen, sent, peer, table, ack, owes, miscounted, seen>>

----------------------------------------------------------------------------
(* ack *)

\* Clamped to written, and ring.ack never goes back.
ClampedAck(n) ==
    LET through == IF n > written THEN written ELSE n IN
    IF through > acked THEN through ELSE acked

\* session.ack's first half, under session.mu.
AckTaken(r, n) ==
    /\ registered
    /\ ack[r] = NoAck
    /\ acked' = ClampedAck(n)
    /\ ack' = [ack EXCEPT ![r] = [step |-> "release?", written |-> written]]
    /\ UNCHANGED <<vars, gen, attached, resume, procVars,
                   conn, mygen, sent, peer, table, dismissed, owner, seen>>

\* The client of stream r acks all it was sent.
ClientAcks(r) ==
    /\ peer[r] /\ Streaming(r) /\ owes[r]
    /\ AckTaken(r, sent[r])
    /\ owes' = [owes EXCEPT ![r] = FALSE]
    /\ UNCHANGED miscounted

\* An ack of any position, from a client that counts wrong; once.
ClientMiscounts(r, n) ==
    /\ "miscount" \in Allowed
    /\ ~miscounted
    /\ AckTaken(r, n)
    /\ miscounted' = TRUE
    /\ UNCHANGED owes

\* Mutant: the pump is released only when everything is acked and more.
ReleasedBelow(w) == w >= acked /\ w - acked < LowWatermark

\* ring.resumed, with the written the first half read.
Released(w) == w >= acked /\ w - acked <= LowWatermark

\* session.ack's second half, outside session.mu.
AckReleases(r) ==
    /\ ack[r].step = "release?"
    /\ resume' = IF Released(ack[r].written) THEN 1 ELSE resume
    /\ ack' = [ack EXCEPT ![r] = NoAck]
    /\ UNCHANGED <<vars, acked, gen, attached, procVars,
                   conn, mygen, sent, peer, table, owes, miscounted, dismissed, owner, seen>>

----------------------------------------------------------------------------
FlowInit ==
    /\ Init
    /\ acked = 0 /\ gen = 0 /\ attached = FALSE /\ resume = 0
    /\ pump = "read" /\ shell = "running" /\ closed = FALSE
    /\ registered = TRUE /\ closer = "none"
    /\ conn = [r \in Readers |-> "new"]
    /\ mygen = [r \in Readers |-> 0]
    /\ sent = [r \in Readers |-> 0]
    /\ peer = [r \in Readers |-> TRUE]
    /\ table = {}
    /\ ack = [r \in Readers |-> NoAck]
    /\ owes = [r \in Readers |-> FALSE]
    /\ miscounted = FALSE
    /\ dismissed = FALSE
    /\ owner = "nobody"
    /\ seen = 0

\* Steps the pump goroutine takes by itself.
PumpStep ==
    \/ PumpAsksAttached \/ PumpAsksBehind \/ PumpWakes
    \/ PumpEndsRing \/ PumpReaps

CloserStep == CloserMarksClosed \/ CloserTerminates \/ CloserEndsRing

\* Steps the goroutine of connection r takes by itself.
HandlerStep(r) ==
    \/ AttachResolvesLive(r)
    \/ \E t \in Tokens : AttachLeaseStands(r, t)
    \/ \E t \in Tokens : AttachLeaseBroken(r, t)
    \/ \E t \in Tokens : AttachLeaseGone(r, t)
    \/ StreamReads(r) \/ StreamParks(r) \/ StreamSeesEnd(r)
    \/ StreamReturns(r) \/ HandlerDetaches(r)
    \/ AckReleases(r)

ClientStep(r) == StreamDelivers(r) \/ ClientAcks(r)

\* What clients, the shell and timers may do or never do.
Environment ==
    \/ \E n \in ChunkSizes : PumpReads(n)
    \/ ShellExits
    \/ CloseRequested
    \/ DetachActive
    \/ \E r \in Readers : Attach(r)
    \/ \E r \in Readers, from \in Cursors : AttachResolves(r, from)
    \/ \E r \in Readers : PeerDies(r)
    \/ \E r \in Readers, n \in Cursors : ClientMiscounts(r, n)
    \/ \E t \in Tokens, after \in Cursors : LeaseIssued(t, after)
    \/ \E t \in Tokens : LeaseExpires(t)
    \/ \E r \in Readers, t \in Tokens : AttachLease(r, t)

FlowNext ==
    \/ PumpStep
    \/ CloserStep
    \/ \E r \in Readers : HandlerStep(r) \/ ClientStep(r)
    \/ Environment

\* Goroutines run; a client that is there takes its bytes and acks them.
Fairness ==
    /\ WF_flowVars(PumpStep)
    /\ WF_flowVars(CloserStep)
    /\ \A r \in Readers : WF_flowVars(HandlerStep(r)) /\ WF_flowVars(ClientStep(r))

FlowSafety == FlowInit /\ [][FlowNext]_flowVars

FlowSpec == FlowSafety /\ Fairness

----------------------------------------------------------------------------
(* What flow control promises *)

\* Every variable holds a value of its kind.
FlowTypeOK ==
    /\ TypeOK
    /\ acked \in Nat /\ gen \in Nat /\ resume \in 0..1
    /\ attached \in BOOLEAN /\ closed \in BOOLEAN /\ registered \in BOOLEAN
    /\ miscounted \in BOOLEAN /\ dismissed \in BOOLEAN
    /\ pump \in {"read", "attached?", "behind?", "wait", "reap", "done"}
    /\ shell \in {"running", "exited"}
    /\ closer \in {"none", "reap", "terminate", "end", "done"}
    /\ conn \in [Readers -> Tokens \cup HandlerPlaces]
    /\ mygen \in [Readers -> Nat]
    /\ sent \in [Readers -> Nat]
    /\ peer \in [Readers -> BOOLEAN]
    /\ table \subseteq Tokens
    /\ ack \in [Readers -> [step : {"none", "release?"}, written : Nat]]
    /\ owes \in [Readers -> BOOLEAN]
    /\ owner \in Readers \cup {"nobody"}
    /\ seen \in Nat

\* A session is marked rendered exactly while the handler that attached last is
\* there and was not told to detach: a stream that was replaced never takes the
\* mark from its successor and never leaves its own behind (session.go 358-361).
RendererMarkIsExact ==
    attached <=> \E r \in Readers : /\ mygen[r] = gen /\ gen > 0
                                    /\ conn[r] \notin {"new", "closed"}
                                    /\ ~dismissed

\* No lost wake-up: a pump that waits with no token in the channel waits for a
\* renderer that is attached and above the low mark, or for an ack that is
\* about to look (pump 339-344, ack 590, detachRenderer 396).
WaitingPumpHasAReason ==
    pump = "wait" /\ resume = 0 =>
        \/ attached /\ written - acked > LowWatermark
        \/ \E r \in Readers : ack[r].step = "release?"

\* The pump never reads on while a renderer it has seen attached is a full
\* window behind, whoever woke it: what that renderer has not acked is bounded
\* by the high mark and one chunk (pump 307-309, 339).
PumpHoldsForTheRenderer ==
    attached /\ seen = gen /\ pump = "read" => written - acked < HighWatermark

\* The renderer's client is gone.  Nothing tells the daemon so until it writes.
RendererGone == \E r \in Readers : mygen[r] = gen /\ ~peer[r]

\* The shell is never held back for ever while the renderer is there to take its
\* output: a run that went away never leaves the pane undrawable for the next
\* renderer (README "A session has one renderer", session.go 358-361).
PausedPumpResumes == pump = "wait" ~> (pump # "wait" \/ RendererGone)

\* Once a session is reaped its pump finishes and every stream is let go, even
\* one whose client is dead and a pump that was paused (reap 650-654, ring.end).
ReapReleasesEveryone ==
    closed ~> (pump = "done" /\ \A r \in Readers : conn[r] \in {"new", "closed"})

\* The stream of the attached renderer is never behind the ring's floor: what it
\* has not read yet is still there, or it would be restarted (ring.go 25-27).
RendererStreamIsRetained ==
    \A r \in Readers :
        attached /\ mygen[r] = gen /\ conn[r] = "streaming" => at[r] >= floor

\* A lease attach that is refused does not cost the renderer that is streaming
\* its place (attachment_test.go 17: an attached renderer owns backpressure until
\* it detaches).
RefusalLeavesTheRenderer == owner # "nobody" => attached
=============================================================================

------------------------------ MODULE Observer ------------------------------
(***************************************************************************)
(* observer.go and the session side that feeds it: one session's event     *)
(* stream as one observer sees it.  The session numbers its events (output,*)
(* resize, end) under session.mu and publishes each to the observer's      *)
(* queue; the queue joins neighbouring output, replaces output it has no   *)
(* room for by a gap, and a handler (deliverObservations) drains it.       *)
(*                                                                         *)
(* The observer joins in one of three ways: prepared before the session    *)
(* opens, adopted by a session that runs, or by an observe request.        *)
(* Observers share nothing but the session, so one is modelled.            *)
(***************************************************************************)
EXTENDS Integers, Sequences

CONSTANTS
    ObserverBuffer,  \* ptycontract.ObserverBufferBytes
    RingCapacity,    \* the capacity of the session's ring
    ChunkSizes,      \* sizes one read off the master may have
    MaxSeq,          \* bound: output written
    MaxEvents,       \* bound: events published
    Allowed          \* bound: which of ObserverEvents this instance explores

ObserverEvents == {"prepare", "observe", "resize", "die", "restart"}

ASSUME ObserverConstants ==
    /\ ObserverBuffer \in Nat \ {0}
    /\ RingCapacity \in Nat \ {0}
    /\ ChunkSizes \subseteq Nat \ {0}
    /\ MaxSeq \in Nat /\ MaxEvents \in Nat
    /\ Allowed \subseteq ObserverEvents

VARIABLES
    sess,     \* "absent", "opening" (no pump yet; "openingFor" a prepared one), "running"
    registered, \* whether registry.sessions holds the session
    pump,     \* whether the pump goroutine still reads
    closed,   \* session.closed
    seq,      \* session.eventSequence
    written,  \* session.written
    entry,    \* the observer's place in session.observers: "none", "member", "removed"
    obs,      \* the observer: events, queued, closed; signal is set by ready.Signal
    kind,     \* the request its stream came by: "none", "prepared", "observe"
    stream,   \* its handler: "none", "ready", "waiting" (in ready.Wait), "over"
    peer,     \* whether the client at the other end is there
    taken     \* history: the events next has answered, in order

sessionVars == <<sess, registered, pump, closed, seq, written>>
streamVars == <<kind, peer>>
vars == <<sessionVars, entry, obs, streamVars, stream, taken>>

Produced(from, n) == [i \in 1..n |-> from + i - 1]

\* ring.snapshot's floor with no lease outstanding.
Floor == IF written > RingCapacity THEN written - RingCapacity ELSE 0

----------------------------------------------------------------------------
(* The events *)

Output(ev, from, bytes) ==
    [kind |-> "output", ev |-> ev, from |-> from, to |-> from + Len(bytes), bytes |-> bytes]

\* Covers the events evFrom..ev-1.
Gap(evFrom, evThrough, from, to) ==
    [kind |-> "gap", ev |-> evThrough, evFrom |-> evFrom, from |-> from, to |-> to]

\* A resize, an end or an opened.
Mark(what, ev) == [kind |-> what, ev |-> ev]

\* The bytes an event carries.
Size(e) == IF e.kind = "output" THEN Len(e.bytes) ELSE 0

NewObserver == [events |-> <<>>, queued |-> 0, closed |-> FALSE, signal |-> FALSE]

----------------------------------------------------------------------------
(* Publishing: each answers the observer it leaves *)

\* Mutant: the handler is not woken.
PublishQuietly(o, e) ==
    IF o.closed THEN o ELSE [o EXCEPT !.events = Append(@, e)]

Publish(o, e) ==
    IF o.closed THEN o ELSE [o EXCEPT !.events = Append(@, e), !.signal = TRUE]

\* Mutant: joining a gap does not move its end.
PublishGapJoinsShort(o, g) ==
    IF o.closed THEN o
    ELSE LET n == Len(o.events) IN
         IF n > 0 /\ o.events[n].kind = "gap" /\ o.events[n].ev = g.evFrom
         THEN [o EXCEPT !.events[n].ev = g.ev]
         ELSE Publish(o, g)

\* A gap that begins where the last queued gap ends extends it, with no signal:
\* the queue was not empty.
PublishGap(o, g) ==
    IF o.closed THEN o
    ELSE LET n == Len(o.events) IN
         IF n > 0 /\ o.events[n].kind = "gap" /\ o.events[n].ev = g.evFrom
         THEN [o EXCEPT !.events[n].ev = g.ev, !.events[n].to = g.to]
         ELSE Publish(o, g)

\* Whether output e continues the last queued event.
Joins(o, e) ==
    LET n == Len(o.events) IN
    /\ n > 0
    /\ o.events[n].kind = "output"
    /\ o.events[n].ev + 1 = e.ev
    /\ o.events[n].to = e.from

PublishOutput(o, e) ==
    LET n == Len(o.events) IN
    IF o.closed THEN o
    ELSE IF o.queued + Len(e.bytes) > ObserverBuffer
    THEN PublishGap(o, Gap(e.ev, e.ev + 1, e.from, e.to))
    ELSE [IF Joins(o, e)
          THEN [o EXCEPT !.events[n].ev = e.ev, !.events[n].to = e.to,
                         !.events[n].bytes = @ \o e.bytes]
          ELSE [o EXCEPT !.events = Append(@, e)]
          EXCEPT !.queued = @ + Len(e.bytes), !.signal = TRUE]

\* The observer is left as o, and a signal wakes the handler that waits on it.
Deliver(o) ==
    /\ obs' = [o EXCEPT !.signal = FALSE]
    /\ stream' = IF o.signal /\ stream = "waiting" THEN "ready" ELSE stream

\* What the session publishes reaches the observer while it is a member.
Publishes(o) == IF entry = "member" THEN Deliver(o) ELSE UNCHANGED <<obs, stream>>

----------------------------------------------------------------------------
(* The session *)

\* openWithObserver registers the session, the prepared observer with it ...
OpenSession(bind) ==
    /\ sess = "absent"
    /\ bind => kind = "prepared" /\ entry = "none"
    /\ sess' = IF bind THEN "openingFor" ELSE "opening"
    /\ registered' = TRUE
    /\ entry' = IF bind THEN "member" ELSE entry
    /\ UNCHANGED <<pump, closed, seq, written, obs, streamVars, stream, taken>>

\* ... and then, outside the lock, publishes Opened and starts the pump.
OpenPublishes ==
    /\ sess \in {"opening", "openingFor"}
    /\ sess' = "running"
    /\ pump' = TRUE
    /\ IF sess = "openingFor" THEN Deliver(Publish(obs, Mark("opened", 0)))
                              ELSE UNCHANGED <<obs, stream>>
    /\ UNCHANGED <<registered, closed, seq, written, entry, streamVars, taken>>

\* Output.  Nothing here asks whether the session is closed: a pump that read a
\* chunk before the terminate still publishes it.
PumpPublishes(n) ==
    /\ pump
    /\ written + n <= MaxSeq /\ seq < MaxEvents
    /\ written' = written + n
    /\ seq' = seq + 1
    /\ Publishes(PublishOutput(obs, Output(seq + 1, written, Produced(written, n))))
    /\ UNCHANGED <<sess, registered, pump, closed, entry, streamVars, taken>>

Resize ==
    /\ "resize" \in Allowed
    /\ registered
    /\ seq < MaxEvents
    /\ seq' = seq + 1
    /\ Publishes(Publish(obs, Mark("resize", seq + 1)))
    /\ UNCHANGED <<sess, registered, pump, closed, written, entry, streamVars, taken>>

\* reap's section under session.mu: the end is an event, once.
Reaped ==
    /\ closed' = TRUE
    /\ IF closed THEN UNCHANGED <<seq, obs, stream>>
       ELSE /\ seq' = seq + 1
            /\ Publishes(Publish(obs, Mark("end", seq + 1)))

\* The shell exits and the pump reaps; the session stays in the registry.
PumpReaps ==
    /\ pump
    /\ pump' = FALSE
    /\ Reaped
    /\ UNCHANGED <<sess, registered, written, entry, streamVars, taken>>

\* A close, or the abandon sweep, reaps a session whose pump may still run.
CloserReaps ==
    /\ registered
    /\ registered' = FALSE
    /\ Reaped
    /\ UNCHANGED <<sess, pump, written, entry, streamVars, taken>>

\* The process ends and the next one restores the session: the output continues
\* where it was, and the session is built with no event sequence.
Restart ==
    /\ "restart" \in Allowed
    /\ sess = "running" /\ registered /\ ~closed
    /\ seq' = 0
    /\ entry' = "none" /\ obs' = NewObserver
    /\ kind' = "none" /\ stream' = "none" /\ peer' = TRUE /\ taken' = <<>>
    /\ UNCHANGED <<sess, registered, pump, closed, written>>

----------------------------------------------------------------------------
(* The observer's requests *)

\* What the ring no longer holds, as a gap, and then what it holds.
Retained(o) ==
    LET told == IF Floor > 0 THEN PublishGap(o, Gap(0, seq, 0, Floor)) ELSE o IN
    IF written = Floor THEN told
    ELSE PublishOutput(told, Output(seq, Floor, Produced(Floor, written - Floor)))

\* Mutant: the retained output is queued ahead of Opened.
AdoptPublishesLate(o) == Publish(Retained(o), Mark("opened", seq))

\* Opened names the session, and what it retained follows.
AdoptPublishes(o) == Retained(Publish(o, Mark("opened", seq)))

\* observePrepared: the stream starts before there is a session.
ObservePrepared ==
    /\ "prepare" \in Allowed
    /\ kind = "none"
    /\ kind' = "prepared"
    /\ stream' = "ready"
    /\ UNCHANGED <<sessionVars, entry, obs, peer, taken>>

\* open on a pane that holds a session: adoptObserver, all under session.mu.
Adopt ==
    /\ registered
    /\ kind = "prepared" /\ entry = "none"
    /\ entry' = "member"
    /\ Deliver(AdoptPublishes(obs))
    /\ UNCHANGED <<sessionVars, streamVars, taken>>

\* observe without a token.
Observe ==
    /\ "observe" \in Allowed
    /\ registered
    /\ kind = "none"
    /\ kind' = "observe"
    /\ entry' = "member"
    /\ obs' = [Retained(NewObserver) EXCEPT !.signal = FALSE]
    /\ stream' = "ready"
    /\ UNCHANGED <<sessionVars, peer, taken>>

----------------------------------------------------------------------------
(* The stream *)

\* Mutant: bytes that were taken still count as queued.
NextKeepsQueued ==
    /\ stream = "ready"
    /\ obs.events # <<>>
    /\ obs' = [obs EXCEPT !.events = Tail(@)]
    /\ taken' = Append(taken, Head(obs.events))
    /\ stream' = IF peer /\ Head(obs.events).kind # "end" THEN "ready" ELSE "over"
    /\ UNCHANGED <<sessionVars, entry, streamVars>>

\* next answers the first event and it is written out.  The handler returns
\* after an end, or when the write fails because the client is gone.
TakeNext ==
    /\ stream = "ready"
    /\ obs.events # <<>>
    /\ obs' = [obs EXCEPT !.events = Tail(@),
                          !.queued = @ - Size(Head(obs.events))]
    /\ taken' = Append(taken, Head(obs.events))
    /\ stream' = IF peer /\ Head(obs.events).kind # "end" THEN "ready" ELSE "over"
    /\ UNCHANGED <<sessionVars, entry, streamVars>>

\* next with nothing queued: ready.Wait, or nothing more will come.
NextWaits ==
    /\ stream = "ready"
    /\ obs.events = <<>>
    /\ stream' = IF obs.closed THEN "over" ELSE "waiting"
    /\ UNCHANGED <<sessionVars, entry, obs, streamVars, taken>>

PeerDies ==
    /\ "die" \in Allowed
    /\ peer /\ stream \in {"ready", "waiting"}
    /\ peer' = FALSE
    /\ UNCHANGED <<sessionVars, entry, obs, kind, stream, taken>>

\* Mutant: nothing reads the connection.
NeverNotices == FALSE /\ UNCHANGED vars

\* observePrepared's reader sees the connection end and closes the observer; a
\* stream that came by observe has no such reader.
PreparedNotices ==
    /\ kind = "prepared" /\ ~peer /\ ~obs.closed
    /\ obs' = [obs EXCEPT !.closed = TRUE]
    /\ stream' = IF stream = "waiting" THEN "ready" ELSE stream
    /\ UNCHANGED <<sessionVars, entry, streamVars, taken>>

\* The handler is done: removeObserver.  A prepared stream looks its session up
\* by pane first.
Removed ==
    /\ stream = "over" /\ entry = "member"
    /\ kind = "prepared" => registered
    /\ entry' = "removed"
    /\ obs' = [obs EXCEPT !.closed = TRUE]
    /\ UNCHANGED <<sessionVars, streamVars, stream, taken>>

----------------------------------------------------------------------------
Init ==
    /\ sess = "absent" /\ registered = FALSE /\ pump = FALSE /\ closed = FALSE
    /\ seq = 0 /\ written = 0
    /\ entry = "none" /\ obs = NewObserver
    /\ kind = "none" /\ stream = "none" /\ peer = TRUE
    /\ taken = <<>>

StreamStep == TakeNext \/ NextWaits \/ PreparedNotices \/ Removed

Next ==
    \/ \E bind \in BOOLEAN : OpenSession(bind)
    \/ OpenPublishes
    \/ \E n \in ChunkSizes : PumpPublishes(n)
    \/ Resize
    \/ PumpReaps
    \/ CloserReaps
    \/ Restart
    \/ ObservePrepared
    \/ Adopt
    \/ Observe
    \/ StreamStep
    \/ PeerDies

\* Handlers run; an open that registered a session finishes.  Nothing makes a
\* shell speak, a client leave or a session end.
Fairness == WF_vars(StreamStep) /\ WF_vars(OpenPublishes)

Safety == Init /\ [][Next]_vars

Spec == Safety /\ Fairness

----------------------------------------------------------------------------
(* What an observer is promised *)

\* Everything the observer was or will be handed.
Stream == taken \o obs.events

Events ==
    [kind : {"output"}, ev : Nat, from : Nat, to : Nat, bytes : Seq(Nat)]
    \cup [kind : {"gap"}, ev : Nat, evFrom : Nat, from : Nat, to : Nat]
    \cup [kind : {"resize", "end", "opened"}, ev : Nat]

Observers == [events : Seq(Events), queued : Nat, closed : BOOLEAN, signal : BOOLEAN]

\* Every variable holds a value of its kind, and no signal is left pending.
TypeOK ==
    /\ sess \in {"absent", "opening", "openingFor", "running"}
    /\ registered \in BOOLEAN /\ pump \in BOOLEAN /\ closed \in BOOLEAN /\ peer \in BOOLEAN
    /\ seq \in Nat /\ written \in Nat
    /\ entry \in {"none", "member", "removed"}
    /\ kind \in {"none", "prepared", "observe"}
    /\ stream \in {"none", "ready", "waiting", "over"}
    /\ obs \in Observers /\ ~obs.signal
    /\ taken \in Seq(Events)

IsRange(e) == e.kind \in {"output", "gap"}

\* The ranges of s, in their order, cover the output below w without overlap and
\* without a hole, and the bytes of a range are the bytes produced there.
Covers(s, w) ==
    /\ \A i \in 1..Len(s) : IsRange(s[i]) =>
          /\ s[i].from < s[i].to /\ s[i].to <= w
          /\ s[i].kind = "output" => s[i].bytes = Produced(s[i].from, s[i].to - s[i].from)
    /\ \A i, j \in 1..Len(s) : i < j /\ IsRange(s[i]) /\ IsRange(s[j]) => s[i].to <= s[j].from
    /\ \A p \in 0..w - 1 :
          \E i \in 1..Len(s) : IsRange(s[i]) /\ s[i].from <= p /\ p < s[i].to

\* The ranges an observer is told cover the session's output from its first byte
\* to its last: whatever was joined, dropped for want of room, or trimmed before it
\* came is either there or told as a gap (publishOutput, publishGapLocked, observe
\* 511-527, adoptObserver 835-853).
EveryByteIsAccountedFor == entry = "member" /\ ~obs.closed => Covers(Stream, written)

\* The first event number e stands for.
First(e) == IF e.kind = "gap" THEN e.evFrom ELSE e.ev

\* Each event of s is later than every one before it, and none falls inside a gap
\* already told; an Opened says where the session stood and is no event of its own.
Advances(s) ==
    \A i, j \in 1..Len(s) : i < j /\ s[i].kind # "opened" /\ s[j].kind # "opened" =>
        IF s[i].kind = "gap" THEN First(s[j]) >= s[i].ev ELSE First(s[j]) > s[i].ev

\* s names the session before it tells any output.
SessionComesFirst(s) ==
    \A i \in 1..Len(s) : IsRange(s[i]) => \E j \in 1..i - 1 : s[j].kind = "opened"

\* Events are told in the order the session numbered them and none is told twice;
\* and a prepared observer is told which session it watches before any of that
\* session's output, whether the session was opened for it or was running (pump
\* 328-336, resize 470-475, reap 620, openWithObserver 294-301, adoptObserver
\* 825-827).
EventsAdvance == Advances(Stream) /\ (kind = "prepared" => SessionComesFirst(Stream))

\* The output the events of s hold.
Held(s) ==
    LET upTo[i \in 0..Len(s)] == IF i = 0 THEN 0 ELSE upTo[i - 1] + Size(s[i])
    IN upTo[Len(s)]

\* The queue's count is the output it holds, and never more than its budget: a
\* client that stops reading costs the daemon that much and no more (newObserver,
\* publishOutput 42, next 126).
QueueHoldsItsBudget == obs.queued = Held(obs.events) /\ obs.queued <= ObserverBuffer

\* No lost wake-up: a handler that waits has nothing to take and its observer is
\* open (next 117, the Signal of every publish).
WaitingHandlerHasNothing ==
    stream = "waiting" => obs.events = <<>> /\ ~obs.closed

\* A handler holds the observer.
Served == stream \in {"ready", "waiting"}

\* The stream of an observer that was there when the session ended comes to its
\* end, however far behind it was (reap 621-624, deliverObservations 121-126).
EndReachesTheObserver ==
    (\E i \in 1..Len(obs.events) : obs.events[i].kind = "end") ~> ~Served

\* A prepared observer whose client went away is let go, however quiet the session
\* is (observePrepared 304-316).
DeadPreparedPeerLetsGo == (~peer /\ kind = "prepared") ~> ~Served

\* A client that went away never holds its observer for ever, whichever request its
\* stream came by (control.go 304-306).
DeadPeerLetsGo == (~peer) ~> (stream = "over")

\* The event sequence is the session's and outlives the process (SESSION-STATE.md
\* 41).
EventSequenceNeverRestarts == [][seq' >= seq]_vars
=============================================================================

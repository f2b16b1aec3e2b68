------------------------------- MODULE Registry -------------------------------
(***************************************************************************)
(* registry of session.go, restore.go, and the handlers of control.go that *)
(* change which sessions there are: how a session comes into the table,    *)
(* leaves it, ends, and comes back in the next daemon.                     *)
(*                                                                         *)
(* Opens and closes run on connections of their own, beside the restore of *)
(* the start, the abandon sweep, each shell's pump and the stop.  They     *)
(* meet at reg.mu and at the record's lock: what they do between two locks *)
(* is one step.  A session object is named by its shell's number k, which  *)
(* is given out anew in every daemon; the id is what the record is filed   *)
(* under.  All sessions are of one window.  What a record holds besides    *)
(* its pane and its stop mark is in Record and Store.                      *)
(***************************************************************************)
EXTENDS Integers, FiniteSets, FiniteSetsExt

CONSTANTS
    Openers,     \* connections that ask for pty.open, each once
    Wants(_),    \* the panes each of them may name
    Closers,     \* connections that ask for a close, each once
    Seeds,       \* what randomInstanceSeed may draw for reg.next
    MaxId,       \* bound: ids issued
    MaxShells,   \* bound: shells one daemon starts
    MaxStarts,   \* bound: starts of the daemon
    MaxEvents,   \* bound: failing calls, crashes, stops, exits and sweeps
    Allowed      \* bound: which of RegistryEvents this instance explores

RegistryEvents == {"crash", "stop", "close", "window", "sweep", "exit", "early", "fail"}

ASSUME RegistryConstants ==
    /\ Seeds \subseteq Nat /\ MaxId \in Nat /\ MaxShells \in Nat /\ MaxStarts \in Nat
    /\ MaxEvents \in Nat /\ Allowed \subseteq RegistryEvents

Panes == UNION {Wants(o) : o \in Openers}
Shells == 1..MaxShells
Ids == 1..MaxId
None == 0

VARIABLES
    records,  \* disk: the pane and the stop mark of each record
    life,     \* the daemon: "starting", "serving", "stopping", "down"
    starts,   \* starts so far
    todo,     \* restore: the ids list answered that are not restored yet
    restorer, \* where restoreOne is
    sessions, \* reg.sessions: the session object of each id
    outcomes, \* reg.outcomes
    next,     \* reg.next
    shell,    \* kernel: each shell, "none", "running", "gone"
    object,   \* the id and pane of each session object, and whether it has a store
    reap,     \* where the reap of each session is
    over,     \* whether that reap ends the session
    opener,   \* where each open is
    closer,   \* where each close is
    sweep,    \* where endAbandoned is, and the sessions it took out
    stop,     \* where shutdown is, and the sessions it took out
    events,   \* bound: such events so far
    used,     \* history: ids a session ever had
    dead,     \* history: ids whose session was ended
    early,    \* history: ids taken out before their record was written
    kept,     \* history: ids whose record a failing call left as it was
    reissued, \* history: ids issued to a second session
    crowded   \* history: panes that may have come by two sessions

diskVars == <<records>>
daemonVars == <<life, starts, todo, restorer, sessions, outcomes, next>>
shellVars == <<shell, object, reap, over>>
actorVars == <<opener, closer, sweep, stop>>
histVars == <<used, dead, early, kept, reissued, crowded>>
vars == <<diskVars, daemonVars, shellVars, actorVars, events, histVars>>

NoObject == [id |-> None, pane |-> None, stored |-> FALSE]
NoOpen == [at |-> "idle", pane |-> None, k |-> None]
OpenDone == [NoOpen EXCEPT !.at = "done"]
NoClose == [at |-> "idle", ids |-> {}, id |-> None, k |-> None]
CloseDone == [NoClose EXCEPT !.at = "done"]
NoRestore == [at |-> "list", id |-> None, k |-> None]
NoStop == [at |-> "none", ks |-> {}, k |-> None]
Nothing == [i \in {} |-> None]

Without(f, S) == [i \in DOMAIN f \ S |-> f[i]]
With(f, i, v) == [j \in DOMAIN f \cup {i} |-> IF j = i THEN v ELSE f[j]]

Up == life \in {"serving", "stopping"}
Happens == events < MaxEvents /\ events' = events + 1
Fails == "fail" \in Allowed /\ Happens
FreeShell == Min({k \in Shells : shell[k] = "none"})
CanStart == \E k \in Shells : shell[k] = "none"

----------------------------------------------------------------------------
(* open *)

\* Mutant: the next number, whoever has it.
IssueNext == next + 1

\* issueLocked: the next number no session of the table has.
IssueLocked == Min({n \in (next + 1)..(next + 1 + Cardinality(DOMAIN sessions)) :
                        n \notin DOMAIN sessions})

\* Mutant: no session answers its pane.
HeldByNone(p) == FALSE

Registered(k) == \E id \in DOMAIN sessions : sessions[id] = k

HeldByPane(p) == \E id \in DOMAIN sessions : object[sessions[id]].pane = p

\* Another open of the pane is under way, or there is a record of it that no session of
\* the pane stands for.
Loose(p) ==
    {why \in {"open", "record"} :
        \/ why = "open" /\ \E o \in Openers : opener[o].pane = p /\ ~Registered(opener[o].k)
        \/ why = "record" /\ ~HeldByPane(p) /\ \E id \in DOMAIN records : records[id].pane = p}

\* byPane finds no session of the pane, and a shell is started outside any lock; a
\* session that is found is the answer, and a shell that does not start an error.
OpenStarts(o, p) ==
    /\ Up /\ opener[o].at = "idle" /\ CanStart
    /\ ~HeldByPane(p)
    /\ shell' = [shell EXCEPT ![FreeShell] = "running"]
    /\ opener' = [opener EXCEPT ![o] = [at |-> "started", pane |-> p, k |-> FreeShell]]
    /\ crowded' = crowded \cup ({p} \X Loose(p))
    /\ UNCHANGED <<diskVars, daemonVars, object, reap, over, closer, sweep, stop, events,
                   used, dead, early, kept, reissued>>

\* A daemon that is not stopping takes the session in.
OpenRegisters(o) ==
    LET k == opener[o].k IN
    /\ opener[o].at = "started" /\ life # "stopping"
    /\ IssueLocked \in Ids
    /\ next' = IssueLocked
    /\ sessions' = With(sessions, IssueLocked, k)
    /\ object' = [object EXCEPT ![k] = [id |-> IssueLocked, pane |-> opener[o].pane,
                                        stored |-> TRUE]]
    /\ opener' = [opener EXCEPT ![o].at = "registered"]
    /\ used' = used \cup {IssueLocked}
    /\ reissued' = IF IssueLocked \in used THEN reissued \cup {IssueLocked} ELSE reissued
    /\ UNCHANGED <<diskVars, life, starts, todo, restorer, outcomes, shell, reap, over, closer,
                   sweep, stop, events, dead, early, kept, crowded>>

OpenStopped(o) ==
    /\ opener[o].at = "started" /\ life = "stopping"
    /\ shell' = [shell EXCEPT ![opener[o].k] = "gone"]
    /\ opener' = [opener EXCEPT ![o] = OpenDone]
    /\ UNCHANGED <<diskVars, daemonVars, object, reap, over, closer, sweep, stop, events,
                   histVars>>

\* The creation write, and then the pump; without a record the session runs on.
OpenCreates(o) ==
    LET k == opener[o].k
        id == object[k].id
    IN /\ opener[o].at = "registered"
       /\ \/ /\ records' = With(records, id, [pane |-> object[k].pane, ended |-> FALSE])
             /\ UNCHANGED <<object, events>>
          \/ /\ Fails
             /\ object' = [object EXCEPT ![k].stored = FALSE]
             /\ UNCHANGED records
       /\ opener' = [opener EXCEPT ![o] = OpenDone]
       /\ UNCHANGED <<daemonVars, shell, reap, over, closer, sweep, stop, histVars>>

\* The session objects an open has registered and not recorded yet.
Unrecorded == {opener[o].k : o \in {x \in Openers : opener[x].at = "registered"}}

Pumped(k) ==
    /\ object[k].id # None /\ k \notin Unrecorded
    /\ restorer.k = k => restorer.at \in {"full", "degraded"}

----------------------------------------------------------------------------
(* reap: the first caller does it, the others return *)

Reaps(k, ends) ==
    /\ reap' = [reap EXCEPT ![k] = IF @ = "none" THEN "ending" ELSE @]
    /\ over' = [over EXCEPT ![k] = IF reap[k] = "none" THEN ends ELSE @]

\* Mutant: only an explicit close takes the record.
ReapTakesNone(k) == FALSE

\* Mutant: any reap takes it.
ReapTakesAlways(k) == object[k].stored

\* Whether the record goes with the session.
ReapTakes(k) == over[k] /\ object[k].stored

\* The record is removed, or a remove fails; the shell is terminated and waited for.
ReapFinishes(k) ==
    LET id == object[k].id IN
    /\ reap[k] = "ending"
    /\ \/ /\ records' = IF ReapTakes(k) THEN Without(records, {id}) ELSE records
          /\ UNCHANGED <<kept, events>>
       \/ /\ ReapTakes(k) /\ Fails
          /\ kept' = kept \cup {id}
          /\ UNCHANGED records
    /\ shell' = [shell EXCEPT ![k] = "gone"]
    /\ reap' = [reap EXCEPT ![k] = "done"]
    /\ dead' = IF over[k] THEN dead \cup {id} ELSE dead
    /\ UNCHANGED <<daemonVars, object, over, actorVars, used, early, reissued, crowded>>

\* The shell exits and the pump reaps: the session is over and stays in the table.
ShellExits(k) ==
    /\ "exit" \in Allowed /\ Happens
    /\ life # "down" /\ shell[k] = "running" /\ Pumped(k) /\ reap[k] = "none"
    /\ shell' = [shell EXCEPT ![k] = "gone"]
    /\ Reaps(k, TRUE)
    /\ UNCHANGED <<diskVars, daemonVars, object, actorVars, histVars>>

----------------------------------------------------------------------------
(* close: one id, or all a window has *)

\* pty.close and session.close, the second also for an id that is not held; one that
\* names nothing changes nothing.
CloseAsks(c, id) ==
    /\ "close" \in Allowed
    /\ Up /\ closer[c].at = "idle"
    /\ id \in DOMAIN sessions \cup DOMAIN records \cup DOMAIN outcomes
    /\ closer' = [closer EXCEPT ![c] = [NoClose EXCEPT !.at = "next", !.ids = {id}]]
    /\ UNCHANGED <<diskVars, daemonVars, shellVars, opener, sweep, stop, events, histVars>>

\* closeWindow lists first and closes after; with one session it is as CloseAsks.
CloseWindowAsks(c) ==
    /\ "window" \in Allowed
    /\ Up /\ closer[c].at = "idle" /\ Cardinality(DOMAIN sessions) > 1
    /\ closer' = [closer EXCEPT ![c] = [NoClose EXCEPT !.at = "next", !.ids = DOMAIN sessions]]
    /\ UNCHANGED <<diskVars, daemonVars, shellVars, opener, sweep, stop, events, histVars>>

\* The reap this caller does is done, or there is none.
Returned(worker) == worker.k # None => reap[worker.k] = "done"

\* close takes the session out of the table ...
CloseTakes(c, id) ==
    LET k == IF id \in DOMAIN sessions THEN sessions[id] ELSE None IN
    /\ closer[c].at = "next" /\ Returned(closer[c]) /\ id \in closer[c].ids
    /\ k \in Unrecorded => "early" \in Allowed
    /\ sessions' = Without(sessions, {id})
    /\ closer' = [closer EXCEPT ![c] = [at |-> "remove", ids |-> closer[c].ids \ {id},
                                        id |-> id, k |-> k]]
    /\ early' = IF k \in Unrecorded THEN early \cup {id} ELSE early
    /\ UNCHANGED <<diskVars, life, starts, todo, restorer, outcomes, next, shellVars, opener,
                   sweep, stop, events, used, dead, kept, reissued, crowded>>

\* Mutant: a remove that fails is the answer, and the session is not reaped.
CloseRemovesOrFails(c) ==
    /\ closer[c].at = "remove"
    /\ \/ /\ records' = Without(records, {closer[c].id})
          /\ closer' = [closer EXCEPT ![c].at = "forget"]
          /\ UNCHANGED <<kept, events>>
       \/ /\ Fails /\ kept' = kept \cup {closer[c].id}
          /\ closer' = [closer EXCEPT ![c] = CloseDone]
          /\ UNCHANGED records
    /\ UNCHANGED <<daemonVars, shellVars, opener, sweep, stop, used, dead, early, reissued,
                   crowded>>

\* ... removes its record ...
CloseRemoves(c) ==
    /\ closer[c].at = "remove"
    /\ \/ records' = Without(records, {closer[c].id}) /\ UNCHANGED <<kept, events>>
       \/ Fails /\ kept' = kept \cup {closer[c].id} /\ UNCHANGED records
    /\ closer' = [closer EXCEPT ![c].at = "forget"]
    /\ UNCHANGED <<daemonVars, shellVars, opener, sweep, stop, used, dead, early, reissued,
                   crowded>>

\* forgetOutcome
Forgets(id) == Without(outcomes, {id})

\* ... forgets its outcome and reaps it, if there is one that nothing has reaped.
CloseReaps(c) ==
    LET k == closer[c].k
        mine == k # None /\ reap[k] = "none"
    IN /\ closer[c].at = "forget"
       /\ outcomes' = Forgets(closer[c].id)
       /\ IF mine THEN Reaps(k, TRUE) ELSE UNCHANGED <<reap, over>>
       /\ dead' = IF k = None THEN dead \cup {closer[c].id} ELSE dead
       /\ closer' = [closer EXCEPT ![c].at = "next", ![c].k = IF mine THEN k ELSE None]
       /\ UNCHANGED <<diskVars, life, starts, todo, restorer, sessions, next, shell, object,
                      opener, sweep, stop, events, used, early, kept, reissued, crowded>>

CloseReturns(c) ==
    /\ closer[c].at = "next" /\ closer[c].ids = {} /\ Returned(closer[c])
    /\ closer' = [closer EXCEPT ![c] = CloseDone]
    /\ UNCHANGED <<diskVars, daemonVars, shellVars, opener, sweep, stop, events, histVars>>

----------------------------------------------------------------------------
(* endAbandoned: takes out every session past the window, then reaps them in turn *)

\* Which those are is in Presence; a session was shown, so its open is long over.
SweepTakes(ks) ==
    /\ "sweep" \in Allowed /\ Happens
    /\ life = "serving" /\ sweep.at = "none" /\ ks # {}
    /\ \A k \in ks : Pumped(k) /\ Registered(k)
    /\ sessions' = Without(sessions, {object[k].id : k \in ks})
    /\ sweep' = [at |-> "next", ks |-> ks, k |-> None]
    /\ UNCHANGED <<diskVars, life, starts, todo, restorer, outcomes, next, shellVars, opener,
                   closer, stop, used, dead, early, kept, reissued, crowded>>

SweepReaps(k) ==
    /\ sweep.at = "next" /\ Returned(sweep) /\ k \in sweep.ks
    /\ Reaps(k, TRUE)
    /\ sweep' = [sweep EXCEPT !.ks = @ \ {k}, !.k = IF reap[k] = "none" THEN k ELSE None]
    /\ UNCHANGED <<diskVars, daemonVars, shell, object, opener, closer, stop, events,
                   histVars>>

SweepReturns ==
    /\ sweep.at = "next" /\ sweep.ks = {} /\ Returned(sweep)
    /\ sweep' = NoStop
    /\ UNCHANGED <<diskVars, daemonVars, shellVars, opener, closer, stop, events, histVars>>

----------------------------------------------------------------------------
(* shutdown: takes out every session, then marks and reaps them in turn *)

StopBegins ==
    /\ "stop" \in Allowed /\ Happens
    /\ life = "serving"
    /\ life' = "stopping"
    /\ sessions' = Nothing
    /\ stop' = [at |-> "next", ks |-> {sessions[id] : id \in DOMAIN sessions}, k |-> None]
    /\ early' = early \cup {id \in DOMAIN sessions : sessions[id] \in Unrecorded}
    /\ UNCHANGED <<diskVars, starts, todo, restorer, outcomes, next, shellVars, opener, closer,
                   sweep, used, dead, kept, reissued, crowded>>

\* markEnded; with no record to mark the stop goes on.
StopMarks(k) ==
    LET id == object[k].id IN
    /\ stop.at = "next" /\ Returned(stop) /\ k \in stop.ks
    /\ \/ /\ records' = IF id \in DOMAIN records
                        THEN [records EXCEPT ![id].ended = TRUE] ELSE records
          /\ UNCHANGED <<kept, events>>
       \/ Fails /\ kept' = kept \cup {id} /\ UNCHANGED records
    /\ stop' = [at |-> "reap", ks |-> stop.ks \ {k}, k |-> k]
    /\ UNCHANGED <<daemonVars, shellVars, opener, closer, sweep, used, dead, early, reissued,
                   crowded>>

StopReaps ==
    /\ stop.at = "reap"
    /\ Reaps(stop.k, FALSE)
    /\ stop' = [stop EXCEPT !.at = "next", !.k = IF reap[@] = "none" THEN @ ELSE None]
    /\ UNCHANGED <<diskVars, daemonVars, shell, object, opener, closer, sweep, events,
                   histVars>>

\* The process goes, and with it what is in memory; a shell whose terminal it held
\* is hung up.
ProcessGoes ==
    /\ life' = "down"
    /\ todo' = {} /\ restorer' = NoRestore
    /\ sessions' = Nothing /\ outcomes' = Nothing /\ next' = 0
    /\ shell' = [k \in Shells |-> "none"] /\ object' = [k \in Shells |-> NoObject]
    /\ reap' = [k \in Shells |-> "none"] /\ over' = [k \in Shells |-> FALSE]
    /\ opener' = [o \in Openers |-> IF opener[o] = NoOpen THEN NoOpen ELSE OpenDone]
    /\ closer' = [c \in Closers |-> IF closer[c] = NoClose THEN NoClose ELSE CloseDone]
    /\ sweep' = NoStop /\ stop' = NoStop
    /\ UNCHANGED <<diskVars, starts, histVars>>

StopExits ==
    /\ stop.at = "next" /\ stop.ks = {} /\ Returned(stop)
    /\ ProcessGoes
    /\ UNCHANGED events

Crash ==
    /\ "crash" \in Allowed /\ Happens
    /\ life # "down" /\ starts < MaxStarts
    /\ ProcessGoes

----------------------------------------------------------------------------
(* The start: restore comes before anything is served *)

Start ==
    /\ life = "down" /\ starts < MaxStarts
    /\ life' = "starting"
    /\ starts' = starts + 1
    /\ todo' = DOMAIN records
    /\ next' \in Seeds
    /\ UNCHANGED <<diskVars, restorer, sessions, outcomes, shellVars, actorVars, events,
                   histVars>>

\* Mutant: only what came back is reported.
RecordOutcomeRestored(id, outcome) ==
    IF outcome = "failed" THEN outcomes ELSE With(outcomes, id, outcome)

RecordOutcome(id, outcome) == With(outcomes, id, outcome)

\* The number a restored session is filed under is the record's.
RestoredUnder(id) == id

\* The record and its output are read, a shell is started and registered under the
\* record's id ...
RestoreStarts(id) ==
    /\ life = "starting" /\ restorer.at = "list" /\ id \in todo /\ CanStart
    /\ shell' = [shell EXCEPT ![FreeShell] = "running"]
    /\ sessions' = With(sessions, RestoredUnder(id), FreeShell)
    /\ object' = [object EXCEPT ![FreeShell] = [id |-> id, pane |-> records[id].pane,
                                                stored |-> TRUE]]
    /\ restorer' = [at |-> "registered", id |-> id, k |-> FreeShell]
    /\ todo' = todo \ {id}
    /\ UNCHANGED <<diskVars, life, starts, outcomes, next, reap, over, actorVars, events,
                   histVars>>

\* ... or one of them fails, and the record stays.
RestoreFails(id) ==
    /\ life = "starting" /\ restorer.at = "list" /\ id \in todo
    /\ Fails
    /\ outcomes' = RecordOutcome(id, "failed")
    /\ todo' = todo \ {id}
    /\ UNCHANGED <<diskVars, life, starts, restorer, sessions, next, shellVars, actorVars,
                   histVars>>

\* clearStopMark, after the outcome was read off the mark; then the pump.
RestoreClears ==
    LET id == restorer.id IN
    /\ restorer.at = "registered"
    /\ \/ records' = [records EXCEPT ![id].ended = FALSE] /\ UNCHANGED events
       \/ Fails /\ UNCHANGED records
    /\ restorer' = [restorer EXCEPT !.at = IF records[id].ended THEN "full" ELSE "degraded"]
    /\ UNCHANGED <<life, starts, todo, sessions, outcomes, next, shellVars, actorVars, histVars>>

RestoreReports ==
    /\ restorer.at \in {"full", "degraded"}
    /\ outcomes' = RecordOutcome(restorer.id, restorer.at)
    /\ restorer' = NoRestore
    /\ UNCHANGED <<diskVars, life, starts, todo, sessions, next, shellVars, actorVars, events,
                   histVars>>

\* markStoreRead, and the socket.
Serves ==
    /\ life = "starting" /\ todo = {} /\ restorer.at = "list"
    /\ life' = "serving"
    /\ UNCHANGED <<diskVars, starts, todo, restorer, sessions, outcomes, next, shellVars,
                   actorVars, events, histVars>>

----------------------------------------------------------------------------
Init ==
    /\ records = Nothing
    /\ life = "down" /\ starts = 0 /\ todo = {} /\ restorer = NoRestore
    /\ sessions = Nothing /\ outcomes = Nothing /\ next = 0
    /\ shell = [k \in Shells |-> "none"] /\ object = [k \in Shells |-> NoObject]
    /\ reap = [k \in Shells |-> "none"] /\ over = [k \in Shells |-> FALSE]
    /\ opener = [o \in Openers |-> NoOpen] /\ closer = [c \in Closers |-> NoClose]
    /\ sweep = NoStop /\ stop = NoStop /\ events = 0
    /\ used = {} /\ dead = {} /\ early = {} /\ kept = {} /\ reissued = {}
    /\ crowded = {}

OpenStep(o) == OpenRegisters(o) \/ OpenStopped(o) \/ OpenCreates(o)
CloseStep(c) == \/ \E id \in Ids : CloseTakes(c, id)
                \/ CloseRemoves(c) \/ CloseReaps(c) \/ CloseReturns(c)
SweepStep == SweepReturns \/ \E k \in Shells : SweepReaps(k)
StopStep == StopReaps \/ StopExits \/ \E k \in Shells : StopMarks(k)
RestoreStep == \/ \E id \in Ids : RestoreStarts(id) \/ RestoreFails(id)
               \/ RestoreClears \/ RestoreReports \/ Serves

Next ==
    \/ Start \/ RestoreStep
    \/ \E o \in Openers : OpenStep(o) \/ \E p \in Wants(o) : OpenStarts(o, p)
    \/ \E c \in Closers : CloseStep(c) \/ CloseWindowAsks(c) \/ \E id \in Ids : CloseAsks(c, id)
    \/ \E k \in Shells : ReapFinishes(k) \/ ShellExits(k)
    \/ SweepStep \/ \E ks \in SUBSET Shells : SweepTakes(ks)
    \/ StopBegins \/ StopStep \/ Crash

\* Every goroutine goes on.
Fairness ==
    /\ WF_vars(RestoreStep) /\ WF_vars(SweepStep) /\ WF_vars(StopStep)
    /\ \A o \in Openers : WF_vars(OpenStep(o))
    /\ \A c \in Closers : WF_vars(CloseStep(c))
    /\ \A k \in Shells : WF_vars(ReapFinishes(k))

Safety == Init /\ [][Next]_vars

Spec == Safety /\ Fairness

----------------------------------------------------------------------------
(* What the registry promises *)

\* Someone is about to end the session with shell k.
OnItsWayOut(k) ==
    \/ reap[k] = "ending"
    \/ \E c \in Closers : closer[c].k = k /\ closer[c].at \in {"remove", "forget"}
    \/ k \in sweep.ks \cup stop.ks
    \/ stop.at = "reap" /\ stop.k = k

\* restoreReport's answer for one id.
Report(id) ==
    IF id \in DOMAIN outcomes THEN outcomes[id]
    ELSE IF id \in DOMAIN sessions THEN "full" ELSE "lost"

Objects == [id : Ids \cup {None}, pane : Panes \cup {None}, stored : BOOLEAN]
Opens == [at : {"idle", "started", "registered", "done"}, pane : Panes \cup {None},
          k : Shells \cup {None}]
Closes == [at : {"idle", "next", "remove", "forget", "done"}, ids : SUBSET Ids,
           id : Ids \cup {None}, k : Shells \cup {None}]

\* Every variable holds a value of its kind.
TypeOK ==
    /\ records \in [DOMAIN records -> [pane : Panes, ended : BOOLEAN]] /\ DOMAIN records \subseteq Ids
    /\ life \in {"starting", "serving", "stopping", "down"} /\ starts \in 0..MaxStarts
    /\ todo \subseteq Ids
    /\ restorer \in [at : {"list", "registered", "full", "degraded"}, id : Ids \cup {None},
                     k : Shells \cup {None}]
    /\ sessions \in [DOMAIN sessions -> Shells] /\ DOMAIN sessions \subseteq Ids
    /\ outcomes \in [DOMAIN outcomes -> {"full", "degraded", "failed"}] /\ DOMAIN outcomes \subseteq Ids
    /\ next \in Nat
    /\ shell \in [Shells -> {"none", "running", "gone"}]
    /\ object \in [Shells -> Objects]
    /\ reap \in [Shells -> {"none", "ending", "done"}]
    /\ over \in [Shells -> BOOLEAN]
    /\ opener \in [Openers -> Opens] /\ closer \in [Closers -> Closes]
    /\ sweep \in [at : {"none", "next"}, ks : SUBSET Shells, k : Shells \cup {None}]
    /\ stop \in [at : {"none", "next", "reap"}, ks : SUBSET Shells, k : Shells \cup {None}]
    /\ events \in 0..MaxEvents
    /\ used \subseteq Ids /\ dead \subseteq Ids /\ early \subseteq Ids /\ kept \subseteq Ids
    /\ reissued \subseteq Ids

\* A shell that runs can be reached through the table, or whoever started it has it
\* still, or somebody is about to end it (issueLocked 192-195, openWithObserver 239-245).
NoOrphanShell ==
    \A k \in Shells :
        /\ shell[k] = "running"
        => \/ Registered(k) /\ life # "stopping"
           \/ OnItsWayOut(k)
           \/ \E o \in Openers : opener[o].k = k /\ opener[o].at = "started"

\* A session that was closed, or whose shell exited does not come back, in
\* this daemon or a later one, unless it was taken out before its record was written,
\* a remove failed, or its id was issued again (S3-1, session.go 636-638).
EndedStaysEnded ==
    \A id \in dead \ (early \cup kept \cup reissued) :
        id \notin DOMAIN records

\* A stop is not a close: the record of a session the stop ended is there, and says
\* that the stop was on purpose, unless an explicit close of that id came beside it
\* (reap 606-610, shutdown 785-788).
StopIsNotAClose ==
    \A k \in Shells :
        /\ reap[k] # "none" /\ ~over[k] /\ object[k].stored
        /\ object[k].id \notin early \cup kept \cup reissued \cup dead
        /\ \A c \in Closers : object[k].id # closer[c].id
        => /\ object[k].id \in DOMAIN records
           /\ records[object[k].id].ended

\* What a complete report calls lost is not there to be restored later, unless
\* somebody is about to remove it or could not (restoreReport 226-267).
LostMeansGone ==
    \A id \in DOMAIN records \ (early \cup kept) :
        life = "serving" /\ Report(id) = "lost"
        => \/ \E c \in Closers : closer[c].id = id /\ closer[c].at = "remove"
           \/ \E k \in Shells : object[k].id = id /\ (reap[k] = "ending" \/ k \in sweep.ks)

\* A pane has one session, unless it was opened while another open of it was under
\* way or while a record of it was left without a session (daemon.open 548-557).
OneShellPerPane ==
    \A i, j \in DOMAIN sessions :
        LET p == object[sessions[i]].pane IN
        object[sessions[j]].pane = p => i = j \/ <<p, "open">> \in crowded
                                              \/ <<p, "record">> \in crowded

\* A session that was taken out of the table ends, whoever took it.
TakenShellsEnd ==
    \A k \in Shells :
        (shell[k] = "running" /\ object[k].id # None /\ ~Registered(k)) ~> shell[k] # "running"

\* The promises above without what they except.

\* A pane has one session (control.go 548-550).
OnePerPane ==
    \A i, j \in DOMAIN sessions : object[sessions[i]].pane = object[sessions[j]].pane => i = j

\* A pane has one session when its opens never overlapped.
OnePerPaneInTurn ==
    \A i, j \in DOMAIN sessions :
        LET p == object[sessions[i]].pane IN
        object[sessions[j]].pane = p => i = j \/ <<p, "open">> \in crowded

\* No id is called lost whose record the next start restores (restore.go 73-74).
LostIsNeverRestored ==
    \A id \in DOMAIN records \ (early \cup kept) :
        life \in {"serving", "stopping"} /\ Report(id) = "lost"
        => \/ \E c \in Closers : closer[c].id = id
           \/ \E k \in Shells : object[k].id = id /\ (reap[k] = "ending" \/ k \in sweep.ks)
=============================================================================

---------------------------- MODULE RegistryProofs ----------------------------
(***************************************************************************)
(* The registry's promises, for any number of opens and closes on any      *)
(* panes, any seed, and any number of stops, crashes, exits, sweeps and    *)
(* failing calls.                                                          *)
(***************************************************************************)
EXTENDS Registry, FiniteSetTheorems, WellFoundedInduction, TLAPS

\* The table and the session objects name each other, and a session has a pane.
TableNamesItsObjects ==
    \A id \in DOMAIN sessions : object[sessions[id]].id = id /\ object[sessions[id]].pane \in Panes

\* Nobody knows of a shell that was not started.
UnstartedIsUnknown ==
    \A k \in Shells : shell[k] = "none" =>
        object[k].id = None /\ \A o \in Openers : opener[o].k # k

\* Only a session is taken out of the table or reaped.
TakenIsASession ==
    \A k \in Shells :
        \/ k \in sweep.ks \cup stop.ks \/ stop.k = k \/ reap[k] # "none"
        \/ \E c \in Closers : closer[c].k = k
        => object[k].id # None

\* A shell an open has started is the open's alone until it is registered, and then the
\* session object's.
OpensHaveTheirShell ==
    /\ \A o \in Openers : opener[o].at \in {"idle", "done"} => opener[o].k = None
    /\ \A o \in Openers : opener[o].at = "started" =>
        opener[o].k \in Shells /\ opener[o].pane \in Panes /\ object[opener[o].k].id = None
    /\ \A o \in Openers : opener[o].at = "registered" =>
        LET k == opener[o].k IN
        /\ k \in Shells /\ object[k].id # None /\ object[k].stored
        /\ object[k].pane = opener[o].pane /\ opener[o].pane \in Panes
    /\ \A o, q \in Openers : opener[o].k = opener[q].k /\ opener[o].k # None => o = q

\* What a daemon has under way in each part of its life.
LifeBounds ==
    /\ life # "stopping" => stop = NoStop
    /\ stop.at = "reap" => stop.k \in Shells
    /\ sweep.at = "none" => sweep.ks = {}
    /\ life \in {"down", "starting"} =>
        /\ sweep.at = "none"
        /\ \A o \in Openers : opener[o].at \in {"idle", "done"}
        /\ \A c \in Closers : closer[c].at \in {"idle", "done"}
    /\ life \in {"down", "stopping"} => DOMAIN sessions = {}
    /\ life = "down" => \A k \in Shells : shell[k] = "none"
    /\ life # "starting" => todo = {} /\ restorer.at = "list"
    /\ restorer.at = "list" => restorer.k = None
    /\ restorer.at # "list" =>
        /\ restorer.k \in Shells /\ restorer.id \in Ids /\ object[restorer.k].id = restorer.id
    /\ restorer.at = "registered" => reap[restorer.k] = "none"
    /\ todo \cap DOMAIN sessions = {}
    /\ \A c \in Closers : closer[c].at \in {"idle", "done"} =>
        closer[c].k = None /\ closer[c].id = None
    /\ \A c \in Closers : closer[c].at \in {"remove", "forget"} => closer[c].id # None
    /\ life # "stopping" => \A k \in Shells : reap[k] # "none" => over[k]

\* The reap that is done has the shell's end behind it.
ReapedIsGone == \A k \in Shells : reap[k] = "done" => shell[k] = "gone"

\* What every promise rests on.
Shape ==
    /\ TypeOK /\ TableNamesItsObjects /\ UnstartedIsUnknown /\ TakenIsASession
    /\ OpensHaveTheirShell
    /\ LifeBounds /\ ReapedIsGone
----------------------------------------------------------------------------
\* An id the history says was used: a session had it, whoever still names it.
IdsAreRemembered ==
    /\ DOMAIN records \subseteq used /\ DOMAIN outcomes \subseteq used
    /\ dead \subseteq used /\ todo \subseteq used
    /\ \A k \in Shells : object[k].id # None => object[k].id \in used
    /\ \A c \in Closers : closer[c].ids \subseteq used
    /\ \A c \in Closers : closer[c].id # None => closer[c].id \in used

\* Two session objects of one daemon have one id only if it was issued twice.
OneObjectPerId ==
    /\ \A k, m \in Shells : object[k].id = object[m].id /\ object[k].id # None /\ k # m
                            => object[k].id \in reissued
    /\ todo \subseteq DOMAIN records /\ \A k \in Shells : object[k].id \notin todo

Excepted == early \cup kept \cup reissued

\* Until its record is written a session is in the table, and nobody has begun to end it,
\* unless it is excepted.
UnrecordedIsUntouched ==
    \A o \in Openers : opener[o].at = "registered" =>
        LET k == opener[o].k
            id == object[k].id
        IN \/ id \in early
           \/ /\ id \in DOMAIN sessions /\ sessions[id] = k
              /\ reap[k] = "none" /\ k \notin sweep.ks
              /\ \/ id \in reissued
                 \/ /\ id \notin DOMAIN records /\ id \notin dead
                    /\ \A c \in Closers : closer[c].id # id

\* A session without a store has no record.
UnstoredHasNoRecord ==
    \A k \in Shells : object[k].id \in DOMAIN records \ Excepted => object[k].stored

\* A close that is past the removal has left no record.
ForgetFollowsRemove ==
    \A c \in Closers : closer[c].at = "forget" => closer[c].id \notin DOMAIN records \ Excepted

Ended == /\ IdsAreRemembered /\ OneObjectPerId /\ UnrecordedIsUntouched
         /\ UnstoredHasNoRecord /\ ForgetFollowsRemove /\ EndedStaysEnded
----------------------------------------------------------------------------
\* A shell is taken out of the table once, by a close, the sweep or the stop.
Holds(c, k) == closer[c].k = k /\ closer[c].at \in {"remove", "forget"}

TakenOnce ==
    /\ \A c \in Closers, k \in Shells : Holds(c, k) =>
        /\ ~Registered(k) /\ k \notin sweep.ks \cup stop.ks
        /\ stop.at = "reap" => stop.k # k
        /\ reap[k] # "none" => over[k]
        /\ object[k].id = closer[c].id
        /\ \A d \in Closers : Holds(d, k) => c = d
    /\ \A k \in sweep.ks \cup stop.ks : ~Registered(k)
    /\ stop.at = "reap" => ~Registered(stop.k)

\* A close that went on to the next id has ended this one.
ClosedIsEnded ==
    \A c \in Closers, k \in Shells :
        /\ closer[c].at = "next" /\ closer[c].id # None
        /\ object[k].id = closer[c].id /\ object[k].id \notin Excepted \cup dead
        => reap[k] # "none" /\ over[k]

\* Nobody but the session's own end, or a close of its id, takes its record.
RecordStands ==
    \A k \in Shells :
        /\ object[k].id # None /\ object[k].stored /\ k \notin Unrecorded
        /\ object[k].id \notin Excepted \cup dead
        /\ \A c \in Closers : object[k].id # closer[c].id
        /\ reap[k] # "none" => ~over[k]
        => object[k].id \in DOMAIN records

\* The stop's mark is on the record the stop is about to reap.
MarkedBeforeReaped ==
    stop.at = "reap" =>
        LET k == stop.k IN
        /\ object[k].stored /\ object[k].id \notin Excepted \cup dead
        /\ \A c \in Closers : object[k].id # closer[c].id
        /\ reap[k] # "none" => ~over[k]
        => object[k].id \in DOMAIN records /\ records[object[k].id].ended

Stopped == TakenOnce /\ ClosedIsEnded /\ RecordStands /\ MarkedBeforeReaped /\ StopIsNotAClose
----------------------------------------------------------------------------
\* A session that has the record is there, or about to end.
Carries(k, id) ==
    /\ object[k].id = id /\ object[k].stored /\ k \notin Unrecorded /\ reap[k] # "done"
    /\ Registered(k) \/ k \in sweep.ks \/ reap[k] = "ending"

InHand(id) ==
    \/ \E c \in Closers : closer[c].id = id /\ closer[c].at = "remove"
    \/ \E k \in Shells : Carries(k, id)

\* Why a record is not lost: it is in the report, or somebody has it in hand.
AccountedFor(id) ==
    /\ life = "serving" => id \in DOMAIN outcomes \/ InHand(id)
    /\ life = "starting" => id \in todo \/ id \in DOMAIN outcomes \/ InHand(id)
    /\ life = "serving" /\ (\E c \in Closers : closer[c].at = "forget" /\ closer[c].id = id)
        => InHand(id)

Accounted == \A id \in DOMAIN records \ (early \cup kept) : AccountedFor(id)
----------------------------------------------------------------------------
Crowded(p) == <<p, "open">> \in crowded \/ <<p, "record">> \in crowded

Opening(o) == opener[o].at \in {"started", "registered"}

\* One session, one open under way and one record, and they are one another's.
PaneIsOne(p) ==
    /\ \A i, j \in DOMAIN sessions :
          object[sessions[i]].pane = p /\ object[sessions[j]].pane = p => i = j
    /\ \A i, j \in DOMAIN records : records[i].pane = p /\ records[j].pane = p => i = j
    /\ \A o, q \in Openers : Opening(o) /\ Opening(q) /\ opener[o].pane = p /\ opener[q].pane = p
                             => o = q
    /\ \A o \in Openers, i \in DOMAIN sessions :
          Opening(o) /\ opener[o].pane = p /\ object[sessions[i]].pane = p => sessions[i] = opener[o].k
    /\ \A o \in Openers, i \in DOMAIN records :
          ~(Opening(o) /\ opener[o].pane = p /\ records[i].pane = p)
    /\ \A i \in DOMAIN sessions, j \in DOMAIN records :
          object[sessions[i]].pane = p /\ records[j].pane = p => i = j

PaneIsOnes == \A p \in Panes : ~Crowded(p) => PaneIsOne(p)

RegistryInv == Shape /\ NoOrphanShell /\ Ended /\ Stopped /\ Accounted /\ PaneIsOnes
----------------------------------------------------------------------------
\* A set of numbers that is not empty has its least member.
LEMMA MinFacts ==
    ASSUME NEW S, S \subseteq Nat, S # {} PROVE Min(S) \in S /\ \A x \in S : Min(S) <= x
<1>1. PICK m \in S : \A y \in S : ~(<<y, m>> \in OpToRel(<, Nat))
  BY NatLessThanWellFounded, WFMin
<1>2. ASSUME NEW y \in S PROVE m <= y
  <2>1. <<y, m>> \in Nat \X Nat /\ ~(<<y, m>> \in OpToRel(<, Nat))
    BY <1>1
  <2>2. ~(y < m)
    BY <2>1, Zenon DEF OpToRel
  <2> QED BY <2>2
<1> QED BY <1>2 DEF Min

\* A shell to be started is one that was not.
LEMMA FreeShellFacts ==
    ASSUME CanStart PROVE FreeShell \in Shells /\ shell[FreeShell] = "none"
<1> DEFINE S == {k \in Shells : shell[k] = "none"}
<1>1. S \subseteq Nat /\ S # {}
  BY RegistryConstants DEF CanStart, Shells
<1> QED BY <1>1, MinFacts DEF FreeShell

\* issueLocked answers a number no session of the table has: one of as many as there are
\* sessions and one more is free (session.go 192-195).
LEMMA IssueLockedFacts ==
    ASSUME TypeOK PROVE IssueLocked \in Nat \ {0} /\ IssueLocked \notin DOMAIN sessions
<1> DEFINE n == Cardinality(DOMAIN sessions)
           I == (next + 1)..(next + 1 + n)
           S == {m \in I : m \notin DOMAIN sessions}
<1>1. next \in Nat /\ DOMAIN sessions \subseteq 1..MaxId /\ MaxId \in Nat
  BY RegistryConstants DEF TypeOK, Ids
<1>2. IsFiniteSet(DOMAIN sessions) /\ n \in Nat
  <2>1. IsFiniteSet(1..MaxId)
    BY <1>1, FS_Interval
  <2>2. IsFiniteSet(DOMAIN sessions)
    BY <1>1, <2>1, FS_Subset
  <2> QED BY <2>2, FS_CardinalityType
<1>3. Cardinality(I) = n + 1
  BY <1>1, <1>2, FS_Interval
<1>4. S # {}
  <2> SUFFICES ASSUME I \subseteq DOMAIN sessions PROVE FALSE
    OBVIOUS
  <2>1. Cardinality(I) <= n
    BY <1>2, FS_Subset
  <2> QED BY <1>2, <1>3, <2>1
<1>5. S \subseteq Nat \ {0}
  BY <1>1, <1>2
<1> HIDE DEF S
<1>6. Min(S) \in S
  BY <1>4, <1>5, MinFacts
<1>7. IssueLocked = Min(S)
  BY DEF IssueLocked, S
<1> QED BY <1>5, <1>6, <1>7 DEF S

----------------------------------------------------------------------------
(* What the operations that change several things at once do, point by point *)

\* A request that is done names nothing.
LEMMA DoneFacts ==
    /\ OpenDone = [at |-> "done", pane |-> None, k |-> None]
    /\ CloseDone = [at |-> "done", ids |-> {}, id |-> None, k |-> None]
BY DEF OpenDone, NoOpen, CloseDone, NoClose

\* A reap begins, or somebody has begun it.
Reaped(k, ends) ==
    /\ reap' \in [Shells -> {"none", "ending", "done"}] /\ over' \in [Shells -> BOOLEAN]
    /\ reap'[k] # "none"
    /\ reap[k] = "none" => reap'[k] = "ending" /\ over'[k] = ends
    /\ reap[k] # "none" => reap'[k] = reap[k] /\ over'[k] = over[k]
    /\ \A m \in Shells : m # k => reap'[m] = reap[m] /\ over'[m] = over[m]

\* A reap of a session in the model does what Reaped says, point by point.
LEMMA ReapsEffect ==
    ASSUME TypeOK, NEW k \in Shells, NEW ends \in BOOLEAN, Reaps(k, ends)
    PROVE  Reaped(k, ends)
<1>1. reap' \in [Shells -> {"none", "ending", "done"}]
  BY DEF Reaps, TypeOK
<1>2. over' \in [Shells -> BOOLEAN]
  BY DEF Reaps, TypeOK
<1> QED BY <1>1, <1>2 DEF Reaped, Reaps, TypeOK

\* One request, or one session object, is set to a value.
OpenerSet(o, v) ==
    /\ opener' \in [Openers -> Opens] /\ opener'[o] = v
    /\ \A q \in Openers : q # o => opener'[q] = opener[q]

CloserSet(c, v) ==
    /\ closer' \in [Closers -> Closes] /\ closer'[c] = v
    /\ \A d \in Closers : d # c => closer'[d] = closer[d]

ObjectSet(k, v) ==
    /\ object' \in [Shells -> Objects] /\ object'[k] = v
    /\ \A m \in Shells : m # k => object'[m] = object[m]

\* An open's record after it was set.
LEMMA OpenerIsSet ==
    ASSUME TypeOK, NEW o \in Openers, NEW v \in Opens, opener' = [opener EXCEPT ![o] = v]
    PROVE  OpenerSet(o, v)
BY DEF OpenerSet, TypeOK

\* A close's record after it was set.
LEMMA CloserIsSet ==
    ASSUME TypeOK, NEW c \in Closers, NEW v \in Closes, closer' = [closer EXCEPT ![c] = v]
    PROVE  CloserSet(c, v)
BY DEF CloserSet, TypeOK

\* A session object after it was set.
LEMMA ObjectIsSet ==
    ASSUME TypeOK, NEW k \in Shells, NEW v \in Objects, object' = [object EXCEPT ![k] = v]
    PROVE  ObjectSet(k, v)
BY DEF ObjectSet, TypeOK

\* byPane finds none and a shell is started.
OpenStartsDoes(o, p, k) ==
    /\ Up /\ opener[o].at = "idle" /\ ~HeldByPane(p) /\ p \in Panes
    /\ shell[k] = "none" /\ shell' = [shell EXCEPT ![k] = "running"]
    /\ OpenerSet(o, [at |-> "started", pane |-> p, k |-> k])
    /\ crowded' = crowded \cup ({p} \X Loose(p))
    /\ UNCHANGED <<records, life, starts, todo, restorer, sessions, outcomes, next,
                   object, reap, over, closer, sweep, stop, events, used, dead, early, kept, reissued>>

\* OpenStarts, point by point: the step does no more than OpenStartsDoes says.
LEMMA OpenStartsEffect ==
    ASSUME TypeOK, NEW o \in Openers, NEW p \in Wants(o), OpenStarts(o, p)
    PROVE  \E k \in Shells : OpenStartsDoes(o, p, k)
<1>1. FreeShell \in Shells /\ shell[FreeShell] = "none"
  BY FreeShellFacts DEF OpenStarts
<1>2. [at |-> "started", pane |-> p, k |-> FreeShell] \in Opens /\ p \in Panes
  BY <1>1 DEF Opens, Panes
<1>3. OpenerSet(o, [at |-> "started", pane |-> p, k |-> FreeShell])
  BY <1>2, OpenerIsSet DEF OpenStarts
<1> QED BY <1>1, <1>2, <1>3 DEF OpenStartsDoes, OpenStarts, diskVars, daemonVars

\* The session comes into the table.
OpenRegistersDoes(o, id) ==
    /\ sessions' \in [DOMAIN sessions' -> Shells]
    /\ opener[o].at = "started" /\ life # "stopping"
    /\ id \notin DOMAIN sessions /\ DOMAIN sessions' = DOMAIN sessions \cup {id}
    /\ sessions'[id] = opener[o].k /\ \A i \in DOMAIN sessions : sessions'[i] = sessions[i]
    /\ ObjectSet(opener[o].k, [id |-> id, pane |-> opener[o].pane, stored |-> TRUE])
    /\ used' = used \cup {id}
    /\ reissued' = IF id \in used THEN reissued \cup {id} ELSE reissued
    /\ next' \in Nat
    /\ OpenerSet(o, [at |-> "registered", pane |-> opener[o].pane, k |-> opener[o].k])
    /\ UNCHANGED <<records, life, starts, todo, restorer, outcomes, shell, reap,
                   over, closer, sweep, stop, events, dead, early, kept, crowded>>

\* OpenRegisters, point by point: the step does no more than OpenRegistersDoes says.
LEMMA OpenRegistersEffect ==
    ASSUME TypeOK, NEW o \in Openers, opener[o].k \in Shells, OpenRegisters(o)
    PROVE  \E id \in Ids : OpenRegistersDoes(o, id)
<1>1. IssueLocked \in Ids /\ IssueLocked \in Nat /\ IssueLocked \notin DOMAIN sessions
  BY IssueLockedFacts DEF OpenRegisters
<1>2. sessions' = With(sessions, IssueLocked, opener[o].k)
  BY DEF OpenRegisters
<1>3. /\ DOMAIN sessions' = DOMAIN sessions \cup {IssueLocked}
      /\ sessions'[IssueLocked] = opener[o].k
      /\ \A i \in DOMAIN sessions : sessions'[i] = sessions[i]
  BY <1>1, <1>2 DEF With
<1>4. sessions' \in [DOMAIN sessions' -> Shells]
  BY <1>2 DEF With, TypeOK
<1>5. opener[o] \in Opens
  BY DEF TypeOK
<1>6. ObjectSet(opener[o].k, [id |-> IssueLocked, pane |-> opener[o].pane, stored |-> TRUE])
  <2>1. [id |-> IssueLocked, pane |-> opener[o].pane, stored |-> TRUE] \in Objects
    BY <1>1, <1>5 DEF Objects, Opens
  <2> QED BY <2>1, ObjectIsSet DEF OpenRegisters
<1>7. OpenerSet(o, [at |-> "registered", pane |-> opener[o].pane, k |-> opener[o].k])
  <2> DEFINE v == [at |-> "registered", pane |-> opener[o].pane, k |-> opener[o].k]
  <2>1. v \in Opens /\ [opener[o] EXCEPT !.at = "registered"] = v
    BY <1>5 DEF Opens
  <2>2. opener' = [opener EXCEPT ![o] = v]
    BY <2>1 DEF OpenRegisters
  <2> QED BY <2>1, <2>2, OpenerIsSet
<1> QED BY <1>1, <1>3, <1>4, <1>6, <1>7 DEF OpenRegistersDoes, OpenRegisters, diskVars

\* A daemon that stops ends the shell.
OpenStoppedDoes(o) ==
    /\ opener[o].at = "started" /\ life = "stopping"
    /\ shell' = [shell EXCEPT ![opener[o].k] = "gone"]
    /\ OpenerSet(o, [at |-> "done", pane |-> None, k |-> None])
    /\ UNCHANGED <<records, life, starts, todo, restorer, sessions, outcomes, next,
                   object, reap, over, closer, sweep, stop, events, used, dead, early, kept,
                   reissued, crowded>>

\* OpenStopped, point by point: the step does no more than OpenStoppedDoes says.
LEMMA OpenStoppedEffect ==
    ASSUME TypeOK, NEW o \in Openers, OpenStopped(o)
    PROVE  OpenStoppedDoes(o)
<1>1. [at |-> "done", pane |-> None, k |-> None] \in Opens
  BY DEF Opens
<1>2. OpenerSet(o, [at |-> "done", pane |-> None, k |-> None])
  BY <1>1, DoneFacts, OpenerIsSet DEF OpenStopped
<1> QED BY <1>2 DEF OpenStoppedDoes, OpenStopped, diskVars, daemonVars, histVars

\* The record is written, or the session goes on without.
OpenWrites(o, k, id) ==
    /\ opener[o].at = "registered" /\ opener[o].k = k /\ object[k].id = id
    /\ records' \in [DOMAIN records' -> [pane : Panes, ended : BOOLEAN]]
    /\ DOMAIN records' = DOMAIN records \cup {id}
    /\ records'[id].pane = object[k].pane
    /\ \A i \in DOMAIN records : i # id => records'[i] = records[i]
    /\ OpenerSet(o, [at |-> "done", pane |-> None, k |-> None])
    /\ events' \in 0..MaxEvents
    /\ UNCHANGED <<life, starts, todo, restorer, sessions, outcomes, next, shell, object,
                   reap, over, closer, sweep, stop, used, dead, early, kept, reissued, crowded>>

OpenLosesStore(o, k, id) ==
    /\ opener[o].at = "registered" /\ opener[o].k = k /\ object[k].id = id
    /\ object' \in [Shells -> Objects] /\ ~object'[k].stored
    /\ object'[k].id = id /\ object'[k].pane = object[k].pane
    /\ \A m \in Shells : m # k => object'[m] = object[m]
    /\ OpenerSet(o, [at |-> "done", pane |-> None, k |-> None])
    /\ events' \in 0..MaxEvents
    /\ UNCHANGED <<records, life, starts, todo, restorer, sessions, outcomes, next, shell,
                   reap, over, closer, sweep, stop, used, dead, early, kept, reissued, crowded>>

\* The last step of an open writes the record or loses it.
LEMMA OpenCreatesEffect ==
    ASSUME TypeOK, NEW o \in Openers, OpenCreates(o), NEW k \in Shells, NEW id \in Ids,
           opener[o].k = k, object[k].id = id, object[k].pane \in Panes
    PROVE  OpenWrites(o, k, id) \/ OpenLosesStore(o, k, id)
<1>1. [at |-> "done", pane |-> None, k |-> None] \in Opens
  BY DEF Opens
<1>2. OpenerSet(o, [at |-> "done", pane |-> None, k |-> None])
  BY <1>1, DoneFacts, OpenerIsSet DEF OpenCreates
<1>3. events' \in 0..MaxEvents
  BY RegistryConstants DEF OpenCreates, Fails, Happens, TypeOK
<1>4. CASE /\ records' = With(records, id, [pane |-> object[k].pane, ended |-> FALSE])
           /\ object' = object
  <2>1. records' \in [DOMAIN records' -> [pane : Panes, ended : BOOLEAN]]
    BY <1>4 DEF With, TypeOK
  <2>2. /\ DOMAIN records' = DOMAIN records \cup {id}
        /\ records'[id].pane = object[k].pane
        /\ \A i \in DOMAIN records : i # id => records'[i] = records[i]
    BY <1>4 DEF With
  <2> QED BY <1>2, <1>3, <1>4, <2>1, <2>2 DEF OpenWrites, OpenCreates, daemonVars, histVars
<1>5. CASE records' = records /\ object' = [object EXCEPT ![k].stored = FALSE]
  <2>1. object \in [Shells -> Objects] /\ object[k] \in Objects
    BY DEF TypeOK
  <2>2. [object[k] EXCEPT !.stored = FALSE] \in Objects
    BY <2>1 DEF Objects
  <2>3. /\ object' \in [Shells -> Objects]
        /\ object'[k] = [object[k] EXCEPT !.stored = FALSE]
        /\ \A m \in Shells : m # k => object'[m] = object[m]
    BY <1>5, <2>1, <2>2
  <2>4. ~object'[k].stored /\ object'[k].id = id /\ object'[k].pane = object[k].pane
    BY <2>1, <2>3 DEF Objects
  <2> QED BY <1>2, <1>3, <1>5, <2>3, <2>4 DEF OpenLosesStore, OpenCreates, daemonVars, histVars
<1> QED BY <1>4, <1>5 DEF OpenCreates

\* The session is ended: its record goes, if this end takes it, and its shell is gone.
ReapFinishesDoes(k) ==
    /\ reap[k] = "ending"
    /\ records' \in [DOMAIN records' -> [pane : Panes, ended : BOOLEAN]]
    /\ \/ /\ over[k] /\ object[k].stored
          /\ DOMAIN records' = DOMAIN records \ {object[k].id} /\ kept' = kept
          /\ \A i \in DOMAIN records' : records'[i] = records[i]
       \/ ~(over[k] /\ object[k].stored) /\ records' = records /\ kept' = kept
       \/ over[k] /\ object[k].stored /\ records' = records /\ kept' = kept \cup {object[k].id}
    /\ shell' = [shell EXCEPT ![k] = "gone"] /\ reap' = [reap EXCEPT ![k] = "done"]
    /\ dead' = IF over[k] THEN dead \cup {object[k].id} ELSE dead
    /\ events' \in 0..MaxEvents
    /\ UNCHANGED <<life, starts, todo, restorer, sessions, outcomes, next, object,
                   over, opener, closer, sweep, stop, used, early, reissued, crowded>>

\* ReapFinishes, point by point: the step does no more than ReapFinishesDoes says.
LEMMA ReapFinishesEffect ==
    ASSUME TypeOK, NEW k \in Shells, ReapFinishes(k)
    PROVE  ReapFinishesDoes(k)
<1>1. events' \in 0..MaxEvents
  BY RegistryConstants DEF ReapFinishes, Fails, Happens, TypeOK
<1>2. /\ reap[k] = "ending" /\ shell' = [shell EXCEPT ![k] = "gone"]
      /\ reap' = [reap EXCEPT ![k] = "done"]
      /\ dead' = IF over[k] THEN dead \cup {object[k].id} ELSE dead
      /\ UNCHANGED <<daemonVars, object, over, actorVars, used, early, reissued, crowded>>
  BY DEF ReapFinishes
<1>3. \/ over[k] /\ object[k].stored /\ records' = Without(records, {object[k].id}) /\ kept' = kept
      \/ ~(over[k] /\ object[k].stored) /\ records' = records /\ kept' = kept
      \/ over[k] /\ object[k].stored /\ records' = records /\ kept' = kept \cup {object[k].id}
  BY DEF ReapFinishes, ReapTakes
<1>4. records' = Without(records, {object[k].id}) =>
        /\ DOMAIN records' = DOMAIN records \ {object[k].id}
        /\ \A i \in DOMAIN records' : records'[i] = records[i]
  BY DEF Without
<1>5. records' \in [DOMAIN records' -> [pane : Panes, ended : BOOLEAN]]
  BY <1>3 DEF Without, TypeOK
<1> QED BY <1>1, <1>2, <1>3, <1>4, <1>5 DEF ReapFinishesDoes, daemonVars, actorVars

\* The shell exits and its reap begins.
ShellExitsDoes(k) ==
    /\ life # "down" /\ shell[k] = "running" /\ Pumped(k) /\ reap[k] = "none"
    /\ shell' = [shell EXCEPT ![k] = "gone"] /\ Reaped(k, TRUE)
    /\ events' \in 0..MaxEvents
    /\ UNCHANGED <<records, life, starts, todo, restorer, sessions, outcomes, next,
                   object, opener, closer, sweep, stop, used, dead, early, kept, reissued, crowded>>

\* ShellExits, point by point: the step does no more than ShellExitsDoes says.
LEMMA ShellExitsEffect ==
    ASSUME TypeOK, NEW k \in Shells, ShellExits(k)
    PROVE  ShellExitsDoes(k)
<1>1. events' \in 0..MaxEvents
  BY RegistryConstants DEF ShellExits, Happens, TypeOK
<1>2. Reaped(k, TRUE)
  BY ReapsEffect DEF ShellExits
<1> QED BY <1>1, <1>2 DEF ShellExitsDoes, ShellExits, diskVars, daemonVars, actorVars, histVars

\* A close is asked for.
CloseAsksDoes(c, ids) ==
    /\ Up /\ closer[c].at = "idle"
    /\ ids \subseteq DOMAIN sessions \cup DOMAIN records \cup DOMAIN outcomes
    /\ CloserSet(c, [at |-> "next", ids |-> ids, id |-> None, k |-> None])
    /\ UNCHANGED <<records, life, starts, todo, restorer, sessions, outcomes, next, shell,
                   object, reap, over, opener, sweep, stop, events, used, dead, early, kept,
                   reissued, crowded>>

\* CloseAsks, point by point: the step does no more than CloseAsksDoes says.
LEMMA CloseAsksEffect ==
    ASSUME TypeOK, NEW c \in Closers, CloseWindowAsks(c) \/ \E id \in Ids : CloseAsks(c, id)
    PROVE  \E ids \in SUBSET Ids : CloseAsksDoes(c, ids)
<1>1. PICK ids \in SUBSET Ids :
        /\ ids \subseteq DOMAIN sessions \cup DOMAIN records \cup DOMAIN outcomes
        /\ closer' = [closer EXCEPT ![c] = [NoClose EXCEPT !.at = "next", !.ids = ids]]
  BY DEF CloseWindowAsks, CloseAsks, TypeOK
<1> DEFINE v == [at |-> "next", ids |-> ids, id |-> None, k |-> None]
<1>2. v \in Closes
  BY DEF Closes
<1>4. [NoClose EXCEPT !.at = "next", !.ids = ids] = v
  <2>1. [NoClose EXCEPT !.at = "next"] = [at |-> "next", ids |-> {}, id |-> None, k |-> None]
    BY DEF NoClose
  <2>2. [[at |-> "next", ids |-> {}, id |-> None, k |-> None] EXCEPT !.ids = ids] = v
    OBVIOUS
  <2> QED BY <2>1, <2>2
<1>3. CloserSet(c, v)
  BY <1>1, <1>2, <1>4, CloserIsSet
<1> QED BY <1>1, <1>3 DEF CloseAsksDoes, CloseWindowAsks, CloseAsks, diskVars, daemonVars,
                          shellVars, histVars

\* close takes the id out of the table.
CloseTakesDoes(c, id, k) ==
    /\ closer[c].at = "next" /\ Returned(closer[c]) /\ id \in closer[c].ids
    /\ sessions' \in [DOMAIN sessions' -> Shells]
    /\ DOMAIN sessions' = DOMAIN sessions \ {id} /\ \A i \in DOMAIN sessions' : sessions'[i] = sessions[i]
    /\ id \in DOMAIN sessions => k = sessions[id]
    /\ id \notin DOMAIN sessions => k = None
    /\ CloserSet(c, [at |-> "remove", ids |-> closer[c].ids \ {id}, id |-> id, k |-> k])
    /\ early' = IF k \in Unrecorded THEN early \cup {id} ELSE early
    /\ UNCHANGED <<records, life, starts, todo, restorer, outcomes, next, shell,
                   object, reap, over, opener, sweep, stop, events, used, dead, kept, reissued,
                   crowded>>

\* CloseTakes, point by point: the step does no more than CloseTakesDoes says.
LEMMA CloseTakesEffect ==
    ASSUME TypeOK, NEW c \in Closers, NEW id \in Ids, CloseTakes(c, id)
    PROVE  \E k \in Shells \cup {None} : CloseTakesDoes(c, id, k)
<1> DEFINE k == IF id \in DOMAIN sessions THEN sessions[id] ELSE None
<1>1. k \in Shells \cup {None}
  BY DEF TypeOK
<1>2. DOMAIN sessions' = DOMAIN sessions \ {id} /\ \A i \in DOMAIN sessions' : sessions'[i] = sessions[i]
  BY DEF CloseTakes, Without
<1>3. sessions' \in [DOMAIN sessions' -> Shells]
  BY DEF CloseTakes, Without, TypeOK
<1>4. [at |-> "remove", ids |-> closer[c].ids \ {id}, id |-> id, k |-> k] \in Closes
  BY <1>1 DEF TypeOK, Closes
<1>5. CloserSet(c, [at |-> "remove", ids |-> closer[c].ids \ {id}, id |-> id, k |-> k])
  BY <1>4, CloserIsSet DEF CloseTakes
<1> QED BY <1>1, <1>2, <1>3, <1>5 DEF CloseTakesDoes, CloseTakes, diskVars, shellVars

\* The record is removed, or stays.
CloseRemovesDoes(c) ==
    /\ records' \in [DOMAIN records' -> [pane : Panes, ended : BOOLEAN]]
    /\ closer[c].at = "remove"
    /\ CloserSet(c, [at |-> "forget", ids |-> closer[c].ids, id |-> closer[c].id, k |-> closer[c].k])
    /\ \/ /\ DOMAIN records' = DOMAIN records \ {closer[c].id} /\ kept' = kept
          /\ \A i \in DOMAIN records' : records'[i] = records[i]
       \/ records' = records /\ kept' = kept \cup {closer[c].id}
    /\ events' \in 0..MaxEvents
    /\ UNCHANGED <<life, starts, todo, restorer, sessions, outcomes, next, shell,
                   object, reap, over, opener, sweep, stop, used, dead, early, reissued, crowded>>

\* CloseRemoves, point by point: the step does no more than CloseRemovesDoes says.
LEMMA CloseRemovesEffect ==
    ASSUME TypeOK, NEW c \in Closers, CloseRemoves(c)
    PROVE  CloseRemovesDoes(c)
<1>1. events' \in 0..MaxEvents
  BY RegistryConstants DEF CloseRemoves, Fails, Happens, TypeOK
<1>2. records' = Without(records, {closer[c].id}) =>
        /\ DOMAIN records' = DOMAIN records \ {closer[c].id}
        /\ \A i \in DOMAIN records' : records'[i] = records[i]
  BY DEF Without
<1>3. records' \in [DOMAIN records' -> [pane : Panes, ended : BOOLEAN]]
  BY DEF CloseRemoves, Without, TypeOK
<1>4. CloserSet(c, [at |-> "forget", ids |-> closer[c].ids, id |-> closer[c].id, k |-> closer[c].k])
  <2> DEFINE v == [at |-> "forget", ids |-> closer[c].ids, id |-> closer[c].id, k |-> closer[c].k]
  <2>1. closer[c] \in Closes
    BY DEF TypeOK
  <2>2. v \in Closes /\ [closer[c] EXCEPT !.at = "forget"] = v
    BY <2>1 DEF Closes
  <2>3. closer' = [closer EXCEPT ![c] = v]
    BY <2>2 DEF CloseRemoves
  <2> QED BY <2>2, <2>3, CloserIsSet
<1> QED BY <1>1, <1>2, <1>3, <1>4 DEF CloseRemovesDoes, CloseRemoves, daemonVars, shellVars

\* The outcome is forgotten and the session reaped, unless it is or there is none.
CloseReapsDoes(c, m) ==
    /\ closer[c].at = "forget"
    /\ outcomes' \in [DOMAIN outcomes' -> {"full", "degraded", "failed"}]
    /\ DOMAIN outcomes' = DOMAIN outcomes \ {closer[c].id}
    /\ \A i \in DOMAIN outcomes' : outcomes'[i] = outcomes[i]
    /\ closer[c].k # None => Reaped(closer[c].k, TRUE)
    /\ closer[c].k = None => UNCHANGED <<reap, over>>
    /\ m \in {closer[c].k, None}
    /\ CloserSet(c, [at |-> "next", ids |-> closer[c].ids, id |-> closer[c].id, k |-> m])
    /\ dead' = IF closer[c].k = None THEN dead \cup {closer[c].id} ELSE dead
    /\ UNCHANGED <<records, life, starts, todo, restorer, sessions, next, shell,
                   object, opener, sweep, stop, events, used, early, kept, reissued, crowded>>

\* CloseReaps, point by point: the step does no more than CloseReapsDoes says.
LEMMA CloseReapsEffect ==
    ASSUME TypeOK, NEW c \in Closers, CloseReaps(c)
    PROVE  \E m \in Shells \cup {None} : CloseReapsDoes(c, m)
<1> DEFINE k == closer[c].k
<1>1. /\ DOMAIN outcomes' = DOMAIN outcomes \ {closer[c].id}
      /\ \A i \in DOMAIN outcomes' : outcomes'[i] = outcomes[i]
  BY DEF CloseReaps, Forgets, Without
<1>2. outcomes' \in [DOMAIN outcomes' -> {"full", "degraded", "failed"}]
  BY DEF CloseReaps, Forgets, Without, TypeOK
<1>3. closer[c] \in Closes /\ k \in Shells \cup {None}
  BY DEF TypeOK, Closes
<1>4. PICK m \in {k, None} : m = IF k # None /\ reap[k] = "none" THEN k ELSE None
  OBVIOUS
<1>5. CloserSet(c, [at |-> "next", ids |-> closer[c].ids, id |-> closer[c].id, k |-> m])
  <2> DEFINE v == [at |-> "next", ids |-> closer[c].ids, id |-> closer[c].id, k |-> m]
  <2>1. v \in Closes /\ [closer[c] EXCEPT !.at = "next", !.k = m] = v
    <3>1. v \in Closes
      BY <1>3 DEF Closes
    <3>2. [closer[c] EXCEPT !.at = "next"]
          = [at |-> "next", ids |-> closer[c].ids, id |-> closer[c].id, k |-> k]
      BY <1>3 DEF Closes
    <3>3. [[at |-> "next", ids |-> closer[c].ids, id |-> closer[c].id, k |-> k] EXCEPT !.k = m] = v
      OBVIOUS
    <3> QED BY <3>1, <3>2, <3>3
  <2>2. closer' = [closer EXCEPT ![c].at = "next", ![c].k = m]
    BY <1>4 DEF CloseReaps
  <2>3. closer' = [closer EXCEPT ![c] = v]
    BY <2>1, <2>2 DEF TypeOK
  <2> QED BY <2>1, <2>3, CloserIsSet
<1>6. k # None => Reaped(k, TRUE)
  <2>1. CASE reap[k] = "none" /\ k # None
    <3>1. Reaps(k, TRUE) /\ k \in Shells
      BY <1>3, <2>1 DEF CloseReaps
    <3> QED BY <3>1, ReapsEffect
  <2>2. CASE reap[k] # "none" /\ k # None
    <3>1. UNCHANGED <<reap, over>>
      BY <2>2 DEF CloseReaps
    <3> QED BY <1>3, <2>2, <3>1 DEF Reaped, TypeOK
  <2> QED BY <2>1, <2>2
<1>7. k = None => UNCHANGED <<reap, over>>
  BY DEF CloseReaps
<1> QED BY <1>1, <1>2, <1>3, <1>5, <1>6, <1>7 DEF CloseReapsDoes, CloseReaps, diskVars

\* The close is answered.
CloseReturnsDoes(c) ==
    /\ closer[c].at = "next" /\ Returned(closer[c])
    /\ CloserSet(c, [at |-> "done", ids |-> {}, id |-> None, k |-> None])
    /\ UNCHANGED <<records, life, starts, todo, restorer, sessions, outcomes, next, shell,
                   object, reap, over, opener, sweep, stop, events, used, dead, early, kept,
                   reissued, crowded>>

\* CloseReturns, point by point: the step does no more than CloseReturnsDoes says.
LEMMA CloseReturnsEffect ==
    ASSUME TypeOK, NEW c \in Closers, CloseReturns(c)
    PROVE  CloseReturnsDoes(c)
<1>1. [at |-> "done", ids |-> {}, id |-> None, k |-> None] \in Closes
  BY DEF Closes
<1>2. CloserSet(c, [at |-> "done", ids |-> {}, id |-> None, k |-> None])
  BY <1>1, DoneFacts, CloserIsSet DEF CloseReturns
<1> QED BY <1>2 DEF CloseReturnsDoes, CloseReturns, diskVars, daemonVars, shellVars, histVars

\* The sweep takes sessions out of the table.
SweepTakesDoes(ks) ==
    /\ sessions' \in [DOMAIN sessions' -> Shells]
    /\ life = "serving" /\ sweep.at = "none" /\ \A k \in ks : Pumped(k) /\ Registered(k)
    /\ DOMAIN sessions' = DOMAIN sessions \ {object[k].id : k \in ks}
    /\ \A i \in DOMAIN sessions' : sessions'[i] = sessions[i]
    /\ sweep' = [at |-> "next", ks |-> ks, k |-> None]
    /\ events' \in 0..MaxEvents
    /\ UNCHANGED <<records, life, starts, todo, restorer, outcomes, next, shell,
                   object, reap, over, opener, closer, stop, used, dead, early, kept, reissued,
                   crowded>>

\* SweepTakes, point by point: the step does no more than SweepTakesDoes says.
LEMMA SweepTakesEffect ==
    ASSUME TypeOK, NEW ks \in SUBSET Shells, SweepTakes(ks)
    PROVE  SweepTakesDoes(ks)
<1>1. events' \in 0..MaxEvents
  BY RegistryConstants DEF SweepTakes, Happens, TypeOK
<1>2. /\ DOMAIN sessions' = DOMAIN sessions \ {object[k].id : k \in ks}
      /\ \A i \in DOMAIN sessions' : sessions'[i] = sessions[i]
  BY DEF SweepTakes, Without
<1>3. sessions' \in [DOMAIN sessions' -> Shells]
  BY DEF SweepTakes, Without, TypeOK
<1> QED BY <1>1, <1>2, <1>3 DEF SweepTakesDoes, SweepTakes, diskVars, shellVars

\* The sweep reaps one of them.
SweepReapsDoes(k, m) ==
    /\ sweep.at = "next" /\ Returned(sweep) /\ k \in sweep.ks /\ Reaped(k, TRUE)
    /\ m \in {k, None}
    /\ sweep' = [at |-> "next", ks |-> sweep.ks \ {k}, k |-> m]
    /\ UNCHANGED <<records, life, starts, todo, restorer, sessions, outcomes, next,
                   shell, object, opener, closer, stop, events, used, dead, early, kept, reissued,
                   crowded>>

\* SweepReaps, point by point: the step does no more than SweepReapsDoes says.
LEMMA SweepReapsEffect ==
    ASSUME TypeOK, NEW k \in Shells, SweepReaps(k)
    PROVE  \E m \in Shells \cup {None} : SweepReapsDoes(k, m)
<1>1. sweep' = [sweep EXCEPT !.ks = @ \ {k}, !.k = IF reap[k] = "none" THEN k ELSE None]
  BY DEF SweepReaps
<1>2. PICK m \in {k, None} : m = IF reap[k] = "none" THEN k ELSE None
  OBVIOUS
<1>3. sweep' = [sweep EXCEPT !.ks = @ \ {k}, !.k = m]
  BY <1>1, <1>2
<1>4. sweep' = [at |-> "next", ks |-> sweep.ks \ {k}, k |-> m]
  BY <1>3 DEF SweepReaps, TypeOK
<1>5. Reaped(k, TRUE)
  BY ReapsEffect DEF SweepReaps
<1> QED BY <1>4, <1>5 DEF SweepReapsDoes, SweepReaps, diskVars, daemonVars, histVars

\* The stop takes every session out of the table.
StopBeginsDoes(ks) ==
    /\ sessions' \in [DOMAIN sessions' -> Shells]
    /\ life = "serving" /\ life' = "stopping" /\ DOMAIN sessions' = {}
    /\ ks = {sessions[id] : id \in DOMAIN sessions} /\ stop' = [at |-> "next", ks |-> ks, k |-> None]
    /\ early' = early \cup {id \in DOMAIN sessions : sessions[id] \in Unrecorded}
    /\ events' \in 0..MaxEvents
    /\ UNCHANGED <<records, starts, todo, restorer, outcomes, next, shell, object,
                   reap, over, opener, closer, sweep, used, dead, kept, reissued, crowded>>

\* StopBegins, point by point: the step does no more than StopBeginsDoes says.
LEMMA StopBeginsEffect ==
    ASSUME TypeOK, StopBegins
    PROVE  \E ks \in SUBSET Shells : StopBeginsDoes(ks)
<1>1. events' \in 0..MaxEvents
  BY RegistryConstants DEF StopBegins, Happens, TypeOK
<1>2. {sessions[id] : id \in DOMAIN sessions} \in SUBSET Shells
  BY DEF TypeOK
<1>3. DOMAIN sessions' = {} /\ sessions' \in [DOMAIN sessions' -> Shells]
  BY DEF StopBegins, Nothing
<1> QED BY <1>1, <1>2, <1>3 DEF StopBeginsDoes, StopBegins, diskVars, shellVars

\* The stop marks one record, if there is one to mark.
StopMarksDoes(k) ==
    /\ stop.at = "next" /\ Returned(stop) /\ k \in stop.ks
    /\ stop' = [at |-> "reap", ks |-> stop.ks \ {k}, k |-> k]
    /\ DOMAIN records' = DOMAIN records
    /\ \A i \in DOMAIN records : records'[i].pane = records[i].pane
                                   /\ (i # object[k].id => records'[i] = records[i])
    /\ \/ kept' = kept /\ (object[k].id \in DOMAIN records => records'[object[k].id].ended = TRUE)
       \/ records' = records /\ kept' = kept \cup {object[k].id}
    /\ records' \in [DOMAIN records -> [pane : Panes, ended : BOOLEAN]]
    /\ events' \in 0..MaxEvents
    /\ UNCHANGED <<life, starts, todo, restorer, sessions, outcomes, next, shell,
                   object, reap, over, opener, closer, sweep, used, dead, early, reissued, crowded>>

\* StopMarks, point by point: the step does no more than StopMarksDoes says.
LEMMA StopMarksEffect ==
    ASSUME TypeOK, NEW k \in Shells, StopMarks(k)
    PROVE  StopMarksDoes(k)
<1>1. events' \in 0..MaxEvents
  BY RegistryConstants DEF StopMarks, Fails, Happens, TypeOK
<1>0. /\ stop.at = "next" /\ Returned(stop) /\ k \in stop.ks
      /\ stop' = [at |-> "reap", ks |-> stop.ks \ {k}, k |-> k]
      /\ UNCHANGED <<daemonVars, shellVars, opener, closer, sweep, used, dead, early, reissued, crowded>>
  BY DEF StopMarks
<1>r. records \in [DOMAIN records -> [pane : Panes, ended : BOOLEAN]]
  BY DEF TypeOK
<1>2. CASE records' = records /\ kept' = kept \cup {object[k].id}
  BY <1>0, <1>1, <1>2, <1>r DEF StopMarksDoes, daemonVars, shellVars
<1>3. CASE /\ kept' = kept /\ object[k].id \in DOMAIN records
           /\ records' = [records EXCEPT ![object[k].id].ended = TRUE]
  <2>1. /\ DOMAIN records' = DOMAIN records
        /\ \A i \in DOMAIN records : /\ records'[i].pane = records[i].pane
                                     /\ i # object[k].id => records'[i] = records[i]
        /\ records'[object[k].id].ended = TRUE
        /\ records' \in [DOMAIN records -> [pane : Panes, ended : BOOLEAN]]
    BY <1>3, <1>r
  <2> QED BY <1>0, <1>1, <1>3, <2>1 DEF StopMarksDoes, daemonVars, shellVars
<1>4. CASE kept' = kept /\ object[k].id \notin DOMAIN records /\ records' = records
  BY <1>0, <1>1, <1>4, <1>r DEF StopMarksDoes, daemonVars, shellVars
<1> QED BY <1>2, <1>3, <1>4 DEF StopMarksDoes, StopMarks

\* The stop reaps it.
StopReapsDoes(m) ==
    /\ stop.at = "reap" /\ Reaped(stop.k, FALSE)
    /\ m \in {stop.k, None}
    /\ stop' = [at |-> "next", ks |-> stop.ks, k |-> m]
    /\ UNCHANGED <<records, life, starts, todo, restorer, sessions, outcomes, next,
                   shell, object, opener, closer, sweep, events, used, dead, early, kept, reissued,
                   crowded>>

\* StopReaps, point by point: the step does no more than StopReapsDoes says.
LEMMA StopReapsEffect ==
    ASSUME TypeOK, stop.k \in Shells, StopReaps
    PROVE  \E m \in Shells \cup {None} : StopReapsDoes(m)
<1>1. stop' = [stop EXCEPT !.at = "next", !.k = IF reap[@] = "none" THEN @ ELSE None]
  BY DEF StopReaps
<1>2. PICK m \in {stop.k, None} : m = IF reap[stop.k] = "none" THEN stop.k ELSE None
  OBVIOUS
<1>3. stop' = [stop EXCEPT !.at = "next", !.k = m]
  BY <1>1, <1>2
<1>4. stop' = [at |-> "next", ks |-> stop.ks, k |-> m]
  BY <1>3 DEF TypeOK
<1>5. Reaped(stop.k, FALSE)
  BY ReapsEffect DEF StopReaps
<1> QED BY <1>4, <1>5 DEF StopReapsDoes, StopReaps, diskVars, daemonVars, histVars

\* The process goes, and nothing in memory is left.
ProcessGoesDoes ==
    /\ life' = "down" /\ todo' = {} /\ restorer' = [at |-> "list", id |-> None, k |-> None]
    /\ DOMAIN sessions' = {} /\ DOMAIN outcomes' = {} /\ next' = 0
    /\ sessions' \in [DOMAIN sessions' -> Shells]
    /\ outcomes' \in [DOMAIN outcomes' -> {"full", "degraded", "failed"}]
    /\ shell' = [k \in Shells |-> "none"] /\ object' = [k \in Shells |-> NoObject]
    /\ reap' = [k \in Shells |-> "none"] /\ over' = [k \in Shells |-> FALSE]
    /\ sweep' = NoStop /\ stop' = NoStop
    /\ opener' \in [Openers -> Opens] /\ closer' \in [Closers -> Closes]
    /\ \A o \in Openers : opener'[o].at \in {"idle", "done"} /\ opener'[o].k = None
    /\ \A c \in Closers : /\ closer'[c].at \in {"idle", "done"} /\ closer'[c].ids = {}
                          /\ closer'[c].id = None /\ closer'[c].k = None
    /\ UNCHANGED <<records, starts, used, dead, early, kept, reissued, crowded>>

\* ProcessGoes, point by point: the step does no more than ProcessGoesDoes says.
LEMMA ProcessGoesEffect ==
    ASSUME TypeOK, ProcessGoes
    PROVE  ProcessGoesDoes
<1>1. /\ DOMAIN sessions' = {} /\ sessions' \in [DOMAIN sessions' -> Shells]
      /\ DOMAIN outcomes' = {} /\ outcomes' \in [DOMAIN outcomes' -> {"full", "degraded", "failed"}]
  BY DEF ProcessGoes, Nothing
<1>2. /\ opener' \in [Openers -> Opens]
      /\ \A o \in Openers : opener'[o].at \in {"idle", "done"} /\ opener'[o].k = None
  <2>1. opener' \in [Openers -> {NoOpen, OpenDone}]
    BY DEF ProcessGoes
  <2> QED BY <2>1, DoneFacts DEF NoOpen, Opens
<1>3. /\ closer' \in [Closers -> Closes]
      /\ \A c \in Closers : /\ closer'[c].at \in {"idle", "done"} /\ closer'[c].ids = {}
                            /\ closer'[c].id = None /\ closer'[c].k = None
  <2>1. closer' \in [Closers -> {NoClose, CloseDone}]
    BY DEF ProcessGoes
  <2> QED BY <2>1, DoneFacts DEF NoClose, Closes
<1> QED BY <1>1, <1>2, <1>3 DEF ProcessGoesDoes, ProcessGoes, NoRestore, diskVars, histVars

\* A shell is started and registered under the record's id.
RestoreStartsDoes(id, k) ==
    /\ life = "starting" /\ restorer.at = "list" /\ id \in todo
    /\ sessions' \in [DOMAIN sessions' -> Shells]
    /\ shell[k] = "none" /\ shell' = [shell EXCEPT ![k] = "running"]
    /\ DOMAIN sessions' = DOMAIN sessions \cup {id}
    /\ sessions'[id] = k /\ \A i \in DOMAIN sessions : i # id => sessions'[i] = sessions[i]
    /\ ObjectSet(k, [id |-> id, pane |-> records[id].pane, stored |-> TRUE])
    /\ restorer' = [at |-> "registered", id |-> id, k |-> k]
    /\ todo' = todo \ {id}
    /\ UNCHANGED <<records, life, starts, outcomes, next, reap, over, opener,
                   closer, sweep, stop, events, used, dead, early, kept, reissued, crowded>>

\* RestoreStarts, point by point: the step does no more than RestoreStartsDoes says.
LEMMA RestoreStartsEffect ==
    ASSUME TypeOK, NEW id \in DOMAIN records, RestoreStarts(id)
    PROVE  \E k \in Shells : RestoreStartsDoes(id, k)
<1>1. FreeShell \in Shells /\ shell[FreeShell] = "none"
  BY FreeShellFacts DEF RestoreStarts
<1>2. sessions' = With(sessions, id, FreeShell)
  BY DEF RestoreStarts, RestoredUnder
<1>3. /\ DOMAIN sessions' = DOMAIN sessions \cup {id} /\ sessions'[id] = FreeShell
      /\ \A i \in DOMAIN sessions : i # id => sessions'[i] = sessions[i]
  BY <1>2 DEF With
<1>4. sessions' \in [DOMAIN sessions' -> Shells]
  BY <1>1, <1>2 DEF With, TypeOK
<1>5. [id |-> id, pane |-> records[id].pane, stored |-> TRUE] \in Objects
  BY DEF TypeOK, Objects
<1>6. ObjectSet(FreeShell, [id |-> id, pane |-> records[id].pane, stored |-> TRUE])
  BY <1>1, <1>5, ObjectIsSet DEF RestoreStarts
<1> QED BY <1>1, <1>3, <1>4, <1>6 DEF RestoreStartsDoes, RestoreStarts, diskVars, actorVars,
     histVars

\* The stop mark is cleared, or the clearing fails.
RestoreClearsDoes(a) ==
    /\ restorer.at = "registered"
    /\ restorer' = [at |-> a, id |-> restorer.id, k |-> restorer.k]
    /\ DOMAIN records' = DOMAIN records
    /\ \A i \in DOMAIN records : records'[i].pane = records[i].pane
    /\ records' \in [DOMAIN records -> [pane : Panes, ended : BOOLEAN]]
    /\ events' \in 0..MaxEvents
    /\ UNCHANGED <<life, starts, todo, sessions, outcomes, next, shell, object,
                   reap, over, opener, closer, sweep, stop, used, dead, early, kept, reissued,
                   crowded>>

\* RestoreClears, point by point: the step does no more than RestoreClearsDoes says.
LEMMA RestoreClearsEffect ==
    ASSUME TypeOK, RestoreClears
    PROVE  \E a \in {"full", "degraded"} : RestoreClearsDoes(a)
<1>1. events' \in 0..MaxEvents
  BY RegistryConstants DEF RestoreClears, Fails, Happens, TypeOK
<1>2. PICK a \in {"full", "degraded"} : a = IF records[restorer.id].ended THEN "full" ELSE "degraded"
  OBVIOUS
<1>3. restorer' = [restorer EXCEPT !.at = a]
  BY <1>2 DEF RestoreClears
<1>4. restorer' = [at |-> a, id |-> restorer.id, k |-> restorer.k]
  BY <1>3 DEF TypeOK
<1>5. /\ DOMAIN records' = DOMAIN records
      /\ \A i \in DOMAIN records : records'[i].pane = records[i].pane
      /\ records' \in [DOMAIN records -> [pane : Panes, ended : BOOLEAN]]
  <2>1. records \in [DOMAIN records -> [pane : Panes, ended : BOOLEAN]]
    BY DEF TypeOK
  <2>2. records' = records \/ records' = [records EXCEPT ![restorer.id].ended = FALSE]
    BY DEF RestoreClears
  <2> QED BY <2>1, <2>2
<1> QED BY <1>1, <1>4, <1>5 DEF RestoreClearsDoes, RestoreClears, shellVars, actorVars,
     histVars

\* A restore fails, and is reported.
RestoreFailsDoes(id) ==
    /\ life = "starting" /\ restorer.at = "list" /\ id \in todo /\ todo' = todo \ {id}
    /\ events' \in 0..MaxEvents
    /\ DOMAIN outcomes' = DOMAIN outcomes \cup {id}
    /\ outcomes' \in [DOMAIN outcomes' -> {"full", "degraded", "failed"}]
    /\ UNCHANGED <<records, life, starts, restorer, sessions, next, shell, object,
                   reap, over, opener, closer, sweep, stop, used, dead, early, kept, reissued,
                   crowded>>

\* RestoreFails, point by point: the step does no more than RestoreFailsDoes says.
LEMMA RestoreFailsEffect ==
    ASSUME TypeOK, NEW id \in Ids, RestoreFails(id)
    PROVE  RestoreFailsDoes(id)
<1>1. outcomes' = With(outcomes, id, "failed")
  BY DEF RestoreFails, RecordOutcome
<1>2. "failed" \in {"full", "degraded", "failed"}
  BY DEF RestoreFails
<1>3. /\ DOMAIN outcomes' = DOMAIN outcomes \cup {id}
      /\ outcomes' \in [DOMAIN outcomes' -> {"full", "degraded", "failed"}]
  BY <1>1, <1>2 DEF With, TypeOK
<1>4. events' \in 0..MaxEvents
  BY RegistryConstants DEF RestoreFails, Fails, Happens, TypeOK
<1> QED BY <1>3, <1>4 DEF RestoreFailsDoes, RestoreFails, diskVars, shellVars, actorVars,
     histVars

\* The outcome is reported.
RestoreReportsDoes ==
    /\ restorer.at \in {"full", "degraded"} /\ restorer' = [at |-> "list", id |-> None, k |-> None]
    /\ DOMAIN outcomes' = DOMAIN outcomes \cup {restorer.id}
    /\ outcomes' \in [DOMAIN outcomes' -> {"full", "degraded", "failed"}]
    /\ UNCHANGED <<records, life, starts, todo, sessions, next, shell, object, reap,
                   over, opener, closer, sweep, stop, events, used, dead, early, kept, reissued,
                   crowded>>

\* RestoreReports, point by point: the step does no more than RestoreReportsDoes says.
LEMMA RestoreReportsEffect ==
    ASSUME TypeOK, restorer.id \in Ids, RestoreReports
    PROVE  RestoreReportsDoes
<1>1. outcomes' = With(outcomes, restorer.id, restorer.at)
  BY DEF RestoreReports, RecordOutcome
<1>2. restorer.at \in {"full", "degraded", "failed"}
  BY DEF RestoreReports
<1>3. /\ DOMAIN outcomes' = DOMAIN outcomes \cup {restorer.id}
      /\ outcomes' \in [DOMAIN outcomes' -> {"full", "degraded", "failed"}]
  BY <1>1, <1>2 DEF With, TypeOK
<1> QED BY <1>3 DEF RestoreReportsDoes, RestoreReports, NoRestore, diskVars, shellVars,
     actorVars, histVars
----------------------------------------------------------------------------
\* The parts of the invariant.
LEMMA InvParts ==
    ASSUME RegistryInv
    PROVE  /\ TypeOK /\ TableNamesItsObjects /\ UnstartedIsUnknown /\ TakenIsASession
           /\ OpensHaveTheirShell /\ LifeBounds /\ ReapedIsGone /\ NoOrphanShell
           /\ IdsAreRemembered /\ OneObjectPerId /\ UnrecordedIsUntouched
           /\ UnstoredHasNoRecord /\ ForgetFollowsRemove /\ EndedStaysEnded /\ TakenOnce
           /\ ClosedIsEnded /\ RecordStands /\ MarkedBeforeReaped /\ StopIsNotAClose
           /\ Accounted /\ PaneIsOnes
BY DEF RegistryInv, Shape, Ended, Stopped

\* No name is the name of nothing.
LEMMA NoneIsNoName == None \notin Shells /\ None \notin Ids
BY RegistryConstants DEF None, Shells, Ids

\* What a step leaves alone it keeps.
LEMMA Untouched ==
    ASSUME RegistryInv
    PROVE  /\ UNCHANGED <<sessions, object>> => TableNamesItsObjects'
           /\ UNCHANGED <<shell, object, opener>> => UnstartedIsUnknown'
           /\ UNCHANGED <<object, reap, closer, sweep, stop>> => TakenIsASession'
           /\ UNCHANGED <<object, opener>> => OpensHaveTheirShell'
           /\ UNCHANGED <<life, todo, restorer, sessions, shell, object, reap, over, opener, closer,
                      sweep, stop>> => LifeBounds'
           /\ UNCHANGED <<shell, reap>> => ReapedIsGone'
           /\ UNCHANGED <<life, sessions, shell, reap, opener, closer, sweep, stop>> => NoOrphanShell'
           /\ UNCHANGED <<records, todo, outcomes, object, closer, used, dead>> => IdsAreRemembered'
           /\ UNCHANGED <<records, todo, object, reissued>> => OneObjectPerId'
           /\ UNCHANGED <<records, sessions, object, reap, opener, closer, sweep, dead, early,
                      reissued>> => UnrecordedIsUntouched'
           /\ UNCHANGED <<records, object, early, kept, reissued>> => UnstoredHasNoRecord'
           /\ UNCHANGED <<records, closer, early, kept, reissued>> => ForgetFollowsRemove'
           /\ UNCHANGED <<records, dead, early, kept, reissued>> => EndedStaysEnded'
           /\ UNCHANGED <<sessions, object, reap, over, closer, sweep, stop>> => TakenOnce'
           /\ UNCHANGED <<object, reap, over, closer, dead, early, kept, reissued>> => ClosedIsEnded'
           /\ UNCHANGED <<records, object, reap, over, opener, closer, dead, early, kept, reissued>> =>
                      RecordStands'
           /\ UNCHANGED <<records, object, reap, over, closer, stop, dead, early, kept, reissued>> =>
                      MarkedBeforeReaped'
           /\ UNCHANGED <<records, object, reap, over, closer, dead, early, kept, reissued>> =>
                      StopIsNotAClose'
           /\ UNCHANGED <<records, life, todo, sessions, outcomes, object, reap, opener, closer, sweep,
                      early, kept>> => Accounted'
           /\ UNCHANGED <<records, sessions, object, opener, crowded>> => PaneIsOnes'
<1>1. UNCHANGED <<sessions, object>> => TableNamesItsObjects'
  BY InvParts DEF TableNamesItsObjects
<1>2. UNCHANGED <<shell, object, opener>> => UnstartedIsUnknown'
  BY InvParts DEF UnstartedIsUnknown
<1>3. UNCHANGED <<object, reap, closer, sweep, stop>> => TakenIsASession'
  BY InvParts DEF TakenIsASession
<1>4. UNCHANGED <<object, opener>> => OpensHaveTheirShell'
  BY InvParts DEF OpensHaveTheirShell
<1>5. UNCHANGED <<life, todo, restorer, sessions, shell, object, reap, over, opener, closer,
        sweep, stop>> => LifeBounds'
  BY InvParts DEF LifeBounds
<1>6. UNCHANGED <<shell, reap>> => ReapedIsGone'
  BY InvParts DEF ReapedIsGone
<1>7. UNCHANGED <<life, sessions, shell, reap, opener, closer, sweep, stop>> =>
        NoOrphanShell'
  BY InvParts DEF NoOrphanShell, Registered, OnItsWayOut
<1>8. UNCHANGED <<records, todo, outcomes, object, closer, used, dead>> => IdsAreRemembered'
  BY InvParts DEF IdsAreRemembered
<1>9. UNCHANGED <<records, todo, object, reissued>> => OneObjectPerId'
  BY InvParts DEF OneObjectPerId
<1>10. UNCHANGED <<records, sessions, object, reap, opener, closer, sweep, dead, early,
        reissued>> => UnrecordedIsUntouched'
  BY InvParts DEF UnrecordedIsUntouched
<1>11. UNCHANGED <<records, object, early, kept, reissued>> => UnstoredHasNoRecord'
  BY InvParts DEF UnstoredHasNoRecord, Excepted
<1>12. UNCHANGED <<records, closer, early, kept, reissued>> => ForgetFollowsRemove'
  BY InvParts DEF ForgetFollowsRemove, Excepted
<1>13. UNCHANGED <<records, dead, early, kept, reissued>> => EndedStaysEnded'
  BY InvParts DEF EndedStaysEnded
<1>14. UNCHANGED <<sessions, object, reap, over, closer, sweep, stop>> => TakenOnce'
  BY InvParts DEF TakenOnce, Holds, Registered
<1>15. UNCHANGED <<object, reap, over, closer, dead, early, kept, reissued>> =>
        ClosedIsEnded'
  BY InvParts DEF ClosedIsEnded, Excepted
<1>16. UNCHANGED <<records, object, reap, over, opener, closer, dead, early, kept,
        reissued>> => RecordStands'
  BY InvParts DEF RecordStands, Excepted, Unrecorded
<1>17. UNCHANGED <<records, object, reap, over, closer, stop, dead, early, kept, reissued>>
        => MarkedBeforeReaped'
  BY InvParts DEF MarkedBeforeReaped, Excepted
<1>18. UNCHANGED <<records, object, reap, over, closer, dead, early, kept, reissued>> =>
        StopIsNotAClose'
  BY InvParts DEF StopIsNotAClose
<1>19. UNCHANGED <<records, life, todo, sessions, outcomes, object, reap, opener, closer,
        sweep, early, kept>> => Accounted'
  BY InvParts DEF Accounted, AccountedFor, InHand, Carries, Unrecorded, Registered
<1>20. UNCHANGED <<records, sessions, object, opener, crowded>> => PaneIsOnes'
  BY InvParts DEF PaneIsOnes, PaneIsOne, Crowded, Opening
<1> QED BY <1>1, <1>2, <1>3, <1>4, <1>5, <1>6, <1>7, <1>8, <1>9, <1>10, <1>11, <1>12, <1>13,
    <1>14, <1>15, <1>16, <1>17, <1>18, <1>19, <1>20
----------------------------------------------------------------------------
(* Each operation keeps the invariant *)

\* Nobody knows the shell that was started, and a pane opened beside another open or over
\* a record of it is crowded from here on.
LEMMA OpenStartsKeeps ==
    ASSUME RegistryInv, NEW o \in Openers, NEW p \in Wants(o), OpenStarts(o, p)
    PROVE  RegistryInv'
<1>a. PICK k \in Shells : OpenStartsDoes(o, p, k)
  BY InvParts, OpenStartsEffect
<1>u. Unrecorded' = Unrecorded
  BY <1>a DEF OpenStartsDoes, OpenerSet, Unrecorded
<1>1. /\ TableNamesItsObjects' /\ TakenIsASession' /\ IdsAreRemembered' /\ OneObjectPerId'
      /\ UnstoredHasNoRecord' /\ ForgetFollowsRemove' /\ EndedStaysEnded' /\ TakenOnce'
      /\ ClosedIsEnded' /\ MarkedBeforeReaped' /\ StopIsNotAClose'
  BY <1>a, Untouched DEF OpenStartsDoes
<1>2. TypeOK'
  BY InvParts, <1>a DEF OpenStartsDoes, OpenerSet, TypeOK
<1>3. UnstartedIsUnknown'
  BY InvParts, <1>a DEF OpenStartsDoes, OpenerSet, UnstartedIsUnknown, TypeOK
<1>4. OpensHaveTheirShell'
  BY InvParts, <1>a DEF OpenStartsDoes, OpenerSet, OpensHaveTheirShell, UnstartedIsUnknown
<1>5. LifeBounds'
  BY InvParts, <1>a DEF OpenStartsDoes, LifeBounds, Up
<1>6. ReapedIsGone'
  BY InvParts, <1>a DEF OpenStartsDoes, ReapedIsGone
<1>7. NoOrphanShell'
  BY InvParts, <1>a DEF OpenStartsDoes, OpenerSet, NoOrphanShell, Registered, OnItsWayOut
<1>8. UnrecordedIsUntouched'
  BY InvParts, <1>a DEF OpenStartsDoes, OpenerSet, UnrecordedIsUntouched
<1>9. RecordStands'
  BY InvParts, <1>a, <1>u DEF OpenStartsDoes, RecordStands, Excepted
<1>10. Accounted'
  <2> SUFFICES ASSUME NEW i \in DOMAIN records', i \notin early' \cup kept'
               PROVE  AccountedFor(i)'
    BY DEF Accounted
  <2>i. i # None
    BY InvParts, <1>a, NoneIsNoName DEF OpenStartsDoes, TypeOK
  <2>1. ASSUME NEW d \in Closers, closer[d].id = i, closer[d].at = "remove" PROVE InHand(i)'
    BY <1>a, <2>1 DEF OpenStartsDoes, InHand
  <2>2. ASSUME NEW s \in Shells, Carries(s, i) PROVE InHand(i)'
    BY <1>a, <1>u, <2>2 DEF OpenStartsDoes, InHand, Carries, Registered
  <2>3. InHand(i) => InHand(i)'
    BY <2>1, <2>2 DEF InHand
  <2>4. AccountedFor(i)
    BY InvParts, <1>a DEF OpenStartsDoes, Accounted
  <2> QED BY <1>a, <2>3, <2>4 DEF OpenStartsDoes, AccountedFor
<1>11. PaneIsOnes'
  <2> SUFFICES ASSUME NEW x \in Panes, ~Crowded(x)' PROVE PaneIsOne(x)'
    BY DEF PaneIsOnes
  <2>1. PaneIsOne(x)
    BY InvParts, <1>a DEF OpenStartsDoes, PaneIsOnes, Crowded
  <2>2. CASE x # p
    BY InvParts, <1>a, <1>u, <2>1, <2>2, NoneIsNoName DEF OpenStartsDoes, OpenerSet,
       PaneIsOne, Opening, TypeOK
  <2>3. CASE x = p
    <3>1. "open" \notin Loose(p) /\ "record" \notin Loose(p)
      BY <1>a, <2>3 DEF OpenStartsDoes, Crowded
    <3>2. \A id \in DOMAIN records : records[id].pane # p
      BY <1>a, <3>1 DEF OpenStartsDoes, Loose
    <3>3. \A q \in Openers : Opening(q) => opener[q].pane # p
      <4> SUFFICES ASSUME NEW q \in Openers, Opening(q), opener[q].pane = p PROVE FALSE
        OBVIOUS
      <4>1. Registered(opener[q].k)
        BY <3>1 DEF Loose
      <4>2. PICK id \in DOMAIN sessions : sessions[id] = opener[q].k
        BY <4>1 DEF Registered
      <4>3. object[opener[q].k].id = id /\ id # None
        BY InvParts, <4>2, NoneIsNoName DEF TableNamesItsObjects, TypeOK
      <4>4. object[opener[q].k].pane = p
        BY InvParts, <4>3 DEF OpensHaveTheirShell, Opening
      <4> QED BY <1>a, <4>2, <4>4 DEF OpenStartsDoes, HeldByPane
    <3>4. \A id \in DOMAIN sessions : object[sessions[id]].pane # p
      BY <1>a DEF OpenStartsDoes, HeldByPane
    <3> QED BY <1>a, <2>3, <3>2, <3>3, <3>4 DEF OpenStartsDoes, OpenerSet, PaneIsOne, Opening
  <2> QED BY <2>2, <2>3
<1> QED BY <1>1, <1>2, <1>3, <1>4, <1>5, <1>6, <1>7, <1>8, <1>9, <1>10, <1>11
    DEF RegistryInv, Shape, Ended, Stopped

\* The id is free in the table; one that a session had before goes into reissued.
LEMMA OpenRegistersKeeps ==
    ASSUME RegistryInv, NEW o \in Openers, OpenRegisters(o)
    PROVE  RegistryInv'
<1>p. opener[o].k \in Shells
  BY InvParts DEF OpensHaveTheirShell, OpenRegisters
<1>a. PICK id \in Ids : OpenRegistersDoes(o, id)
  BY InvParts, <1>p, OpenRegistersEffect
<1>k. /\ object[opener[o].k].id = None /\ opener[o].pane \in Panes
      /\ \A q \in Openers : opener[q].k = opener[o].k => q = o
  BY InvParts, <1>a, NoneIsNoName DEF OpenRegistersDoes, OpensHaveTheirShell
<1>s. \A i \in DOMAIN sessions : sessions[i] \in Shells /\ sessions[i] # opener[o].k
  BY InvParts, <1>k, NoneIsNoName DEF TableNamesItsObjects, TypeOK
<1>l. life # "starting" /\ stop.at # "reap" /\ todo = {}
  BY InvParts, <1>a DEF OpenRegistersDoes, LifeBounds, NoStop
<1>u. Unrecorded' = Unrecorded \cup {opener[o].k}
  BY <1>a DEF OpenRegistersDoes, OpenerSet, Unrecorded
<1>x. Excepted \subseteq Excepted'
  BY <1>a DEF OpenRegistersDoes, Excepted
<1>1. ReapedIsGone'
  BY <1>a, Untouched DEF OpenRegistersDoes
<1>2. TypeOK'
  BY InvParts, <1>a DEF OpenRegistersDoes, OpenerSet, ObjectSet, TypeOK
<1>3. TableNamesItsObjects'
  BY InvParts, <1>a, <1>k, <1>s DEF OpenRegistersDoes, ObjectSet, TableNamesItsObjects
<1>4. UnstartedIsUnknown'
  BY InvParts, <1>a DEF OpenRegistersDoes, OpenerSet, ObjectSet, UnstartedIsUnknown,
     OpensHaveTheirShell
<1>5. TakenIsASession'
  BY InvParts, <1>a DEF OpenRegistersDoes, ObjectSet, TakenIsASession, OpensHaveTheirShell
<1>6. OpensHaveTheirShell'
  BY InvParts, <1>a, <1>k, <1>s, NoneIsNoName DEF OpenRegistersDoes, OpenerSet, ObjectSet,
     OpensHaveTheirShell, Opens
<1>7. LifeBounds'
  BY InvParts, <1>a DEF OpenRegistersDoes, LifeBounds, OpensHaveTheirShell, TakenIsASession
<1>8. NoOrphanShell'
  BY InvParts, <1>a DEF OpenRegistersDoes, OpenerSet, NoOrphanShell, Registered, OnItsWayOut
<1>9. IdsAreRemembered'
  BY InvParts, <1>a DEF OpenRegistersDoes, ObjectSet, IdsAreRemembered
<1>10. OneObjectPerId'
  BY InvParts, <1>a, <1>l DEF OpenRegistersDoes, ObjectSet, OneObjectPerId, IdsAreRemembered
<1>11. UnrecordedIsUntouched'
  BY InvParts, <1>a, NoneIsNoName DEF OpenRegistersDoes, OpenerSet, ObjectSet,
     UnrecordedIsUntouched, IdsAreRemembered, OpensHaveTheirShell, TakenIsASession
<1>12. UnstoredHasNoRecord'
  BY InvParts, <1>a DEF OpenRegistersDoes, ObjectSet, UnstoredHasNoRecord, Excepted
<1>13. ForgetFollowsRemove'
  BY InvParts, <1>a DEF OpenRegistersDoes, ForgetFollowsRemove, Excepted
<1>14. EndedStaysEnded'
  BY InvParts, <1>a DEF OpenRegistersDoes, EndedStaysEnded
<1>15. TakenOnce'
  BY InvParts, <1>a DEF OpenRegistersDoes, ObjectSet, TakenOnce, Holds, Registered,
     OpensHaveTheirShell, TakenIsASession
<1>16. ClosedIsEnded'
  BY InvParts, <1>a DEF OpenRegistersDoes, ObjectSet, ClosedIsEnded, Excepted,
     IdsAreRemembered, OpensHaveTheirShell
<1>17. RecordStands'
  BY InvParts, <1>a, <1>u, <1>x DEF OpenRegistersDoes, ObjectSet, RecordStands
<1>18. MarkedBeforeReaped'
  BY <1>a, <1>l DEF OpenRegistersDoes, MarkedBeforeReaped
<1>19. StopIsNotAClose'
  BY InvParts, <1>a DEF OpenRegistersDoes, ObjectSet, StopIsNotAClose, OpensHaveTheirShell,
     TakenIsASession
<1>20. Accounted'
  <2> SUFFICES ASSUME NEW i \in DOMAIN records', i \notin early' \cup kept'
               PROVE  AccountedFor(i)'
    BY DEF Accounted
  <2>i. i # None
    BY InvParts, <1>a, NoneIsNoName DEF OpenRegistersDoes, TypeOK
  <2>1. ASSUME NEW d \in Closers, closer[d].id = i, closer[d].at = "remove" PROVE InHand(i)'
    BY <1>a, <2>1 DEF OpenRegistersDoes, InHand
  <2>2. ASSUME NEW s \in Shells, Carries(s, i) PROVE InHand(i)'
    BY <1>a, <1>k, <1>u, <2>i, <2>2 DEF OpenRegistersDoes, ObjectSet, InHand, Carries,
       Registered
  <2>3. InHand(i) => InHand(i)'
    BY <2>1, <2>2 DEF InHand
  <2>4. AccountedFor(i)
    BY InvParts, <1>a DEF OpenRegistersDoes, Accounted
  <2> QED BY <1>a, <2>3, <2>4 DEF OpenRegistersDoes, AccountedFor
<1>21. PaneIsOnes'
  <2> SUFFICES ASSUME NEW p \in Panes, ~Crowded(p)' PROVE PaneIsOne(p)'
    BY DEF PaneIsOnes
  <2>1. PaneIsOne(p)
    BY InvParts, <1>a DEF OpenRegistersDoes, PaneIsOnes, Crowded
  <2> QED BY <1>a, <1>s, <2>1 DEF OpenRegistersDoes, OpenerSet, ObjectSet, PaneIsOne, Opening
<1> QED BY <1>1, <1>2, <1>3, <1>4, <1>5, <1>6, <1>7, <1>8, <1>9, <1>10, <1>11, <1>12, <1>13,
     <1>14, <1>15, <1>16, <1>17, <1>18, <1>19, <1>20, <1>21 DEF RegistryInv, Shape, Ended,
     Stopped

\* The shell that came too late is ended by the open itself.
LEMMA OpenStoppedKeeps ==
    ASSUME RegistryInv, NEW o \in Openers, OpenStopped(o)
    PROVE  RegistryInv'
<1>a. OpenStoppedDoes(o)
  BY InvParts, OpenStoppedEffect
<1>u. Unrecorded' = Unrecorded
  BY <1>a DEF OpenStoppedDoes, OpenerSet, Unrecorded
<1>1. /\ TableNamesItsObjects' /\ TakenIsASession' /\ IdsAreRemembered' /\ OneObjectPerId'
      /\ UnstoredHasNoRecord' /\ ForgetFollowsRemove' /\ EndedStaysEnded' /\ TakenOnce'
      /\ ClosedIsEnded' /\ MarkedBeforeReaped' /\ StopIsNotAClose'
  BY <1>a, Untouched DEF OpenStoppedDoes
<1>2. TypeOK'
  BY InvParts, <1>a DEF OpenStoppedDoes, OpenerSet, TypeOK
<1>3. UnstartedIsUnknown'
  BY InvParts, <1>a, NoneIsNoName DEF OpenStoppedDoes, OpenerSet, UnstartedIsUnknown
<1>4. OpensHaveTheirShell'
  BY InvParts, <1>a DEF OpenStoppedDoes, OpenerSet, OpensHaveTheirShell
<1>5. LifeBounds'
  BY InvParts, <1>a DEF OpenStoppedDoes, LifeBounds
<1>6. ReapedIsGone'
  BY InvParts, <1>a DEF OpenStoppedDoes, ReapedIsGone
<1>7. NoOrphanShell'
  <2>t. shell \in [Shells -> {"none", "running", "gone"}]
    BY InvParts DEF TypeOK
  <2> QED BY InvParts, <1>a, <2>t DEF OpenStoppedDoes, OpenerSet, NoOrphanShell, OnItsWayOut,
       OpensHaveTheirShell
<1>8. UnrecordedIsUntouched'
  BY InvParts, <1>a DEF OpenStoppedDoes, OpenerSet, UnrecordedIsUntouched
<1>9. RecordStands'
  BY InvParts, <1>a, <1>u DEF OpenStoppedDoes, RecordStands, Excepted
<1>10. Accounted'
  <2> SUFFICES ASSUME NEW i \in DOMAIN records', i \notin early' \cup kept'
               PROVE  AccountedFor(i)'
    BY DEF Accounted
  <2>i. i # None
    BY InvParts, <1>a, NoneIsNoName DEF OpenStoppedDoes, TypeOK
  <2>1. ASSUME NEW d \in Closers, closer[d].id = i, closer[d].at = "remove" PROVE InHand(i)'
    BY <1>a, <2>1 DEF OpenStoppedDoes, InHand
  <2>2. ASSUME NEW s \in Shells, Carries(s, i) PROVE InHand(i)'
    BY <1>a, <1>u, <2>2 DEF OpenStoppedDoes, InHand, Carries, Registered
  <2>3. InHand(i) => InHand(i)'
    BY <2>1, <2>2 DEF InHand
  <2>4. AccountedFor(i)
    BY InvParts, <1>a DEF OpenStoppedDoes, Accounted
  <2> QED BY <1>a, <2>3, <2>4 DEF OpenStoppedDoes, AccountedFor
<1>11. PaneIsOnes'
  <2> SUFFICES ASSUME NEW p \in Panes, ~Crowded(p)' PROVE PaneIsOne(p)'
    BY DEF PaneIsOnes
  <2>1. PaneIsOne(p)
    BY InvParts, <1>a DEF OpenStoppedDoes, PaneIsOnes, Crowded
  <2> QED BY <1>a, <2>1 DEF OpenStoppedDoes, OpenerSet, PaneIsOne, Opening
<1> QED BY <1>1, <1>2, <1>3, <1>4, <1>5, <1>6, <1>7, <1>8, <1>9, <1>10, <1>11
    DEF RegistryInv, Shape, Ended, Stopped

\* The record is of a session that is still in the table, or was taken out early.
LEMMA OpenWritesKeeps ==
    ASSUME RegistryInv, NEW o \in Openers, NEW k \in Shells, NEW id \in Ids, OpenWrites(o,
           k, id)
    PROVE  RegistryInv'
<1>a. OpenWrites(o, k, id)
  OBVIOUS
<1>u. \/ id \in early
      \/ /\ id \in DOMAIN sessions /\ sessions[id] = k /\ reap[k] = "none" /\ k \notin sweep.ks
         /\ \/ id \in reissued
            \/ /\ id \notin DOMAIN records /\ id \notin dead
               /\ \A c \in Closers : closer[c].id # id
  BY InvParts DEF OpenWrites, UnrecordedIsUntouched
<1>v. /\ object[k].stored /\ object[k].pane = opener[o].pane /\ opener[o].pane \in Panes
      /\ \A q \in Openers : opener[q].k = k => q = o
  BY InvParts, NoneIsNoName DEF OpenWrites, OpensHaveTheirShell
<1>w. Unrecorded' = Unrecorded \ {k} /\ k \in Unrecorded
  BY <1>v DEF OpenWrites, OpenerSet, Unrecorded
<1>x. \A m \in Shells : object[m].id = id => m = k \/ id \in reissued
  BY InvParts, NoneIsNoName DEF OpenWrites, OneObjectPerId
<1>1. /\ TableNamesItsObjects' /\ TakenIsASession' /\ ReapedIsGone' /\ TakenOnce'
      /\ ClosedIsEnded'
  BY Untouched DEF OpenWrites
<1>2. TypeOK'
  BY InvParts DEF OpenWrites, OpenerSet, TypeOK
<1>3. UnstartedIsUnknown'
  BY InvParts, NoneIsNoName DEF OpenWrites, OpenerSet, UnstartedIsUnknown
<1>4. OpensHaveTheirShell'
  BY InvParts DEF OpenWrites, OpenerSet, OpensHaveTheirShell
<1>5. LifeBounds'
  BY InvParts DEF OpenWrites, LifeBounds
<1>6. NoOrphanShell'
  BY InvParts DEF OpenWrites, OpenerSet, NoOrphanShell, Registered, OnItsWayOut
<1>7. IdsAreRemembered'
  <2>t. DOMAIN records \subseteq Ids
    BY InvParts DEF TypeOK
  <2> QED BY InvParts, NoneIsNoName DEF OpenWrites, IdsAreRemembered
<1>8. OneObjectPerId'
  BY InvParts DEF OpenWrites, OneObjectPerId
<1>9. UnrecordedIsUntouched'
  BY InvParts, <1>v DEF OpenWrites, OpenerSet, UnrecordedIsUntouched, OpensHaveTheirShell
<1>10. UnstoredHasNoRecord'
  BY InvParts, <1>v, <1>x DEF OpenWrites, UnstoredHasNoRecord, Excepted
<1>11. ForgetFollowsRemove'
  BY InvParts, <1>u DEF OpenWrites, ForgetFollowsRemove, Excepted
<1>12. EndedStaysEnded'
  BY InvParts, <1>u DEF OpenWrites, EndedStaysEnded
<1>13. RecordStands'
  BY InvParts, <1>w DEF OpenWrites, RecordStands, Excepted
<1>14. MarkedBeforeReaped'
  BY InvParts, <1>u DEF OpenWrites, MarkedBeforeReaped, Excepted, TakenOnce
<1>15. StopIsNotAClose'
  BY InvParts, <1>u DEF OpenWrites, StopIsNotAClose
<1>16. Accounted'
  <2> SUFFICES ASSUME NEW i \in DOMAIN records', i \notin early' \cup kept'
               PROVE  AccountedFor(i)'
    BY DEF Accounted
  <2>i. i # None
    BY InvParts, NoneIsNoName DEF OpenWrites, TypeOK
  <2>1. ASSUME NEW d \in Closers, closer[d].id = i, closer[d].at = "remove" PROVE InHand(i)'
    BY <2>1 DEF OpenWrites, InHand
  <2>2. ASSUME NEW s \in Shells, Carries(s, i) PROVE InHand(i)'
    BY <1>w, <2>2 DEF OpenWrites, InHand, Carries, Registered
  <2>3. InHand(i) => InHand(i)'
    BY <2>1, <2>2 DEF InHand
  <2>4. CASE i = id
    <3>1. Carries(k, id)'
      BY <1>u, <1>v, <1>w, <2>4 DEF OpenWrites, Carries, Registered
    <3> QED BY <2>4, <3>1 DEF InHand, AccountedFor
  <2>5. CASE i # id
    <3>1. AccountedFor(i)
      BY InvParts, <2>5 DEF OpenWrites, Accounted
    <3> QED BY <2>3, <3>1 DEF OpenWrites, AccountedFor
  <2> QED BY <2>4, <2>5
<1>17. PaneIsOnes'
  <2> SUFFICES ASSUME NEW p \in Panes, ~Crowded(p)' PROVE PaneIsOne(p)'
    BY DEF PaneIsOnes
  <2>1. PaneIsOne(p)
    BY InvParts DEF OpenWrites, PaneIsOnes, Crowded
  <2> QED BY InvParts, <1>v, <2>1 DEF OpenWrites, OpenerSet, PaneIsOne, Opening,
       TableNamesItsObjects
<1> QED BY <1>1, <1>2, <1>3, <1>4, <1>5, <1>6, <1>7, <1>8, <1>9, <1>10, <1>11, <1>12, <1>13,
     <1>14, <1>15, <1>16, <1>17 DEF RegistryInv, Shape, Ended, Stopped

\* Without a store there is no record to keep or to take.
LEMMA OpenLosesStoreKeeps ==
    ASSUME RegistryInv, NEW o \in Openers, NEW k \in Shells, NEW id \in Ids,
           OpenLosesStore(o, k, id)
    PROVE  RegistryInv'
<1>a. OpenLosesStore(o, k, id)
  OBVIOUS
<1>u. \/ id \in early
      \/ /\ id \in DOMAIN sessions /\ sessions[id] = k /\ reap[k] = "none" /\ k \notin sweep.ks
         /\ \/ id \in reissued
            \/ /\ id \notin DOMAIN records /\ id \notin dead
               /\ \A c \in Closers : closer[c].id # id
  BY InvParts DEF OpenLosesStore, UnrecordedIsUntouched
<1>v. /\ object[k].stored /\ object[k].pane = opener[o].pane /\ opener[o].pane \in Panes
      /\ \A q \in Openers : opener[q].k = k => q = o
  BY InvParts, NoneIsNoName DEF OpenLosesStore, OpensHaveTheirShell
<1>w. Unrecorded' = Unrecorded \ {k} /\ k \in Unrecorded
  BY <1>v DEF OpenLosesStore, OpenerSet, Unrecorded
<1>x. \A m \in Shells : object[m].id = id => m = k \/ id \in reissued
  BY InvParts, NoneIsNoName DEF OpenLosesStore, OneObjectPerId
<1>1. ReapedIsGone' /\ ForgetFollowsRemove' /\ EndedStaysEnded'
  BY Untouched DEF OpenLosesStore
<1>2. TypeOK'
  BY InvParts DEF OpenLosesStore, OpenerSet, TypeOK
<1>3. TableNamesItsObjects'
  <2>t. sessions \in [DOMAIN sessions -> Shells] /\ DOMAIN sessions \subseteq Ids
    BY InvParts DEF TypeOK
  <2> QED BY InvParts, <2>t DEF OpenLosesStore, TableNamesItsObjects
<1>4. UnstartedIsUnknown'
  BY InvParts, NoneIsNoName DEF OpenLosesStore, OpenerSet, UnstartedIsUnknown
<1>5. TakenIsASession'
  BY InvParts DEF OpenLosesStore, TakenIsASession
<1>6. OpensHaveTheirShell'
  BY InvParts, <1>v DEF OpenLosesStore, OpenerSet, OpensHaveTheirShell
<1>7. LifeBounds'
  BY InvParts DEF OpenLosesStore, LifeBounds
<1>8. NoOrphanShell'
  BY InvParts DEF OpenLosesStore, OpenerSet, NoOrphanShell, Registered, OnItsWayOut
<1>9. IdsAreRemembered'
  BY InvParts DEF OpenLosesStore, IdsAreRemembered
<1>10. OneObjectPerId'
  BY InvParts DEF OpenLosesStore, OneObjectPerId
<1>11. UnrecordedIsUntouched'
  BY InvParts DEF OpenLosesStore, OpenerSet, UnrecordedIsUntouched, OpensHaveTheirShell
<1>12. UnstoredHasNoRecord'
  BY InvParts, <1>u DEF OpenLosesStore, UnstoredHasNoRecord, Excepted
<1>13. TakenOnce'
  BY InvParts DEF OpenLosesStore, TakenOnce, Holds, Registered
<1>14. ClosedIsEnded'
  BY InvParts DEF OpenLosesStore, ClosedIsEnded, Excepted
<1>15. RecordStands'
  BY InvParts, <1>w DEF OpenLosesStore, RecordStands, Excepted
<1>16. MarkedBeforeReaped'
  BY InvParts DEF OpenLosesStore, MarkedBeforeReaped, Excepted, LifeBounds
<1>17. StopIsNotAClose'
  BY InvParts DEF OpenLosesStore, StopIsNotAClose
<1>18. Accounted'
  <2> SUFFICES ASSUME NEW i \in DOMAIN records', i \notin early' \cup kept'
               PROVE  AccountedFor(i)'
    BY DEF Accounted
  <2>i. i # None
    BY InvParts, NoneIsNoName DEF OpenLosesStore, TypeOK
  <2>1. ASSUME NEW d \in Closers, closer[d].id = i, closer[d].at = "remove" PROVE InHand(i)'
    BY <2>1 DEF OpenLosesStore, InHand
  <2>2. ASSUME NEW s \in Shells, Carries(s, i) PROVE InHand(i)'
    BY <1>w, <2>2 DEF OpenLosesStore, InHand, Carries, Registered
  <2>3. InHand(i) => InHand(i)'
    BY <2>1, <2>2 DEF InHand
  <2>4. AccountedFor(i)
    BY InvParts DEF OpenLosesStore, Accounted
  <2> QED BY <2>3, <2>4 DEF OpenLosesStore, AccountedFor
<1>19. PaneIsOnes'
  <2> SUFFICES ASSUME NEW p \in Panes, ~Crowded(p)' PROVE PaneIsOne(p)'
    BY DEF PaneIsOnes
  <2>t. sessions \in [DOMAIN sessions -> Shells] /\ DOMAIN sessions \subseteq Ids
    BY InvParts DEF TypeOK
  <2>1. PaneIsOne(p)
    BY InvParts DEF OpenLosesStore, PaneIsOnes, Crowded
  <2> QED BY <2>1, <2>t DEF OpenLosesStore, OpenerSet, PaneIsOne, Opening, TableNamesItsObjects
<1> QED BY <1>1, <1>2, <1>3, <1>4, <1>5, <1>6, <1>7, <1>8, <1>9, <1>10, <1>11, <1>12, <1>13,
     <1>14, <1>15, <1>16, <1>17, <1>18, <1>19 DEF RegistryInv, Shape, Ended, Stopped

\* The open's last step, with its record written or lost, keeps the invariant.
LEMMA OpenCreatesKeeps ==
    ASSUME RegistryInv, NEW o \in Openers, OpenCreates(o)
    PROVE  RegistryInv'
<1>1. TypeOK /\ OpensHaveTheirShell
  BY DEF RegistryInv, Shape
<1>2. PICK k \in Shells, id \in Ids :
        opener[o].k = k /\ object[k].id = id /\ object[k].pane \in Panes
  BY <1>1 DEF OpensHaveTheirShell, OpenCreates, TypeOK, Objects
<1>3. OpenWrites(o, k, id) \/ OpenLosesStore(o, k, id)
  BY <1>1, <1>2, OpenCreatesEffect
<1> QED BY <1>3, OpenWritesKeeps, OpenLosesStoreKeeps

\* A session that is over leaves no record behind, unless the removal failed.
LEMMA ReapFinishesKeeps ==
    ASSUME RegistryInv, NEW k \in Shells, ReapFinishes(k)
    PROVE  RegistryInv'
<1>a. ReapFinishesDoes(k)
  BY InvParts, ReapFinishesEffect
<1>1. TableNamesItsObjects' /\ OpensHaveTheirShell'
  BY <1>a, Untouched DEF ReapFinishesDoes
<1>2. TypeOK'
  BY InvParts, <1>a DEF ReapFinishesDoes, TypeOK, TakenIsASession, Objects
<1>3. UnstartedIsUnknown'
  BY InvParts, <1>a DEF ReapFinishesDoes, UnstartedIsUnknown
<1>4. TakenIsASession'
  BY InvParts, <1>a DEF ReapFinishesDoes, TakenIsASession
<1>5. LifeBounds'
  <2>t. reap \in [Shells -> {"none", "ending", "done"}]
    BY InvParts DEF TypeOK
  <2> QED BY InvParts, <1>a DEF ReapFinishesDoes, LifeBounds, TakenIsASession,
       UnstartedIsUnknown
<1>6. ReapedIsGone'
  BY InvParts, <1>a DEF ReapFinishesDoes, ReapedIsGone, TypeOK
<1>7. NoOrphanShell'
  BY InvParts, <1>a DEF ReapFinishesDoes, NoOrphanShell, Registered, OnItsWayOut, TypeOK
<1>8. IdsAreRemembered'
  BY InvParts, <1>a DEF ReapFinishesDoes, IdsAreRemembered, TakenIsASession
<1>9. OneObjectPerId'
  BY InvParts, <1>a DEF ReapFinishesDoes, OneObjectPerId
<1>10. UnrecordedIsUntouched'
  BY InvParts, <1>a DEF ReapFinishesDoes, UnrecordedIsUntouched, OneObjectPerId,
     OpensHaveTheirShell
<1>11. UnstoredHasNoRecord'
  BY InvParts, <1>a DEF ReapFinishesDoes, UnstoredHasNoRecord, Excepted
<1>12. ForgetFollowsRemove'
  BY InvParts, <1>a DEF ReapFinishesDoes, ForgetFollowsRemove, Excepted
<1>13. EndedStaysEnded'
  BY InvParts, <1>a DEF ReapFinishesDoes, EndedStaysEnded, UnstoredHasNoRecord, Excepted
<1>14. TakenOnce'
  BY InvParts, <1>a DEF ReapFinishesDoes, TakenOnce, Holds, Registered
<1>15. ClosedIsEnded'
  BY InvParts, <1>a DEF ReapFinishesDoes, ClosedIsEnded, Excepted
<1>16. RecordStands'
  BY InvParts, <1>a DEF ReapFinishesDoes, RecordStands, Excepted, Unrecorded
<1>17. MarkedBeforeReaped'
  BY InvParts, <1>a DEF ReapFinishesDoes, MarkedBeforeReaped, Excepted
<1>18. StopIsNotAClose'
  BY InvParts, <1>a DEF ReapFinishesDoes, StopIsNotAClose
<1>19. Accounted'
  <2> SUFFICES ASSUME NEW i \in DOMAIN records', i \notin early' \cup kept', life # "stopping"
               PROVE  AccountedFor(i)'
    BY <1>a DEF ReapFinishesDoes, Accounted, AccountedFor
  <2>i. i # None
    BY InvParts, <1>a, NoneIsNoName DEF ReapFinishesDoes, TypeOK
  <2>1. ASSUME NEW d \in Closers, closer[d].id = i, closer[d].at = "remove" PROVE InHand(i)'
    BY <1>a, <2>1 DEF ReapFinishesDoes, InHand
  <2>2. ASSUME NEW s \in Shells, Carries(s, i) PROVE InHand(i)'
    BY InvParts, <1>a, <2>2 DEF ReapFinishesDoes, InHand, Carries, Registered, Unrecorded,
       LifeBounds
  <2>3. InHand(i) => InHand(i)'
    BY <2>1, <2>2 DEF InHand
  <2>4. AccountedFor(i)
    BY InvParts, <1>a DEF ReapFinishesDoes, Accounted
  <2> QED BY <1>a, <2>3, <2>4 DEF ReapFinishesDoes, AccountedFor
<1>20. PaneIsOnes'
  BY InvParts, <1>a DEF ReapFinishesDoes, PaneIsOnes, PaneIsOne, Crowded, Opening
<1> QED BY <1>1, <1>2, <1>3, <1>4, <1>5, <1>6, <1>7, <1>8, <1>9, <1>10, <1>11, <1>12, <1>13,
     <1>14, <1>15, <1>16, <1>17, <1>18, <1>19, <1>20 DEF RegistryInv, Shape, Ended, Stopped

\* A shell that exits has its record written, and its session stays in the table.
LEMMA ShellExitsKeeps ==
    ASSUME RegistryInv, NEW k \in Shells, ShellExits(k)
    PROVE  RegistryInv'
<1>a. ShellExitsDoes(k)
  BY InvParts, ShellExitsEffect
<1>1. /\ TableNamesItsObjects' /\ OpensHaveTheirShell' /\ IdsAreRemembered'
      /\ OneObjectPerId' /\ UnstoredHasNoRecord' /\ ForgetFollowsRemove' /\ EndedStaysEnded'
      /\ PaneIsOnes'
  BY <1>a, Untouched DEF ShellExitsDoes
<1>2. TypeOK'
  BY InvParts, <1>a DEF ShellExitsDoes, Reaped, TypeOK
<1>3. UnstartedIsUnknown'
  BY InvParts, <1>a DEF ShellExitsDoes, UnstartedIsUnknown
<1>4. TakenIsASession'
  BY InvParts, <1>a DEF ShellExitsDoes, Reaped, TakenIsASession, Pumped
<1>5. LifeBounds'
  BY InvParts, <1>a DEF ShellExitsDoes, Reaped, LifeBounds, Pumped
<1>6. ReapedIsGone'
  BY InvParts, <1>a DEF ShellExitsDoes, Reaped, ReapedIsGone
<1>7. NoOrphanShell'
  BY InvParts, <1>a DEF ShellExitsDoes, Reaped, NoOrphanShell, Registered, OnItsWayOut
<1>8. UnrecordedIsUntouched'
  BY InvParts, <1>a DEF ShellExitsDoes, Reaped, UnrecordedIsUntouched, TypeOK, Pumped,
     Unrecorded
<1>9. TakenOnce'
  BY InvParts, <1>a DEF ShellExitsDoes, Reaped, TakenOnce, Holds, Registered
<1>10. ClosedIsEnded'
  BY InvParts, <1>a DEF ShellExitsDoes, Reaped, ClosedIsEnded, Excepted
<1>11. RecordStands'
  BY InvParts, <1>a DEF ShellExitsDoes, Reaped, RecordStands, Excepted, Unrecorded
<1>12. MarkedBeforeReaped'
  BY InvParts, <1>a DEF ShellExitsDoes, Reaped, MarkedBeforeReaped, Excepted, LifeBounds
<1>13. StopIsNotAClose'
  BY InvParts, <1>a DEF ShellExitsDoes, Reaped, StopIsNotAClose
<1>14. Accounted'
  BY InvParts, <1>a DEF ShellExitsDoes, Reaped, Accounted, AccountedFor, InHand, Carries,
     Unrecorded, Registered
<1> QED BY <1>1, <1>2, <1>3, <1>4, <1>5, <1>6, <1>7, <1>8, <1>9, <1>10, <1>11, <1>12, <1>13,
     <1>14 DEF RegistryInv, Shape, Ended, Stopped

\* What a close names was a session once.
LEMMA CloseAsksKeeps ==
    ASSUME RegistryInv, NEW c \in Closers, CloseWindowAsks(c) \/ \E id \in Ids :
           CloseAsks(c, id)
    PROVE  RegistryInv'
<1>a. PICK ids \in SUBSET Ids : CloseAsksDoes(c, ids)
  BY InvParts, CloseAsksEffect
<1>1. /\ TableNamesItsObjects' /\ UnstartedIsUnknown' /\ OpensHaveTheirShell'
      /\ ReapedIsGone' /\ OneObjectPerId' /\ UnstoredHasNoRecord' /\ EndedStaysEnded'
      /\ PaneIsOnes'
  BY <1>a, Untouched DEF CloseAsksDoes
<1>2. TypeOK'
  BY InvParts, <1>a DEF CloseAsksDoes, CloserSet, TypeOK
<1>3. TakenIsASession'
  BY InvParts, <1>a, NoneIsNoName DEF CloseAsksDoes, CloserSet, TakenIsASession
<1>4. LifeBounds'
  BY InvParts, <1>a, NoneIsNoName DEF CloseAsksDoes, CloserSet, LifeBounds, TypeOK, Up
<1>5. NoOrphanShell'
  BY InvParts, <1>a DEF CloseAsksDoes, CloserSet, NoOrphanShell, Registered, OnItsWayOut
<1>6. IdsAreRemembered'
  <2>t. sessions \in [DOMAIN sessions -> Shells] /\ DOMAIN sessions \subseteq Ids
    BY InvParts DEF TypeOK
  <2> QED BY InvParts, <1>a, NoneIsNoName, <2>t DEF CloseAsksDoes, CloserSet,
       IdsAreRemembered, TableNamesItsObjects
<1>7. UnrecordedIsUntouched'
  BY InvParts, <1>a, NoneIsNoName DEF CloseAsksDoes, CloserSet, UnrecordedIsUntouched, TypeOK
<1>8. ForgetFollowsRemove'
  BY InvParts, <1>a DEF CloseAsksDoes, CloserSet, ForgetFollowsRemove, Excepted
<1>9. TakenOnce'
  BY InvParts, <1>a DEF CloseAsksDoes, CloserSet, TakenOnce, Holds, Registered
<1>10. ClosedIsEnded'
  BY InvParts, <1>a DEF CloseAsksDoes, CloserSet, ClosedIsEnded, Excepted
<1>11. RecordStands'
  BY InvParts, <1>a DEF CloseAsksDoes, CloserSet, RecordStands, Excepted, Unrecorded,
     LifeBounds
<1>12. MarkedBeforeReaped'
  BY InvParts, <1>a DEF CloseAsksDoes, CloserSet, MarkedBeforeReaped, Excepted, LifeBounds
<1>13. StopIsNotAClose'
  BY InvParts, <1>a, NoneIsNoName DEF CloseAsksDoes, CloserSet, StopIsNotAClose, TypeOK,
     LifeBounds
<1>14. Accounted'
  <2> SUFFICES ASSUME NEW i \in DOMAIN records', i \notin early' \cup kept'
               PROVE  AccountedFor(i)'
    BY DEF Accounted
  <2>i. i # None
    BY InvParts, <1>a, NoneIsNoName DEF CloseAsksDoes, TypeOK
  <2>1. ASSUME NEW d \in Closers, closer[d].id = i, closer[d].at = "remove" PROVE InHand(i)'
    BY <1>a, <2>1 DEF CloseAsksDoes, CloserSet, InHand
  <2>2. ASSUME NEW s \in Shells, Carries(s, i) PROVE InHand(i)'
    BY <1>a, <2>2 DEF CloseAsksDoes, InHand, Carries, Registered, Unrecorded
  <2>3. InHand(i) => InHand(i)'
    BY <2>1, <2>2 DEF InHand
  <2>4. AccountedFor(i)
    BY InvParts, <1>a DEF CloseAsksDoes, Accounted
  <2> QED BY <1>a, <2>3, <2>4 DEF CloseAsksDoes, CloserSet, AccountedFor
<1> QED BY <1>1, <1>2, <1>3, <1>4, <1>5, <1>6, <1>7, <1>8, <1>9, <1>10, <1>11, <1>12, <1>13,
     <1>14 DEF RegistryInv, Shape, Ended, Stopped

\* Only one close, sweep or stop takes a session out of the table.
LEMMA CloseTakesKeeps ==
    ASSUME RegistryInv, NEW c \in Closers, NEW id \in Ids, CloseTakes(c, id)
    PROVE  RegistryInv'
<1>a. PICK k \in Shells \cup {None} : CloseTakesDoes(c, id, k)
  BY InvParts, CloseTakesEffect
<1>k. id \in DOMAIN sessions => k \in Shells /\ object[k].id = id
  BY InvParts, <1>a DEF CloseTakesDoes, TableNamesItsObjects, TypeOK
<1>s. \A j \in DOMAIN sessions : sessions[j] \in Shells /\ (sessions[j] = k => j = id)
  BY InvParts, <1>a, NoneIsNoName DEF CloseTakesDoes, TableNamesItsObjects, TypeOK
<1>o. \A m \in Shells : object[m].id = closer[c].id /\ object[m].id \notin Excepted \cup dead
                        => object[m].id = None \/ (reap[m] # "none" /\ over[m])
  BY InvParts, <1>a DEF CloseTakesDoes, ClosedIsEnded
<1>x. Excepted \subseteq Excepted'
  BY <1>a DEF CloseTakesDoes, Excepted
<1>1. UnstartedIsUnknown' /\ OpensHaveTheirShell' /\ ReapedIsGone' /\ OneObjectPerId'
  BY <1>a, Untouched DEF CloseTakesDoes
<1>2. TypeOK'
  BY InvParts, <1>a DEF CloseTakesDoes, CloserSet, TypeOK
<1>3. TableNamesItsObjects'
  BY InvParts, <1>a DEF CloseTakesDoes, TableNamesItsObjects
<1>4. TakenIsASession'
  BY InvParts, <1>a, NoneIsNoName DEF CloseTakesDoes, CloserSet, TakenIsASession,
     TableNamesItsObjects
<1>5. LifeBounds'
  <2>t. id \in Ids
    BY InvParts
  <2> QED BY InvParts, <1>a, NoneIsNoName DEF CloseTakesDoes, CloserSet, LifeBounds
<1>6. NoOrphanShell'
  BY InvParts, <1>a DEF CloseTakesDoes, CloserSet, NoOrphanShell, Registered, OnItsWayOut
<1>7. IdsAreRemembered'
  BY InvParts, <1>a DEF CloseTakesDoes, CloserSet, IdsAreRemembered
<1>8. UnrecordedIsUntouched'
  BY InvParts, <1>a DEF CloseTakesDoes, CloserSet, UnrecordedIsUntouched, Unrecorded
<1>9. UnstoredHasNoRecord'
  BY InvParts, <1>a DEF CloseTakesDoes, UnstoredHasNoRecord, Excepted
<1>10. ForgetFollowsRemove'
  BY InvParts, <1>a DEF CloseTakesDoes, CloserSet, ForgetFollowsRemove, Excepted
<1>11. EndedStaysEnded'
  BY InvParts, <1>a DEF CloseTakesDoes, EndedStaysEnded
<1>12. TakenOnce'
  BY InvParts, <1>a, NoneIsNoName DEF CloseTakesDoes, CloserSet, TakenOnce, Holds, Registered,
     TableNamesItsObjects, LifeBounds
<1>13. ClosedIsEnded'
  BY InvParts, <1>a DEF CloseTakesDoes, CloserSet, ClosedIsEnded, Excepted
<1>14. RecordStands'
  <2> SUFFICES ASSUME NEW m \in Shells, object[m].id # None, object[m].stored, m \notin Unrecorded,
                      object[m].id \notin Excepted' \cup dead,
                      \A d \in Closers : object[m].id # closer'[d].id,
                      reap[m] # "none" => ~over[m]
               PROVE  object[m].id \in DOMAIN records
    BY <1>a DEF CloseTakesDoes, RecordStands, Unrecorded
  <2>1. \A d \in Closers : object[m].id # closer[d].id
    BY <1>a, <1>o, <1>x DEF CloseTakesDoes, CloserSet
  <2> QED BY InvParts, <1>x, <2>1 DEF RecordStands
<1>15. MarkedBeforeReaped'
  <2> SUFFICES ASSUME stop.at = "reap", object[stop.k].stored,
                      object[stop.k].id \notin Excepted' \cup dead,
                      \A d \in Closers : object[stop.k].id # closer'[d].id,
                      reap[stop.k] # "none" => ~over[stop.k]
               PROVE  object[stop.k].id \in DOMAIN records /\ records[object[stop.k].id].ended
    BY <1>a DEF CloseTakesDoes, MarkedBeforeReaped
  <2>1. stop.k \in Shells /\ object[stop.k].id # None
    BY InvParts DEF LifeBounds, TakenIsASession
  <2>2. \A d \in Closers : object[stop.k].id # closer[d].id
    BY <1>a, <1>o, <1>x, <2>1 DEF CloseTakesDoes, CloserSet
  <2> QED BY InvParts, <1>x, <2>2 DEF MarkedBeforeReaped
<1>16. StopIsNotAClose'
  <2> SUFFICES ASSUME NEW m \in Shells, reap[m] # "none", ~over[m], object[m].stored,
                      object[m].id \notin Excepted' \cup dead,
                      \A d \in Closers : object[m].id # closer'[d].id
               PROVE  object[m].id \in DOMAIN records /\ records[object[m].id].ended
    BY <1>a DEF CloseTakesDoes, StopIsNotAClose, Excepted
  <2>1. object[m].id # None
    BY InvParts DEF TakenIsASession
  <2>2. \A d \in Closers : object[m].id # closer[d].id
    BY <1>a, <1>o, <1>x, <2>1 DEF CloseTakesDoes, CloserSet
  <2> QED BY InvParts, <1>x, <2>2 DEF StopIsNotAClose, Excepted
<1>17. Accounted'
  <2> SUFFICES ASSUME NEW i \in DOMAIN records', i \notin early' \cup kept'
               PROVE  AccountedFor(i)'
    BY DEF Accounted
  <2>i. i # None
    BY InvParts, <1>a, NoneIsNoName DEF CloseTakesDoes, TypeOK
  <2>1. ASSUME NEW d \in Closers, closer[d].id = i, closer[d].at = "remove" PROVE InHand(i)'
    BY <1>a, <2>1 DEF CloseTakesDoes, CloserSet, InHand, CloserSet
  <2>2. ASSUME NEW s \in Shells, Carries(s, i) PROVE InHand(i)'
    BY <1>a, <1>k, <2>2 DEF CloseTakesDoes, CloserSet, InHand, Carries, Registered,
       Unrecorded, CloserSet
  <2>3. InHand(i) => InHand(i)'
    BY <2>1, <2>2 DEF InHand
  <2>4. AccountedFor(i)
    BY InvParts, <1>a DEF CloseTakesDoes, Accounted
  <2> QED BY <1>a, <2>3, <2>4 DEF CloseTakesDoes, CloserSet, AccountedFor
<1>18. PaneIsOnes'
  BY InvParts, <1>a DEF CloseTakesDoes, PaneIsOnes, PaneIsOne, Crowded, Opening
<1> QED BY <1>1, <1>2, <1>3, <1>4, <1>5, <1>6, <1>7, <1>8, <1>9, <1>10, <1>11, <1>12, <1>13,
     <1>14, <1>15, <1>16, <1>17, <1>18 DEF RegistryInv, Shape, Ended, Stopped

\* The record goes while the close still names its id.
LEMMA CloseRemovesKeeps ==
    ASSUME RegistryInv, NEW c \in Closers, CloseRemoves(c)
    PROVE  RegistryInv'
<1>a. CloseRemovesDoes(c)
  BY InvParts, CloseRemovesEffect
<1>d. \A d \in Closers : closer'[d].id = closer[d].id
  BY <1>a DEF CloseRemovesDoes, CloserSet
<1>1. TableNamesItsObjects' /\ UnstartedIsUnknown' /\ OpensHaveTheirShell' /\ ReapedIsGone'
  BY <1>a, Untouched DEF CloseRemovesDoes
<1>2. TypeOK'
  BY InvParts, <1>a DEF CloseRemovesDoes, CloserSet, TypeOK, LifeBounds, Closes
<1>3. TakenIsASession'
  BY InvParts, <1>a DEF CloseRemovesDoes, CloserSet, TakenIsASession
<1>4. LifeBounds'
  BY InvParts, <1>a DEF CloseRemovesDoes, CloserSet, LifeBounds
<1>5. NoOrphanShell'
  BY InvParts, <1>a DEF CloseRemovesDoes, CloserSet, NoOrphanShell, Registered, OnItsWayOut
<1>6. IdsAreRemembered'
  BY InvParts, <1>a DEF CloseRemovesDoes, CloserSet, IdsAreRemembered
<1>7. OneObjectPerId'
  BY InvParts, <1>a DEF CloseRemovesDoes, OneObjectPerId, LifeBounds
<1>8. UnrecordedIsUntouched'
  BY InvParts, <1>a DEF CloseRemovesDoes, CloserSet, UnrecordedIsUntouched
<1>9. UnstoredHasNoRecord'
  BY InvParts, <1>a DEF CloseRemovesDoes, UnstoredHasNoRecord, Excepted
<1>10. ForgetFollowsRemove'
  BY InvParts, <1>a DEF CloseRemovesDoes, CloserSet, ForgetFollowsRemove, Excepted
<1>11. EndedStaysEnded'
  BY InvParts, <1>a DEF CloseRemovesDoes, EndedStaysEnded
<1>12. TakenOnce'
  BY InvParts, <1>a DEF CloseRemovesDoes, CloserSet, TakenOnce, Holds, Registered
<1>13. ClosedIsEnded'
  BY InvParts, <1>a DEF CloseRemovesDoes, CloserSet, ClosedIsEnded, Excepted
<1>14. RecordStands'
  BY InvParts, <1>a DEF CloseRemovesDoes, CloserSet, RecordStands, Excepted, Unrecorded
<1>15. MarkedBeforeReaped'
  BY InvParts, <1>a DEF CloseRemovesDoes, CloserSet, MarkedBeforeReaped, Excepted
<1>16. StopIsNotAClose'
  BY InvParts, <1>a DEF CloseRemovesDoes, CloserSet, StopIsNotAClose
<1>17. Accounted'
  <2> SUFFICES ASSUME NEW i \in DOMAIN records', i \notin early' \cup kept'
               PROVE  AccountedFor(i)'
    BY DEF Accounted
  <2>i. i # None
    BY InvParts, <1>a, NoneIsNoName DEF CloseRemovesDoes, TypeOK
  <2>1. ASSUME NEW d \in Closers, closer[d].id = i, closer[d].at = "remove" PROVE InHand(i)'
    BY <1>a, <2>1 DEF CloseRemovesDoes, CloserSet, InHand, CloserSet
  <2>2. ASSUME NEW s \in Shells, Carries(s, i) PROVE InHand(i)'
    BY <1>a, <2>2 DEF CloseRemovesDoes, InHand, Carries, Registered, Unrecorded
  <2>3. InHand(i) => InHand(i)'
    BY <2>1, <2>2 DEF InHand
  <2>4. AccountedFor(i)
    BY InvParts, <1>a DEF CloseRemovesDoes, Accounted
  <2> QED BY <1>a, <2>3, <2>4 DEF CloseRemovesDoes, CloserSet, AccountedFor
<1>18. PaneIsOnes'
  BY InvParts, <1>a DEF CloseRemovesDoes, PaneIsOnes, PaneIsOne, Crowded, Opening
<1> QED BY <1>1, <1>2, <1>3, <1>4, <1>5, <1>6, <1>7, <1>8, <1>9, <1>10, <1>11, <1>12, <1>13,
     <1>14, <1>15, <1>16, <1>17, <1>18 DEF RegistryInv, Shape, Ended, Stopped

\* The close reaps the session it took, and no record of it is left by then.
LEMMA CloseReapsKeeps ==
    ASSUME RegistryInv, NEW c \in Closers, CloseReaps(c)
    PROVE  RegistryInv'
<1>a. PICK m \in Shells \cup {None} : CloseReapsDoes(c, m)
  BY InvParts, CloseReapsEffect
<1>d. \A d \in Closers : closer'[d].id = closer[d].id
  BY <1>a DEF CloseReapsDoes, CloserSet
<1>k. closer[c].k \in Shells \cup {None} /\ closer[c].id \in Ids
  BY InvParts, <1>a DEF CloseReapsDoes, LifeBounds, TypeOK, Closes
<1>h. closer[c].k # None =>
        LET k == closer[c].k IN
        /\ ~Registered(k) /\ k \notin sweep.ks \cup stop.ks /\ (stop.at = "reap" => stop.k # k)
        /\ (reap[k] # "none" => over[k]) /\ object[k].id = closer[c].id
  BY InvParts, <1>a, <1>k DEF CloseReapsDoes, TakenOnce, Holds
<1>1. /\ TableNamesItsObjects' /\ UnstartedIsUnknown' /\ OpensHaveTheirShell'
      /\ OneObjectPerId' /\ UnstoredHasNoRecord' /\ PaneIsOnes'
  BY <1>a, Untouched DEF CloseReapsDoes
<1>2. TypeOK'
  BY InvParts, <1>a DEF CloseReapsDoes, CloserSet, Reaped, TypeOK, LifeBounds, Closes
<1>3. TakenIsASession'
  BY InvParts, <1>a, NoneIsNoName DEF CloseReapsDoes, CloserSet, Reaped, TakenIsASession
<1>4. LifeBounds'
  BY InvParts, <1>a DEF CloseReapsDoes, CloserSet, Reaped, LifeBounds
<1>5. ReapedIsGone'
  BY InvParts, <1>a DEF CloseReapsDoes, Reaped, ReapedIsGone
<1>6. NoOrphanShell'
  BY InvParts, <1>a, NoneIsNoName DEF CloseReapsDoes, CloserSet, Reaped, NoOrphanShell,
     Registered, OnItsWayOut, ReapedIsGone
<1>7. IdsAreRemembered'
  BY InvParts, <1>a DEF CloseReapsDoes, CloserSet, IdsAreRemembered, LifeBounds
<1>8. UnrecordedIsUntouched'
  BY InvParts, <1>a, <1>h DEF CloseReapsDoes, CloserSet, Reaped, UnrecordedIsUntouched,
     Registered, OpensHaveTheirShell
<1>9. ForgetFollowsRemove'
  BY InvParts, <1>a DEF CloseReapsDoes, CloserSet, ForgetFollowsRemove, Excepted
<1>10. EndedStaysEnded'
  BY InvParts, <1>a DEF CloseReapsDoes, EndedStaysEnded, ForgetFollowsRemove, Excepted
<1>11. TakenOnce'
  BY InvParts, <1>a DEF CloseReapsDoes, CloserSet, Reaped, TakenOnce, Holds, Registered
<1>12. ClosedIsEnded'
  BY InvParts, <1>a, <1>k, <1>h DEF CloseReapsDoes, CloserSet, Reaped, ClosedIsEnded,
     Excepted, OneObjectPerId
<1>13. RecordStands'
  BY InvParts, <1>a DEF CloseReapsDoes, CloserSet, Reaped, RecordStands, Excepted, Unrecorded
<1>14. MarkedBeforeReaped'
  BY InvParts, <1>a DEF CloseReapsDoes, CloserSet, Reaped, MarkedBeforeReaped, Excepted,
     LifeBounds
<1>15. StopIsNotAClose'
  BY InvParts, <1>a DEF CloseReapsDoes, CloserSet, Reaped, StopIsNotAClose
<1>16. Accounted'
  <2> SUFFICES ASSUME NEW i \in DOMAIN records', i \notin early' \cup kept'
               PROVE  AccountedFor(i)'
    BY DEF Accounted
  <2>i. i # None
    BY InvParts, <1>a, NoneIsNoName DEF CloseReapsDoes, TypeOK
  <2>1. ASSUME NEW d \in Closers, closer[d].id = i, closer[d].at = "remove" PROVE InHand(i)'
    BY <1>a, <2>1 DEF CloseReapsDoes, CloserSet, InHand, CloserSet
  <2>2. ASSUME NEW s \in Shells, Carries(s, i) PROVE InHand(i)'
    BY <1>a, <2>2 DEF CloseReapsDoes, Reaped, InHand, Carries, Registered, Unrecorded
  <2>3. InHand(i) => InHand(i)'
    BY <2>1, <2>2 DEF InHand
  <2>4. AccountedFor(i)
    BY InvParts, <1>a DEF CloseReapsDoes, Accounted
  <2> QED BY InvParts, <1>a, <2>3, <2>4 DEF CloseReapsDoes, CloserSet, AccountedFor,
       LifeBounds, CloserSet
<1> QED BY <1>1, <1>2, <1>3, <1>4, <1>5, <1>6, <1>7, <1>8, <1>9, <1>10, <1>11, <1>12, <1>13,
     <1>14, <1>15, <1>16 DEF RegistryInv, Shape, Ended, Stopped

\* Every session the close named has ended.
LEMMA CloseReturnsKeeps ==
    ASSUME RegistryInv, NEW c \in Closers, CloseReturns(c)
    PROVE  RegistryInv'
<1>a. CloseReturnsDoes(c)
  BY InvParts, CloseReturnsEffect
<1>o. \A m \in Shells : object[m].id = closer[c].id /\ object[m].id \notin Excepted \cup dead
                        => object[m].id = None \/ (reap[m] # "none" /\ over[m])
  BY InvParts, <1>a DEF CloseReturnsDoes, ClosedIsEnded
<1>1. /\ TableNamesItsObjects' /\ UnstartedIsUnknown' /\ OpensHaveTheirShell'
      /\ ReapedIsGone' /\ OneObjectPerId' /\ UnstoredHasNoRecord' /\ EndedStaysEnded'
      /\ PaneIsOnes'
  BY <1>a, Untouched DEF CloseReturnsDoes
<1>2. TypeOK'
  BY InvParts, <1>a DEF CloseReturnsDoes, CloserSet, TypeOK
<1>3. TakenIsASession'
  BY InvParts, <1>a, NoneIsNoName DEF CloseReturnsDoes, CloserSet, TakenIsASession
<1>4. LifeBounds'
  BY InvParts, <1>a DEF CloseReturnsDoes, CloserSet, LifeBounds
<1>5. NoOrphanShell'
  BY InvParts, <1>a DEF CloseReturnsDoes, CloserSet, NoOrphanShell, Registered, OnItsWayOut
<1>6. IdsAreRemembered'
  BY InvParts, <1>a DEF CloseReturnsDoes, CloserSet, IdsAreRemembered
<1>7. UnrecordedIsUntouched'
  BY InvParts, <1>a, NoneIsNoName DEF CloseReturnsDoes, CloserSet, UnrecordedIsUntouched,
     TypeOK
<1>8. ForgetFollowsRemove'
  BY InvParts, <1>a DEF CloseReturnsDoes, CloserSet, ForgetFollowsRemove, Excepted
<1>9. TakenOnce'
  BY InvParts, <1>a DEF CloseReturnsDoes, CloserSet, TakenOnce, Holds, Registered
<1>10. ClosedIsEnded'
  BY InvParts, <1>a DEF CloseReturnsDoes, CloserSet, ClosedIsEnded, Excepted
<1>11. RecordStands'
  <2> SUFFICES ASSUME NEW m \in Shells, object[m].id # None, object[m].stored, m \notin Unrecorded,
                      object[m].id \notin Excepted \cup dead,
                      \A d \in Closers : object[m].id # closer'[d].id,
                      reap[m] # "none" => ~over[m]
               PROVE  object[m].id \in DOMAIN records
    BY <1>a DEF CloseReturnsDoes, Excepted, RecordStands, Unrecorded
  <2>1. \A d \in Closers : object[m].id # closer[d].id
    BY <1>a, <1>o DEF CloseReturnsDoes, CloserSet
  <2> QED BY InvParts, <2>1 DEF RecordStands
<1>12. MarkedBeforeReaped'
  <2> SUFFICES ASSUME stop.at = "reap", object[stop.k].stored,
                      object[stop.k].id \notin Excepted \cup dead,
                      \A d \in Closers : object[stop.k].id # closer'[d].id,
                      reap[stop.k] # "none" => ~over[stop.k]
               PROVE  object[stop.k].id \in DOMAIN records /\ records[object[stop.k].id].ended
    BY <1>a DEF CloseReturnsDoes, Excepted, MarkedBeforeReaped
  <2>1. stop.k \in Shells /\ object[stop.k].id # None
    BY InvParts DEF LifeBounds, TakenIsASession
  <2>2. \A d \in Closers : object[stop.k].id # closer[d].id
    BY <1>a, <1>o, <2>1 DEF CloseReturnsDoes, CloserSet
  <2> QED BY InvParts, <2>2 DEF MarkedBeforeReaped
<1>13. StopIsNotAClose'
  <2> SUFFICES ASSUME NEW m \in Shells, reap[m] # "none", ~over[m], object[m].stored,
                      object[m].id \notin Excepted \cup dead,
                      \A d \in Closers : object[m].id # closer'[d].id
               PROVE  object[m].id \in DOMAIN records /\ records[object[m].id].ended
    BY <1>a DEF CloseReturnsDoes, StopIsNotAClose, Excepted
  <2>1. object[m].id # None
    BY InvParts DEF TakenIsASession
  <2>2. \A d \in Closers : object[m].id # closer[d].id
    BY <1>a, <1>o, <2>1 DEF CloseReturnsDoes, CloserSet
  <2> QED BY InvParts, <2>2 DEF StopIsNotAClose, Excepted
<1>14. Accounted'
  <2> SUFFICES ASSUME NEW i \in DOMAIN records', i \notin early' \cup kept'
               PROVE  AccountedFor(i)'
    BY DEF Accounted
  <2>i. i # None
    BY InvParts, <1>a, NoneIsNoName DEF CloseReturnsDoes, TypeOK
  <2>1. ASSUME NEW d \in Closers, closer[d].id = i, closer[d].at = "remove" PROVE InHand(i)'
    BY <1>a, <2>1 DEF CloseReturnsDoes, CloserSet, InHand
  <2>2. ASSUME NEW s \in Shells, Carries(s, i) PROVE InHand(i)'
    BY <1>a, <2>2 DEF CloseReturnsDoes, InHand, Carries, Registered, Unrecorded
  <2>3. InHand(i) => InHand(i)'
    BY <2>1, <2>2 DEF InHand
  <2>4. AccountedFor(i)
    BY InvParts, <1>a DEF CloseReturnsDoes, Accounted
  <2> QED BY <1>a, <2>3, <2>4 DEF CloseReturnsDoes, CloserSet, AccountedFor
<1> QED BY <1>1, <1>2, <1>3, <1>4, <1>5, <1>6, <1>7, <1>8, <1>9, <1>10, <1>11, <1>12, <1>13,
     <1>14 DEF RegistryInv, Shape, Ended, Stopped

\* The sweep takes sessions whose record is written.
LEMMA SweepTakesKeeps ==
    ASSUME RegistryInv, NEW ks \in SUBSET Shells, SweepTakes(ks)
    PROVE  RegistryInv'
<1>a. SweepTakesDoes(ks)
  BY InvParts, SweepTakesEffect
<1>s. \A j \in DOMAIN sessions : sessions[j] \in ks \/ (j \in DOMAIN sessions' /\ sessions'[j] = sessions[j])
  BY InvParts, <1>a DEF SweepTakesDoes, TableNamesItsObjects, Registered
<1>1. /\ UnstartedIsUnknown' /\ OpensHaveTheirShell' /\ ReapedIsGone' /\ IdsAreRemembered'
      /\ OneObjectPerId' /\ UnstoredHasNoRecord' /\ ForgetFollowsRemove' /\ EndedStaysEnded'
      /\ ClosedIsEnded' /\ RecordStands' /\ MarkedBeforeReaped' /\ StopIsNotAClose'
  BY <1>a, Untouched DEF SweepTakesDoes
<1>2. TypeOK'
  BY InvParts, <1>a DEF SweepTakesDoes, TypeOK
<1>3. TableNamesItsObjects'
  BY InvParts, <1>a DEF SweepTakesDoes, TableNamesItsObjects
<1>4. TakenIsASession'
  BY InvParts, <1>a, NoneIsNoName DEF SweepTakesDoes, TakenIsASession, TypeOK,
     TableNamesItsObjects, Registered
<1>5. LifeBounds'
  BY InvParts, <1>a DEF SweepTakesDoes, LifeBounds
<1>6. NoOrphanShell'
  BY InvParts, <1>a, <1>s DEF SweepTakesDoes, NoOrphanShell, Registered, OnItsWayOut,
     LifeBounds
<1>7. UnrecordedIsUntouched'
  BY InvParts, <1>a DEF SweepTakesDoes, UnrecordedIsUntouched, Pumped, Registered, Unrecorded,
     TableNamesItsObjects
<1>8. TakenOnce'
  BY InvParts, <1>a DEF SweepTakesDoes, TakenOnce, Holds, Registered, TableNamesItsObjects
<1>9. Accounted'
  <2> SUFFICES ASSUME NEW i \in DOMAIN records', i \notin early' \cup kept'
               PROVE  AccountedFor(i)'
    BY DEF Accounted
  <2>i. i # None
    BY InvParts, <1>a, NoneIsNoName DEF SweepTakesDoes, TypeOK
  <2>1. ASSUME NEW d \in Closers, closer[d].id = i, closer[d].at = "remove" PROVE InHand(i)'
    BY <1>a, <2>1 DEF SweepTakesDoes, InHand
  <2>2. ASSUME NEW s \in Shells, Carries(s, i) PROVE InHand(i)'
    BY InvParts, <1>a, <1>s, <2>2 DEF SweepTakesDoes, InHand, Carries, Registered, Unrecorded,
       LifeBounds
  <2>3. InHand(i) => InHand(i)'
    BY <2>1, <2>2 DEF InHand
  <2>4. AccountedFor(i)
    BY InvParts, <1>a DEF SweepTakesDoes, Accounted
  <2> QED BY <1>a, <2>3, <2>4 DEF SweepTakesDoes, AccountedFor
<1>10. PaneIsOnes'
  <2> SUFFICES ASSUME NEW p \in Panes, ~Crowded(p)' PROVE PaneIsOne(p)'
    BY DEF PaneIsOnes
  <2>t. sessions \in [DOMAIN sessions -> Shells] /\ DOMAIN sessions \subseteq Ids
    BY InvParts DEF TypeOK
  <2>1. PaneIsOne(p)
    BY InvParts, <1>a DEF SweepTakesDoes, PaneIsOnes, Crowded
  <2> QED BY <1>a, <2>1 DEF SweepTakesDoes, PaneIsOne, Opening
<1> QED BY <1>1, <1>2, <1>3, <1>4, <1>5, <1>6, <1>7, <1>8, <1>9, <1>10 DEF RegistryInv, Shape,
     Ended, Stopped

\* The sweep ends what it took.
LEMMA SweepReapsKeeps ==
    ASSUME RegistryInv, NEW k \in Shells, SweepReaps(k)
    PROVE  RegistryInv'
<1>a. PICK m \in Shells \cup {None} : SweepReapsDoes(k, m)
  BY InvParts, SweepReapsEffect
<1>1. /\ TableNamesItsObjects' /\ UnstartedIsUnknown' /\ OpensHaveTheirShell'
      /\ IdsAreRemembered' /\ OneObjectPerId' /\ UnstoredHasNoRecord'
      /\ ForgetFollowsRemove' /\ EndedStaysEnded' /\ PaneIsOnes'
  BY <1>a, Untouched DEF SweepReapsDoes
<1>2. TypeOK'
  BY InvParts, <1>a DEF SweepReapsDoes, Reaped, TypeOK
<1>3. TakenIsASession'
  BY InvParts, <1>a DEF SweepReapsDoes, Reaped, TakenIsASession
<1>4. LifeBounds'
  BY InvParts, <1>a DEF SweepReapsDoes, Reaped, LifeBounds
<1>5. ReapedIsGone'
  BY InvParts, <1>a DEF SweepReapsDoes, Reaped, ReapedIsGone
<1>6. NoOrphanShell'
  BY InvParts, <1>a DEF SweepReapsDoes, Reaped, NoOrphanShell, Registered, OnItsWayOut,
     ReapedIsGone
<1>7. UnrecordedIsUntouched'
  BY InvParts, <1>a DEF SweepReapsDoes, Reaped, UnrecordedIsUntouched, TypeOK
<1>8. TakenOnce'
  BY InvParts, <1>a DEF SweepReapsDoes, Reaped, TakenOnce, Holds, Registered
<1>9. ClosedIsEnded'
  BY InvParts, <1>a DEF SweepReapsDoes, Reaped, ClosedIsEnded, Excepted
<1>10. RecordStands'
  BY InvParts, <1>a DEF SweepReapsDoes, Reaped, RecordStands, Excepted, Unrecorded
<1>11. MarkedBeforeReaped'
  BY InvParts, <1>a DEF SweepReapsDoes, Reaped, MarkedBeforeReaped, Excepted, LifeBounds
<1>12. StopIsNotAClose'
  BY InvParts, <1>a DEF SweepReapsDoes, Reaped, StopIsNotAClose
<1>13. Accounted'
  BY InvParts, <1>a, NoneIsNoName DEF SweepReapsDoes, Reaped, Accounted, AccountedFor, InHand,
     Carries, Unrecorded, Registered, TypeOK
<1> QED BY <1>1, <1>2, <1>3, <1>4, <1>5, <1>6, <1>7, <1>8, <1>9, <1>10, <1>11, <1>12, <1>13
    DEF RegistryInv, Shape, Ended, Stopped

\* The sweep has nothing left.
LEMMA SweepReturnsKeeps ==
    ASSUME RegistryInv, SweepReturns
    PROVE  RegistryInv'
<1>a. SweepReturns
  OBVIOUS
<1>1. /\ TableNamesItsObjects' /\ UnstartedIsUnknown' /\ OpensHaveTheirShell'
      /\ ReapedIsGone' /\ IdsAreRemembered' /\ OneObjectPerId' /\ UnstoredHasNoRecord'
      /\ ForgetFollowsRemove' /\ EndedStaysEnded' /\ ClosedIsEnded' /\ RecordStands'
      /\ MarkedBeforeReaped' /\ StopIsNotAClose' /\ PaneIsOnes'
  BY Untouched DEF SweepReturns, NoStop, diskVars, daemonVars, shellVars, histVars
<1>2. TypeOK'
  BY InvParts DEF SweepReturns, NoStop, diskVars, daemonVars, shellVars, histVars, TypeOK
<1>3. TakenIsASession'
  BY InvParts DEF SweepReturns, NoStop, diskVars, daemonVars, shellVars, histVars,
     TakenIsASession
<1>4. LifeBounds'
  BY InvParts DEF SweepReturns, NoStop, diskVars, daemonVars, shellVars, histVars, LifeBounds
<1>5. NoOrphanShell'
  BY InvParts DEF SweepReturns, NoStop, diskVars, daemonVars, shellVars, histVars,
     NoOrphanShell, Registered, OnItsWayOut
<1>6. UnrecordedIsUntouched'
  BY InvParts DEF SweepReturns, NoStop, diskVars, daemonVars, shellVars, histVars,
     UnrecordedIsUntouched
<1>7. TakenOnce'
  BY InvParts DEF SweepReturns, NoStop, diskVars, daemonVars, shellVars, histVars, TakenOnce,
     Holds, Registered
<1>8. Accounted'
  <2> SUFFICES ASSUME NEW i \in DOMAIN records', i \notin early' \cup kept'
               PROVE  AccountedFor(i)'
    BY DEF Accounted
  <2>i. i # None
    BY InvParts, NoneIsNoName DEF SweepReturns, NoStop, diskVars, daemonVars, shellVars,
       histVars, TypeOK
  <2>1. ASSUME NEW d \in Closers, closer[d].id = i, closer[d].at = "remove" PROVE InHand(i)'
    BY <2>1 DEF SweepReturns, NoStop, diskVars, daemonVars, shellVars, histVars, InHand
  <2>2. ASSUME NEW s \in Shells, Carries(s, i) PROVE InHand(i)'
    BY <2>2 DEF SweepReturns, NoStop, diskVars, daemonVars, shellVars, histVars, InHand,
       Carries, Registered, Unrecorded
  <2>3. InHand(i) => InHand(i)'
    BY <2>1, <2>2 DEF InHand
  <2>4. AccountedFor(i)
    BY InvParts DEF SweepReturns, NoStop, diskVars, daemonVars, shellVars, histVars, Accounted
  <2> QED BY <2>3, <2>4 DEF SweepReturns, NoStop, diskVars, daemonVars, shellVars, histVars,
       AccountedFor
<1> QED BY <1>1, <1>2, <1>3, <1>4, <1>5, <1>6, <1>7, <1>8 DEF RegistryInv, Shape, Ended,
     Stopped

\* The stop takes what is in the table; a session without its record yet is early.
LEMMA StopBeginsKeeps ==
    ASSUME RegistryInv, StopBegins
    PROVE  RegistryInv'
<1>a. PICK ks \in SUBSET Shells : StopBeginsDoes(ks)
  BY InvParts, StopBeginsEffect
<1>1. /\ UnstartedIsUnknown' /\ OpensHaveTheirShell' /\ ReapedIsGone' /\ IdsAreRemembered'
      /\ OneObjectPerId'
  BY <1>a, Untouched DEF StopBeginsDoes
<1>2. TypeOK'
  BY InvParts, <1>a DEF StopBeginsDoes, TypeOK
<1>3. TableNamesItsObjects'
  BY <1>a DEF StopBeginsDoes, TableNamesItsObjects
<1>4. TakenIsASession'
  BY InvParts, <1>a, NoneIsNoName DEF StopBeginsDoes, TakenIsASession, TypeOK,
     TableNamesItsObjects
<1>5. LifeBounds'
  BY InvParts, <1>a DEF StopBeginsDoes, LifeBounds
<1>6. NoOrphanShell'
  <2>t. sessions \in [DOMAIN sessions -> Shells] /\ DOMAIN sessions \subseteq Ids
    BY InvParts DEF TypeOK
  <2> QED BY InvParts, <1>a DEF StopBeginsDoes, NoOrphanShell, Registered, OnItsWayOut,
       LifeBounds, NoStop
<1>7. UnrecordedIsUntouched'
  BY InvParts, <1>a DEF StopBeginsDoes, UnrecordedIsUntouched, Unrecorded
<1>8. UnstoredHasNoRecord'
  BY InvParts, <1>a DEF StopBeginsDoes, UnstoredHasNoRecord, Excepted
<1>9. ForgetFollowsRemove'
  BY InvParts, <1>a DEF StopBeginsDoes, ForgetFollowsRemove, Excepted
<1>10. EndedStaysEnded'
  BY InvParts, <1>a DEF StopBeginsDoes, EndedStaysEnded
<1>11. TakenOnce'
  BY InvParts, <1>a DEF StopBeginsDoes, TakenOnce, Holds, Registered
<1>12. ClosedIsEnded'
  BY InvParts, <1>a DEF StopBeginsDoes, ClosedIsEnded, Excepted
<1>13. RecordStands'
  BY InvParts, <1>a DEF StopBeginsDoes, RecordStands, Excepted, Unrecorded
<1>14. MarkedBeforeReaped'
  BY <1>a DEF StopBeginsDoes, MarkedBeforeReaped
<1>15. StopIsNotAClose'
  BY InvParts, <1>a DEF StopBeginsDoes, StopIsNotAClose
<1>16. Accounted'
  BY <1>a DEF StopBeginsDoes, Accounted, AccountedFor, InHand, Carries
<1>17. PaneIsOnes'
  BY InvParts, <1>a DEF StopBeginsDoes, PaneIsOnes, PaneIsOne, Crowded, Opening
<1> QED BY <1>1, <1>2, <1>3, <1>4, <1>5, <1>6, <1>7, <1>8, <1>9, <1>10, <1>11, <1>12, <1>13,
     <1>14, <1>15, <1>16, <1>17 DEF RegistryInv, Shape, Ended, Stopped

\* The record is there to be marked, unless a close or an end of its own took it.
LEMMA StopMarksKeeps ==
    ASSUME RegistryInv, NEW k \in Shells, StopMarks(k)
    PROVE  RegistryInv'
<1>a. StopMarksDoes(k)
  BY InvParts, StopMarksEffect
<1>1. TableNamesItsObjects' /\ UnstartedIsUnknown' /\ OpensHaveTheirShell' /\ ReapedIsGone'
  BY <1>a, Untouched DEF StopMarksDoes
<1>2. TypeOK'
  BY InvParts, <1>a DEF StopMarksDoes, TypeOK, TakenIsASession, Objects
<1>3. TakenIsASession'
  BY InvParts, <1>a DEF StopMarksDoes, TakenIsASession
<1>4. LifeBounds'
  BY InvParts, <1>a DEF StopMarksDoes, LifeBounds, NoStop
<1>5. NoOrphanShell'
  BY InvParts, <1>a DEF StopMarksDoes, NoOrphanShell, Registered, OnItsWayOut
<1>6. IdsAreRemembered'
  BY InvParts, <1>a DEF StopMarksDoes, IdsAreRemembered
<1>7. OneObjectPerId'
  BY InvParts, <1>a DEF StopMarksDoes, OneObjectPerId
<1>8. UnrecordedIsUntouched'
  BY InvParts, <1>a DEF StopMarksDoes, UnrecordedIsUntouched
<1>9. UnstoredHasNoRecord'
  BY InvParts, <1>a DEF StopMarksDoes, UnstoredHasNoRecord, Excepted
<1>10. ForgetFollowsRemove'
  BY InvParts, <1>a DEF StopMarksDoes, ForgetFollowsRemove, Excepted
<1>11. EndedStaysEnded'
  BY InvParts, <1>a DEF StopMarksDoes, EndedStaysEnded
<1>12. TakenOnce'
  BY InvParts, <1>a DEF StopMarksDoes, TakenOnce, Holds, Registered
<1>13. ClosedIsEnded'
  BY InvParts, <1>a DEF StopMarksDoes, ClosedIsEnded, Excepted
<1>14. RecordStands'
  BY InvParts, <1>a DEF StopMarksDoes, RecordStands, Excepted, Unrecorded
<1>15. MarkedBeforeReaped'
  BY InvParts, <1>a DEF StopMarksDoes, MarkedBeforeReaped, Excepted, RecordStands, Unrecorded,
     UnrecordedIsUntouched, TakenOnce, Registered, TakenIsASession
<1>16. StopIsNotAClose'
  BY InvParts, <1>a DEF StopMarksDoes, StopIsNotAClose
<1>17. Accounted'
  <2> SUFFICES ASSUME NEW i \in DOMAIN records', i \notin early' \cup kept'
               PROVE  AccountedFor(i)'
    BY DEF Accounted
  <2>i. i # None
    BY InvParts, <1>a, NoneIsNoName DEF StopMarksDoes, TypeOK
  <2>1. ASSUME NEW d \in Closers, closer[d].id = i, closer[d].at = "remove" PROVE InHand(i)'
    BY <1>a, <2>1 DEF StopMarksDoes, InHand
  <2>2. ASSUME NEW s \in Shells, Carries(s, i) PROVE InHand(i)'
    BY <1>a, <2>2 DEF StopMarksDoes, InHand, Carries, Registered, Unrecorded
  <2>3. InHand(i) => InHand(i)'
    BY <2>1, <2>2 DEF InHand
  <2>4. AccountedFor(i)
    BY InvParts, <1>a DEF StopMarksDoes, Accounted
  <2> QED BY <1>a, <2>3, <2>4 DEF StopMarksDoes, AccountedFor
<1>18. PaneIsOnes'
  BY InvParts, <1>a DEF StopMarksDoes, PaneIsOnes, PaneIsOne, Crowded, Opening
<1> QED BY <1>1, <1>2, <1>3, <1>4, <1>5, <1>6, <1>7, <1>8, <1>9, <1>10, <1>11, <1>12, <1>13,
     <1>14, <1>15, <1>16, <1>17, <1>18 DEF RegistryInv, Shape, Ended, Stopped

\* The session the stop reaps has its mark, or ends for another reason.
LEMMA StopReapsKeeps ==
    ASSUME RegistryInv, StopReaps
    PROVE  RegistryInv'
<1>p. stop.k \in Shells
  BY InvParts DEF LifeBounds, StopReaps
<1>a. PICK m \in Shells \cup {None} : StopReapsDoes(m)
  BY InvParts, <1>p, StopReapsEffect
<1>1. /\ TableNamesItsObjects' /\ UnstartedIsUnknown' /\ OpensHaveTheirShell'
      /\ IdsAreRemembered' /\ OneObjectPerId' /\ UnstoredHasNoRecord'
      /\ ForgetFollowsRemove' /\ EndedStaysEnded' /\ PaneIsOnes'
  BY <1>a, Untouched DEF StopReapsDoes
<1>2. TypeOK'
  BY InvParts, <1>a DEF StopReapsDoes, Reaped, TypeOK
<1>3. TakenIsASession'
  BY InvParts, <1>a, NoneIsNoName DEF StopReapsDoes, Reaped, TakenIsASession
<1>4. LifeBounds'
  BY InvParts, <1>a DEF StopReapsDoes, LifeBounds, NoStop
<1>5. ReapedIsGone'
  BY InvParts, <1>a DEF StopReapsDoes, Reaped, ReapedIsGone
<1>6. NoOrphanShell'
  BY InvParts, <1>a DEF StopReapsDoes, Reaped, NoOrphanShell, Registered, OnItsWayOut,
     ReapedIsGone
<1>7. UnrecordedIsUntouched'
  BY InvParts, <1>a DEF StopReapsDoes, Reaped, UnrecordedIsUntouched, TypeOK, TakenOnce,
     Registered
<1>8. TakenOnce'
  BY InvParts, <1>a DEF StopReapsDoes, Reaped, TakenOnce, Holds, Registered
<1>9. ClosedIsEnded'
  BY InvParts, <1>a DEF StopReapsDoes, Reaped, ClosedIsEnded, Excepted
<1>10. RecordStands'
  BY InvParts, <1>a DEF StopReapsDoes, Reaped, RecordStands, Excepted, Unrecorded
<1>11. MarkedBeforeReaped'
  BY <1>a DEF StopReapsDoes, MarkedBeforeReaped
<1>12. StopIsNotAClose'
  BY InvParts, <1>a DEF StopReapsDoes, Reaped, StopIsNotAClose, MarkedBeforeReaped, Excepted
<1>13. Accounted'
  BY InvParts, <1>a DEF StopReapsDoes, Reaped, Accounted, AccountedFor, InHand, Carries,
     Unrecorded, Registered
<1> QED BY <1>1, <1>2, <1>3, <1>4, <1>5, <1>6, <1>7, <1>8, <1>9, <1>10, <1>11, <1>12, <1>13
    DEF RegistryInv, Shape, Ended, Stopped

\* What is in memory goes; the records stay as they are.
LEMMA ProcessGoesKeeps ==
    ASSUME RegistryInv, ProcessGoes, events' \in 0..MaxEvents
    PROVE  RegistryInv'
<1>p. events' \in 0..MaxEvents
  OBVIOUS
<1>a. ProcessGoesDoes
  BY InvParts, ProcessGoesEffect
<1>1. EndedStaysEnded'
  BY <1>a, Untouched DEF ProcessGoesDoes
<1>2. TypeOK'
  BY InvParts, <1>a DEF ProcessGoesDoes, TypeOK, NoObject, NoStop, Objects
<1>3. TableNamesItsObjects'
  BY <1>a DEF ProcessGoesDoes, TableNamesItsObjects, NoObject, NoStop
<1>4. UnstartedIsUnknown'
  BY <1>a, NoneIsNoName DEF ProcessGoesDoes, UnstartedIsUnknown, NoObject, NoStop
<1>5. TakenIsASession'
  BY <1>a, NoneIsNoName DEF ProcessGoesDoes, TakenIsASession, NoObject, NoStop
<1>6. OpensHaveTheirShell'
  BY <1>a DEF ProcessGoesDoes, OpensHaveTheirShell, NoObject, NoStop
<1>7. LifeBounds'
  BY <1>a DEF ProcessGoesDoes, LifeBounds, NoObject, NoStop
<1>8. ReapedIsGone'
  BY <1>a DEF ProcessGoesDoes, ReapedIsGone, NoObject, NoStop
<1>9. NoOrphanShell'
  BY <1>a DEF ProcessGoesDoes, NoOrphanShell, OnItsWayOut, NoObject, NoStop
<1>10. IdsAreRemembered'
  BY InvParts, <1>a DEF ProcessGoesDoes, IdsAreRemembered, NoObject, NoStop
<1>11. OneObjectPerId'
  BY <1>a DEF ProcessGoesDoes, OneObjectPerId, NoObject, NoStop
<1>12. UnrecordedIsUntouched'
  BY <1>a DEF ProcessGoesDoes, UnrecordedIsUntouched, NoObject, NoStop
<1>13. UnstoredHasNoRecord'
  BY InvParts, <1>a, NoneIsNoName DEF ProcessGoesDoes, UnstoredHasNoRecord, TypeOK, NoObject,
     NoStop
<1>14. ForgetFollowsRemove'
  BY <1>a DEF ProcessGoesDoes, ForgetFollowsRemove, NoObject, NoStop
<1>15. TakenOnce'
  BY <1>a DEF ProcessGoesDoes, TakenOnce, Holds, NoObject, NoStop
<1>16. ClosedIsEnded'
  BY <1>a DEF ProcessGoesDoes, ClosedIsEnded, NoObject, NoStop
<1>17. RecordStands'
  BY <1>a DEF ProcessGoesDoes, RecordStands, NoObject, NoStop
<1>18. MarkedBeforeReaped'
  BY <1>a DEF ProcessGoesDoes, MarkedBeforeReaped, NoObject, NoStop
<1>19. StopIsNotAClose'
  BY <1>a DEF ProcessGoesDoes, StopIsNotAClose, NoObject, NoStop
<1>20. Accounted'
  BY <1>a DEF ProcessGoesDoes, Accounted, AccountedFor, InHand, Carries, NoObject, NoStop
<1>21. PaneIsOnes'
  <2> SUFFICES ASSUME NEW p \in Panes, ~Crowded(p)' PROVE PaneIsOne(p)'
    BY DEF PaneIsOnes
  <2>1. PaneIsOne(p)
    BY InvParts, <1>a DEF ProcessGoesDoes, PaneIsOnes, Crowded
  <2> QED BY <1>a, <2>1 DEF ProcessGoesDoes, PaneIsOne, Opening
<1> QED BY <1>1, <1>2, <1>3, <1>4, <1>5, <1>6, <1>7, <1>8, <1>9, <1>10, <1>11, <1>12, <1>13,
     <1>14, <1>15, <1>16, <1>17, <1>18, <1>19, <1>20, <1>21 DEF RegistryInv, Shape, Ended,
     Stopped

\* The end of a stop and a crash keep the invariant.
LEMMA StopExitsKeeps ==
    ASSUME RegistryInv, StopExits \/ Crash
    PROVE  RegistryInv'
<1>1. events' \in 0..MaxEvents
  BY RegistryConstants DEF RegistryInv, Shape, TypeOK, StopExits, Crash, Happens
<1> QED BY <1>1, ProcessGoesKeeps DEF StopExits, Crash

\* Every record is listed for restore.
LEMMA StartKeeps ==
    ASSUME RegistryInv, Start
    PROVE  RegistryInv'
<1>a. Start
  OBVIOUS
<1>1. /\ TableNamesItsObjects' /\ UnstartedIsUnknown' /\ TakenIsASession'
      /\ OpensHaveTheirShell' /\ ReapedIsGone' /\ UnrecordedIsUntouched'
      /\ UnstoredHasNoRecord' /\ ForgetFollowsRemove' /\ EndedStaysEnded' /\ TakenOnce'
      /\ ClosedIsEnded' /\ RecordStands' /\ MarkedBeforeReaped' /\ StopIsNotAClose'
      /\ PaneIsOnes'
  BY Untouched DEF Start, diskVars, shellVars, actorVars, histVars
<1>2. TypeOK'
  BY InvParts, RegistryConstants DEF Start, diskVars, shellVars, actorVars, histVars, TypeOK
<1>3. LifeBounds'
  BY InvParts DEF Start, diskVars, shellVars, actorVars, histVars, LifeBounds
<1>4. NoOrphanShell'
  BY InvParts DEF Start, diskVars, shellVars, actorVars, histVars, NoOrphanShell, Registered,
     OnItsWayOut
<1>5. IdsAreRemembered'
  BY InvParts DEF Start, diskVars, shellVars, actorVars, histVars, IdsAreRemembered
<1>6. OneObjectPerId'
  BY InvParts, NoneIsNoName DEF Start, diskVars, shellVars, actorVars, histVars,
     OneObjectPerId, TypeOK, LifeBounds, UnstartedIsUnknown
<1>7. Accounted'
  BY InvParts DEF Start, diskVars, shellVars, actorVars, histVars, Accounted, AccountedFor,
     InHand, Carries
<1> QED BY <1>1, <1>2, <1>3, <1>4, <1>5, <1>6, <1>7 DEF RegistryInv, Shape, Ended, Stopped

\* The restored session carries the record that was listed.
LEMMA RestoreStartsKeeps ==
    ASSUME RegistryInv, NEW id \in Ids, RestoreStarts(id)
    PROVE  RegistryInv'
<1>p. id \in DOMAIN records
  BY InvParts DEF OneObjectPerId, RestoreStarts
<1>a. PICK k \in Shells : RestoreStartsDoes(id, k)
  BY InvParts, <1>p, RestoreStartsEffect
<1>n. object[k].id = None /\ reap[k] = "none" /\ id \notin DOMAIN sessions
  BY InvParts, <1>a DEF RestoreStartsDoes, UnstartedIsUnknown, TakenIsASession, LifeBounds
<1>s. \A j \in DOMAIN sessions : sessions[j] \in Shells /\ sessions[j] # k
  BY InvParts, <1>n, NoneIsNoName DEF TableNamesItsObjects, TypeOK
<1>o. \A o \in Openers : opener[o].at \in {"idle", "done"}
  BY InvParts, <1>a DEF RestoreStartsDoes, LifeBounds
<1>1. ForgetFollowsRemove' /\ EndedStaysEnded'
  BY <1>a, Untouched DEF RestoreStartsDoes
<1>2. TypeOK'
  BY InvParts, <1>a DEF RestoreStartsDoes, ObjectSet, TypeOK
<1>3. TableNamesItsObjects'
  BY InvParts, <1>p, <1>a, <1>s DEF RestoreStartsDoes, ObjectSet, TableNamesItsObjects,
     TypeOK, UnstartedIsUnknown
<1>4. UnstartedIsUnknown'
  BY InvParts, <1>a DEF RestoreStartsDoes, ObjectSet, UnstartedIsUnknown, TypeOK
<1>5. TakenIsASession'
  BY InvParts, <1>a, NoneIsNoName DEF RestoreStartsDoes, ObjectSet, TakenIsASession
<1>6. OpensHaveTheirShell'
  BY InvParts, <1>a DEF RestoreStartsDoes, ObjectSet, OpensHaveTheirShell, UnstartedIsUnknown
<1>7. LifeBounds'
  BY InvParts, <1>a DEF RestoreStartsDoes, ObjectSet, LifeBounds, UnstartedIsUnknown,
     TakenIsASession
<1>8. ReapedIsGone'
  BY InvParts, <1>a DEF RestoreStartsDoes, ReapedIsGone
<1>9. NoOrphanShell'
  BY InvParts, <1>a DEF RestoreStartsDoes, NoOrphanShell, Registered, OnItsWayOut, LifeBounds
<1>10. IdsAreRemembered'
  BY InvParts, <1>a DEF RestoreStartsDoes, ObjectSet, IdsAreRemembered
<1>11. OneObjectPerId'
  BY InvParts, <1>a DEF RestoreStartsDoes, ObjectSet, OneObjectPerId
<1>12. UnrecordedIsUntouched'
  BY InvParts, <1>a DEF RestoreStartsDoes, UnrecordedIsUntouched, LifeBounds, NoStop
<1>13. UnstoredHasNoRecord'
  BY InvParts, <1>a DEF RestoreStartsDoes, ObjectSet, UnstoredHasNoRecord, Excepted
<1>14. TakenOnce'
  BY InvParts, <1>a DEF RestoreStartsDoes, TakenOnce, Holds, LifeBounds, NoStop
<1>15. ClosedIsEnded'
  BY InvParts, <1>a DEF RestoreStartsDoes, ClosedIsEnded, LifeBounds, NoStop
<1>16. RecordStands'
  BY InvParts, <1>p, <1>a DEF RestoreStartsDoes, ObjectSet, RecordStands, Excepted, Unrecorded
<1>17. MarkedBeforeReaped'
  BY InvParts, <1>a DEF RestoreStartsDoes, MarkedBeforeReaped, LifeBounds, NoStop
<1>18. StopIsNotAClose'
  BY InvParts, <1>a DEF RestoreStartsDoes, ObjectSet, StopIsNotAClose, UnstartedIsUnknown,
     TakenIsASession
<1>19. Accounted'
  <2> SUFFICES ASSUME NEW i \in DOMAIN records', i \notin early' \cup kept'
               PROVE  AccountedFor(i)'
    BY DEF Accounted
  <2>i. i # None
    BY InvParts, <1>a, NoneIsNoName DEF RestoreStartsDoes, TypeOK
  <2>1. ASSUME NEW d \in Closers, closer[d].id = i, closer[d].at = "remove" PROVE InHand(i)'
    BY <1>a, <2>1 DEF RestoreStartsDoes, InHand
  <2>2. ASSUME NEW s \in Shells, Carries(s, i) PROVE InHand(i)'
    BY <1>a, <1>n, <2>i, <2>2 DEF RestoreStartsDoes, ObjectSet, InHand, Carries, Registered,
       Unrecorded
  <2>3. InHand(i) => InHand(i)'
    BY <2>1, <2>2 DEF InHand
  <2>4. AccountedFor(i)
    BY InvParts, <1>a DEF RestoreStartsDoes, Accounted
  <2>5. i = id => Carries(k, id)'
    BY InvParts, <1>a, <1>n DEF RestoreStartsDoes, ObjectSet, Carries, Registered, Unrecorded,
       LifeBounds
  <2>6. i = id => InHand(i)'
    BY <2>5 DEF InHand
  <2> QED BY <1>a, <2>3, <2>4, <2>6 DEF RestoreStartsDoes, AccountedFor
<1>20. PaneIsOnes'
  <2> SUFFICES ASSUME NEW p \in Panes, ~Crowded(p)' PROVE PaneIsOne(p)'
    BY DEF PaneIsOnes
  <2>1. PaneIsOne(p)
    BY InvParts, <1>a DEF RestoreStartsDoes, PaneIsOnes, Crowded
  <2> QED BY <1>p, <1>a, <1>s, <2>1 DEF RestoreStartsDoes, ObjectSet, PaneIsOne, Opening
<1> QED BY <1>1, <1>2, <1>3, <1>4, <1>5, <1>6, <1>7, <1>8, <1>9, <1>10, <1>11, <1>12, <1>13,
     <1>14, <1>15, <1>16, <1>17, <1>18, <1>19, <1>20 DEF RegistryInv, Shape, Ended, Stopped

\* Only the mark of a record in the table changes.
LEMMA RestoreClearsKeeps ==
    ASSUME RegistryInv, RestoreClears
    PROVE  RegistryInv'
<1>a. PICK a \in {"full", "degraded"} : RestoreClearsDoes(a)
  BY InvParts, RestoreClearsEffect
<1>1. /\ TableNamesItsObjects' /\ UnstartedIsUnknown' /\ TakenIsASession'
      /\ OpensHaveTheirShell' /\ ReapedIsGone' /\ NoOrphanShell' /\ TakenOnce'
      /\ ClosedIsEnded'
  BY <1>a, Untouched DEF RestoreClearsDoes
<1>2. TypeOK'
  BY InvParts, <1>a DEF RestoreClearsDoes, TypeOK
<1>3. LifeBounds'
  BY InvParts, <1>a DEF RestoreClearsDoes, LifeBounds
<1>4. IdsAreRemembered'
  BY InvParts, <1>a DEF RestoreClearsDoes, IdsAreRemembered
<1>5. OneObjectPerId'
  BY InvParts, <1>a DEF RestoreClearsDoes, OneObjectPerId
<1>6. UnrecordedIsUntouched'
  BY InvParts, <1>a DEF RestoreClearsDoes, UnrecordedIsUntouched
<1>7. UnstoredHasNoRecord'
  BY InvParts, <1>a DEF RestoreClearsDoes, UnstoredHasNoRecord, Excepted
<1>8. ForgetFollowsRemove'
  BY InvParts, <1>a DEF RestoreClearsDoes, ForgetFollowsRemove, Excepted
<1>9. EndedStaysEnded'
  BY InvParts, <1>a DEF RestoreClearsDoes, EndedStaysEnded
<1>10. RecordStands'
  BY InvParts, <1>a DEF RestoreClearsDoes, RecordStands, Excepted, Unrecorded
<1>11. MarkedBeforeReaped'
  BY InvParts, <1>a DEF RestoreClearsDoes, MarkedBeforeReaped, LifeBounds, NoStop
<1>12. StopIsNotAClose'
  BY InvParts, <1>a DEF RestoreClearsDoes, StopIsNotAClose, LifeBounds
<1>13. Accounted'
  <2> SUFFICES ASSUME NEW i \in DOMAIN records', i \notin early' \cup kept'
               PROVE  AccountedFor(i)'
    BY DEF Accounted
  <2>i. i # None
    BY InvParts, <1>a, NoneIsNoName DEF RestoreClearsDoes, TypeOK
  <2>1. ASSUME NEW d \in Closers, closer[d].id = i, closer[d].at = "remove" PROVE InHand(i)'
    BY <1>a, <2>1 DEF RestoreClearsDoes, InHand
  <2>2. ASSUME NEW s \in Shells, Carries(s, i) PROVE InHand(i)'
    BY <1>a, <2>2 DEF RestoreClearsDoes, InHand, Carries, Registered, Unrecorded
  <2>3. InHand(i) => InHand(i)'
    BY <2>1, <2>2 DEF InHand
  <2>4. AccountedFor(i)
    BY InvParts, <1>a DEF RestoreClearsDoes, Accounted
  <2> QED BY <1>a, <2>3, <2>4 DEF RestoreClearsDoes, AccountedFor
<1>14. PaneIsOnes'
  BY InvParts, <1>a DEF RestoreClearsDoes, PaneIsOnes, PaneIsOne, Crowded, Opening
<1> QED BY <1>1, <1>2, <1>3, <1>4, <1>5, <1>6, <1>7, <1>8, <1>9, <1>10, <1>11, <1>12, <1>13,
     <1>14 DEF RegistryInv, Shape, Ended, Stopped

\* A record that is not restored is reported.
LEMMA RestoreFailsKeeps ==
    ASSUME RegistryInv, NEW id \in Ids, RestoreFails(id)
    PROVE  RegistryInv'
<1>a. RestoreFailsDoes(id)
  BY InvParts, RestoreFailsEffect
<1>1. /\ TableNamesItsObjects' /\ UnstartedIsUnknown' /\ TakenIsASession'
      /\ OpensHaveTheirShell' /\ ReapedIsGone' /\ NoOrphanShell' /\ UnrecordedIsUntouched'
      /\ UnstoredHasNoRecord' /\ ForgetFollowsRemove' /\ EndedStaysEnded' /\ TakenOnce'
      /\ ClosedIsEnded' /\ RecordStands' /\ MarkedBeforeReaped' /\ StopIsNotAClose'
      /\ PaneIsOnes'
  BY <1>a, Untouched DEF RestoreFailsDoes
<1>2. TypeOK'
  BY InvParts, <1>a DEF RestoreFailsDoes, TypeOK
<1>3. LifeBounds'
  BY InvParts, <1>a DEF RestoreFailsDoes, LifeBounds
<1>4. IdsAreRemembered'
  BY InvParts, <1>a DEF RestoreFailsDoes, IdsAreRemembered
<1>5. OneObjectPerId'
  BY InvParts, <1>a DEF RestoreFailsDoes, OneObjectPerId
<1>6. Accounted'
  BY InvParts, <1>a DEF RestoreFailsDoes, Accounted, AccountedFor, InHand, Carries,
     Unrecorded, Registered
<1> QED BY <1>1, <1>2, <1>3, <1>4, <1>5, <1>6 DEF RegistryInv, Shape, Ended, Stopped

\* A record that is restored is reported.
LEMMA RestoreReportsKeeps ==
    ASSUME RegistryInv, RestoreReports
    PROVE  RegistryInv'
<1>p. restorer.id \in Ids
  BY InvParts DEF LifeBounds, RestoreReports
<1>a. RestoreReportsDoes
  BY InvParts, <1>p, RestoreReportsEffect
<1>1. /\ TableNamesItsObjects' /\ UnstartedIsUnknown' /\ TakenIsASession'
      /\ OpensHaveTheirShell' /\ ReapedIsGone' /\ NoOrphanShell' /\ OneObjectPerId'
      /\ UnrecordedIsUntouched' /\ UnstoredHasNoRecord' /\ ForgetFollowsRemove'
      /\ EndedStaysEnded' /\ TakenOnce' /\ ClosedIsEnded' /\ RecordStands'
      /\ MarkedBeforeReaped' /\ StopIsNotAClose' /\ PaneIsOnes'
  BY <1>a, Untouched DEF RestoreReportsDoes
<1>2. TypeOK'
  BY InvParts, <1>p, <1>a DEF RestoreReportsDoes, TypeOK
<1>3. LifeBounds'
  BY InvParts, <1>a DEF RestoreReportsDoes, LifeBounds
<1>4. IdsAreRemembered'
  BY InvParts, <1>a, NoneIsNoName DEF RestoreReportsDoes, IdsAreRemembered, LifeBounds
<1>5. Accounted'
  <2> SUFFICES ASSUME NEW i \in DOMAIN records', i \notin early' \cup kept'
               PROVE  AccountedFor(i)'
    BY DEF Accounted
  <2>i. i # None
    BY InvParts, <1>a, NoneIsNoName DEF RestoreReportsDoes, TypeOK
  <2>1. ASSUME NEW d \in Closers, closer[d].id = i, closer[d].at = "remove" PROVE InHand(i)'
    BY <1>a, <2>1 DEF RestoreReportsDoes, InHand
  <2>2. ASSUME NEW s \in Shells, Carries(s, i) PROVE InHand(i)'
    BY <1>a, <2>2 DEF RestoreReportsDoes, InHand, Carries, Registered, Unrecorded
  <2>3. InHand(i) => InHand(i)'
    BY <2>1, <2>2 DEF InHand
  <2>4. AccountedFor(i)
    BY InvParts, <1>a DEF RestoreReportsDoes, Accounted
  <2> QED BY <1>a, <2>3, <2>4 DEF RestoreReportsDoes, AccountedFor
<1> QED BY <1>1, <1>2, <1>3, <1>4, <1>5 DEF RegistryInv, Shape, Ended, Stopped

\* Every record is reported or in hand when the daemon begins to serve.
LEMMA ServesKeeps ==
    ASSUME RegistryInv, Serves
    PROVE  RegistryInv'
<1>a. Serves
  OBVIOUS
<1>1. /\ TableNamesItsObjects' /\ UnstartedIsUnknown' /\ TakenIsASession'
      /\ OpensHaveTheirShell' /\ ReapedIsGone' /\ IdsAreRemembered' /\ OneObjectPerId'
      /\ UnrecordedIsUntouched' /\ UnstoredHasNoRecord' /\ ForgetFollowsRemove'
      /\ EndedStaysEnded' /\ TakenOnce' /\ ClosedIsEnded' /\ RecordStands'
      /\ MarkedBeforeReaped' /\ StopIsNotAClose' /\ PaneIsOnes'
  BY Untouched DEF Serves, diskVars, shellVars, actorVars, histVars
<1>2. TypeOK'
  BY InvParts DEF Serves, diskVars, shellVars, actorVars, histVars, TypeOK
<1>3. LifeBounds'
  BY InvParts DEF Serves, diskVars, shellVars, actorVars, histVars, LifeBounds
<1>4. NoOrphanShell'
  BY InvParts DEF Serves, diskVars, shellVars, actorVars, histVars, NoOrphanShell, Registered,
     OnItsWayOut
<1>5. Accounted'
  <2> SUFFICES ASSUME NEW i \in DOMAIN records', i \notin early' \cup kept'
               PROVE  AccountedFor(i)'
    BY DEF Accounted
  <2>i. i # None
    BY InvParts, NoneIsNoName DEF Serves, diskVars, shellVars, actorVars, histVars, TypeOK
  <2>1. ASSUME NEW d \in Closers, closer[d].id = i, closer[d].at = "remove" PROVE InHand(i)'
    BY <2>1 DEF Serves, diskVars, shellVars, actorVars, histVars, InHand
  <2>2. ASSUME NEW s \in Shells, Carries(s, i) PROVE InHand(i)'
    BY <2>2 DEF Serves, diskVars, shellVars, actorVars, histVars, InHand, Carries, Registered,
       Unrecorded
  <2>3. InHand(i) => InHand(i)'
    BY <2>1, <2>2 DEF InHand
  <2>4. AccountedFor(i)
    BY InvParts DEF Serves, diskVars, shellVars, actorVars, histVars, Accounted
  <2> QED BY InvParts, <2>3, <2>4 DEF Serves, diskVars, shellVars, actorVars, histVars,
       AccountedFor, LifeBounds
<1> QED BY <1>1, <1>2, <1>3, <1>4, <1>5 DEF RegistryInv, Shape, Ended, Stopped

\* A step that changes nothing keeps it too.
LEMMA StutterKeeps ==
    ASSUME RegistryInv, UNCHANGED vars
    PROVE  RegistryInv'
<1>1. UNCHANGED <<records, life, starts, todo, restorer, sessions, outcomes, next, shell, object,
                  reap, over, opener, closer, sweep, stop, events, used, dead, early, kept,
                  reissued, crowded>>
  BY DEF vars, diskVars, daemonVars, shellVars, actorVars, histVars
<1>2. TypeOK'
  BY <1>1 DEF RegistryInv, Shape, TypeOK
<1> QED BY <1>1, <1>2, Untouched DEF RegistryInv, Shape, Ended, Stopped

\* Every step keeps the invariant.
LEMMA StepPreservesRegistryInv == RegistryInv /\ [Next]_vars => RegistryInv'
<1> SUFFICES ASSUME RegistryInv, [Next]_vars PROVE RegistryInv'
  OBVIOUS
<1>1. CASE Start
  BY <1>1, StartKeeps
<1>2. CASE RestoreStep
  BY <1>2, RestoreStartsKeeps, RestoreFailsKeeps, RestoreClearsKeeps, RestoreReportsKeeps,
     ServesKeeps DEF RestoreStep
<1>3. ASSUME NEW o \in Openers, OpenStep(o) \/ \E p \in Wants(o) : OpenStarts(o, p)
      PROVE  RegistryInv'
  BY <1>3, OpenRegistersKeeps, OpenStoppedKeeps, OpenCreatesKeeps, OpenStartsKeeps DEF OpenStep
<1>4. ASSUME NEW c \in Closers, CloseWindowAsks(c) \/ \E id \in Ids : CloseAsks(c, id)
      PROVE  RegistryInv'
  BY <1>4, CloseAsksKeeps
<1>5. ASSUME NEW c \in Closers, CloseStep(c) PROVE RegistryInv'
  BY <1>5, CloseTakesKeeps, CloseRemovesKeeps, CloseReapsKeeps, CloseReturnsKeeps DEF CloseStep
<1>6. ASSUME NEW k \in Shells, ReapFinishes(k) \/ ShellExits(k) PROVE RegistryInv'
  BY <1>6, ReapFinishesKeeps, ShellExitsKeeps
<1>7. CASE SweepStep \/ \E ks \in SUBSET Shells : SweepTakes(ks)
  BY <1>7, SweepReturnsKeeps, SweepReapsKeeps, SweepTakesKeeps DEF SweepStep
<1>8. CASE StopBegins \/ StopStep \/ Crash
  BY <1>8, StopBeginsKeeps, StopReapsKeeps, StopMarksKeeps, StopExitsKeeps DEF StopStep
<1>9. CASE UNCHANGED vars
  BY <1>9, StutterKeeps
<1> QED BY <1>1, <1>2, <1>3, <1>4, <1>5, <1>6, <1>7, <1>8, <1>9 DEF Next

\* A daemon that was never started has nothing.
LEMMA InitEstablishesRegistryInv == Init => RegistryInv
<1> SUFFICES ASSUME Init PROVE RegistryInv
  OBVIOUS
<1>1. /\ DOMAIN records = {} /\ DOMAIN sessions = {} /\ DOMAIN outcomes = {} /\ todo = {}
      /\ records \in [DOMAIN records -> [pane : Panes, ended : BOOLEAN]]
      /\ sessions \in [DOMAIN sessions -> Shells]
      /\ outcomes \in [DOMAIN outcomes -> {"full", "degraded", "failed"}]
  BY DEF Init, Nothing
<1>2. /\ NoObject \in Objects /\ NoOpen \in Opens /\ NoClose \in Closes
      /\ object = [k \in Shells |-> NoObject] /\ NoObject.id = None
      /\ opener = [o \in Openers |-> NoOpen] /\ NoOpen.k = None /\ NoOpen.at = "idle"
      /\ closer = [c \in Closers |-> NoClose]
      /\ NoClose.at = "idle" /\ NoClose.k = None /\ NoClose.id = None /\ NoClose.ids = {}
  BY DEF Init, NoObject, Objects, NoOpen, Opens, NoClose, Closes
<1>3. Unrecorded = {}
  BY <1>2 DEF Unrecorded
<1>4. TypeOK
  BY <1>1, <1>2, RegistryConstants DEF Init, TypeOK, NoRestore, NoStop
<1>5. TableNamesItsObjects /\ UnstartedIsUnknown /\ TakenIsASession
  BY <1>1, <1>2, NoneIsNoName DEF Init, TableNamesItsObjects, UnstartedIsUnknown,
     TakenIsASession,
     NoStop
<1>6. OpensHaveTheirShell
  BY <1>2 DEF OpensHaveTheirShell
<1>7. LifeBounds /\ ReapedIsGone
  BY <1>1, <1>2 DEF Init, LifeBounds, ReapedIsGone, NoStop, NoRestore
<1>8. NoOrphanShell
  BY DEF Init, NoOrphanShell
<1>9. Ended
  <2>1. IdsAreRemembered /\ OneObjectPerId
    BY <1>1, <1>2, NoneIsNoName DEF Init, IdsAreRemembered, OneObjectPerId
  <2>2. UnrecordedIsUntouched /\ UnstoredHasNoRecord /\ ForgetFollowsRemove /\ EndedStaysEnded
    BY <1>1, <1>2 DEF Init, UnrecordedIsUntouched, UnstoredHasNoRecord, ForgetFollowsRemove,
       EndedStaysEnded
  <2> QED BY <2>1, <2>2 DEF Ended
<1>10. Stopped
  BY <1>1, <1>2 DEF Init, Stopped, TakenOnce, Holds, ClosedIsEnded, RecordStands,
     MarkedBeforeReaped, StopIsNotAClose, NoStop
<1>11. Accounted /\ PaneIsOnes
  BY <1>1, <1>2 DEF Accounted, PaneIsOnes, PaneIsOne, Opening
<1> QED BY <1>4, <1>5, <1>6, <1>7, <1>8, <1>9, <1>10, <1>11 DEF RegistryInv, Shape

----------------------------------------------------------------------------
(* The theorems *)

\* The registry keeps its invariant whatever opens, closes, sweeps, stops, crashes and
\* starts do beside one another.
THEOREM RegistryInvariance == Safety => []RegistryInv
<1> QED BY InitEstablishesRegistryInv, StepPreservesRegistryInv, PTL DEF Safety

\* Every variable of the registry keeps its type.
THEOREM RegistryTypeCorrect == Safety => []TypeOK
<1>1. RegistryInv => TypeOK
  BY DEF RegistryInv, Shape
<1> QED BY <1>1, RegistryInvariance, PTL

\* A shell that runs is in the table, or its starter has it, or somebody is about to end
\* it: none is forgotten (issueLocked 192-195, openWithObserver 239-245, shutdown 764-790).
THEOREM NoShellIsOrphaned == Safety => []NoOrphanShell
<1>1. RegistryInv => NoOrphanShell
  BY DEF RegistryInv
<1> QED BY <1>1, RegistryInvariance, PTL

\* A session that was closed, or whose shell exited, does not come back (session.go
\* 636-638), but for the exceptions EndedStaysEnded names.
THEOREM TheEndedStayEnded == Safety => []EndedStaysEnded
<1>1. RegistryInv => EndedStaysEnded
  BY DEF RegistryInv, Ended
<1> QED BY <1>1, RegistryInvariance, PTL

\* A session that the stop ended keeps its record, with the stop's mark on it (reap
\* 606-610, shutdown 785-788).
THEOREM AStopIsNotAClose == Safety => []StopIsNotAClose
<1>1. RegistryInv => StopIsNotAClose
  BY DEF RegistryInv, Stopped
<1> QED BY <1>1, RegistryInvariance, PTL

\* What a serving daemon reports lost has no record, unless somebody is about to remove
\* it or could not (restoreReport 226-267).
THEOREM TheLostAreGone == Safety => []LostMeansGone
<1>1. ASSUME RegistryInv PROVE LostMeansGone
  <2> SUFFICES ASSUME NEW id \in DOMAIN records \ (early \cup kept), life = "serving",
                      Report(id) = "lost"
               PROVE  \/ \E c \in Closers : closer[c].id = id /\ closer[c].at = "remove"
                      \/ \E k \in Shells : object[k].id = id /\ (reap[k] = "ending" \/ k \in sweep.ks)
    BY DEF LostMeansGone
  <2>1. TypeOK /\ TableNamesItsObjects /\ AccountedFor(id)
    BY <1>1 DEF RegistryInv, Shape, Accounted
  <2>2. id \notin DOMAIN outcomes /\ id \notin DOMAIN sessions
    BY <2>1 DEF Report, TypeOK
  <2>3. InHand(id)
    BY <2>1, <2>2 DEF AccountedFor
  <2>4. ASSUME NEW k \in Shells, Carries(k, id) PROVE ~Registered(k)
    BY <2>1, <2>2, <2>4 DEF Carries, Registered, TableNamesItsObjects
  <2> QED BY <2>3, <2>4 DEF InHand, Carries
<1> QED BY <1>1, RegistryInvariance, PTL

\* A pane has one session, unless it was opened beside another open of it or over a
\* record of it that no session of the pane stood for (daemon.open 548-557).
THEOREM AShellPerPane == Safety => []OneShellPerPane
<1>1. ASSUME RegistryInv PROVE OneShellPerPane
  <2> SUFFICES ASSUME NEW i \in DOMAIN sessions, NEW j \in DOMAIN sessions,
                      object[sessions[j]].pane = object[sessions[i]].pane,
                      ~Crowded(object[sessions[i]].pane)
               PROVE  i = j
    BY DEF OneShellPerPane, Crowded
  <2>1. object[sessions[i]].pane \in Panes
    BY <1>1 DEF RegistryInv, Shape, TableNamesItsObjects
  <2>2. PaneIsOne(object[sessions[i]].pane)
    BY <1>1, <2>1 DEF RegistryInv, PaneIsOnes
  <2> QED BY <2>2 DEF PaneIsOne
<1> QED BY <1>1, RegistryInvariance, PTL
=============================================================================

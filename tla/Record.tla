-------------------------------- MODULE Record --------------------------------
(***************************************************************************)
(* One session's record: store.go's create, publish, markEnded, setSize,   *)
(* setModes, setForeground, clearStopMark and remove, the resize that      *)
(* applies to the terminal, the session and the record one after another,  *)
(* and the restore that reads the record back.                             *)
(*                                                                         *)
(* Every writer reads the record and publishes a changed copy under the    *)
(* record's lock.  A publish is a rename, which the process's death does   *)
(* not undo and a power cut does unless the directory was synced since.    *)
(* Where a record's output is stored is in Store, which session there is   *)
(* in Registry.                                                            *)
(***************************************************************************)
EXTENDS Environment, Integers, FiniteSets

CONSTANTS
    Resizers,   \* connections that resize
    Sizes,      \* the sizes they ask for
    Values,     \* what a report of modes or the program in front may be
    ShellPaths, \* the shells an open may name, as words
    MaxStarts,  \* bound: starts of the daemon
    MaxWrites,  \* bound: resizes and other changes asked for
    MaxEvents,  \* bound: failing calls, crashes and power cuts
    Allowed     \* bound: which of RecordEvents this instance explores

RecordEvents == {"crash", "power", "stop", "close", "fail"}

ASSUME RecordConstants ==
    /\ Sizes \subseteq Nat \ {0} /\ Values \subseteq Nat \ {0}
    /\ MaxStarts \in Nat /\ MaxWrites \in Nat /\ MaxEvents \in Nat
    /\ Allowed \subseteq RecordEvents
    /\ Resizers \cap {"create", "modes", "front", "stop", "clear", "none"} = {}

VARIABLES
    record,   \* the record as the filesystem answers it
    since,    \* what a power cut may leave of it: each version since the last sync
    lock,     \* who holds the record's lock
    copy,     \* the record it has read
    job,      \* where each writer is, and the value it writes
    life,     \* the session: "opening", "up", "ended", "down"
    terminal, \* the size of the pty
    session,  \* session.cols and rows, and startedAt
    running,  \* the binary the shell was started from
    starts, writes, events, \* bounds
    made,     \* history: the shell the open named, and when
    last,     \* history: what the last publish of each field said
    apart,    \* history: the last resizes overlapped, or one was not recorded
    marked,   \* history: the stop of this start was marked
    ran,      \* history: the record was unmarked for a shell since the last stop
    cut       \* history: a power cut undid something

recordVars == <<record, since, lock, copy>>
sessionVars == <<life, terminal, session, running>>
boundVars == <<starts, writes, events>>
histVars == <<made, last, apart, marked, ran, cut>>
vars == <<recordVars, job, sessionVars, boundVars, histVars>>

Writers == Resizers \cup {"create", "modes", "front", "stop", "clear"}
NoOne == "none"
NoJob == [at |-> "idle", value |-> 0]
NoRecord == [on |-> FALSE, command |-> <<>>, started |-> 0, size |-> 0, modes |-> 0, front |-> 0,
             ended |-> FALSE]

Records ==
    [on : BOOLEAN, command : {Command(shell) : shell \in ShellPaths} \cup {<<>>}, started : Nat,
     size : Nat, modes : Nat, front : Nat, ended : BOOLEAN]

Happens(event) == event \in Allowed /\ events < MaxEvents /\ events' = events + 1
Asks == writes < MaxWrites /\ writes' = writes + 1
Resizing == {r \in Resizers : job[r].at # "idle"}

\* A connection may find the session: an open registers it before its record is
\* written, a restore is over before anything is served, a stop takes it out.
Reachable ==
    /\ life = "up" \/ (life = "opening" /\ starts = 0)
    /\ job["stop"].at = "idle"

----------------------------------------------------------------------------
(* A record write: lock and read, publish, and for the stop the sync *)

\* The record w makes of the one it has read.
Updated(w, old) ==
    CASE w \in Resizers -> [old EXCEPT !.size = job[w].value]
      [] w = "modes" -> [old EXCEPT !.modes = job[w].value]
      [] w = "front" -> [old EXCEPT !.front = job[w].value]
      [] w = "stop" -> [old EXCEPT !.ended = TRUE]
      [] w = "clear" -> [old EXCEPT !.ended = FALSE]
      [] w = "create" -> [old EXCEPT !.on = TRUE]

\* Mutant: the record is read with no regard for who holds the lock.
MayReadUnlocked(w) == job[w].at = "record"

\* The record's lock is free.
MayRead(w) == job[w].at = "record" /\ lock = NoOne

\* The lock is taken and the record read; a record that is not there is an error.
\* create reads none: it writes the facts it was given.
Reads(w) ==
    /\ MayRead(w)
    /\ IF record.on \/ w = "create"
       THEN /\ lock' = w
            /\ copy' = IF w = "create" THEN copy ELSE [copy EXCEPT ![w] = record]
            /\ job' = [job EXCEPT ![w].at = "publish"]
            /\ UNCHANGED apart
       ELSE /\ job' = [job EXCEPT ![w] = [NoJob EXCEPT !.at = IF w = "stop" THEN "out" ELSE @]]
            /\ apart' = (apart \/ w \in Resizers)
            /\ UNCHANGED <<lock, copy>>
    /\ UNCHANGED <<record, since, sessionVars, boundVars, made, last, marked, ran, cut>>

\* Mutant: the stop is written like everything else.
IsDurableNever(w) == FALSE

\* writeDurable is the stop's.
IsDurable(w) == w = "stop"

\* The lock is let go.  A session whose record could not be created or cleared
\* runs all the same.
Releases(w) ==
    /\ lock' = NoOne
    /\ copy' = [copy EXCEPT ![w] = NoRecord]
    /\ job' = [job EXCEPT ![w] = [NoJob EXCEPT !.at = IF w = "stop" THEN "out" ELSE @]]
    /\ life' = IF w \in {"create", "clear"} /\ life = "opening" THEN "up" ELSE life

\* The renaming of a staged copy over the record.
Publishes(w) ==
    LET new == Updated(w, copy[w]) IN
    /\ job[w].at = "publish"
    /\ record' = new
    /\ since' = since \cup {new}
    /\ last' = IF w = "create" THEN new
               ELSE [f \in DOMAIN last |-> IF new[f] # copy[w][f] THEN new[f] ELSE last[f]]
    /\ ran' = IF w = "stop" THEN FALSE ELSE ran \/ w \in {"create", "clear"}
    /\ IF IsDurable(w)
       THEN job' = [job EXCEPT ![w].at = "sync"] /\ UNCHANGED <<lock, copy, life>>
       ELSE Releases(w)
    /\ marked' = (marked \/ (w = "stop" /\ ~IsDurable(w)))
    /\ UNCHANGED <<terminal, session, running, boundVars, made, apart, cut>>

\* syncDir, still under the lock.
Syncs(w) ==
    /\ job[w].at = "sync"
    /\ since' = {record}
    /\ marked' = TRUE
    /\ Releases(w)
    /\ UNCHANGED <<record, terminal, session, running, boundVars, made, last, apart, ran,
                   cut>>

\* A call fails: before the rename the staged copy is removed, after it the
\* record is in place and may not be on the platter.
PublishFails(w) ==
    /\ job[w].at \in {"publish", "sync"} /\ Happens("fail")
    /\ Releases(w)
    /\ apart' = (apart \/ w \in Resizers)
    /\ UNCHANGED <<record, since, terminal, session, running, starts, writes, made, last,
                   marked, ran, cut>>

----------------------------------------------------------------------------
(* Who writes *)

\* creationFacts of a session that resizes may already reach.  It takes no lock:
\* beside a resize the columns and the rows it reads make any size.
CreateBegins ==
    /\ life = "opening" /\ starts = 0 /\ job["create"].at = "idle"
    /\ \E size \in IF Resizing = {} THEN {session.size} ELSE Sizes :
        copy' = [copy EXCEPT !["create"] =
                    [NoRecord EXCEPT !.command = Command(made.shell), !.size = size,
                                     !.started = session.started]]
    /\ job' = [job EXCEPT !["create"].at = "record"]
    /\ UNCHANGED <<record, since, lock, sessionVars, boundVars, histVars>>

\* session.resize sets the terminal, which refuses when the shell is gone ...
ResizeApplies(r, size) ==
    /\ Asks
    /\ Reachable /\ job[r].at = "idle"
    /\ terminal' = size
    /\ job' = [job EXCEPT ![r] = [at |-> "applied", value |-> size]]
    /\ apart' = (Resizing # {})
    /\ UNCHANGED <<recordVars, life, session, running, starts, events, made, last, marked,
                   ran, cut>>

\* Mutant: the session keeps the size it was made with.
SizeKept(size) == session.size

\* The session takes the size the terminal got.
SizeTaken(size) == size

\* ... then the session's fields under its own lock, then the record.
ResizeTells(r) ==
    /\ job[r].at = "applied"
    /\ session' = [session EXCEPT !.size = SizeTaken(job[r].value)]
    /\ job' = [job EXCEPT ![r].at = "record"]
    /\ UNCHANGED <<recordVars, life, terminal, running, boundVars, histVars>>

\* setModes for pty.modes, which asks the store and no session, and setForeground
\* for the monitor of a session that runs.
Changes(w, value) ==
    /\ Asks
    /\ life = "up" \/ (w = "modes" /\ (Reachable \/ life = "ended"))
    /\ job[w].at = "idle"
    /\ job' = [job EXCEPT ![w] = [at |-> "record", value |-> value]]
    /\ UNCHANGED <<recordVars, sessionVars, starts, events, histVars>>

\* shutdown takes the session out and marks its record.
StopBegins ==
    /\ "stop" \in Allowed /\ Reachable
    /\ job' = [job EXCEPT !["stop"].at = "record"]
    /\ UNCHANGED <<recordVars, sessionVars, boundVars, histVars>>

\* remove holds the record's lock.
MayRemove == lock = NoOne

\* A close, an exit or the sweep takes the session out and removes its record.
\* (One that comes before the record is written is in Registry.)
Removes ==
    /\ "close" \in Allowed
    /\ life = "up" /\ Reachable /\ MayRemove
    /\ record' = NoRecord
    /\ since' = since \cup {NoRecord}
    /\ life' = "ended"
    /\ last' = NoRecord
    /\ UNCHANGED <<lock, copy, job, terminal, session, running, boundVars, made, apart, marked,
                   ran, cut>>

----------------------------------------------------------------------------
(* The daemon goes and comes *)

ProcessGoes ==
    /\ life' = "down"
    /\ lock' = NoOne
    /\ copy' = [w \in Writers |-> NoRecord]
    /\ job' = [w \in Writers |-> NoJob]
    /\ UNCHANGED <<terminal, session, running, starts, writes, made, apart, ran>>

StopExits ==
    /\ job["stop"].at = "out"
    /\ ProcessGoes
    /\ UNCHANGED <<record, since, events, last, marked, cut>>

Crash ==
    /\ life # "down" /\ Happens("crash")
    /\ ProcessGoes
    /\ UNCHANGED <<record, since, last, marked, cut>>

PowerCut ==
    /\ Happens("power")
    /\ \E left \in since :
        /\ record' = left /\ since' = {left}
        /\ last' = left
        /\ cut' = (cut \/ left # record)
    /\ ProcessGoes
    /\ UNCHANGED marked

\* restoreOne: a shell from the record's facts; its mark is cleared after.
Restores ==
    /\ life = "down" /\ record.on /\ starts < MaxStarts
    /\ starts' = starts + 1
    /\ life' = "opening"
    /\ terminal' = record.size
    /\ session' = [size |-> record.size, started |-> starts + 1]
    /\ running' = Shell(record.command)
    /\ job' = [job EXCEPT !["clear"].at = "record"]
    /\ apart' = FALSE /\ marked' = FALSE
    /\ UNCHANGED <<recordVars, writes, events, made, last, ran, cut>>

----------------------------------------------------------------------------
Init ==
    /\ record = NoRecord /\ since = {NoRecord}
    /\ lock = NoOne /\ copy = [w \in Writers |-> NoRecord] /\ job = [w \in Writers |-> NoJob]
    /\ life = "opening"
    /\ \E shell \in ShellPaths, size \in Sizes :
        /\ terminal = size /\ session = [size |-> size, started |-> 0]
        /\ running = shell /\ made = [shell |-> shell, started |-> 0]
    /\ starts = 0 /\ writes = 0 /\ events = 0
    /\ last = NoRecord /\ apart = FALSE /\ marked = FALSE /\ ran = FALSE
    /\ cut = FALSE

Next ==
    \/ \E w \in Writers : Reads(w) \/ Publishes(w) \/ Syncs(w) \/ PublishFails(w)
    \/ CreateBegins
    \/ \E r \in Resizers : ResizeTells(r) \/ \E size \in Sizes : ResizeApplies(r, size)
    \/ \E w \in {"modes", "front"}, value \in Values : Changes(w, value)
    \/ StopBegins \/ Removes \/ StopExits \/ Crash \/ PowerCut \/ Restores

Safety == Init /\ [][Next]_vars


----------------------------------------------------------------------------
(* Properties *)

\* The state variables keep their types, and the record's lock is held by exactly
\* the writer between its read and the end of its write, whichever way it ends.
TypeOK ==
    /\ record \in Records /\ since \subseteq Records /\ record \in since
    /\ copy \in [Writers -> Records]
    /\ job \in [Writers -> [at : {"idle", "applied", "record", "publish", "sync", "out"},
                            value : Nat]]
    /\ lock \in Writers \cup {NoOne}
    /\ \A w \in Writers : job[w].at \in {"publish", "sync"} <=> lock = w
    /\ life \in {"opening", "up", "ended", "down"}
    /\ terminal \in Nat /\ session \in [size : Nat, started : Nat]
    /\ starts \in 0..MaxStarts /\ writes \in 0..MaxWrites /\ events \in 0..MaxEvents
    /\ made \in [shell : ShellPaths, started : {0}] /\ last \in Records
    /\ apart \in BOOLEAN /\ marked \in BOOLEAN /\ ran \in BOOLEAN /\ cut \in BOOLEAN

\* No writer undoes another: with the lock free, each field of the record says what
\* the last write of that field said, and a record that was removed is not published
\* again by a writer that had read it.  Five functions of store.go read the whole
\* record and write the whole record back, each for one field; remove takes their lock.
NoLostUpdate ==
    lock = NoOne => record = last

\* The terminal, the session and the record agree on the size once the resizes are
\* over, unless resizes overlapped or one could not be recorded: resize sets the
\* three one after another under different locks, and the open's own write may come
\* between.
SizesAgreeAtRest ==
    life = "up" /\ Resizing = {} /\ ~apart /\ record.on =>
        terminal = session.size /\ session.size = record.size

\* Once markEnded has answered, nothing a power cut may leave of the record lacks the
\* mark, also when other writers published after it.  writeDurable exists for this.
StopMarkIsDurable ==
    marked => \A left \in since : left.on => left.ended

----------------------------------------------------------------------------
(* What a document of the repository says and the code does not keep *)

\* The size in the record is the one applied to the pty (SESSION-STATE.md, cols).
SizesAgree ==
    life = "up" /\ Resizing = {} /\ record.on /\ events = 0 =>
        terminal = session.size /\ session.size = record.size

\* A session keeps the time its work began (SESSION-STATE.md, startedAt).
StartedAtIsKept ==
    life = "up" => session.started = made.started

\* A session that stood up again reads as a crash if it now dies (clearStopMark), a
\* power cut included.
CleanEndSurvivesPower ==
    life = "down" /\ record.on /\ record.ended => ~ran

=============================================================================

------------------------------ MODULE Inventory ------------------------------
(***************************************************************************)
(* process_inventory_state.go, process_monitor.go and the darwin kernel    *)
(* watch: the ledger of the processes under every session's shell.         *)
(*                                                                         *)
(* The kernel forks, execs and ends processes at any time and tells the    *)
(* kqueue of a session about those it watches.  Per session an opener      *)
(* (processSessionStarted), a runner (watch.run, which calls reconcile)    *)
(* and a reaper (processSessionEnded) meet at processSessionsMu and at the *)
(* monitor's lock, and replace the session's records in the ledger, which  *)
(* numbers every change and sends it to the streams of process.observe.    *)
(*                                                                         *)
(* A shell's pid is its session's id.  What a record says of a process is  *)
(* its image, which an exec replaces.                                      *)
(***************************************************************************)
EXTENDS ProcessTree, Sequences, FiniteSetsExt

CONSTANTS
    Sessions,    \* session ids, which are their shells' pids
    Pids,        \* bound: the pids the shells' descendants get, each once
    Fds,         \* the descriptors a kqueue may get, lowest free first
    Streams,     \* connections that ask for process.observe
    EventBuffer, \* processEventBuffer
    MaxMoves,    \* bound: steps of the kernel
    MaxFailures, \* bound: failing system calls
    Allowed      \* bound: which of InventoryEvents this instance explores

InventoryEvents == {"exec", "front", "shell", "end", "die"}

Unborn == 0
Launchd == 1
Exited == -1
NoOne == 0

ASSUME InventoryConstants ==
    /\ Sessions \subseteq Nat \ {Unborn, Launchd} /\ Pids \subseteq Nat \ {Unborn, Launchd}
    /\ Sessions \cap Pids = {} /\ IsFiniteSet(Sessions) /\ IsFiniteSet(Pids)
    /\ Fds \subseteq Nat \ {0} /\ IsFiniteSet(Fds) /\ Cardinality(Fds) >= Cardinality(Sessions)
    /\ EventBuffer \in Nat \ {0} /\ MaxMoves \in Nat /\ MaxFailures \in Nat
    /\ Allowed \subseteq InventoryEvents

VARIABLES
    parent,   \* kernel: the parent of each pid, or Unborn, or Exited
    image,    \* kernel: what runs in each pid
    up,       \* kernel: the shells that run
    front,    \* kernel: the terminal's foreground group
    moves,    \* bound: steps of the kernel so far
    closed,   \* session.closed
    opener,   \* where processSessionStarted is
    mapMu,    \* whose opener holds processSessionsMu
    monitors, \* daemon.processSessions
    ended,    \* monitor.closed
    work,     \* who holds the monitor's lock in reconcile, with which entries
    failed,   \* monitor.lastError is set
    cached,   \* monitor.foreground and foregroundCWD
    offer,    \* the foreground in the session's record
    watch,    \* monitor.watch is set
    tracked,  \* watch.tracked
    pending,  \* kernel: an event is in the session's kqueue
    fd,       \* the descriptor of the session's kqueue, which run keeps
    holder,   \* kernel: whose kqueue a descriptor names
    runner,   \* where watch.run is
    on,       \* whose kqueue it waits on
    reaper,   \* where processSessionEnded is
    revision, \* state.revision
    sessions, \* state.sessions: the records of each session
    processes, \* state.processes: all records
    stream,   \* each connection: "off", "live", "cut", "over"
    queue,    \* the channel of its subscription
    view,     \* the client's copy of the ledger
    seen,     \* the revision it has reached
    gone,     \* the clients that went away
    failures, \* bound: failures so far
    stolen    \* history: sessions whose event another session's runner took

kernelVars == <<parent, image, up, front, moves>>
monitorVars == <<closed, opener, mapMu, monitors, ended, work, failed, cached, offer>>
watchVars == <<watch, tracked, fd, holder, runner, on, stolen>>
ledgerVars == <<revision, sessions, processes>>
streamVars == <<stream, queue, view, seen, gone>>
vars == <<kernelVars, monitorVars, watchVars, pending, reaper, ledgerVars, streamVars, failures>>

Idle == [by |-> "none", entries |-> {}]
Nothing == [p \in {} |-> 0]

----------------------------------------------------------------------------
(* The kernel *)

Alive == {p \in Pids : parent[p] \notin {Unborn, Exited}}

Row(p) == [pid |-> p, parent |-> parent[p], group |-> p, image |-> image[p]]
ShellRow(s) == [pid |-> s, parent |-> Launchd, group |-> s, image |-> 0]

\* What ps prints now.
Table == {Row(p) : p \in Alive} \cup {ShellRow(s) : s \in up}

Moves == moves < MaxMoves /\ moves' = moves + 1

\* The kqueues that hear of a fork, an exec or the exit of q.
Hears(q) == [s \in Sessions |-> pending[s] \/ (watch[s] /\ q \in tracked[s])]

Fork(q) ==
    /\ Moves
    /\ q \in up \cup Alive
    /\ \E p \in Pids :
        /\ parent[p] = Unborn /\ \A x \in Pids : x < p => parent[x] # Unborn
        /\ parent' = [parent EXCEPT ![p] = q]
    /\ pending' = Hears(q)
    /\ UNCHANGED <<image, up, front, monitorVars, watchVars, reaper, ledgerVars, streamVars,
                   failures>>

Exec(p) ==
    /\ "exec" \in Allowed
    /\ Moves
    /\ p \in Alive
    /\ image' = [image EXCEPT ![p] = @ + 1]
    /\ pending' = Hears(p)
    /\ UNCHANGED <<parent, up, front, monitorVars, watchVars, reaper, ledgerVars, streamVars,
                   failures>>

\* The children of q are launchd's once it is gone.
Orphaned(q) == [x \in Pids |-> IF parent[x] = q THEN Launchd ELSE parent[x]]

Exit(p) ==
    /\ Moves
    /\ p \in Alive
    /\ parent' = [Orphaned(p) EXCEPT ![p] = Exited]
    /\ pending' = Hears(p)
    /\ UNCHANGED <<image, up, front, monitorVars, watchVars, reaper, ledgerVars, streamVars,
                   failures>>

ShellExits(s) ==
    /\ "shell" \in Allowed
    /\ Moves
    /\ s \in up
    /\ up' = up \ {s}
    /\ parent' = Orphaned(s)
    /\ pending' = Hears(s)
    /\ UNCHANGED <<image, front, monitorVars, watchVars, reaper, ledgerVars, streamVars,
                   failures>>

\* The terminal gives the keyboard to another group; no process event tells.
ToFront(s, g) ==
    /\ "front" \in Allowed
    /\ Moves
    /\ s \in up /\ front[s] # g
    /\ g = s \/ (g \in Pids /\ parent[g] = s)
    /\ front' = [front EXCEPT ![s] = g]
    /\ UNCHANGED <<parent, image, up, monitorVars, watchVars, pending, reaper, ledgerVars,
                   streamVars, failures>>

----------------------------------------------------------------------------
(* The ledger *)

\* The ids of next that are new or say something else than before.
ChangedIDs(prev, next) ==
    {p \in DOMAIN next : p \in DOMAIN prev => prev[p] # next[p]}

\* The pids of a set from the lowest on (the code compares the ids as strings; which
\* order it is does not matter here).
InOrder(S) ==
    {q \in [1..Cardinality(S) -> S] : \A i, j \in 1..Cardinality(S) : i < j => q[i] < q[j]}

\* The changes of session s from prev to next as they are numbered and published: first
\* what started or changed, then what ended.
Changes(s, prev, next, set, del) ==
    [i \in 1..(Len(set) + Len(del)) |->
        IF i <= Len(set)
        THEN [rev |-> revision + i, id |-> <<s, set[i]>>, image |-> next[set[i]],
              kind |-> IF set[i] \in DOMAIN prev THEN "updated" ELSE "started"]
        ELSE [rev |-> revision + i, id |-> <<s, del[i - Len(set)]>>,
              image |-> prev[del[i - Len(set)]], kind |-> "ended"]]

\* Mutant: a full channel loses the event and the stream goes on.
PublishedLossy(o, events) ==
    IF stream[o] # "live" THEN [queue |-> queue[o], stream |-> stream[o]]
    ELSE LET all == queue[o] \o events IN
         [queue |-> SubSeq(all, 1, Min({EventBuffer, Len(all)})), stream |-> "live"]

\* publishLocked for one subscription: what fits is sent; the first event that
\* does not fit takes the subscription out and closes its channel.
Published(o, events) ==
    LET all == queue[o] \o events IN
    IF stream[o] # "live" THEN [queue |-> queue[o], stream |-> stream[o]]
    ELSE IF Len(all) <= EventBuffer THEN [queue |-> all, stream |-> "live"]
    ELSE [queue |-> SubSeq(all, 1, EventBuffer), stream |-> "cut"]

Applied(table, e) ==
    IF e.kind = "ended"
    THEN [id \in DOMAIN table \ {e.id} |-> table[id]]
    ELSE [id \in DOMAIN table \cup {e.id} |-> IF id = e.id THEN e.image ELSE table[id]]

\* The ledger with the records of session s that changed set and those that ended gone.
Entered(s, set, del, next) ==
    [id \in (DOMAIN processes \cup {<<s, p>> : p \in set}) \ {<<s, p>> : p \in del} |->
        IF id[1] = s /\ id[2] \in set THEN next[id[2]] ELSE processes[id]]

\* replaceSession, under the ledger's lock.
ReplaceSession(s, next) ==
    LET changed == ChangedIDs(sessions[s], next)
        ends == DOMAIN sessions[s] \ DOMAIN next
    IN \E set \in InOrder(changed), del \in InOrder(ends) :
        \E events \in {Changes(s, sessions[s], next, set, del)} :
            /\ revision' = revision + Len(events)
            /\ sessions' = [sessions EXCEPT ![s] = next]
            /\ processes' = Entered(s, changed, ends, next)
            /\ queue' = [o \in Streams |-> Published(o, events).queue]
            /\ stream' = [o \in Streams |-> Published(o, events).stream]
            /\ UNCHANGED <<view, seen, gone>>

\* The records of a session: its shell's and one for each descendant.
Records(s, entries) ==
    [p \in {s} \cup PidsOf(entries) |->
        IF p = s THEN 0 ELSE (CHOOSE e \in entries : e.pid = p).image]

----------------------------------------------------------------------------
(* processSessionStarted, called for a session that is registered; its reap may *)
(* come first                                                                   *)

\* Mutant: a session that ended meanwhile is given a monitor all the same.
StartsUnasked(s) == opener[s] = "opening" /\ mapMu = NoOne

\* The session is still there when the opener holds processSessionsMu.
Starts(s) == opener[s] = "opening" /\ mapMu = NoOne /\ s \notin closed

\* The monitor is registered and the shell's record committed, before the watch.
StartCommits(s) ==
    /\ Starts(s)
    /\ mapMu' = s
    /\ monitors' = monitors \cup {s}
    /\ ReplaceSession(s, Records(s, {}))
    /\ opener' = [opener EXCEPT ![s] = "committed"]
    /\ UNCHANGED <<kernelVars, closed, ended, work, failed, cached, offer, watchVars, pending,
                   reaper, failures>>

StartReturns(s) ==
    /\ opener[s] = "opening" /\ mapMu = NoOne /\ s \in closed
    /\ opener' = [opener EXCEPT ![s] = "done"]
    /\ UNCHANGED <<kernelVars, closed, mapMu, monitors, ended, work, failed, cached, offer,
                   watchVars, pending, reaper, ledgerVars, streamVars, failures>>

\* Observe: a kqueue, the shell's pid in it, and the goroutine that reads it.
StartObserves(s) ==
    /\ opener[s] = "committed"
    /\ s \in up
    /\ LET f == Min({x \in Fds : holder[x] = NoOne}) IN
       /\ fd' = [fd EXCEPT ![s] = f]
       /\ holder' = [holder EXCEPT ![f] = s]
    /\ watch' = [watch EXCEPT ![s] = TRUE]
    /\ tracked' = [tracked EXCEPT ![s] = {s}]
    /\ runner' = [runner EXCEPT ![s] = "loop"]
    /\ opener' = [opener EXCEPT ![s] = "watched"]
    /\ UNCHANGED <<kernelVars, closed, mapMu, monitors, ended, work, failed, cached, offer, on,
                   stolen, pending, reaper, ledgerVars, streamVars, failures>>

\* Observe fails, certainly when the shell is gone: the session has no watch.
StartUnwatched(s) ==
    /\ opener[s] = "committed"
    /\ s \in up => failures < MaxFailures
    /\ failures' = IF s \in up THEN failures + 1 ELSE failures
    /\ failed' = [failed EXCEPT ![s] = TRUE]
    /\ opener' = [opener EXCEPT ![s] = "watched"]
    /\ UNCHANGED <<kernelVars, closed, mapMu, monitors, ended, work, cached, offer, watchVars,
                   pending, reaper, ledgerVars, streamVars>>

----------------------------------------------------------------------------
(* reconcile, under the monitor's lock *)

\* The caller goes on: the opener lets processSessionsMu go, run waits again.
Returns(s, who) ==
    /\ work' = [work EXCEPT ![s] = Idle]
    /\ mapMu' = IF who = "opener" THEN NoOne ELSE mapMu
    /\ opener' = [opener EXCEPT ![s] = IF who = "opener" THEN "done" ELSE @]
    /\ runner' = [runner EXCEPT ![s] = IF who = "runner" THEN "loop" ELSE @]

Calls(s, who) ==
    /\ work[s] = Idle
    /\ who = "opener" => opener[s] = "watched"
    /\ who = "runner" => runner[s] = "called"

\* The monitor was closed while the caller waited for its lock.
ReconcileReturns(s, who) ==
    /\ Calls(s, who)
    /\ s \in ended
    /\ Returns(s, who)
    /\ UNCHANGED <<kernelVars, closed, monitors, ended, failed, cached, offer, watch, tracked,
                   fd, holder, on, stolen, pending, reaper, ledgerVars, streamVars, failures>>

\* Descendants reads the process table ...
ReconcileReads(s, who) ==
    /\ Calls(s, who)
    /\ s \notin ended
    /\ work' = [work EXCEPT ![s] = [by |-> who, entries |-> Descendants(Table, s, {})]]
    /\ UNCHANGED <<kernelVars, closed, opener, mapMu, monitors, ended, failed, cached, offer,
                   watchVars, pending, reaper, ledgerVars, streamVars, failures>>

\* Sync: entries that are new get a watch, and are left out when they are gone;
\* the watch of what is no longer wanted is dropped.
SyncKeeps(s, entries) == {e \in entries : ~watch[s] \/ e.pid \in tracked[s] \cup Alive}

\* Mutant: a watch that was installed is not remembered as tracked.
SyncTracksRoot(s, entries) == IF watch[s] THEN {s} ELSE tracked[s]

SyncTracks(s, entries) ==
    IF watch[s]
    THEN {s} \cup (PidsOf(entries) \cap (tracked[s] \cup Alive))
    ELSE tracked[s]

\* recordForeground: a pair that is another one is written to the record, and
\* remembered when the write succeeded.
RecordForeground(s, found, written) ==
    IF written /\ found # cached[s]
    THEN /\ cached' = [cached EXCEPT ![s] = found]
         /\ offer' = [offer EXCEPT ![s] = found]
    ELSE UNCHANGED <<cached, offer>>

\* ... reads each one's directory, in which some have exited meanwhile, installs
\* the watches, records the foreground and replaces the session's records.
ReconcileApplies(s, exited, written) ==
    LET read == {e \in work[s].entries : e.pid \notin exited} IN
    /\ work[s].by # "none"
    /\ exited \subseteq PidsOf(work[s].entries) \ Alive
    /\ tracked' = [tracked EXCEPT ![s] = SyncTracks(s, read)]
    /\ \E kept \in {SyncKeeps(s, read)} :
        /\ \E found \in {ForegroundOf(kept, s, front[s])} :
            /\ written \/ (found # cached[s] /\ failures < MaxFailures)
            /\ RecordForeground(s, found, written)
        /\ \E next \in {Records(s, kept)} : ReplaceSession(s, next)
    /\ failures' = IF written THEN failures ELSE failures + 1
    /\ failed' = [failed EXCEPT ![s] = FALSE]
    /\ Returns(s, work[s].by)
    /\ UNCHANGED <<kernelVars, closed, monitors, ended, watch, fd, holder, on, stolen,
                   pending, reaper>>

\* Descendants or Sync fails: the ledger stays as it was, with the watches that
\* were installed before the one that failed.
ReconcileFails(s, n) ==
    /\ work[s].by # "none"
    /\ failures < MaxFailures
    /\ failures' = failures + 1
    /\ n > 0 => watch[s]
    /\ \E pids \in InOrder(PidsOf(work[s].entries)) :
        /\ n <= Len(pids)
        /\ tracked' = [tracked EXCEPT ![s] = @ \cup ({pids[i] : i \in 1..n} \cap Alive)]
    /\ failed' = [failed EXCEPT ![s] = TRUE]
    /\ Returns(s, work[s].by)
    /\ UNCHANGED <<kernelVars, closed, monitors, ended, cached, offer, watch, fd, holder, on,
                   stolen, pending, reaper, ledgerVars, streamVars>>

----------------------------------------------------------------------------
(* watch.run: the goroutine that reads the kqueue by its descriptor *)

\* It calls Kevent on the descriptor it was started with, whoever has it now.
RunWaits(s) ==
    /\ runner[s] = "loop"
    /\ on' = [on EXCEPT ![s] = holder[fd[s]]]
    /\ runner' = [runner EXCEPT ![s] = IF holder[fd[s]] = NoOne THEN "off" ELSE "blocked"]
    /\ UNCHANGED <<kernelVars, monitorVars, watch, tracked, fd, holder, stolen, pending, reaper,
                   ledgerVars, streamVars, failures>>

\* An event comes, or the kqueue is closed under it.
RunWakes(s) ==
    LET t == on[s]
        open == \E f \in Fds : holder[f] = t
    IN /\ runner[s] = "blocked"
       /\ ~open \/ pending[t]
       /\ runner' = [runner EXCEPT ![s] = IF open THEN "called" ELSE "off"]
       /\ pending' = IF open THEN [pending EXCEPT ![t] = FALSE] ELSE pending
       /\ stolen' = IF open /\ t # s THEN stolen \cup {t} ELSE stolen
       /\ UNCHANGED <<kernelVars, monitorVars, watch, tracked, fd, holder, on, reaper,
                      ledgerVars, streamVars, failures>>

----------------------------------------------------------------------------
(* reap and processSessionEnded *)

Reap(s) ==
    /\ "end" \in Allowed
    /\ s \notin closed
    /\ closed' = closed \cup {s}
    /\ reaper' = [reaper EXCEPT ![s] = "ended"]
    /\ UNCHANGED <<kernelVars, opener, mapMu, monitors, ended, work, failed, cached, offer,
                   watchVars, pending, ledgerVars, streamVars, failures>>

\* The monitor is taken out of the map; with none there is nothing to stop.
EndTakes(s) ==
    /\ reaper[s] = "ended" /\ mapMu = NoOne
    /\ monitors' = monitors \ {s}
    /\ reaper' = [reaper EXCEPT ![s] = IF s \in monitors THEN "close" ELSE "records"]
    /\ UNCHANGED <<kernelVars, closed, opener, mapMu, ended, work, failed, cached, offer,
                   watchVars, pending, ledgerVars, streamVars, failures>>

\* monitor.close: the watch is closed under the monitor's lock ...
EndCloses(s) ==
    /\ reaper[s] = "close" /\ work[s] = Idle
    /\ ended' = ended \cup {s}
    /\ watch' = [watch EXCEPT ![s] = FALSE]
    /\ tracked' = [tracked EXCEPT ![s] = {}]
    /\ holder' = [f \in Fds |-> IF holder[f] = s THEN NoOne ELSE holder[f]]
    /\ pending' = [pending EXCEPT ![s] = FALSE]
    /\ reaper' = [reaper EXCEPT ![s] = "records"]
    /\ UNCHANGED <<kernelVars, closed, opener, mapMu, monitors, work, failed, cached, offer,
                   fd, runner, on, stolen, ledgerVars, streamVars, failures>>

\* ... and the records end after it was let go.
EndRecords(s) ==
    /\ reaper[s] = "records"
    /\ ReplaceSession(s, Nothing)
    /\ reaper' = [reaper EXCEPT ![s] = "done"]
    /\ UNCHANGED <<kernelVars, monitorVars, watchVars, pending, failures>>

----------------------------------------------------------------------------
(* process.observe *)

\* Subscription and snapshot under one lock.
Subscribe(o) ==
    /\ stream[o] = "off"
    /\ stream' = [stream EXCEPT ![o] = "live"]
    /\ view' = [view EXCEPT ![o] = processes]
    /\ seen' = [seen EXCEPT ![o] = revision]
    /\ UNCHANGED <<kernelVars, monitorVars, watchVars, pending, reaper, ledgerVars, queue, gone,
                   failures>>

\* The handler writes one event and the client applies it.
Sends(o) ==
    /\ queue[o] # <<>> /\ o \notin gone
    /\ view' = [view EXCEPT ![o] = Applied(@, Head(queue[o]))]
    /\ seen' = [seen EXCEPT ![o] = Head(queue[o]).rev]
    /\ queue' = [queue EXCEPT ![o] = Tail(@)]
    /\ UNCHANGED <<kernelVars, monitorVars, watchVars, pending, reaper, ledgerVars, stream, gone,
                   failures>>

\* The channel is closed and drained, or a write fails: the stream is closed.
StreamEnds(o) ==
    /\ \/ stream[o] = "cut" /\ queue[o] = <<>>
       \/ stream[o] \in {"live", "cut"} /\ queue[o] # <<>> /\ o \in gone
    /\ stream' = [stream EXCEPT ![o] = "over"]
    /\ queue' = [queue EXCEPT ![o] = <<>>]
    /\ UNCHANGED <<kernelVars, monitorVars, watchVars, pending, reaper, ledgerVars, view, seen,
                   gone, failures>>

\* The read beside the stream returns and gives the subscription back.
PeerNoticed(o) ==
    /\ stream[o] = "live" /\ o \in gone
    /\ stream' = [stream EXCEPT ![o] = "cut"]
    /\ UNCHANGED <<kernelVars, monitorVars, watchVars, pending, reaper, ledgerVars, queue, view,
                   seen, gone, failures>>

PeerDies(o) ==
    /\ "die" \in Allowed
    /\ stream[o] \in {"live", "cut"} /\ o \notin gone
    /\ gone' = gone \cup {o}
    /\ UNCHANGED <<kernelVars, monitorVars, watchVars, pending, reaper, ledgerVars, stream,
                   queue, view, seen, failures>>

----------------------------------------------------------------------------
Init ==
    /\ parent = [p \in Pids |-> Unborn] /\ image = [p \in Pids |-> 0]
    /\ up = Sessions /\ moves = 0 /\ front = [s \in Sessions |-> s]
    /\ closed = {} /\ opener = [s \in Sessions |-> "opening"] /\ mapMu = NoOne
    /\ monitors = {} /\ ended = {} /\ work = [s \in Sessions |-> Idle]
    /\ failed = [s \in Sessions |-> FALSE]
    /\ cached = [s \in Sessions |-> NoProgram] /\ offer = [s \in Sessions |-> NoProgram]
    /\ watch = [s \in Sessions |-> FALSE] /\ tracked = [s \in Sessions |-> {}]
    /\ pending = [s \in Sessions |-> FALSE]
    /\ fd = [s \in Sessions |-> 0] /\ holder = [f \in Fds |-> NoOne]
    /\ runner = [s \in Sessions |-> "off"] /\ on = [s \in Sessions |-> NoOne]
    /\ reaper = [s \in Sessions |-> "none"]
    /\ revision = 0 /\ sessions = [s \in Sessions |-> Nothing] /\ processes = Nothing
    /\ stream = [o \in Streams |-> "off"] /\ queue = [o \in Streams |-> <<>>]
    /\ view = [o \in Streams |-> Nothing] /\ seen = [o \in Streams |-> 0]
    /\ gone = {} /\ failures = 0 /\ stolen = {}

\* What the daemon's goroutines do by themselves for session s.
Reconciles(s) ==
    \/ \E who \in {"opener", "runner"} : ReconcileReturns(s, who) \/ ReconcileReads(s, who)
    \/ \E exited \in SUBSET Pids, written \in BOOLEAN : ReconcileApplies(s, exited, written)
    \/ \E n \in 0..Cardinality(Pids) : ReconcileFails(s, n)

OpenerStep(s) == StartCommits(s) \/ StartReturns(s) \/ StartObserves(s) \/ StartUnwatched(s)
RunnerStep(s) == RunWaits(s) \/ RunWakes(s)
ReaperStep(s) == EndTakes(s) \/ EndCloses(s) \/ EndRecords(s)
StreamStep(o) == Sends(o) \/ StreamEnds(o)

Kernel ==
    \/ \E q \in Sessions \cup Pids : Fork(q)
    \/ \E p \in Pids : Exec(p) \/ Exit(p)
    \/ \E s \in Sessions : ShellExits(s)
    \/ \E s \in Sessions, g \in Sessions \cup Pids : ToFront(s, g)

Next ==
    \/ Kernel
    \/ \E s \in Sessions : \/ Reap(s)
                           \/ OpenerStep(s) \/ Reconciles(s) \/ RunnerStep(s) \/ ReaperStep(s)
    \/ \E o \in Streams : Subscribe(o) \/ StreamStep(o) \/ PeerNoticed(o) \/ PeerDies(o)

\* Goroutines run, a client that is there reads, and a mutex hands itself to a
\* reaper that starves on it.
Fairness ==
    /\ \A s \in Sessions : /\ WF_vars(OpenerStep(s)) /\ WF_vars(Reconciles(s))
                           /\ WF_vars(RunnerStep(s)) /\ SF_vars(ReaperStep(s))
    /\ \A o \in Streams : WF_vars(StreamStep(o)) /\ WF_vars(PeerNoticed(o))

Safety == Init /\ [][Next]_vars

Spec == Safety /\ Fairness

----------------------------------------------------------------------------
(* What the inventory promises *)

\* A row of the process table, the id of a record, and an event of a stream.
Rows == [pid : Sessions \cup Pids, parent : Int, group : Int, image : Nat]
Ids == Sessions \X (Sessions \cup Pids)
Events == [rev : Nat, id : Ids, image : Nat, kind : {"started", "updated", "ended"}]

KernelOK ==
    /\ parent \in [Pids -> {Unborn, Launchd, Exited} \cup Sessions \cup Pids]
    /\ image \in [Pids -> Nat] /\ moves \in 0..MaxMoves
    /\ up \in SUBSET Sessions /\ front \in [Sessions -> Sessions \cup Pids]

MonitorOK ==
    /\ closed \in SUBSET Sessions /\ monitors \in SUBSET Sessions /\ ended \in SUBSET Sessions
    /\ opener \in [Sessions -> {"opening", "committed", "watched", "done"}]
    /\ mapMu \in Sessions \cup {NoOne}
    /\ \A s \in Sessions : mapMu = s <=> opener[s] \in {"committed", "watched"}
    /\ work \in [Sessions -> [by : {"none", "opener", "runner"}, entries : SUBSET Rows]]
    /\ failed \in [Sessions -> BOOLEAN]
    /\ reaper \in [Sessions -> {"none", "ended", "close", "records", "done"}]
    /\ failures \in 0..MaxFailures

WatchOK ==
    /\ watch \in [Sessions -> BOOLEAN] /\ pending \in [Sessions -> BOOLEAN]
    /\ tracked \in [Sessions -> SUBSET (Sessions \cup Pids)]
    /\ fd \in [Sessions -> Fds \cup {0}] /\ holder \in [Fds -> Sessions \cup {NoOne}]
    /\ runner \in [Sessions -> {"off", "loop", "blocked", "called"}]
    /\ on \in [Sessions -> Sessions \cup {NoOne}] /\ stolen \in SUBSET Sessions

LedgerOK ==
    /\ revision \in Nat /\ DOMAIN sessions = Sessions
    /\ \A s \in Sessions : /\ DOMAIN sessions[s] \subseteq Sessions \cup Pids
                           /\ \A p \in DOMAIN sessions[s] : sessions[s][p] \in Nat

StreamOK ==
    /\ stream \in [Streams -> {"off", "live", "cut", "over"}]
    /\ queue \in [Streams -> Seq(Events)] /\ seen \in [Streams -> Nat]
    /\ DOMAIN view = Streams /\ gone \in SUBSET Streams

\* Every variable holds a value of its kind, and processSessionsMu is held exactly
\* by an opener between its commit and its return.
TypeOK == KernelOK /\ MonitorOK /\ WatchOK /\ LedgerOK /\ StreamOK

\* A table of records that has of session s and pid p what the session's own records have.
Agrees(table, s, p) ==
    IF p \in DOMAIN sessions[s]
    THEN <<s, p>> \in DOMAIN table /\ table[<<s, p>>] = sessions[s][p]
    ELSE <<s, p>> \notin DOMAIN table

\* An event that says of its process what the session's own records have.
IsCurrent(e, s, p) ==
    IF p \in DOMAIN sessions[s]
    THEN e.kind # "ended" /\ e.image = sessions[s][p]
    ELSE e.kind = "ended"

\* The events a stream still carries about a process.
About(o, s, p) == {i \in 1..Len(queue[o]) : queue[o][i].id = <<s, p>>}

\* A client that applies what its stream carries to the snapshot it began with has
\* the ledger: the revisions it gets are consecutive, a stream that is not cut still
\* carries every one it has not got, the last event about a process says what is
\* recorded of it, and what no event is about the client has already (README 24-28,
\* publishLocked 94-112).
StreamFollowsTheLedger ==
    \A o \in Streams :
        /\ \A i \in 1..Len(queue[o]) : queue[o][i].rev = seen[o] + i
        /\ stream[o] = "live" =>
            /\ seen[o] + Len(queue[o]) = revision
            /\ DOMAIN view[o] \subseteq Ids
            /\ \A s \in Sessions, p \in Sessions \cup Pids :
                /\ \A i \in About(o, s, p) :
                      (\A j \in About(o, s, p) : j <= i) => IsCurrent(queue[o][i], s, p)
                /\ About(o, s, p) = {} => Agrees(view[o], s, p)

Untended(s) == failed[s] \/ ~watch[s] \/ s \in stolen

\* A record of a process that is gone never stays without someone on the way to
\* take it out, unless the last comparison failed, the session has no watch, or
\* another session's runner took its event (reconcile 92-98, Sync 68-83).
NoGhostsAtRest ==
    \A s \in Sessions, p \in Pids :
        /\ p \in DOMAIN sessions[s] /\ parent[p] = Exited
        /\ ~Untended(s)
        => pending[s] \/ runner[s] = "called" \/ work[s] # Idle \/ opener[s] = "watched"

\* Each process and its ancestors, as far up as there are processes.
Ancestors ==
    LET climb[n \in 0..Cardinality(Pids)] ==
            IF n = 0 THEN [p \in Sessions \cup Pids |-> {p}]
            ELSE [p \in Sessions \cup Pids |->
                    IF p \in Pids /\ parent[p] \notin {Unborn, Exited, Launchd}
                    THEN {p} \cup climb[n - 1][parent[p]]
                    ELSE {p}]
    IN climb[Cardinality(Pids)]

\* The walk over the table finds exactly the processes whose ancestry leads to the
\* shell, also through one that has exited meanwhile (Descendants 82-105).
DescendantsAreTheAncestry ==
    \A s \in up, exited \in SUBSET Alive :
        PidsOf(Descendants(Table, s, exited)) = {p \in Alive : s \in Ancestors[p]} \ exited

\* The reap of a session is never held up for ever by an opener, a reconcile or
\* another session's start, and once it has taken the session's records out of the
\* ledger nothing brings them back: no opener that began before the end, and no
\* notification that was on its way (process_monitor.go 11-12).
EndedSessionsLeave ==
    \A s \in Sessions : s \in closed ~> [](reaper[s] = "done" /\ sessions[s] = Nothing)

\* When nothing is on its way the ledger lists exactly the shell's descendants.
LedgerIsTheTreeAtRest ==
    \A s \in Sessions :
        /\ opener[s] = "done" /\ s \notin closed /\ s \in up /\ ~Untended(s)
        /\ ~pending[s] /\ runner[s] # "called" /\ work[s] = Idle
        => DOMAIN sessions[s] = {s} \cup PidsOf(Descendants(Table, s, {}))

\* The same promise with no allowance for another session's runner.
NoGhostsUnlessUnwatched ==
    \A s \in Sessions, p \in Pids :
        /\ p \in DOMAIN sessions[s] /\ parent[p] = Exited
        /\ ~failed[s] /\ watch[s]
        => pending[s] \/ runner[s] = "called" \/ work[s] # Idle \/ opener[s] = "watched"
=============================================================================

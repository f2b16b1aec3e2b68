# A formal model of soksak-sidecar-pty

`soksak-sidecar-pty` is a daemon that keeps terminal sessions alive across runs of the application
that shows them. It owns the pty, keeps the output, serves it to whoever attaches, stores it on disk
and stands the sessions back up after a restart. This directory models the parts of it in which
goroutines, clients, crashes and timers meet, checks them with TLC on small instances and proves with
TLAPS, for all instances, the safety invariants of every component, and that the ring implements the
abstract output its readers rely on.

## The system

| Component | State | Operations | Where |
|---|---|---|---|
| output ring | retained bytes, floor, leases, waiters, acked | write, trim, lease, consume, expire, resolve, read, end, restore, ack | `ring.go` |
| session and pump | written, renderer generation and mark, pause channel, closed | pump, attach, detach, ack, resize, reap | `session.go` |
| renderer streams | one goroutine pair per attach connection | `attach`, `attachLease`, `deliver` | `control.go`, `stream.go` |
| observers | a bounded queue of events per observer, tokens, displays | publish, next, prepare, adopt, observe, displays | `observer.go`, `session.go`, `control.go` |
| presence | displays, detach stamp, last output | abandon sweep | `session.go`, `main.go` |
| store and feed | a record and two output segments per session, a queue in memory | create, append, roll, mark ended, remove, output | `store.go`, `feed.go` |
| restore | records found at start | restore, report | `restore.go` |
| registry | sessions by id and pane, stopped | open, get, close, sweep, shutdown | `session.go` |
| control protocol | greeted or not, command table | dispatch | `control.go` |
| process inventory | records of descendants, revisions, streams | monitor, reconcile, observe | `process_monitor.go`, `process_inventory_state.go` |
| platform | pty, sockets, limits, process trees | | `process_*.go`, `listen_*.go`, ... |

The pump goroutine of a session reads the pty, writes the ring, offers the same bytes to the feed and
publishes them to observers, all under `session.mu`; it then waits while the attached renderer is a
window behind. Every attach connection has a goroutine that reads the ring and one that writes the
socket. Acks come on other connections. A close, the sweep, the shell's exit and the daemon's stop
all end in `reap`, which may run once. The feed's goroutine writes the store. Three locks
(`session.mu`, `ring.mu`, `registry.mu`) and per session two more (the segment writer's and the
record's) are taken and released many times within one operation, and that is where the hard
behaviours are:

* a value read under a lock and used after it was released (attach after lookup, the stop's segment);
* wake-ups through a one-slot channel, a condition variable and closed channels;
* a failing second half of an operation whose first half has taken effect (an attach by lease);
* clients that die without anything noticing;
* crashes between two file operations, and output that exists only in a queue;
* loss by budget that must be told, in the ring, in an observer's queue and in the store.

What makes each part correct: a sequence names one byte for ever (ring, store, restore); nobody waits
for something that already happened (ring, pump, observers); what is lost is told (observers,
store, process streams); the renderer is the last to attach (flow); only abandoned sessions end, and
those do (presence); a closed session does not come back and a stopped one does (store, registry); a
pane has one shell and every shell is reachable (registry); no write of a record undoes another
(record); the ledger holds no process that is gone (inventory).

## Modules

**`Ring`** models `ring.go`. Every method runs under `ring.mu` from end to end and is one action. A
byte is represented by the coordinate it was produced at, so that a byte filed under a wrong sequence
is visible. `trimLocked`'s loop over a map is given in closed form (`Overrun`, `Target`); `TrimLoop` is
the loop itself, and `TrimOrderIsIrrelevant` says that the two agree for every iteration order.
`RingProofs` holds its theorems.

**`Output`** is the abstract specification of a session's retained output: how much there has been, the
oldest coordinate kept, the promises that stand and where each reader is, with no buffer, waiter or trim
in it. A promise is withdrawn only by output that outgrows its budget; a reader is handed everything up
to the live edge and told of the end only when it has it all. `Ring!Log` is the refinement mapping and
`RingIsAnOutput` says that `Ring` implements it; `RingProofs` proves it.

**`Flow`** extends `Ring` with the pump, the requests that decide who the renderer is, the streams and
the acks. The pump is five places (`read`, `attached?`, `behind?`, `wait`, `reap`), because
`shouldPause` takes two locks one after the other; an ack is two steps for the same reason; an attach
is a lookup with the renderer's mark and then the ring. `AckOnAttach` says what the client does: ack
the start it was answered or only bytes it was sent. The daemon does not decide that. `FlowProofs` holds
its theorems.

**`Observer`** models one session's event stream as one observer sees it, by all three ways an observer
joins. Observers share nothing but the session, so one is enough. `ObserverProofs` holds its theorems.

**`Presence`** models who shows a session and the sweep. Times are ages counted up to one past the
window, which is all `abandonedSince` can tell apart. A lookup and the attach after it are two steps,
and so are the sweep's verdict and its reap. `PresenceProofs` holds its theorems.

**`Store`** models one session on disk: the record, the two segments, the feed's queue and goroutine,
the stop, the close, the shell's exit, the crash and the restore. A record is replaced by rename and
changes in one step. An append, a rotation, the stop write and a remove are several steps, and a
crash may fall between any two. Stored bytes are represented by their coordinates. `StoreProofs` holds
its theorems.

**`Registry`** models which sessions there are: opens on several connections, closes of a session and of
a window, the sweep, a shell's exit, the stop, crashes, and the restore and report of the next daemon.
What an operation does between two locks is one step, so an open is three (start the shell, register it
under `reg.mu`, write the record) and a close is four (take it out, remove the record, forget the
outcome and reap, return). A session is named by the number of its shell, because an id may be issued
twice over the life of a store. `RegistryProofs` holds its theorems.

**`Record`** models one record on disk and everyone who writes it: creation, stop, resizes, modes,
foreground and the clearing of the mark each read the record and publish a changed copy under its lock.
`since` is what a power cut may leave: every version since the last sync of the directory. A resize is
three steps (terminal, session, record), as in `session.resize`. It extends **`Environment`**, the
operators for `applyEnvironment` and for the command line a record keeps; `MCRecord!Reference` is the
reference definition they are checked against. `RecordProofs` holds `Record`'s theorems.

**`Inventory`** models the process ledger, its revisions and streams, the monitor of a session (set-up,
reconcile, foreground, end) and the darwin watch. The kernel forks, execs and ends processes at any
step, also between the read of the process table and the installation of a watch; kqueue descriptors are
numbers that are used again. It extends **`ProcessTree`**, the walk over the table. `InventoryProofs`
holds the theorems of both.

The `MC*` modules add symmetry sets and, for the record, the reference of the environment; the
`MC*.cfg` files give the constants. Definitions whose comment begins with "Mutant" are not part of any specification: each is a
plausible wrong version of the definition after it, kept to show that the property it belongs to
notices.

## Runs that hold

| Run | Instance | Shows |
|---|---|---|
| `ring` | capacity 3, budget 4, 2 leases, 2 readers, 8 bytes, chunks of 1 and 3, new and restored | coordinates, held leases, memory bound, no lost wake-up, cursors, trim order; the ring implements `Output` |
| `flow` | 2 renderers, 1 lease that may break or expire, window 2, low mark 1, chunks of 1 and 2, 3 bytes; clients die | the renderer mark is the last attach's; the pump holds off for a renderer it has seen; a waiting pump has a reason |
| `flow_live` | 2 renderers, chunks of a whole window, deaths | a paused pump resumes while its renderer's client is there |
| `flow_reap` | 1 renderer: death, detach, attach at a cursor, wrong acks, exit, close | a reaped session lets everyone go |
| `observer` | budget 2, ring 2, 4 bytes, 4 events, every way to join, resize, death, restart | every byte delivered or told, order and Opened first, budget, no lost wake-up; the end arrives; a dead client's prepared stream ends |
| `presence` | 2 renderers, 1 observer, window 2, 2 chunks, every event | the sweep ends only the abandoned; sessions nobody shows end |
| `store` | segments of 2, chunks of 1 and 2, 5 bytes, 2 restores; crash anywhere, close, exit | stored output is in place; nothing is lost unreported; a close leaves nothing |
| `store_stop` | segments of 2, chunks of 2, 2 restores; stop, crash, exit, failing calls, drain that times out | full means stopped on purpose and complete; a stop finishes |
| `inventory` | 1 session, 2 descendants, 1 stream with a buffer of 2, 2 kernel steps, 1 failing call | a stream's copy follows the ledger; nothing dead stays recorded while it is watched; the walk is the ancestry; an ended session's records leave for good |
| `registry` | 2 opens of 2 panes, 1 close, 2 shells per daemon, 2 starts, 2 of: crash, stop, sweep, exit, failing call | no orphaned shell; ended stays ended; a stop is not a close; lost means gone; one shell per pane; what is taken out ends |
| `record` | 2 resizers, 2 sizes, 3 writes, 2 restores, 2 of: crash, power cut, failing call; stop and close | no lost update; sizes agree; the stop's mark is durable; the environment is the reference |

The bounds are the smallest at which the cases happen: one write that passes the high mark by a byte, a
chunk that overflows a segment that is not empty, a gap that joins another, two leases of which one is
over budget, two renderers of which one is replaced, a window that can be half over. Longer outputs
repeat these cases at higher coordinates. Two opens and one close are what a race for a pane or for an id
needs, and two starts what a record needs to be wrong about the first; two resizers are what it takes
for terminal, session and record to be set in different orders; the ledger's stream buffer of 2 fills
with what one reconcile may publish. `Allowed` names the events an instance explores, so that an
expensive combination is split over two runs.

Some properties name the condition they hold under, each a history variable that records the one event
after which the code does something else:

* `SweepSparesTheShown`: no display was adopted over a standing detach stamp (`overStamp`); without
  this it is `SweepEndsOnlyTheAbandoned`, below;
* `StoredOutputIsInPlace` and `EveryByteIsOnItsWay`: no close or reap of the session has begun
  (`ending`). A crash in the middle of a remove, beside a feed that is still writing, can leave a record
  beside a segment that begins too late, in a session that was being ended. `EveryByteIsOnItsWay` also
  wants that no chunk was reported lost (`holed`) and that no rotation came between the two locks of a
  stop (`crossed`);
* `FullMeansNothingIsMissing`: none of these three; what happens after a rotation between the two locks
  is the run `store_stale`. A chunk that was lost is
  `MCStoreHole.cfg` below;
* `OneShellPerPane`: no other open of the pane was under way when it was opened, and no record of the
  pane was left without a session that shows the pane (`crowded`); without these it is
  `MCRegistryPane.cfg` and `MCRegistryTurn.cfg`;
* `EndedStaysEnded`, `StopIsNotAClose` and `LostMeansGone`: the session was not taken out before its
  record was written (`early`, see `MCStoreReopen.cfg`), no call on its record failed (`kept`) and its id
  was not issued again by a later daemon (`reissued`);
* `SizesAgreeAtRest`: the last resizes did not overlap and each was recorded (`apart`);
* `NoGhostsAtRest`: the last reconcile did not fail, the session has a watch, and no other session's
  runner took its event (`stolen`, see `MCInventoryThief.cfg`).

Each module with state has a type invariant (`TypeOK`, `FlowTypeOK`). All of them are theorems, and the
ring's is part of its run too.

Deadlock is not checked anywhere, because a session may end and clients may stop asking; that nobody
waits for ever is what the liveness properties and the no-lost-wake-up invariants say.

## Fairness

Goroutines that can run do run, so the pump, handlers, reaps, the feed and the stop are weakly fair; a
client that is there takes its bytes and acks them (`Flow`'s `ClientStep`), which is the protocol's
contract with it; time passes and the sweep's ticker fires (`Presence`). Nothing makes a shell write,
exit, a client come, leave or die, or a lease expire. In `Registry` every goroutine that has begun an
operation goes on with it. In `Inventory` the reaper is strongly fair: it needs a monitor's lock that
reconciles may take again and again, and `sync.Mutex` hands itself to a waiter that starves; everything
else there is weakly fair. `Store`'s `StalledSpec` leaves out the fairness of
the feed: a filesystem that has stopped answering.

## Where the code and what is said of it differ

The run `store_stale` checks one statement of the repository and TLC finds a behaviour of the code that
contradicts it: a stop beside a rotation records the old segment with the new coordinate.
`PROJECT.json` quotes the line.

### Further instances

These configurations check a statement in the same way, with the `MC` module of the same component
(`tlc -config MCFlowSkip.cfg MCFlow`), and TLC refutes each. They are kept beside the runs for whoever
changes that code: a change that makes one pass has settled the difference.

| Configuration | Property | The statement | What happens |
|---|---|---|---|
| `MCRingLease` | `AnsweredStartIsRetained` | `ring.go` 25-27: "a client further back than this is restarted rather than served bytes that no longer line up" | consuming a lease trims the bytes the answered start names |
| `MCFlowRefused` | `RefusalLeavesTheRenderer` | `attachment_test.go` 34: "the renderer that is there stopped owning backpressure when the one it replaced left" | a refused lease attach costs the streaming renderer its mark |
| `MCFlowSkip` | `RendererStreamIsRetained` | `ring.go` 25-27: "a client further back than this is restarted" | the pause is checked after the write, and the renderer's stream skips trimmed bytes silently |
| `MCFlowStarved` | `PausedPumpResumes` | `README.md` 35-37: "would leave a pane nothing can ever draw again" | a renderer that attaches at the live edge of a paused session gets nothing to ack, if its client acks only what it was sent |
| `MCObserverHeld` | `DeadPeerLetsGo` | `control.go` 304-306: "a dead peer would otherwise hold the observer forever" | a stream by `observe` has no reader, and a dead client holds it while the session is quiet |
| `MCPresenceGhost` | `DesertedSessionsEnd` | `main.go` 134-135: "leaves its shells running for as long as this daemon does" | a renderer that died beside a quiet shell keeps the session |
| `MCPresenceLookup` | `SweptSessionHasNoRenderer` | `session.go` 427-428: "A session with a renderer, ... doing work for someone" | an attach between lookup and verdict is swept |
| `MCStoreHole` | `HoleIsDegraded` | `feed.go` 25-26: "a hole in the stored output, which a restore reports as degraded" | a dropped chunk is made up for by later ones and the restore says full |
| `MCStoreDrain` | `StopMarkIsReached` | `session.go` 628-629: "A stop that ran ahead of the queue would record a coordinate the stored output does not reach" | the stop write comes before the drain |
| `MCStoreCrash` | `CoordinatesAreNotReused` | `store_coordinate_test.go` 8: "The stored output ends where the session reached, after a crash as after a stop" | queued output is lost by a crash and its coordinates are given out again |
| `MCStoreReopen` | `CloseLeavesNothing` | `session.go` 696-697: "a closed session is not recoverable" | a close before the creation write is undone by it |
| `MCStoreStalled` | `StopFinishes` | `feed.go` 116-117: "An unbounded wait stops at the first session whose store is not answering" | a stop waits without bound behind an append that does not return |
| `MCInventoryFork` | `LedgerIsTheTreeAtRest` | `README.md` 22-25: "plus descendants found from the shell's process ancestry" | a process that forks after the table was read and before its watch is installed has a child no event tells of |
| `MCInventoryThief` | `NoGhostsUnlessUnwatched` | `README.md` 28-29: "notifications trigger descendant snapshot comparison" | a runner whose watch was closed waits on a descriptor number that now names another session's kqueue, and takes its event |
| `MCRegistryPane` | `OnePerPane` | `control.go` 548-549: "Two shells behind one pane is a shell nobody can reach" | two opens both find no session |
| `MCRegistryTurn` | `OnePerPaneInTurn` | the same, and `restore.go` 63-64: "a later start with a reader that works may stand it up" | a session that failed to restore is stood up later beside the one its pane was given meanwhile |
| `MCRegistryLost` | `LostIsNeverRestored` | `restore.go` 73-74: "Until it runs, a report is unfinished and a caller must not count anything lost from it" | a report during the stop finds the table empty, is complete, and calls lost what the next start restores |
| `MCRecordPower` | `CleanEndSurvivesPower` | `store.go` 300: "must read as a crash if this process now dies" | the clearing of the mark is not synced, and a power cut brings the mark back |

Five more statements need no configuration of their own. `EventSequenceNeverRestarts`, added to
`MCObserver.cfg`, says what `SESSION-STATE.md` 41 says ("A restore that restarted it at zero would report a
gap that did not happen"): the event sequence does restart at zero. `StartedAtIsKept`, added to
`MCRecord.cfg`, says what `SESSION-STATE.md` 24 says ("When the work began. A new process would restamp it
and lose that"): a restore stamps its own time. `SweepEndsOnlyTheAbandoned`, added to `MCPresence.cfg`,
says what `session.go` 557-558 says ("Gaining a display clears the detach stamp exactly as a renderer
attach does"): an adopted display keeps the old detach stamp. `SizesAgree`, added to `MCRecord.cfg`, says
what `SESSION-STATE.md` 42 says ("The size applied to the pty, written to the record on every resize"): two
resizes end in different orders in the terminal and in the record. And `MCPresenceGhost.cfg` with no renderer, one observer and
"prepare" for "renderer" in `Allowed` refutes `abandon_test.go` 14-16 ("it ends rather than holding a shell
nobody can reach"): a prepared observer that died before the open stays a display.

`MCInventoryTwo.cfg` is a larger instance that holds: two sessions, whose openers and reapers meet at the
lock of the monitors' table.

`MCFlowStarved` depends on the client: with `AckOnAttach` the same property holds (`flow_live`).

## Proofs

`RingProofs` proves, for every capacity, lease budget, set of leases and readers, chunk size and
restored state, from `RingConstants` alone: type correctness, that coordinates never shift, that held
leases are retained, the memory bound, that no wake-up is lost, that cursors name what was drawn, and
that the window never moves back. Of the set of leases it is assumed that it is finite.

The inductive invariant `RingInv` is the conjunction of the checked invariants and one more,
`OvertakenReaderHasBytes`: a reader whose cursor the trim has passed has bytes to jump to. Without it a
reader behind an empty ring could park at the floor with a cursor that is not what it drew. One lemma
(`TrimFacts`) says what `trimLocked` leaves: a window that only moves forward, whose contents are a
suffix, no shorter than any held lease needs and no longer than the bound; `write`, `consumeLease` and
`expireLease` follow from it. `AppendKeepsCoordinates` and `SuffixKeepsCoordinates` carry the contents
through an append and a cut.

It also proves `Spec => RingIsAnOutput` from that invariant: the initial states map to initial
states of `Output`, and each operation of `ring.go` to a step of it or to none. Two of the steps need
more than their own definition. A lease that is consumed or expires makes the ring trim, and `Output`
says that this may withdraw no other promise: a lease over its budget would reach further back than the
ring keeps anything (`RetentionIsBounded` with `HeldLeaseIsRetained`), so there is none to break
(`NoLeaseIsOverrun`). A read copies what the slice holds and moves the cursor by its length, and
`Output` says the reader is then at the live edge: that is where the coordinates of the copied bytes end
(`BytesKeepTheirCoordinate`).

`TheTrimHasNoOrder` proves `TrimOrderIsIrrelevant`, for every finite set of leases and every order of
them. The loop's invariant is `TrimmedSoFar`: after the first `i` leases of the order, those of them that
are over budget are broken, and the target is the least of the floor the capacity leaves and the cursors
of those that are not. After the last one this is the closed form, in which no order occurs
(`TrimLoopIsTheClosedForm`). The loop is a recursive function, of which the prover knows only that it is
chosen to satisfy its equation; that a function satisfies it at all is `RunExists`, and every induction
here is over the least counterexample (`LeastNumber`).

The other seven proof modules are about components whose operations are several steps, so their
inductive invariants say where everyone may be in the middle. Each was checked with TLC on its run's
instance before it was proved, and every constant stays arbitrary under the module's named assumption
(`RecordConstants`, `FlowConstants`, `ObserverConstants`, `RegistryConstants`, `PresenceConstants`,
`StoreConstants`, `InventoryConstants`). The last one assumes that sessions and pids are finitely many
and that there are as many descriptors as sessions, as the kernel's limits make it.

`RecordProofs` proves `NoLostUpdate`, `StopMarkIsDurable` and `SizesAgreeAtRest`. The lock of a record
makes a read and a publish one change: whoever is about to publish still has the record as it is
(`CopyIsTheRecord`). `WritersKeepTheirPlace` says who may be writing in which part of the session's life,
`StopComesLast` that nothing which would take the stop's mark off can begin once it is set, and
`SizesOnTheirWay` what terminal, session and record hold while one resize is between them.

`FlowProofs` proves `RendererMarkIsExact`, `WaitingPumpHasAReason` and `PumpHoldsForTheRenderer`. Every
step of the session is one operation of its ring or leaves the ring alone (`SessionRunsItsRing`), so
everything `RingProofs` shows holds under the session too. Generations are given once, which is what
makes the comparison in `detach` identify the handler. The wake-up of the pump rests on two facts: a
detach the pump has not looked at has left a token (`DetachLeavesAToken`), and when the renderer is
below the low mark of a pump that waits without a token, an ack is on its way that read the very
position the pump waits at (`ReleaseIsComing`); only the pump moves that position, and not while it
waits.

`ObserverProofs` proves `EveryByteIsAccountedFor`, `EventsAdvance`, `QueueHoldsItsBudget` and
`WaitingHandlerHasNothing`. `Told(s, q, w)` says what a sequence of events has told of the events before
`q` and the output before `w`: nothing is skipped but what a gap names, and a gap told last ends where
the next output begins, so that `publishGap` may extend it. Each publish, whether it is queued,
joined to the last event or turned into a gap, carries `Told` on, and what the handler takes comes off the front. `Sound` says that the queue's byte count is
what it holds. That count is a recursive function (`Held`), and the prover knows nothing of recursion: that
it exists, is unique and splits off its first and its last event is proved from the least
counterexample (`LeastOf`), because the natural numbers are well founded.

`RegistryProofs` proves `NoOrphanShell`, `EndedStaysEnded`, `StopIsNotAClose`, `LostMeansGone` and
`OneShellPerPane`. `RegistryInv` has a part for each and one they share. `Shape`: what is under way in each
part of a daemon's life, that the table and the session objects name each other, and that a started
shell is its open's alone until it is registered. `Ended`: an id in the history was used, two objects
have one id only if it was issued twice, and a session whose record is not written is untouched or
excepted. `Stopped`: a shell is taken out of the table once, so that of close, sweep and stop one has it,
and a record stands until its session's own end or a close of its id. `Accounted`: a record is in the
report or in somebody's hand, so one that is in neither place is gone. `PaneIsOnes`: session, open and
record of an uncrowded pane are one another's. The steps that change several things at once are
first put into points (`...Effect`), one lemma says which parts a step leaves alone, and one lemma per
step keeps the invariant. The attempt to prove `OneShellPerPane` showed that an earlier form of it was false
beyond its run's instance: an id that is issued again over the record of a failed restore gives the
id's session another pane, and an open of the old pane then has a record with a session, yet not of
that pane. `Loose` has this case since.

`PresenceProofs` proves `SweepSparesTheShown`. Its invariant is what the sweep takes a detach stamp for
(`StampIsOfTheUnshown`): a stamp that stands says that nothing shows the session and that nothing has for
at least as long as the stamp is old. Whoever comes to show the session clears the stamp and only the
last that leaves makes one, so a stale detach, of a generation that was replaced, has to be shown to
leave it alone.

`StoreProofs` proves `StoredOutputIsInPlace`, `EveryByteIsOnItsWay`, `FullMeansNothingIsMissing` and
`CloseLeavesNothing`. `SoundSession` is about a session that nobody has begun to end, that lost no chunk
and whose stop no rotation crossed. On disk the record says where the newer segment begins and the older
one ends there (`Filed`), which has to survive every instant of a rotation. In memory the writer is at the
segment the record names, or between two with the next one empty (`WriterIsAtTheRecord`), what the feed
carries goes on where the disk ends, and a segment a stop has read is still the record's
(`StopReadTheRecord`). `StoredOutputIsInPlace` is proved for behaviours that are neither `holed` nor
`crossed`: the run that checks it without these has no event but an end that sets either, and after
another it is false (`MCStoreHole.cfg`, `store_stale`). `CloseLeavesNothing` is proved where `Allowed` has
none of "early", "fail" and "timeout": a close before the creation write is undone by it
(`MCStoreReopen.cfg`), a removal that fails leaves what it could not remove, and a feed that outlives
its drain may write after the removal. `CloseHasItsPlace` says that the last removal begins only after
the feed's goroutine has gone.

`InventoryProofs` proves `NoGhostsAtRest`, `StreamFollowsTheLedger`, `DescendantsAreTheAncestry` and the
safety half of `EndedSessionsLeave`, that nothing brings back the records a reaper has taken out. `Roles`
says where an opener, a runner and a reaper of one session may be together, `Descriptors` that a kqueue's
number is its session's, and `Watched` that what is recorded is watched and that a process that ended after
the table was read has left an event or a runner on its way; without that last fact a comparison that began
before the exit could put the process into the ledger after it. `Ledger` ties the table of all processes to
the sessions' records. `StreamFollowsTheLedger` is inductive as it stands because it speaks of one process
at a time: the last queued event about it is what the ledger has, and with none queued the client's copy
is. `DescendantsAreTheAncestry` compares two recursive functions, the queue's walk down from the shell and
the climb up from a process. Both are shown to be the levels of one relation; level by level the
set grows or stays, and as it can grow no more often than there are processes it has settled by the last
one (`LevelsSettle`), so that walk and climb, which take different numbers of steps, end at the same.

Two kinds of property are model-checked only. Liveness: fairness and ENABLED are outside what the prover
handles. And `EnvironmentIsTheReference`: `applyEnvironment` and its reference are built with operators
that take an operator or choose an order (`SelectSeq`, `SetToSeq`), of which the provers know nothing for
sequences of any length, and the run compares them over the inputs of its instance.

## Not modelled

* Formatting and parsing of requests, records and frames, the command table and the greeting (one flag
  per connection), logging, the pty and process calls of the platforms, sockets, the token file and the
  build. The platforms without a process event source refuse `process.observe` and keep no state.
* The reading and parsing of `ps` and `lsof`: `Inventory` has the table as the kernel had it when it was
  read. Pids are not used again within an instance.
* `deliver`'s batching: a flush may come whenever there is something to flush.
* A second handler on a prepared observer's queue (`observe` with a token of a prepared observer).
* `processSessionStarted`'s branch for a monitor that is there already and `restoreOne`'s for a registry
  that was stopped: nothing reaches either, because an id is issued once per daemon and the stop is
  listened for after the restore.
* In `Registry` all sessions belong to one window, and what a record holds besides its pane and its mark
  is left to `Record` and `Store`. A crash of the daemon hangs its shells up.
* In `Record` a power cut leaves one of the versions that were published; a filesystem that leaves an
  empty file after a rename that was not synced is not modelled.

## Plan

1. The second handler of an observer, in `Observer`.
2. `Delivery`: batching of `deliver`; the greeting's gate in `answer`.

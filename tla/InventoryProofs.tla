--------------------------- MODULE InventoryProofs ---------------------------
(***************************************************************************)
(* What the inventory promises, for any number of sessions, processes and  *)
(* streams, and for any number of forks, exits and failing calls.          *)
(*                                                                         *)
(* What the steps need of the walk over the process table is that it finds *)
(* rows of the table; that it finds the ancestry is proved by itself.      *)
(***************************************************************************)
EXTENDS Inventory, FiniteSetTheorems, SequenceTheorems, TLAPS

\* Where an opener, a runner and a reaper of one session may be at the same time: nothing
\* runs before the commit, the monitor's lock has one holder, and nothing begins once the
\* reaper has closed the monitor, or has found none.
Roles ==
    \A s \in Sessions :
        /\ opener[s] \in {"opening", "committed"} =>
            /\ ~watch[s] /\ runner[s] = "off" /\ work[s] = Idle
            /\ DOMAIN sessions[s] \subseteq {s}
        /\ work[s] = Idle \/ work[s].by \in {"opener", "runner"}
        /\ work[s].by = "opener" => opener[s] = "watched"
        /\ work[s].by = "runner" => runner[s] = "called"
        /\ s \notin closed => reaper[s] = "none"
        /\ s \notin monitors /\ reaper[s] \in {"none", "ended"} =>
            opener[s] \in {"opening", "done"} /\ runner[s] = "off" /\ work[s] = Idle
        /\ s \in ended => ~watch[s] /\ reaper[s] \in {"records", "done"}
        /\ reaper[s] = "close" => opener[s] \in {"opening", "done"}
        /\ reaper[s] \in {"records", "done"} =>
            /\ opener[s] \in {"opening", "done"} /\ work[s] = Idle
            /\ s \in ended \/ runner[s] = "off"
        /\ reaper[s] = "done" => sessions[s] = Nothing

\* A session's kqueue has the descriptor the session keeps, and a runner waits on one.
Descriptors ==
    /\ \A s \in Sessions :
        /\ runner[s] # "off" => fd[s] \in Fds
        /\ runner[s] = "blocked" => on[s] \in Sessions
    /\ \A f \in Fds : holder[f] # NoOne =>
        fd[holder[f]] = f /\ opener[holder[f]] \notin {"opening", "committed"}

\* What is recorded of a session that has a watch is watched, and a process that ends while
\* it is watched and read about leaves an event, or a runner that waits its turn.
Watched ==
    \A s \in Sessions : watch[s] =>
        /\ DOMAIN sessions[s] \cap Pids \subseteq tracked[s]
        /\ s \notin stolen =>
            \A e \in work[s].entries :
                e.pid \in tracked[s] \cap Pids /\ parent[e.pid] = Exited =>
                    pending[s] \/ (work[s].by = "opener" /\ runner[s] = "called")

\* The ledger has what the sessions' records have, and a stream that is off has nothing.
Ledger ==
    /\ DOMAIN processes \subseteq Ids
    /\ \A s \in Sessions, p \in Sessions \cup Pids : Agrees(processes, s, p)
    /\ \A o \in Streams : stream[o] = "off" => queue[o] = <<>>

\* The conjunction that every step preserves.
InventoryInv ==
    TypeOK /\ Roles /\ Descriptors /\ Watched /\ NoGhostsAtRest /\ Ledger /\ StreamFollowsTheLedger

----------------------------------------------------------------------------
(* Pids, rows and records *)

\* Sessions and pids are numbers apart from each other and from the kernel's own.
LEMMA Numbers ==
    /\ \A s \in Sessions : s \in Nat /\ s # NoOne /\ s # Launchd /\ s # Exited /\ s \notin Pids
    /\ \A p \in Pids : p \in Nat /\ p # Unborn /\ p # Launchd /\ p # Exited /\ p \notin Sessions
    /\ Unborn # Exited /\ Launchd # Exited /\ NoOne \notin Sessions
BY InventoryConstants DEF Unborn, Launchd, Exited, NoOne

\* The pids of some rows.
LEMMA PidsOfFacts ==
    /\ \A rows, p : p \in PidsOf(rows) <=> \E e \in rows : e.pid = p
    /\ \A rows : (\A e \in rows : e \in Rows) => PidsOf(rows) \subseteq Sessions \cup Pids
BY DEF PidsOf, Rows

\* Rows are of sessions' shells and of processes that run.
LEMMA TableFacts ==
    ASSUME KernelOK
    PROVE  \A e \in Table : e \in Rows /\ (e.pid \in Pids => e.pid \in Alive)
<1> SUFFICES ASSUME NEW e \in Table PROVE e \in Rows /\ (e.pid \in Pids => e.pid \in Alive)
  OBVIOUS
<1>1. CASE \E p \in Alive : e = Row(p)
  <2>1. PICK p \in Alive : e = Row(p)
    BY <1>1
  <2>2. p \in Pids /\ image[p] \in Nat /\ parent[p] \in Int /\ p \in Int
    <3>1. p \in Pids
      BY DEF Alive
    <3>2. image[p] \in Nat /\ parent[p] \in {Unborn, Launchd, Exited} \cup Sessions \cup Pids
      BY <3>1 DEF KernelOK
    <3> QED BY <3>1, <3>2, Numbers DEF Unborn, Launchd, Exited
  <2> QED BY <2>1, <2>2 DEF Row, Rows
<1>2. CASE \E s \in up : e = ShellRow(s)
  <2>1. PICK s \in up : e = ShellRow(s)
    BY <1>2
  <2>2. s \in Sessions /\ s \in Int /\ s \notin Pids
    BY Numbers DEF KernelOK
  <2> QED BY <2>1, <2>2 DEF ShellRow, Rows, Launchd
<1> QED BY <1>1, <1>2 DEF Table

\* The walk finds rows of the table.
LEMMA DescendantsAreRows ==
    ASSUME NEW rows, NEW root, NEW exited
    PROVE  Descendants(rows, root, exited) \subseteq rows
BY DEF Descendants

\* The records of a session are of its shell and of the entries.
LEMMA RecordsFacts ==
    ASSUME NEW s \in Sessions, NEW entries \in SUBSET Rows
    PROVE  /\ DOMAIN Records(s, entries) = {s} \cup PidsOf(entries)
           /\ DOMAIN Records(s, entries) \subseteq Sessions \cup Pids
           /\ \A p \in DOMAIN Records(s, entries) : Records(s, entries)[p] \in Nat
<1>1. DOMAIN Records(s, entries) = {s} \cup PidsOf(entries)
  BY DEF Records
<1>2. ASSUME NEW p \in {s} \cup PidsOf(entries), p # s
      PROVE  Records(s, entries)[p] \in Nat
  <2>1. \E e \in entries : e.pid = p
    BY <1>2, PidsOfFacts
  <2>2. (CHOOSE e \in entries : e.pid = p) \in entries
    BY <2>1
  <2>3. Records(s, entries)[p] = (CHOOSE e \in entries : e.pid = p).image
    BY <1>2 DEF Records
  <2> QED BY <2>2, <2>3 DEF Rows
<1>3. Records(s, entries)[s] \in Nat
  BY DEF Records
<1>4. PidsOf(entries) \subseteq Sessions \cup Pids
  BY PidsOfFacts
<1> QED BY <1>1, <1>2, <1>3, <1>4

----------------------------------------------------------------------------
(* What a step leaves of what it does not touch *)

\* The kernel's part.
LEMMA KernelFrame ==
    ASSUME KernelOK, UNCHANGED <<parent, image, moves, up, front>>
    PROVE  KernelOK'
BY DEF KernelOK

\* The monitors' part.
LEMMA MonitorFrame ==
    ASSUME MonitorOK,
           UNCHANGED <<closed, monitors, ended, opener, mapMu, work, failed, reaper, failures>>
    PROVE  MonitorOK'
BY DEF MonitorOK

\* The watches' part.
LEMMA WatchFrame ==
    ASSUME WatchOK, UNCHANGED <<watch, pending, tracked, fd, holder, runner, on, stolen>>
    PROVE  WatchOK'
BY DEF WatchOK

\* The ledger's part.
LEMMA LedgerFrame ==
    ASSUME LedgerOK, UNCHANGED <<revision, sessions>>
    PROVE  LedgerOK'
BY DEF LedgerOK

\* The streams' part.
LEMMA StreamFrame ==
    ASSUME StreamOK, UNCHANGED <<stream, queue, seen, view, gone>>
    PROVE  StreamOK'
BY DEF StreamOK

\* The roles.
LEMMA RolesFrame ==
    ASSUME Roles,
           UNCHANGED <<opener, watch, runner, work, sessions, closed, monitors, ended, reaper>>
    PROVE  Roles'
BY DEF Roles

\* The descriptors.
LEMMA DescriptorsFrame ==
    ASSUME Descriptors, UNCHANGED <<opener, runner, fd, on, holder>>
    PROVE  Descriptors'
BY DEF Descriptors

\* The watched and the ghosts.
Haunted == Watched /\ NoGhostsAtRest

\* What a step leaves of them when it touches nothing they are about.
LEMMA HauntedFrame ==
    ASSUME Haunted,
           UNCHANGED <<watch, sessions, tracked, stolen, work, parent, pending, runner, failed, opener>>
    PROVE  Haunted'
BY DEF Haunted, Watched, NoGhostsAtRest, Untended

\* One stream follows the ledger.
Follows(o) ==
    /\ \A i \in 1..Len(queue[o]) : queue[o][i].rev = seen[o] + i
    /\ stream[o] = "live" =>
        /\ seen[o] + Len(queue[o]) = revision
        /\ DOMAIN view[o] \subseteq Ids
        /\ \A s \in Sessions, p \in Sessions \cup Pids :
            /\ \A i \in About(o, s, p) :
                  (\A j \in About(o, s, p) : j <= i) => IsCurrent(queue[o][i], s, p)
            /\ About(o, s, p) = {} => Agrees(view[o], s, p)

\* What the streams promise, stream by stream.
LEMMA EachStream ==
    /\ StreamFollowsTheLedger <=> \A o \in Streams : Follows(o)
    /\ StreamFollowsTheLedger' <=> \A o \in Streams : Follows(o)'
BY DEF StreamFollowsTheLedger, Follows

\* A stream that a step leaves alone, while the records stay.
LEMMA FollowsFrame ==
    ASSUME NEW o \in Streams, Follows(o), UNCHANGED <<revision, sessions>>,
           queue'[o] = queue[o], seen'[o] = seen[o], stream'[o] = stream[o], view'[o] = view[o]
    PROVE  Follows(o)'
<1>1. \A s \in Sessions, p \in Sessions \cup Pids :
        /\ About(o, s, p)' = About(o, s, p)
        /\ (Agrees(view[o], s, p) <=> Agrees(view[o], s, p)')
        /\ \A i \in 1..Len(queue[o]) : IsCurrent(queue[o][i], s, p) <=> IsCurrent(queue[o][i], s, p)'
  BY DEF About, Agrees, IsCurrent
<1>2. \A s \in Sessions, p \in Sessions \cup Pids : About(o, s, p) \subseteq 1..Len(queue[o])
  BY DEF About
<1> QED BY <1>1, <1>2 DEF Follows

\* The ledger and the streams that follow it.
Carried == Ledger /\ StreamFollowsTheLedger

\* What a step leaves of the ledger and the streams when it touches neither.
LEMMA CarriedFrame ==
    ASSUME Carried, UNCHANGED <<revision, sessions, processes, stream, queue, view, seen>>
    PROVE  Carried'
<1>1. Ledger'
  BY DEF Carried, Ledger, Agrees
<1>2. ASSUME NEW o \in Streams PROVE Follows(o)'
  BY EachStream, FollowsFrame DEF Carried
<1> QED BY <1>1, <1>2, EachStream DEF Carried

----------------------------------------------------------------------------
(* Descriptors *)

\* A set of numbers that is not empty has a least one.
LEMMA LeastNumber ==
    ASSUME NEW T \in SUBSET Nat, T # {}
    PROVE  \E x \in T : \A y \in T : x <= y
<1> DEFINE R == OpToRel(<, Nat)
<1>1. IsWellFoundedOn(R, Nat)
  BY NatLessThanWellFounded
<1>2. \E x \in T : \A y \in T : ~(<<y, x>> \in R)
  <2> HIDE DEF R
  <2> QED BY <1>1, WFMin
<1>3. PICK x \in T : \A y \in T : ~(<<y, x>> \in OpToRel(<, Nat))
  BY <1>2
<1>4. \A y \in T : ~(y < x)
  BY <1>3 DEF OpToRel
<1> QED BY <1>4

\* A session that has no kqueue yet finds a descriptor that is free: each of the others
\* holds one at most, and there are as many as sessions.
LEMMA ADescriptorIsFree ==
    ASSUME WatchOK, Descriptors, NEW s \in Sessions, opener[s] = "committed"
    PROVE  /\ Min({x \in Fds : holder[x] = NoOne}) \in Fds
           /\ holder[Min({x \in Fds : holder[x] = NoOne})] = NoOne
<1> DEFINE free == {x \in Fds : holder[x] = NoOne}
<1>1. free # {}
  <2> SUFFICES ASSUME \A x \in Fds : holder[x] # NoOne PROVE FALSE
    OBVIOUS
  <2>1. \A x \in Fds : holder[x] \in Sessions \ {s} /\ fd[holder[x]] = x
    BY DEF Descriptors, WatchOK
  <2> DEFINE h == [x \in Fds |-> holder[x]]
  <2>2. h \in Injection(Fds, Sessions \ {s})
    <3>1. h \in [Fds -> Sessions \ {s}]
      BY <2>1
    <3>2. \A a, b \in Fds : h[a] = h[b] => a = b
      BY <2>1
    <3> HIDE DEF h
    <3> QED BY <3>1, <3>2 DEF Injection, IsInjective
  <2>3. /\ IsFiniteSet(Sessions \ {s}) /\ Cardinality(Sessions \ {s}) = Cardinality(Sessions) - 1
        /\ Cardinality(Sessions) \in Nat /\ Cardinality(Fds) \in Nat
    BY InventoryConstants, FS_RemoveElement, FS_CardinalityType
  <2>4. Cardinality(Fds) <= Cardinality(Sessions \ {s})
    <3> HIDE DEF h
    <3> QED BY <2>2, <2>3, FS_Injection
  <2> QED BY <2>3, <2>4, InventoryConstants
<1>2. free \in SUBSET Nat
  BY InventoryConstants
<1>3. \E x \in free : \A y \in free : x <= y
  <2> HIDE DEF free
  <2> QED BY <1>1, <1>2, LeastNumber
<1>4. Min(free) \in free
  BY <1>3 DEF Min
<1> QED BY <1>4

----------------------------------------------------------------------------
(* The ledger's changes *)

\* Pids in order are a sequence that has each of them once.
LEMMA InOrderFacts ==
    ASSUME NEW S \in SUBSET (Sessions \cup Pids), NEW q \in InOrder(S)
    PROVE  /\ q \in Seq(S) /\ Len(q) \in Nat
           /\ \A i \in 1..Len(q) : q[i] \in S
           /\ \A i, j \in 1..Len(q) : q[i] = q[j] => i = j
           /\ \A p \in S : \E i \in 1..Len(q) : q[i] = p
<1> DEFINE n == Cardinality(S)
<1>1. IsFiniteSet(S) /\ n \in Nat
  <2>1. IsFiniteSet(Sessions \cup Pids)
    BY InventoryConstants, FS_Union
  <2> QED BY <2>1, FS_Subset, FS_CardinalityType
<1>2. q \in [1..n -> S] /\ \A i, j \in 1..n : i < j => q[i] < q[j]
  BY DEF InOrder
<1> HIDE DEF n
<1>3. q \in Seq(S) /\ Len(q) = n
  BY <1>1, <1>2
<1>4. \A i \in 1..n : q[i] \in S /\ q[i] \in Nat
  BY <1>2, Numbers
<1>5. \A i, j \in 1..n : q[i] = q[j] => i = j
  BY <1>1, <1>2, <1>4
<1>6. \A p \in S : \E i \in 1..n : q[i] = p
  <2>1. q \in Injection(1..n, S)
    BY <1>2, <1>5 DEF Injection, IsInjective
  <2>2. Cardinality(1..n) = n
    BY <1>1, FS_Interval
  <2>3. q \in Surjection(1..n, S)
    BY <1>1, <2>1, <2>2, FS_Injection DEF n
  <2> QED BY <2>3 DEF Surjection
<1> QED BY <1>1, <1>3, <1>4, <1>5, <1>6

\* What a change of a session's records publishes: each event about a process of it says
\* what the new records have, a process no event is about has kept its record, and the
\* numbers go on from the ledger's.
Tells(events, s, next) ==
    /\ events \in Seq(Events) /\ Len(events) \in Nat
    /\ \A i \in 1..Len(events) :
        /\ events[i].rev = revision + i
        /\ \E p \in Sessions \cup Pids :
            /\ events[i].id = <<s, p>>
            /\ IF p \in DOMAIN next
               THEN events[i].kind # "ended" /\ events[i].image = next[p]
               ELSE events[i].kind = "ended"
    /\ \A p \in Sessions \cup Pids :
        (\A i \in 1..Len(events) : events[i].id # <<s, p>>) =>
            /\ p \notin ChangedIDs(sessions[s], next)
            /\ p \notin DOMAIN sessions[s] \ DOMAIN next

\* What replaceSession publishes tells the change.
LEMMA ChangesFacts ==
    ASSUME NEW s \in Sessions, LedgerOK, NEW next,
           DOMAIN next \subseteq Sessions \cup Pids, \A p \in DOMAIN next : next[p] \in Nat,
           NEW set \in InOrder(ChangedIDs(sessions[s], next)),
           NEW del \in InOrder(DOMAIN sessions[s] \ DOMAIN next)
    PROVE  Tells(Changes(s, sessions[s], next, set, del), s, next)
<1> DEFINE prev == sessions[s]
           changed == ChangedIDs(prev, next)
           ends == DOMAIN prev \ DOMAIN next
           events == Changes(s, prev, next, set, del)
           n == Len(set)
           m == Len(del)
<1>1. /\ DOMAIN prev \subseteq Sessions \cup Pids /\ revision \in Nat
      /\ \A p \in DOMAIN prev : prev[p] \in Nat
  BY DEF LedgerOK
<1>2. /\ changed \in SUBSET (Sessions \cup Pids) /\ ends \in SUBSET (Sessions \cup Pids)
      /\ changed \subseteq DOMAIN next /\ ends \subseteq DOMAIN prev /\ ends \cap DOMAIN next = {}
  BY <1>1 DEF ChangedIDs
<1>3. /\ n \in Nat /\ \A i \in 1..n : set[i] \in changed
      /\ \A p \in changed : \E i \in 1..n : set[i] = p
  <2> HIDE DEF changed
  <2>1. set \in InOrder(changed)
    BY DEF changed
  <2> QED BY <1>2, <2>1, InOrderFacts
<1>4. /\ m \in Nat /\ \A i \in 1..m : del[i] \in ends
      /\ \A p \in ends : \E i \in 1..m : del[i] = p
  <2> HIDE DEF ends
  <2>1. del \in InOrder(ends)
    BY DEF ends
  <2> QED BY <1>2, <2>1, InOrderFacts
<1>5. /\ n + m \in Nat /\ DOMAIN events = 1..(n + m)
      /\ \A i \in 1..n : events[i] = [rev |-> revision + i, id |-> <<s, set[i]>>, image |-> next[set[i]],
                                      kind |-> IF set[i] \in DOMAIN prev THEN "updated" ELSE "started"]
      /\ \A i \in (n + 1)..(n + m) :
            events[i] = [rev |-> revision + i, id |-> <<s, del[i - n]>>, image |-> prev[del[i - n]],
                         kind |-> "ended"]
  BY <1>3, <1>4 DEF Changes
<1>6. \A i \in (n + 1)..(n + m) : i - n \in 1..m
  BY <1>3, <1>4
<1>e. events = [i \in 1..(n + m) |-> events[i]]
  BY DEF Changes
<1> HIDE DEF changed, ends, events, n, m, prev
<1>7. \A i \in 1..n :
        /\ events[i] \in Events /\ events[i].rev = revision + i /\ events[i].id = <<s, set[i]>>
        /\ events[i].kind # "ended" /\ events[i].image = next[set[i]]
        /\ set[i] \in DOMAIN next /\ set[i] \in Sessions \cup Pids
  <2> SUFFICES ASSUME NEW i \in 1..n
               PROVE  /\ events[i] \in Events /\ events[i].rev = revision + i /\ events[i].id = <<s, set[i]>>
                      /\ events[i].kind # "ended" /\ events[i].image = next[set[i]]
                      /\ set[i] \in DOMAIN next /\ set[i] \in Sessions \cup Pids
    OBVIOUS
  <2>1. set[i] \in DOMAIN next /\ set[i] \in Sessions \cup Pids /\ next[set[i]] \in Nat
    BY <1>2, <1>3
  <2>2. <<s, set[i]>> \in Ids /\ revision + i \in Nat
    BY <1>1, <1>3, <2>1 DEF Ids
  <2>3. PICK k \in {"updated", "started"} :
          events[i] = [rev |-> revision + i, id |-> <<s, set[i]>>, image |-> next[set[i]], kind |-> k]
    BY <1>5
  <2> QED BY <2>1, <2>2, <2>3 DEF Events
<1>8. \A i \in (n + 1)..(n + m) :
        /\ events[i] \in Events /\ events[i].rev = revision + i /\ events[i].id = <<s, del[i - n]>>
        /\ events[i].kind = "ended" /\ del[i - n] \notin DOMAIN next
        /\ del[i - n] \in Sessions \cup Pids
  <2> SUFFICES ASSUME NEW i \in (n + 1)..(n + m)
               PROVE  /\ events[i] \in Events /\ events[i].rev = revision + i /\ events[i].id = <<s, del[i - n]>>
                      /\ events[i].kind = "ended" /\ del[i - n] \notin DOMAIN next
                      /\ del[i - n] \in Sessions \cup Pids
    OBVIOUS
  <2>1. del[i - n] \in ends
    BY <1>4, <1>6
  <2>2. del[i - n] \notin DOMAIN next /\ del[i - n] \in Sessions \cup Pids /\ prev[del[i - n]] \in Nat
    BY <1>1, <1>2, <2>1
  <2>3. <<s, del[i - n]>> \in Ids /\ revision + i \in Nat
    BY <1>1, <1>3, <1>4, <2>2 DEF Ids
  <2>4. events[i] = [rev |-> revision + i, id |-> <<s, del[i - n]>>, image |-> prev[del[i - n]],
                     kind |-> "ended"]
    BY <1>5
  <2> QED BY <2>2, <2>3, <2>4 DEF Events
<1>9. \A i \in 1..(n + m) : i \in 1..n \/ i \in (n + 1)..(n + m)
  BY <1>3, <1>4
<1>10. events \in Seq(Events) /\ Len(events) = n + m
  <2>1. \A i \in 1..(n + m) : events[i] \in Events
    BY <1>7, <1>8, <1>9
  <2>2. events \in [1..(n + m) -> Events]
    BY <1>e, <2>1
  <2> QED BY <1>5, <2>2
<1>11. ASSUME NEW i \in 1..(n + m)
       PROVE  /\ events[i].rev = revision + i
              /\ \E p \in Sessions \cup Pids :
                    /\ events[i].id = <<s, p>>
                    /\ IF p \in DOMAIN next
                       THEN events[i].kind # "ended" /\ events[i].image = next[p]
                       ELSE events[i].kind = "ended"
  BY <1>7, <1>8, <1>9
<1>12. ASSUME NEW p \in Sessions \cup Pids, \A i \in 1..(n + m) : events[i].id # <<s, p>>
       PROVE  p \notin changed /\ p \notin ends
  <2>1. p \notin changed
    <3> SUFFICES ASSUME p \in changed PROVE FALSE
      OBVIOUS
    <3>1. PICK i \in 1..n : set[i] = p
      BY <1>3
    <3>2. i \in 1..(n + m)
      BY <1>3, <1>4
    <3> QED BY <1>7, <1>12, <3>1, <3>2
  <2>2. p \notin ends
    <3> SUFFICES ASSUME p \in ends PROVE FALSE
      OBVIOUS
    <3>1. PICK i \in 1..m : del[i] = p
      BY <1>4
    <3>2. n + i \in (n + 1)..(n + m) /\ n + i \in 1..(n + m) /\ (n + i) - n = i
      BY <1>3, <1>4
    <3> QED BY <1>8, <1>12, <3>1, <3>2
  <2> QED BY <2>1, <2>2
<1>13. Tells(events, s, next)
  BY <1>3, <1>4, <1>10, <1>11, <1>12 DEF Tells, changed, ends, prev
<1> QED BY <1>13 DEF events, prev

\* A process that neither changed nor ended has the record it had.
LEMMA KeptRecord ==
    ASSUME NEW prev, NEW next, NEW p, p \notin ChangedIDs(prev, next), p \notin DOMAIN prev \ DOMAIN next
    PROVE  (p \in DOMAIN prev <=> p \in DOMAIN next) /\ (p \in DOMAIN next => prev[p] = next[p])
BY DEF ChangedIDs

\* A queue with events at its end, and what fits of it.
LEMMA QueueFacts ==
    ASSUME NEW S, NEW q \in Seq(S), NEW e \in Seq(S), NEW n \in Nat
    PROVE  /\ q \o e \in Seq(S) /\ Len(q \o e) = Len(q) + Len(e) /\ Len(q) \in Nat /\ Len(e) \in Nat
           /\ \A i \in 1..Len(q) : (q \o e)[i] = q[i]
           /\ \A i \in (Len(q) + 1)..(Len(q) + Len(e)) : (q \o e)[i] = e[i - Len(q)] /\ i - Len(q) \in 1..Len(e)
           /\ n < Len(q \o e) => /\ SubSeq(q \o e, 1, n) \in Seq(S) /\ Len(SubSeq(q \o e, 1, n)) = n
                                 /\ \A i \in 1..n : SubSeq(q \o e, 1, n)[i] = (q \o e)[i]
<1> DEFINE a == q \o e
<1>1. /\ a \in Seq(S) /\ Len(a) = Len(q) + Len(e) /\ Len(q) \in Nat /\ Len(e) \in Nat
      /\ \A i \in 1..Len(q) : a[i] = q[i]
      /\ \A i \in (Len(q) + 1)..(Len(q) + Len(e)) : a[i] = e[i - Len(q)] /\ i - Len(q) \in 1..Len(e)
  BY ConcatProperties
<1> HIDE DEF a
<1>2. ASSUME n < Len(a)
      PROVE  /\ SubSeq(a, 1, n) \in Seq(S) /\ Len(SubSeq(a, 1, n)) = n
             /\ \A i \in 1..n : SubSeq(a, 1, n)[i] = a[i]
  BY <1>1, <1>2
<1> QED BY <1>1, <1>2 DEF a

\* A change of a session's records keeps the ledger, and every stream that follows it.
LEMMA ReplaceKeeps ==
    ASSUME LedgerOK, StreamOK, Carried, NEW s \in Sessions, NEW next,
           DOMAIN next \subseteq Sessions \cup Pids, \A p \in DOMAIN next : next[p] \in Nat,
           ReplaceSession(s, next)
    PROVE  /\ LedgerOK' /\ StreamOK' /\ Carried'
           /\ sessions'[s] = next /\ \A t \in Sessions : t # s => sessions'[t] = sessions[t]
<1> DEFINE changed == ChangedIDs(sessions[s], next)
           ends == DOMAIN sessions[s] \ DOMAIN next
<1>1. PICK set \in InOrder(changed), del \in InOrder(ends) :
        LET events == Changes(s, sessions[s], next, set, del) IN
        /\ revision' = revision + Len(events)
        /\ sessions' = [sessions EXCEPT ![s] = next]
        /\ processes' = Entered(s, changed, ends, next)
        /\ queue' = [o \in Streams |-> Published(o, events).queue]
        /\ stream' = [o \in Streams |-> Published(o, events).stream]
        /\ UNCHANGED <<view, seen, gone>>
  BY DEF ReplaceSession
<1> DEFINE events == Changes(s, sessions[s], next, set, del)
<1>2. /\ events \in Seq(Events) /\ Len(events) \in Nat
      /\ \A i \in 1..Len(events) :
            /\ events[i].rev = revision + i
            /\ \E p \in Sessions \cup Pids :
                /\ events[i].id = <<s, p>>
                /\ IF p \in DOMAIN next
                   THEN events[i].kind # "ended" /\ events[i].image = next[p]
                   ELSE events[i].kind = "ended"
      /\ \A p \in Sessions \cup Pids :
            (\A i \in 1..Len(events) : events[i].id # <<s, p>>) => p \notin changed /\ p \notin ends
  <2>1. /\ set \in InOrder(ChangedIDs(sessions[s], next))
        /\ del \in InOrder(DOMAIN sessions[s] \ DOMAIN next)
    OBVIOUS
  <2>2. Tells(Changes(s, sessions[s], next, set, del), s, next)
    <3> HIDE DEF changed, ends, events
    <3> QED BY <2>1, ChangesFacts
  <2> QED BY <2>2 DEF Tells
<1>3. /\ revision' = revision + Len(events) /\ processes' = Entered(s, changed, ends, next)
      /\ queue' = [o \in Streams |-> Published(o, events).queue]
      /\ stream' = [o \in Streams |-> Published(o, events).stream]
      /\ UNCHANGED <<view, seen, gone>>
  BY <1>1
<1>4. sessions'[s] = next /\ (\A t \in Sessions : t # s => sessions'[t] = sessions[t]) /\ DOMAIN sessions' = Sessions
  BY <1>1 DEF LedgerOK
<1> HIDE DEF events
<1>5. LedgerOK'
  BY <1>2, <1>3, <1>4 DEF LedgerOK
<1>6. \A p \in Sessions \cup Pids : p \notin changed /\ p \notin ends =>
        (p \in DOMAIN sessions[s] <=> p \in DOMAIN next) /\ (p \in DOMAIN next => sessions[s][p] = next[p])
  BY KeptRecord
<1>7. changed \subseteq DOMAIN next /\ ends \subseteq DOMAIN sessions[s] /\ ends \cap DOMAIN next = {}
  BY DEF ChangedIDs
<1> HIDE DEF changed, ends
<1>8. /\ DOMAIN processes' \subseteq Ids
      /\ \A t \in Sessions, p \in Sessions \cup Pids : Agrees(processes, t, p)'
  <2>1. /\ DOMAIN processes' = (DOMAIN processes \cup {<<s, p>> : p \in changed}) \ {<<s, p>> : p \in ends}
        /\ \A id \in DOMAIN processes' : processes'[id] =
                IF id[1] = s /\ id[2] \in changed THEN next[id[2]] ELSE processes[id]
    BY <1>3 DEF Entered
  <2>2. DOMAIN processes \subseteq Ids /\ \A t \in Sessions, p \in Sessions \cup Pids : Agrees(processes, t, p)
    BY DEF Carried, Ledger
  <2>3. DOMAIN processes' \subseteq Ids
    BY <1>7, <2>1, <2>2 DEF Ids
  <2>4. ASSUME NEW t \in Sessions, NEW p \in Sessions \cup Pids
        PROVE  Agrees(processes, t, p)'
    <3>1. <<t, p>>[1] = t /\ <<t, p>>[2] = p
      OBVIOUS
    <3>2. Agrees(processes, t, p)
      BY <2>2
    <3>3. CASE t # s
      <4>1. <<t, p>> \in DOMAIN processes' <=> <<t, p>> \in DOMAIN processes
        BY <2>1, <3>3
      <4>2. <<t, p>> \in DOMAIN processes' => processes'[<<t, p>>] = processes[<<t, p>>]
        BY <2>1, <3>1, <3>3
      <4> QED BY <1>4, <3>2, <3>3, <4>1, <4>2 DEF Agrees
    <3>4. CASE t = s
      <4>1. <<s, p>> \in DOMAIN processes' <=>
                (<<s, p>> \in DOMAIN processes \/ p \in changed) /\ p \notin ends
        BY <2>1
      <4>2. <<s, p>> \in DOMAIN processes' =>
                processes'[<<s, p>>] = IF p \in changed THEN next[p] ELSE processes[<<s, p>>]
        BY <2>1, <3>1, <3>4
      <4>3. CASE p \in changed
        BY <1>4, <1>7, <3>4, <4>1, <4>2, <4>3 DEF Agrees
      <4>4. CASE p \in ends
        BY <1>4, <1>7, <3>4, <4>1, <4>4 DEF Agrees
      <4>5. CASE p \notin changed /\ p \notin ends
        BY <1>4, <1>6, <3>2, <3>4, <4>1, <4>2, <4>5 DEF Agrees
      <4> QED BY <4>3, <4>4, <4>5
    <3> QED BY <3>3, <3>4
  <2> QED BY <2>3, <2>4
<1>9. ASSUME NEW o \in Streams
      PROVE  /\ queue'[o] \in Seq(Events) /\ stream'[o] \in {"off", "live", "cut", "over"}
             /\ (stream'[o] = "off" => queue'[o] = <<>>)
             /\ \A i \in 1..Len(queue'[o]) : queue'[o][i].rev = seen[o] + i
             /\ stream'[o] = "live" =>
                    /\ stream[o] = "live" /\ queue'[o] = queue[o] \o events
                    /\ seen[o] + Len(queue'[o]) = revision'
  <2> DEFINE all == queue[o] \o events
  <2>1. queue'[o] = Published(o, events).queue /\ stream'[o] = Published(o, events).stream
    BY <1>3
  <2>2. /\ queue[o] \in Seq(Events) /\ stream[o] \in {"off", "live", "cut", "over"} /\ seen[o] \in Nat
        /\ revision \in Nat
    BY DEF StreamOK, LedgerOK
  <2>3. /\ (stream[o] = "off" => queue[o] = <<>>)
        /\ \A i \in 1..Len(queue[o]) : queue[o][i].rev = seen[o] + i
        /\ stream[o] = "live" => seen[o] + Len(queue[o]) = revision
    BY DEF Carried, Ledger, StreamFollowsTheLedger
  <2>4. CASE stream[o] # "live"
    <3>1. queue'[o] = queue[o] /\ stream'[o] = stream[o]
      BY <2>1, <2>4 DEF Published
    <3> QED BY <2>2, <2>3, <2>4, <3>1
  <2>5. CASE stream[o] = "live"
    <3>0. EventBuffer \in Nat
      BY InventoryConstants
    <3>1. /\ all \in Seq(Events) /\ Len(all) = Len(queue[o]) + Len(events) /\ Len(queue[o]) \in Nat
          /\ \A i \in 1..Len(queue[o]) : all[i] = queue[o][i]
          /\ \A i \in (Len(queue[o]) + 1)..(Len(queue[o]) + Len(events)) :
                all[i] = events[i - Len(queue[o])] /\ i - Len(queue[o]) \in 1..Len(events)
          /\ EventBuffer < Len(all) =>
                /\ SubSeq(all, 1, EventBuffer) \in Seq(Events) /\ Len(SubSeq(all, 1, EventBuffer)) = EventBuffer
                /\ \A i \in 1..EventBuffer : SubSeq(all, 1, EventBuffer)[i] = all[i]
      BY <1>2, <2>2, <3>0, QueueFacts
    <3> HIDE DEF all
    <3>2. ASSUME NEW i \in 1..Len(all) PROVE all[i].rev = seen[o] + i
      <4>1. CASE i \in 1..Len(queue[o])
        BY <2>3, <3>1, <4>1
      <4>2. CASE i \notin 1..Len(queue[o])
        <5>1. i \in (Len(queue[o]) + 1)..(Len(queue[o]) + Len(events))
          BY <1>2, <3>1, <4>2
        <5>2. PICK k \in 1..Len(events) : all[i] = events[k] /\ i = Len(queue[o]) + k
          <6>1. all[i] = events[i - Len(queue[o])] /\ i - Len(queue[o]) \in 1..Len(events)
            BY <3>1, <5>1
          <6>2. i \in Int /\ Len(queue[o]) \in Int
            BY <3>1, <5>1
          <6>3. i = Len(queue[o]) + (i - Len(queue[o]))
            BY <6>2
          <6> QED BY <6>1, <6>3
        <5>3. all[i].rev = revision + k
          BY <1>2, <5>2
        <5>4. seen[o] + Len(queue[o]) = revision
          BY <2>3, <2>5
        <5>5. k \in Int /\ Len(queue[o]) \in Int /\ seen[o] \in Int
          BY <1>2, <2>2, <3>1
        <5>6. (seen[o] + Len(queue[o])) + k = seen[o] + (Len(queue[o]) + k)
          BY <5>5
        <5> QED BY <5>2, <5>3, <5>4, <5>6
      <4> QED BY <4>1, <4>2
    <3>3. CASE Len(all) <= EventBuffer
      <4>1. queue'[o] = all /\ stream'[o] = "live"
        BY <2>1, <2>5, <3>3 DEF Published, all
      <4>2. seen[o] + Len(all) = revision'
        <5>1. seen[o] + Len(queue[o]) = revision /\ revision' = revision + Len(events)
          BY <1>3, <2>3, <2>5
        <5>2. Len(all) = Len(queue[o]) + Len(events) /\ Len(queue[o]) \in Int /\ Len(events) \in Int
              /\ seen[o] \in Int /\ revision \in Int
          BY <1>2, <2>2, <3>1
        <5> QED BY <5>1, <5>2
      <4> QED BY <2>5, <3>1, <3>2, <4>1, <4>2 DEF all
    <3>4. CASE ~(Len(all) <= EventBuffer)
      <4>1. queue'[o] = SubSeq(all, 1, EventBuffer) /\ stream'[o] = "cut"
        BY <2>1, <2>5, <3>4 DEF Published, all
      <4>2. EventBuffer < Len(all)
        BY <1>2, <3>0, <3>1, <3>4
      <4>3. \A i \in 1..EventBuffer : i \in 1..Len(all)
        BY <1>2, <3>0, <3>1, <4>2
      <4> QED BY <3>1, <3>2, <4>1, <4>2, <4>3
    <3> QED BY <3>3, <3>4
  <2> QED BY <2>4, <2>5
<1>10. StreamOK'
  <2>1. queue' \in [Streams -> Seq(Events)] /\ stream' \in [Streams -> {"off", "live", "cut", "over"}]
    BY <1>3, <1>9
  <2> QED BY <1>3, <2>1 DEF StreamOK
<1>11. ASSUME NEW o \in Streams, stream'[o] = "live", NEW t \in Sessions, NEW p \in Sessions \cup Pids
       PROVE  /\ \A i \in About(o, t, p)' :
                    (\A j \in About(o, t, p)' : j <= i) => IsCurrent(queue[o][i], t, p)'
              /\ About(o, t, p)' = {} => Agrees(view[o], t, p)'
  <2> DEFINE q == queue[o]
  <2>1. stream[o] = "live" /\ queue'[o] = q \o events
    BY <1>9, <1>11
  <2>2. q \in Seq(Events)
    BY DEF StreamOK
  <2>3. /\ Len(queue'[o]) = Len(q) + Len(events) /\ Len(q) \in Nat
        /\ \A i \in 1..Len(q) : queue'[o][i] = q[i]
        /\ \A i \in (Len(q) + 1)..(Len(q) + Len(events)) :
              queue'[o][i] = events[i - Len(q)] /\ i - Len(q) \in 1..Len(events)
    <3>1. 0 \in Nat
      OBVIOUS
    <3> QED BY <1>2, <2>1, <2>2, <3>1, QueueFacts
  <2>4. /\ \A i \in About(o, t, p) : (\A j \in About(o, t, p) : j <= i) => IsCurrent(q[i], t, p)
        /\ About(o, t, p) = {} => Agrees(view[o], t, p)
    BY <2>1 DEF Carried, StreamFollowsTheLedger
  <2>5. /\ About(o, t, p) = {i \in 1..Len(q) : q[i].id = <<t, p>>}
        /\ About(o, t, p)' = {i \in 1..Len(queue'[o]) : queue'[o][i].id = <<t, p>>}
    BY DEF About
  <2> HIDE DEF q
  <2>6. \A i \in 1..Len(q) : i \in About(o, t, p) <=> i \in About(o, t, p)'
    BY <1>2, <2>3, <2>5
  <2>7. \A i \in About(o, t, p)' : i \in Int /\ (i \notin 1..Len(q) => i > Len(q))
    BY <1>2, <2>3, <2>5
  <2>8. ASSUME NEW i \in About(o, t, p)', i \notin 1..Len(q)
        PROVE  t = s /\ IsCurrent(queue[o][i], t, p)'
    <3>1. i \in (Len(q) + 1)..(Len(q) + Len(events)) /\ queue'[o][i].id = <<t, p>>
      BY <1>2, <2>3, <2>5, <2>8
    <3>2. queue'[o][i] = events[i - Len(q)] /\ i - Len(q) \in 1..Len(events)
      BY <2>3, <3>1
    <3>3. PICK r \in Sessions \cup Pids :
            /\ queue'[o][i].id = <<s, r>>
            /\ IF r \in DOMAIN next
               THEN queue'[o][i].kind # "ended" /\ queue'[o][i].image = next[r]
               ELSE queue'[o][i].kind = "ended"
      BY <1>2, <3>2
    <3>4. t = s /\ p = r
      BY <3>1, <3>3
    <3> QED BY <1>4, <3>3, <3>4 DEF IsCurrent
  <2>9. ASSUME About(o, t, p)' \subseteq 1..Len(q)
        PROVE  /\ p \in DOMAIN sessions'[t] <=> p \in DOMAIN sessions[t]
               /\ p \in DOMAIN sessions[t] => sessions'[t][p] = sessions[t][p]
    <3>1. CASE t # s
      BY <1>4, <3>1
    <3>2. CASE t = s
      <4>1. \A k \in 1..Len(events) : events[k].id # <<s, p>>
        <5> SUFFICES ASSUME NEW k \in 1..Len(events), events[k].id = <<s, p>> PROVE FALSE
          OBVIOUS
        <5>1. Len(q) + k \in (Len(q) + 1)..(Len(q) + Len(events)) /\ (Len(q) + k) - Len(q) = k
              /\ Len(q) + k \in 1..(Len(q) + Len(events)) /\ Len(q) + k \notin 1..Len(q)
          BY <1>2, <2>3
        <5>2. queue'[o][Len(q) + k] = events[k]
          BY <2>3, <5>1
        <5>3. Len(q) + k \in About(o, t, p)'
          BY <2>3, <2>5, <3>2, <5>1, <5>2
        <5> QED BY <2>9, <5>1, <5>3
      <4>2. p \notin changed /\ p \notin ends
        BY <1>2, <4>1
      <4> QED BY <1>4, <1>6, <3>2, <4>2
    <3> QED BY <3>1, <3>2
  <2>10. ASSUME NEW i \in About(o, t, p)', \A j \in About(o, t, p)' : j <= i
         PROVE  IsCurrent(queue[o][i], t, p)'
    <3>1. CASE i \notin 1..Len(q)
      BY <2>8, <3>1
    <3>2. CASE i \in 1..Len(q)
      <4>1. About(o, t, p)' \subseteq 1..Len(q)
        <5> SUFFICES ASSUME NEW j \in About(o, t, p)' PROVE j \in 1..Len(q)
          OBVIOUS
        <5>0. Len(q) \in Nat
          BY <2>3
        <5>1. j <= i /\ i <= Len(q) /\ j \in Int /\ i \in Int /\ Len(q) \in Int
          <6>1. j <= i /\ j \in Int /\ i \in Int
            BY <2>7, <2>10
          <6> QED BY <3>2, <5>0, <6>1
        <5>2. j \notin 1..Len(q) => j > Len(q)
          BY <2>7
        <5> QED BY <5>1, <5>2
      <4>2. i \in About(o, t, p) /\ \A j \in About(o, t, p) : j <= i
        BY <2>5, <2>6, <2>10, <3>2
      <4>3. IsCurrent(q[i], t, p) /\ queue'[o][i] = q[i]
        BY <2>3, <2>4, <3>2, <4>2
      <4> QED BY <2>9, <4>1, <4>3 DEF IsCurrent
    <3> QED BY <3>1, <3>2
  <2>11. ASSUME About(o, t, p)' = {} PROVE Agrees(view[o], t, p)'
    <3>1. About(o, t, p) = {} /\ About(o, t, p)' \subseteq 1..Len(q)
      BY <2>5, <2>6, <2>11
    <3>2. Agrees(view[o], t, p) /\ view' = view
      BY <1>3, <2>4, <3>1
    <3> QED BY <2>9, <3>1, <3>2 DEF Agrees
  <2> QED BY <2>10, <2>11
<1>12. Carried'
  <2>1. Ledger'
    BY <1>8, <1>9 DEF Ledger
  <2>2. \A o \in Streams : stream'[o] = "live" => DOMAIN view'[o] \subseteq Ids
    BY <1>3, <1>9 DEF Carried, StreamFollowsTheLedger
  <2>3. StreamFollowsTheLedger'
    BY <1>3, <1>9, <1>11, <2>2 DEF StreamFollowsTheLedger
  <2> QED BY <2>1, <2>3 DEF Carried
<1> QED BY <1>4, <1>5, <1>10, <1>12

----------------------------------------------------------------------------
(* Every step keeps the invariant *)

\* An opener finds its session closed.
LEMMA StartReturnsKeeps ==
    ASSUME InventoryInv, NEW s \in Sessions, StartReturns(s)
    PROVE  InventoryInv'
<1>f. /\ KernelOK /\ MonitorOK /\ WatchOK /\ LedgerOK /\ StreamOK
      /\ Roles /\ Descriptors /\ Haunted /\ Carried
  BY DEF InventoryInv, TypeOK, Haunted, Carried
<1>u. UNCHANGED <<parent, image, moves, up, front, closed, monitors, ended, mapMu, work, failed,
                  cached, offer, reaper, failures, watch, pending, tracked,
                  fd, holder, runner, on, stolen, revision, sessions,
                  processes, stream, queue, seen, view, gone>>
  BY DEF StartReturns, kernelVars, monitorVars, watchVars, ledgerVars, streamVars
<1>c. /\ opener[s] = "opening" /\ mapMu = NoOne /\ s \in closed
      /\ opener' = [opener EXCEPT ![s] = "done"]
  BY DEF StartReturns
<1>1. KernelOK'
  BY <1>f, <1>u, KernelFrame
<1>2. MonitorOK'
  BY <1>f, <1>u, <1>c, Numbers DEF MonitorOK
<1>3. WatchOK'
  BY <1>f, <1>u, WatchFrame
<1>4. LedgerOK'
  BY <1>f, <1>u, LedgerFrame
<1>5. StreamOK'
  BY <1>f, <1>u, StreamFrame
<1>6. Roles'
  BY <1>f, <1>u, <1>c, Numbers DEF Roles, MonitorOK, WatchOK, LedgerOK
<1>7. Descriptors'
  BY <1>f, <1>u, <1>c, Numbers DEF Descriptors, MonitorOK, WatchOK
<1>8. Haunted'
  BY <1>f, <1>u, <1>c, Numbers DEF Haunted, Watched, NoGhostsAtRest, Untended, MonitorOK,
     WatchOK, LedgerOK
<1>9. Carried'
  BY <1>f, <1>u, CarriedFrame
<1> QED BY <1>1, <1>2, <1>3, <1>4, <1>5, <1>6, <1>7, <1>8, <1>9
        DEF InventoryInv, TypeOK, Haunted, Carried

\* A session is closed.
LEMMA ReapKeeps ==
    ASSUME InventoryInv, NEW s \in Sessions, Reap(s)
    PROVE  InventoryInv'
<1>f. /\ KernelOK /\ MonitorOK /\ WatchOK /\ LedgerOK /\ StreamOK
      /\ Roles /\ Descriptors /\ Haunted /\ Carried
  BY DEF InventoryInv, TypeOK, Haunted, Carried
<1>u. UNCHANGED <<parent, image, moves, up, front, monitors, ended, opener, mapMu, work, failed,
                  cached, offer, failures, watch, pending, tracked, fd,
                  holder, runner, on, stolen, revision, sessions, processes,
                  stream, queue, seen, view, gone>>
  BY DEF Reap, kernelVars, monitorVars, watchVars, ledgerVars, streamVars
<1>c. /\ s \notin closed /\ closed' = closed \cup {s}
      /\ reaper' = [reaper EXCEPT ![s] = "ended"]
  BY DEF Reap
<1>1. KernelOK'
  BY <1>f, <1>u, KernelFrame
<1>2. MonitorOK'
  BY <1>f, <1>u, <1>c, Numbers DEF MonitorOK
<1>3. WatchOK'
  BY <1>f, <1>u, WatchFrame
<1>4. LedgerOK'
  BY <1>f, <1>u, LedgerFrame
<1>5. StreamOK'
  BY <1>f, <1>u, StreamFrame
<1>6. Roles'
  BY <1>f, <1>u, <1>c, Numbers DEF Roles, MonitorOK, WatchOK, LedgerOK
<1>7. Descriptors'
  BY <1>f, <1>u, DescriptorsFrame
<1>8. Haunted'
  BY <1>f, <1>u, HauntedFrame
<1>9. Carried'
  BY <1>f, <1>u, CarriedFrame
<1> QED BY <1>1, <1>2, <1>3, <1>4, <1>5, <1>6, <1>7, <1>8, <1>9
        DEF InventoryInv, TypeOK, Haunted, Carried

\* The reaper takes the monitor out of the map.
LEMMA EndTakesKeeps ==
    ASSUME InventoryInv, NEW s \in Sessions, EndTakes(s)
    PROVE  InventoryInv'
<1>f. /\ KernelOK /\ MonitorOK /\ WatchOK /\ LedgerOK /\ StreamOK
      /\ Roles /\ Descriptors /\ Haunted /\ Carried
  BY DEF InventoryInv, TypeOK, Haunted, Carried
<1>u. UNCHANGED <<parent, image, moves, up, front, closed, ended, opener, mapMu, work, failed,
                  cached, offer, failures, watch, pending, tracked, fd,
                  holder, runner, on, stolen, revision, sessions, processes,
                  stream, queue, seen, view, gone>>
  BY DEF EndTakes, kernelVars, monitorVars, watchVars, ledgerVars, streamVars
<1>c. /\ reaper[s] = "ended" /\ mapMu = NoOne /\ monitors' = monitors \ {s}
      /\ reaper' = [reaper EXCEPT ![s] = IF s \in monitors THEN "close" ELSE "records"]
  BY DEF EndTakes
<1>1. KernelOK'
  BY <1>f, <1>u, KernelFrame
<1>2. MonitorOK'
  BY <1>f, <1>u, <1>c, Numbers DEF MonitorOK
<1>3. WatchOK'
  BY <1>f, <1>u, WatchFrame
<1>4. LedgerOK'
  BY <1>f, <1>u, LedgerFrame
<1>5. StreamOK'
  BY <1>f, <1>u, StreamFrame
<1>6. Roles'
  BY <1>f, <1>u, <1>c, Numbers DEF Roles, MonitorOK, WatchOK, LedgerOK
<1>7. Descriptors'
  BY <1>f, <1>u, DescriptorsFrame
<1>8. Haunted'
  BY <1>f, <1>u, HauntedFrame
<1>9. Carried'
  BY <1>f, <1>u, CarriedFrame
<1> QED BY <1>1, <1>2, <1>3, <1>4, <1>5, <1>6, <1>7, <1>8, <1>9
        DEF InventoryInv, TypeOK, Haunted, Carried

\* A client goes away.
LEMMA PeerDiesKeeps ==
    ASSUME InventoryInv, NEW o \in Streams, PeerDies(o)
    PROVE  InventoryInv'
<1>f. /\ KernelOK /\ MonitorOK /\ WatchOK /\ LedgerOK /\ StreamOK
      /\ Roles /\ Descriptors /\ Haunted /\ Carried
  BY DEF InventoryInv, TypeOK, Haunted, Carried
<1>u. UNCHANGED <<parent, image, moves, up, front, closed, monitors, ended, opener, mapMu, work,
                  failed, cached, offer, reaper, failures, watch, pending,
                  tracked, fd, holder, runner, on, stolen, revision, sessions,
                  processes, stream, queue, seen, view>>
  BY DEF PeerDies, kernelVars, monitorVars, watchVars, ledgerVars, streamVars
<1>c. /\ gone' = gone \cup {o}
  BY DEF PeerDies
<1>1. KernelOK'
  BY <1>f, <1>u, KernelFrame
<1>2. MonitorOK'
  BY <1>f, <1>u, MonitorFrame
<1>3. WatchOK'
  BY <1>f, <1>u, WatchFrame
<1>4. LedgerOK'
  BY <1>f, <1>u, LedgerFrame
<1>5. StreamOK'
  BY <1>f, <1>u, <1>c, Numbers DEF StreamOK
<1>6. Roles'
  BY <1>f, <1>u, RolesFrame
<1>7. Descriptors'
  BY <1>f, <1>u, DescriptorsFrame
<1>8. Haunted'
  BY <1>f, <1>u, HauntedFrame
<1>9. Carried'
  BY <1>f, <1>u, CarriedFrame
<1> QED BY <1>1, <1>2, <1>3, <1>4, <1>5, <1>6, <1>7, <1>8, <1>9
        DEF InventoryInv, TypeOK, Haunted, Carried

\* A process runs another image.
LEMMA ExecKeeps ==
    ASSUME InventoryInv, NEW p \in Pids, Exec(p)
    PROVE  InventoryInv'
<1>f. /\ KernelOK /\ MonitorOK /\ WatchOK /\ LedgerOK /\ StreamOK
      /\ Roles /\ Descriptors /\ Haunted /\ Carried
  BY DEF InventoryInv, TypeOK, Haunted, Carried
<1>u. UNCHANGED <<parent, up, front, closed, monitors, ended, opener, mapMu, work, failed,
                  cached, offer, reaper, failures, watch, tracked, fd, holder,
                  runner, on, stolen, revision, sessions, processes, stream,
                  queue, seen, view, gone>>
  BY DEF Exec, kernelVars, monitorVars, watchVars, ledgerVars, streamVars
<1>c. /\ image' = [image EXCEPT ![p] = @ + 1] /\ moves < MaxMoves /\ moves' = moves + 1
      /\ \A s \in Sessions : pending[s] => pending'[s]
      /\ pending' \in [Sessions -> BOOLEAN]
  BY DEF Exec, Moves, Hears
<1>1. KernelOK'
  <2>1. moves' \in 0..MaxMoves
    BY <1>f, <1>c, InventoryConstants DEF KernelOK
  <2>2. image' \in [Pids -> Nat]
    <3>1. image \in [Pids -> Nat] /\ image[p] + 1 \in Nat
      BY <1>f DEF KernelOK
    <3> QED BY <1>c, <3>1
  <2> QED BY <1>f, <1>u, <2>1, <2>2 DEF KernelOK
<1>2. MonitorOK'
  BY <1>f, <1>u, MonitorFrame
<1>3. WatchOK'
  BY <1>f, <1>u, <1>c, Numbers DEF WatchOK
<1>4. LedgerOK'
  BY <1>f, <1>u, LedgerFrame
<1>5. StreamOK'
  BY <1>f, <1>u, StreamFrame
<1>6. Roles'
  BY <1>f, <1>u, RolesFrame
<1>7. Descriptors'
  BY <1>f, <1>u, DescriptorsFrame
<1>8. Haunted'
  BY <1>f, <1>u, <1>c, Numbers DEF Haunted, Watched, NoGhostsAtRest, Untended, MonitorOK,
     WatchOK, LedgerOK
<1>9. Carried'
  BY <1>f, <1>u, CarriedFrame
<1> QED BY <1>1, <1>2, <1>3, <1>4, <1>5, <1>6, <1>7, <1>8, <1>9
        DEF InventoryInv, TypeOK, Haunted, Carried

\* Another group comes to the front.
LEMMA ToFrontKeeps ==
    ASSUME InventoryInv, NEW s \in Sessions, NEW g \in Sessions \cup Pids, ToFront(s, g)
    PROVE  InventoryInv'
<1>f. /\ KernelOK /\ MonitorOK /\ WatchOK /\ LedgerOK /\ StreamOK
      /\ Roles /\ Descriptors /\ Haunted /\ Carried
  BY DEF InventoryInv, TypeOK, Haunted, Carried
<1>u. UNCHANGED <<parent, image, up, closed, monitors, ended, opener, mapMu, work, failed,
                  cached, offer, reaper, failures, watch, pending, tracked,
                  fd, holder, runner, on, stolen, revision, sessions,
                  processes, stream, queue, seen, view, gone>>
  BY DEF ToFront, kernelVars, monitorVars, watchVars, ledgerVars, streamVars
<1>c. /\ front' = [front EXCEPT ![s] = g] /\ moves < MaxMoves /\ moves' = moves + 1
  BY DEF ToFront, Moves
<1>1. KernelOK'
  <2>1. moves' \in 0..MaxMoves
    BY <1>f, <1>c, InventoryConstants DEF KernelOK
  <2>2. front' \in [Sessions -> Sessions \cup Pids]
    BY <1>f, <1>c DEF KernelOK
  <2> QED BY <1>f, <1>u, <2>1, <2>2 DEF KernelOK
<1>2. MonitorOK'
  BY <1>f, <1>u, MonitorFrame
<1>3. WatchOK'
  BY <1>f, <1>u, WatchFrame
<1>4. LedgerOK'
  BY <1>f, <1>u, LedgerFrame
<1>5. StreamOK'
  BY <1>f, <1>u, StreamFrame
<1>6. Roles'
  BY <1>f, <1>u, RolesFrame
<1>7. Descriptors'
  BY <1>f, <1>u, DescriptorsFrame
<1>8. Haunted'
  BY <1>f, <1>u, HauntedFrame
<1>9. Carried'
  BY <1>f, <1>u, CarriedFrame
<1> QED BY <1>1, <1>2, <1>3, <1>4, <1>5, <1>6, <1>7, <1>8, <1>9
        DEF InventoryInv, TypeOK, Haunted, Carried

\* A process forks: a pid that was nobody's is its child's.
LEMMA ForkKeeps ==
    ASSUME InventoryInv, NEW q \in Sessions \cup Pids, Fork(q)
    PROVE  InventoryInv'
<1>f. /\ KernelOK /\ MonitorOK /\ WatchOK /\ LedgerOK /\ StreamOK
      /\ Roles /\ Descriptors /\ Haunted /\ Carried
  BY DEF InventoryInv, TypeOK, Haunted, Carried
<1>u. UNCHANGED <<image, up, front, closed, monitors, ended, opener, mapMu, work, failed,
                  cached, offer, reaper, failures, watch, tracked, fd, holder,
                  runner, on, stolen, revision, sessions, processes, stream,
                  queue, seen, view, gone>>
  BY DEF Fork, kernelVars, monitorVars, watchVars, ledgerVars, streamVars
<1>c. /\ moves < MaxMoves /\ moves' = moves + 1
      /\ \A t \in Sessions : pending[t] => pending'[t]
      /\ \A t \in Sessions : watch[t] /\ q \in tracked[t] => pending'[t]
      /\ pending' \in [Sessions -> BOOLEAN]
  BY DEF Fork, Moves, Hears
<1>p. /\ parent' \in [Pids -> {Unborn, Launchd, Exited} \cup Sessions \cup Pids]
      /\ \A x \in Pids : parent'[x] = Exited => parent[x] = Exited
  <2>1. PICK x \in Pids : parent' = [parent EXCEPT ![x] = q]
    BY DEF Fork
  <2>2. parent \in [Pids -> {Unborn, Launchd, Exited} \cup Sessions \cup Pids]
    BY <1>f DEF KernelOK
  <2> QED BY <2>1, <2>2, Numbers
<1>1. KernelOK'
  <2>1. moves' \in 0..MaxMoves
    BY <1>f, <1>c, InventoryConstants DEF KernelOK
  <2> QED BY <1>f, <1>u, <1>p, <2>1 DEF KernelOK
<1>2. MonitorOK'
  BY <1>f, <1>u, MonitorFrame
<1>3. WatchOK'
  BY <1>f, <1>u, <1>c, Numbers DEF WatchOK
<1>4. LedgerOK'
  BY <1>f, <1>u, LedgerFrame
<1>5. StreamOK'
  BY <1>f, <1>u, StreamFrame
<1>6. Roles'
  BY <1>f, <1>u, RolesFrame
<1>7. Descriptors'
  BY <1>f, <1>u, DescriptorsFrame
<1>8. Haunted'
  BY <1>f, <1>u, <1>c, <1>p DEF Haunted, Watched, NoGhostsAtRest, Untended
<1>9. Carried'
  BY <1>f, <1>u, CarriedFrame
<1> QED BY <1>1, <1>2, <1>3, <1>4, <1>5, <1>6, <1>7, <1>8, <1>9
        DEF InventoryInv, TypeOK, Haunted, Carried

\* A process exits, and the watches of it hear of it.
LEMMA ExitKeeps ==
    ASSUME InventoryInv, NEW p \in Pids, Exit(p)
    PROVE  InventoryInv'
<1>f. /\ KernelOK /\ MonitorOK /\ WatchOK /\ LedgerOK /\ StreamOK
      /\ Roles /\ Descriptors /\ Haunted /\ Carried
  BY DEF InventoryInv, TypeOK, Haunted, Carried
<1>u. UNCHANGED <<image, up, front, closed, monitors, ended, opener, mapMu, work, failed,
                  cached, offer, reaper, failures, watch, tracked, fd, holder,
                  runner, on, stolen, revision, sessions, processes, stream,
                  queue, seen, view, gone>>
  BY DEF Exit, kernelVars, monitorVars, watchVars, ledgerVars, streamVars
<1>c. /\ moves < MaxMoves /\ moves' = moves + 1
      /\ \A t \in Sessions : pending[t] => pending'[t]
      /\ \A t \in Sessions : watch[t] /\ p \in tracked[t] => pending'[t]
      /\ pending' \in [Sessions -> BOOLEAN]
  BY DEF Exit, Moves, Hears
<1>p. /\ parent' \in [Pids -> {Unborn, Launchd, Exited} \cup Sessions \cup Pids]
      /\ \A x \in Pids : x # p /\ parent'[x] = Exited => parent[x] = Exited
  <2>1. parent' = [Orphaned(p) EXCEPT ![p] = Exited]
    BY DEF Exit
  <2>2. parent \in [Pids -> {Unborn, Launchd, Exited} \cup Sessions \cup Pids]
    BY <1>f DEF KernelOK
  <2>3. /\ Orphaned(p) \in [Pids -> {Unborn, Launchd, Exited} \cup Sessions \cup Pids]
        /\ \A x \in Pids : Orphaned(p)[x] = Exited => parent[x] = Exited
    BY <2>2, Numbers DEF Orphaned
  <2> QED BY <2>1, <2>3
<1>1. KernelOK'
  <2>1. moves' \in 0..MaxMoves
    BY <1>f, <1>c, InventoryConstants DEF KernelOK
  <2> QED BY <1>f, <1>u, <1>p, <2>1 DEF KernelOK
<1>2. MonitorOK'
  BY <1>f, <1>u, MonitorFrame
<1>3. WatchOK'
  BY <1>f, <1>u, <1>c, Numbers DEF WatchOK
<1>4. LedgerOK'
  BY <1>f, <1>u, LedgerFrame
<1>5. StreamOK'
  BY <1>f, <1>u, StreamFrame
<1>6. Roles'
  BY <1>f, <1>u, RolesFrame
<1>7. Descriptors'
  BY <1>f, <1>u, DescriptorsFrame
<1>8. Haunted'
  <2>1. Watched'
    BY <1>f, <1>u, <1>c, <1>p DEF Haunted, Watched
  <2>2. NoGhostsAtRest'
    <3> SUFFICES ASSUME NEW s \in Sessions, NEW x \in Pids,
                        x \in DOMAIN sessions[s], parent'[x] = Exited, ~Untended(s)
                 PROVE  pending'[s] \/ runner[s] = "called" \/ work[s] # Idle \/ opener[s] = "watched"
      BY <1>u DEF NoGhostsAtRest, Untended
    <3>1. CASE x = p
      <4>1. watch[s] /\ p \in tracked[s]
        BY <1>f, <3>1 DEF Haunted, Watched, Untended
      <4> QED BY <1>c, <4>1
    <3>2. CASE x # p
      BY <1>f, <1>c, <1>p, <3>2 DEF Haunted, NoGhostsAtRest
    <3> QED BY <3>1, <3>2
  <2> QED BY <2>1, <2>2 DEF Haunted
<1>9. Carried'
  BY <1>f, <1>u, CarriedFrame
<1> QED BY <1>1, <1>2, <1>3, <1>4, <1>5, <1>6, <1>7, <1>8, <1>9
        DEF InventoryInv, TypeOK, Haunted, Carried

\* A shell exits, and its children are launchd's.
LEMMA ShellExitsKeeps ==
    ASSUME InventoryInv, NEW s \in Sessions, ShellExits(s)
    PROVE  InventoryInv'
<1>f. /\ KernelOK /\ MonitorOK /\ WatchOK /\ LedgerOK /\ StreamOK
      /\ Roles /\ Descriptors /\ Haunted /\ Carried
  BY DEF InventoryInv, TypeOK, Haunted, Carried
<1>u. UNCHANGED <<image, front, closed, monitors, ended, opener, mapMu, work, failed, cached,
                  offer, reaper, failures, watch, tracked, fd, holder, runner,
                  on, stolen, revision, sessions, processes, stream, queue,
                  seen, view, gone>>
  BY DEF ShellExits, kernelVars, monitorVars, watchVars, ledgerVars, streamVars
<1>c. /\ moves < MaxMoves /\ moves' = moves + 1
      /\ up' = up \ {s}
      /\ \A t \in Sessions : pending[t] => pending'[t]
      /\ \A t \in Sessions : watch[t] /\ s \in tracked[t] => pending'[t]
      /\ pending' \in [Sessions -> BOOLEAN]
  BY DEF ShellExits, Moves, Hears
<1>p. /\ parent' \in [Pids -> {Unborn, Launchd, Exited} \cup Sessions \cup Pids]
      /\ \A x \in Pids : parent'[x] = Exited => parent[x] = Exited
  <2>1. parent' = Orphaned(s)
    BY DEF ShellExits
  <2>2. parent \in [Pids -> {Unborn, Launchd, Exited} \cup Sessions \cup Pids]
    BY <1>f DEF KernelOK
  <2> QED BY <2>1, <2>2, Numbers DEF Orphaned
<1>1. KernelOK'
  <2>1. moves' \in 0..MaxMoves
    BY <1>f, <1>c, InventoryConstants DEF KernelOK
  <2>2. up' \in SUBSET Sessions
    BY <1>f, <1>c DEF KernelOK
  <2> QED BY <1>f, <1>u, <1>p, <2>1, <2>2 DEF KernelOK
<1>2. MonitorOK'
  BY <1>f, <1>u, MonitorFrame
<1>3. WatchOK'
  BY <1>f, <1>u, <1>c, Numbers DEF WatchOK
<1>4. LedgerOK'
  BY <1>f, <1>u, LedgerFrame
<1>5. StreamOK'
  BY <1>f, <1>u, StreamFrame
<1>6. Roles'
  BY <1>f, <1>u, RolesFrame
<1>7. Descriptors'
  BY <1>f, <1>u, DescriptorsFrame
<1>8. Haunted'
  BY <1>f, <1>u, <1>c, <1>p DEF Haunted, Watched, NoGhostsAtRest, Untended
<1>9. Carried'
  BY <1>f, <1>u, CarriedFrame
<1> QED BY <1>1, <1>2, <1>3, <1>4, <1>5, <1>6, <1>7, <1>8, <1>9
        DEF InventoryInv, TypeOK, Haunted, Carried

\* A session is left without a watch.
LEMMA StartUnwatchedKeeps ==
    ASSUME InventoryInv, NEW s \in Sessions, StartUnwatched(s)
    PROVE  InventoryInv'
<1>f. /\ KernelOK /\ MonitorOK /\ WatchOK /\ LedgerOK /\ StreamOK
      /\ Roles /\ Descriptors /\ Haunted /\ Carried
  BY DEF InventoryInv, TypeOK, Haunted, Carried
<1>u. UNCHANGED <<parent, image, moves, up, front, closed, monitors, ended, mapMu, work, cached,
                  offer, reaper, watch, pending, tracked, fd, holder, runner,
                  on, stolen, revision, sessions, processes, stream, queue,
                  seen, view, gone>>
  BY DEF StartUnwatched, kernelVars, monitorVars, watchVars, ledgerVars, streamVars
<1>c. /\ opener[s] = "committed"
      /\ failures' \in 0..MaxFailures
      /\ failed' = [failed EXCEPT ![s] = TRUE]
      /\ opener' = [opener EXCEPT ![s] = "watched"]
  BY <1>f, InventoryConstants DEF StartUnwatched, MonitorOK
<1>1. KernelOK'
  BY <1>f, <1>u, KernelFrame
<1>2. MonitorOK'
  BY <1>f, <1>u, <1>c, Numbers DEF MonitorOK
<1>3. WatchOK'
  BY <1>f, <1>u, WatchFrame
<1>4. LedgerOK'
  BY <1>f, <1>u, LedgerFrame
<1>5. StreamOK'
  BY <1>f, <1>u, StreamFrame
<1>6. Roles'
  BY <1>f, <1>u, <1>c, Numbers DEF Roles, MonitorOK, WatchOK, LedgerOK
<1>7. Descriptors'
  BY <1>f, <1>u, <1>c, Numbers DEF Descriptors, MonitorOK, WatchOK
<1>8. Haunted'
  BY <1>f, <1>u, <1>c, Numbers DEF Haunted, Watched, NoGhostsAtRest, Untended, MonitorOK,
     WatchOK, LedgerOK
<1>9. Carried'
  BY <1>f, <1>u, CarriedFrame
<1> QED BY <1>1, <1>2, <1>3, <1>4, <1>5, <1>6, <1>7, <1>8, <1>9
        DEF InventoryInv, TypeOK, Haunted, Carried

\* A session gets its watch, with a descriptor nobody holds.
LEMMA StartObservesKeeps ==
    ASSUME InventoryInv, NEW s \in Sessions, StartObserves(s)
    PROVE  InventoryInv'
<1>f. /\ KernelOK /\ MonitorOK /\ WatchOK /\ LedgerOK /\ StreamOK
      /\ Roles /\ Descriptors /\ Haunted /\ Carried
  BY DEF InventoryInv, TypeOK, Haunted, Carried
<1>u. UNCHANGED <<parent, image, moves, up, front, closed, monitors, ended, mapMu, work, failed,
                  cached, offer, reaper, failures, pending, on, stolen,
                  revision, sessions, processes, stream, queue, seen, view,
                  gone>>
  BY DEF StartObserves, kernelVars, monitorVars, watchVars, ledgerVars, streamVars
<1> DEFINE f == Min({x \in Fds : holder[x] = NoOne})
<1>c. /\ opener[s] = "committed" /\ opener' = [opener EXCEPT ![s] = "watched"]
      /\ fd' = [fd EXCEPT ![s] = f] /\ holder' = [holder EXCEPT ![f] = s]
      /\ watch' = [watch EXCEPT ![s] = TRUE] /\ tracked' = [tracked EXCEPT ![s] = {s}]
      /\ runner' = [runner EXCEPT ![s] = "loop"]
  BY DEF StartObserves
<1>m. f \in Fds /\ holder[f] = NoOne
  BY <1>f, <1>c, ADescriptorIsFree
<1> HIDE DEF f
<1>1. KernelOK'
  BY <1>f, <1>u, KernelFrame
<1>2. MonitorOK'
  BY <1>f, <1>u, <1>c, Numbers DEF MonitorOK
<1>3. WatchOK'
  BY <1>f, <1>u, <1>c, <1>m DEF WatchOK
<1>4. LedgerOK'
  BY <1>f, <1>u, LedgerFrame
<1>5. StreamOK'
  BY <1>f, <1>u, StreamFrame
<1>6. Roles'
  BY <1>f, <1>u, <1>c, Numbers DEF Roles, MonitorOK, WatchOK, LedgerOK
<1>7. Descriptors'
  <2>1. \A t \in Sessions : t # s => fd'[t] = fd[t] /\ opener'[t] = opener[t] /\ runner'[t] = runner[t]
    BY <1>f, <1>c DEF WatchOK, MonitorOK
  <2>2. fd'[s] = f /\ opener'[s] = "watched" /\ runner'[s] = "loop"
    BY <1>f, <1>c DEF WatchOK, MonitorOK
  <2>3. holder'[f] = s /\ \A x \in Fds : x # f => holder'[x] = holder[x]
    BY <1>f, <1>c, <1>m DEF WatchOK
  <2>4. ASSUME NEW x \in Fds, holder'[x] # NoOne
        PROVE  fd'[holder'[x]] = x /\ opener'[holder'[x]] \notin {"opening", "committed"}
    <3>1. CASE x = f
      BY <2>2, <2>3, <3>1
    <3>2. CASE x # f
      <4>1. holder'[x] = holder[x] /\ holder[x] \in Sessions /\ fd[holder[x]] = x
            /\ opener[holder[x]] \notin {"opening", "committed"}
        BY <1>f, <2>3, <2>4, <3>2 DEF Descriptors, WatchOK
      <4>2. holder[x] # s
        BY <1>c, <4>1
      <4> QED BY <2>1, <4>1, <4>2
    <3> QED BY <3>1, <3>2
  <2>5. \A t \in Sessions : /\ (runner'[t] # "off" => fd'[t] \in Fds)
                             /\ (runner'[t] = "blocked" => on'[t] \in Sessions)
    BY <1>f, <1>u, <1>m, <2>1, <2>2 DEF Descriptors
  <2> QED BY <2>4, <2>5 DEF Descriptors
<1>8. Haunted'
  <2>1. DOMAIN sessions[s] \cap Pids = {} /\ work[s] = Idle /\ Idle.entries = {}
    BY <1>f, <1>c, Numbers DEF Roles, Idle
  <2>2. \A t \in Sessions : t # s => /\ watch'[t] = watch[t] /\ tracked'[t] = tracked[t]
                                     /\ runner'[t] = runner[t] /\ opener'[t] = opener[t]
    BY <1>f, <1>c DEF WatchOK, MonitorOK
  <2>3. Watched'
    BY <1>f, <1>u, <2>1, <2>2 DEF Haunted, Watched
  <2>4. NoGhostsAtRest'
    BY <1>f, <1>u, <2>1, <2>2 DEF Haunted, NoGhostsAtRest, Untended
  <2> QED BY <2>3, <2>4 DEF Haunted
<1>9. Carried'
  BY <1>f, <1>u, CarriedFrame
<1> QED BY <1>1, <1>2, <1>3, <1>4, <1>5, <1>6, <1>7, <1>8, <1>9
        DEF InventoryInv, TypeOK, Haunted, Carried

\* A runner waits on whatever its descriptor names now.
LEMMA RunWaitsKeeps ==
    ASSUME InventoryInv, NEW s \in Sessions, RunWaits(s)
    PROVE  InventoryInv'
<1>f. /\ KernelOK /\ MonitorOK /\ WatchOK /\ LedgerOK /\ StreamOK
      /\ Roles /\ Descriptors /\ Haunted /\ Carried
  BY DEF InventoryInv, TypeOK, Haunted, Carried
<1>u. UNCHANGED <<parent, image, moves, up, front, closed, monitors, ended, opener, mapMu, work,
                  failed, cached, offer, reaper, failures, watch, pending,
                  tracked, fd, holder, stolen, revision, sessions, processes,
                  stream, queue, seen, view, gone>>
  BY DEF RunWaits, kernelVars, monitorVars, watchVars, ledgerVars, streamVars
<1>c. /\ runner[s] = "loop" /\ on' = [on EXCEPT ![s] = holder[fd[s]]]
      /\ runner' = [runner EXCEPT ![s] = IF holder[fd[s]] = NoOne THEN "off" ELSE "blocked"]
  BY DEF RunWaits
<1>m. fd[s] \in Fds /\ holder[fd[s]] \in Sessions \cup {NoOne}
  BY <1>f, <1>c DEF Descriptors, WatchOK
<1>r. /\ runner'[s] \in {"off", "blocked"} /\ (runner'[s] = "blocked" => on'[s] \in Sessions)
      /\ \A t \in Sessions : t # s => runner'[t] = runner[t] /\ on'[t] = on[t]
  BY <1>f, <1>c, <1>m DEF WatchOK
<1>1. KernelOK'
  BY <1>f, <1>u, KernelFrame
<1>2. MonitorOK'
  BY <1>f, <1>u, MonitorFrame
<1>3. WatchOK'
  BY <1>f, <1>u, <1>c, <1>m DEF WatchOK
<1>4. LedgerOK'
  BY <1>f, <1>u, LedgerFrame
<1>5. StreamOK'
  BY <1>f, <1>u, StreamFrame
<1>6. Roles'
  BY <1>f, <1>u, <1>c, <1>r, Numbers DEF Roles
<1>7. Descriptors'
  BY <1>f, <1>u, <1>c, <1>r DEF Descriptors
<1>8. Haunted'
  BY <1>f, <1>u, <1>c, <1>r DEF Haunted, Watched, NoGhostsAtRest, Untended
<1>9. Carried'
  BY <1>f, <1>u, CarriedFrame
<1> QED BY <1>1, <1>2, <1>3, <1>4, <1>5, <1>6, <1>7, <1>8, <1>9
        DEF InventoryInv, TypeOK, Haunted, Carried

\* A runner takes an event, of its own session or of another's.
LEMMA RunWakesKeeps ==
    ASSUME InventoryInv, NEW s \in Sessions, RunWakes(s)
    PROVE  InventoryInv'
<1>f. /\ KernelOK /\ MonitorOK /\ WatchOK /\ LedgerOK /\ StreamOK
      /\ Roles /\ Descriptors /\ Haunted /\ Carried
  BY DEF InventoryInv, TypeOK, Haunted, Carried
<1>u. UNCHANGED <<parent, image, moves, up, front, closed, monitors, ended, opener, mapMu, work,
                  failed, cached, offer, reaper, failures, watch, tracked, fd,
                  holder, on, revision, sessions, processes, stream, queue,
                  seen, view, gone>>
  BY DEF RunWakes, kernelVars, monitorVars, watchVars, ledgerVars, streamVars
<1> DEFINE t == on[s]
           open == \E f \in Fds : holder[f] = t
<1>c. /\ runner[s] = "blocked" /\ runner' = [runner EXCEPT ![s] = IF open THEN "called" ELSE "off"]
      /\ pending' = IF open THEN [pending EXCEPT ![t] = FALSE] ELSE pending
      /\ stolen' = IF open /\ t # s THEN stolen \cup {t} ELSE stolen
  BY DEF RunWakes
<1>m. t \in Sessions
  BY <1>f, <1>c DEF Descriptors
<1>r. /\ runner'[s] \in {"off", "called"} /\ (open => runner'[s] = "called")
      /\ \A x \in Sessions : x # s => runner'[x] = runner[x]
  BY <1>f, <1>c DEF WatchOK
<1>e. /\ \A x \in Sessions : x \in stolen => x \in stolen'
      /\ \A x \in Sessions : pending[x] => pending'[x] \/ x \in stolen' \/ (x = s /\ runner'[s] = "called")
  <2> HIDE DEF t, open
  <2> QED BY <1>f, <1>c, <1>m, <1>r DEF WatchOK
<1>w. work[s].by # "runner"
  BY <1>f, <1>c DEF Roles
<1>i. work[s] = Idle \/ work[s].by = "opener"
  BY <1>f, <1>w DEF Roles
<1>0. Idle.entries = {}
  BY DEF Idle
<1> HIDE DEF t, open
<1>1. KernelOK'
  BY <1>f, <1>u, KernelFrame
<1>2. MonitorOK'
  BY <1>f, <1>u, MonitorFrame
<1>3. WatchOK'
  BY <1>f, <1>u, <1>c, <1>m DEF WatchOK
<1>4. LedgerOK'
  BY <1>f, <1>u, LedgerFrame
<1>5. StreamOK'
  BY <1>f, <1>u, StreamFrame
<1>6. Roles'
  BY <1>f, <1>u, <1>c, <1>r, <1>w, Numbers DEF Roles
<1>7. Descriptors'
  BY <1>f, <1>u, <1>c, <1>r DEF Descriptors
<1>8. Haunted'
  <2>1. Watched'
    <3> SUFFICES ASSUME NEW x \in Sessions, watch[x], x \notin stolen', NEW e \in work[x].entries,
                        e.pid \in tracked[x] \cap Pids, parent[e.pid] = Exited
                 PROVE  pending'[x] \/ (work[x].by = "opener" /\ runner'[x] = "called")
      BY <1>f, <1>u DEF Haunted, Watched
    <3>1. pending[x] \/ (work[x].by = "opener" /\ runner[x] = "called")
      BY <1>f, <1>e DEF Haunted, Watched
    <3>2. CASE x = s
      BY <1>c, <1>e, <1>i, <1>0, <3>1, <3>2
    <3>3. CASE x # s
      BY <1>e, <1>r, <3>1, <3>3
    <3> QED BY <3>2, <3>3
  <2>2. NoGhostsAtRest'
    BY <1>f, <1>u, <1>c, <1>e, <1>r DEF Haunted, NoGhostsAtRest, Untended
  <2> QED BY <2>1, <2>2 DEF Haunted
<1>9. Carried'
  BY <1>f, <1>u, CarriedFrame
<1> QED BY <1>1, <1>2, <1>3, <1>4, <1>5, <1>6, <1>7, <1>8, <1>9
        DEF InventoryInv, TypeOK, Haunted, Carried

\* The reaper closes the monitor and its watch.
LEMMA EndClosesKeeps ==
    ASSUME InventoryInv, NEW s \in Sessions, EndCloses(s)
    PROVE  InventoryInv'
<1>f. /\ KernelOK /\ MonitorOK /\ WatchOK /\ LedgerOK /\ StreamOK
      /\ Roles /\ Descriptors /\ Haunted /\ Carried
  BY DEF InventoryInv, TypeOK, Haunted, Carried
<1>u. UNCHANGED <<parent, image, moves, up, front, closed, monitors, opener, mapMu, work,
                  failed, cached, offer, failures, fd, runner, on, stolen,
                  revision, sessions, processes, stream, queue, seen, view,
                  gone>>
  BY DEF EndCloses, kernelVars, monitorVars, watchVars, ledgerVars, streamVars
<1>c. /\ reaper[s] = "close" /\ work[s] = Idle /\ ended' = ended \cup {s}
      /\ watch' = [watch EXCEPT ![s] = FALSE] /\ tracked' = [tracked EXCEPT ![s] = {}]
      /\ holder' = [f \in Fds |-> IF holder[f] = s THEN NoOne ELSE holder[f]]
      /\ pending' = [pending EXCEPT ![s] = FALSE]
      /\ reaper' = [reaper EXCEPT ![s] = "records"]
  BY DEF EndCloses
<1>1. KernelOK'
  BY <1>f, <1>u, KernelFrame
<1>2. MonitorOK'
  BY <1>f, <1>u, <1>c, Numbers DEF MonitorOK
<1>3. WatchOK'
  BY <1>f, <1>u, <1>c DEF WatchOK
<1>4. LedgerOK'
  BY <1>f, <1>u, LedgerFrame
<1>5. StreamOK'
  BY <1>f, <1>u, StreamFrame
<1>6. Roles'
  BY <1>f, <1>u, <1>c, Numbers DEF Roles, MonitorOK, WatchOK, LedgerOK
<1>7. Descriptors'
  BY <1>f, <1>u, <1>c DEF Descriptors, WatchOK
<1>8. Haunted'
  BY <1>f, <1>u, <1>c, Numbers DEF Haunted, Watched, NoGhostsAtRest, Untended, MonitorOK,
     WatchOK, LedgerOK
<1>9. Carried'
  BY <1>f, <1>u, CarriedFrame
<1> QED BY <1>1, <1>2, <1>3, <1>4, <1>5, <1>6, <1>7, <1>8, <1>9
        DEF InventoryInv, TypeOK, Haunted, Carried

\* A caller finds the monitor closed.
LEMMA ReconcileReturnsKeeps ==
    ASSUME InventoryInv, NEW s \in Sessions, NEW who \in {"opener", "runner"}, ReconcileReturns(s, who)
    PROVE  InventoryInv'
<1>f. /\ KernelOK /\ MonitorOK /\ WatchOK /\ LedgerOK /\ StreamOK
      /\ Roles /\ Descriptors /\ Haunted /\ Carried
  BY DEF InventoryInv, TypeOK, Haunted, Carried
<1>u. UNCHANGED <<parent, image, moves, up, front, closed, monitors, ended, failed, cached,
                  offer, reaper, failures, watch, pending, tracked, fd,
                  holder, on, stolen, revision, sessions, processes, stream,
                  queue, seen, view, gone>>
  BY DEF ReconcileReturns, kernelVars, monitorVars, watchVars, ledgerVars, streamVars
<1>c. work[s] = Idle /\ s \in ended
  BY DEF ReconcileReturns, Calls
<1>h. /\ (who = "opener" => opener[s] = "watched") /\ (who = "runner" => runner[s] = "called")
      /\ who \in {"opener", "runner"}
  BY DEF ReconcileReturns, Calls
<1>k. /\ work' = [work EXCEPT ![s] = Idle] /\ mapMu' = (IF who = "opener" THEN NoOne ELSE mapMu)
      /\ opener' = [opener EXCEPT ![s] = IF who = "opener" THEN "done" ELSE @]
      /\ runner' = [runner EXCEPT ![s] = IF who = "runner" THEN "loop" ELSE @]
  BY DEF ReconcileReturns, Returns
<1>r. /\ work'[s] = Idle /\ Idle.by = "none" /\ Idle.entries = {}
      /\ opener'[s] = (IF who = "opener" THEN "done" ELSE opener[s])
      /\ runner'[s] = (IF who = "runner" THEN "loop" ELSE runner[s])
      /\ \A t \in Sessions : t # s => work'[t] = work[t] /\ opener'[t] = opener[t] /\ runner'[t] = runner[t]
  BY <1>f, <1>k DEF WatchOK, MonitorOK, Idle
<1>v. /\ opener' \in [Sessions -> {"opening", "committed", "watched", "done"}]
      /\ runner' \in [Sessions -> {"off", "loop", "blocked", "called"}]
      /\ work' \in [Sessions -> [by : {"none", "opener", "runner"}, entries : SUBSET Rows]]
      /\ mapMu' \in Sessions \cup {NoOne}
      /\ \A t \in Sessions : mapMu' = t <=> opener'[t] \in {"committed", "watched"}
  <2>1. opener' \in [Sessions -> {"opening", "committed", "watched", "done"}]
    BY <1>f, <1>k DEF MonitorOK
  <2>2. runner' \in [Sessions -> {"off", "loop", "blocked", "called"}]
    BY <1>f, <1>k DEF WatchOK
  <2>3. work' \in [Sessions -> [by : {"none", "opener", "runner"}, entries : SUBSET Rows]]
    <3>1. Idle \in [by : {"none", "opener", "runner"}, entries : SUBSET Rows]
      BY DEF Idle
    <3> QED BY <1>f, <1>k, <3>1 DEF MonitorOK
  <2>4. /\ mapMu' \in Sessions \cup {NoOne}
        /\ \A t \in Sessions : mapMu' = t <=> opener'[t] \in {"committed", "watched"}
    BY <1>f, <1>k, <1>r, <1>h, Numbers DEF MonitorOK
  <2> QED BY <2>1, <2>2, <2>3, <2>4
<1>1. KernelOK'
  BY <1>f, <1>u, KernelFrame
<1>2. MonitorOK'
  BY <1>f, <1>u, <1>v DEF MonitorOK
<1>3. WatchOK'
  BY <1>f, <1>u, <1>v DEF WatchOK
<1>4. LedgerOK'
  BY <1>f, <1>u, LedgerFrame
<1>5. StreamOK'
  BY <1>f, <1>u, StreamFrame
<1>6. Roles'
  BY <1>f, <1>u, <1>c, <1>h, <1>r DEF Roles, MonitorOK
<1>7. Descriptors'
  BY <1>f, <1>u, <1>h, <1>r, Numbers DEF Descriptors, WatchOK
<1>8. Haunted'
  <2>1. ~watch[s]
    BY <1>f, <1>c DEF Roles
  <2>2. Watched'
    BY <1>f, <1>u, <1>r, <2>1 DEF Haunted, Watched
  <2>3. NoGhostsAtRest'
    BY <1>f, <1>u, <1>r, <2>1 DEF Haunted, NoGhostsAtRest, Untended
  <2> QED BY <2>2, <2>3 DEF Haunted
<1>9. Carried'
  BY <1>f, <1>u, CarriedFrame
<1> QED BY <1>1, <1>2, <1>3, <1>4, <1>5, <1>6, <1>7, <1>8, <1>9
        DEF InventoryInv, TypeOK, Haunted, Carried

\* A caller reads the table, in which every process runs.
LEMMA ReconcileReadsKeeps ==
    ASSUME InventoryInv, NEW s \in Sessions, NEW who \in {"opener", "runner"}, ReconcileReads(s, who)
    PROVE  InventoryInv'
<1>f. /\ KernelOK /\ MonitorOK /\ WatchOK /\ LedgerOK /\ StreamOK
      /\ Roles /\ Descriptors /\ Haunted /\ Carried
  BY DEF InventoryInv, TypeOK, Haunted, Carried
<1>u. UNCHANGED <<parent, image, moves, up, front, closed, monitors, ended, opener, mapMu,
                  failed, cached, offer, reaper, failures, watch, pending,
                  tracked, fd, holder, runner, on, stolen, revision, sessions,
                  processes, stream, queue, seen, view, gone>>
  BY DEF ReconcileReads, kernelVars, monitorVars, watchVars, ledgerVars, streamVars
<1> DEFINE found == Descendants(Table, s, {})
<1>c. /\ work[s] = Idle /\ s \notin ended /\ work' = [work EXCEPT ![s] = [by |-> who, entries |-> found]]
      /\ (who = "opener" => opener[s] = "watched") /\ (who = "runner" => runner[s] = "called")
  BY DEF ReconcileReads, Calls
<1>e. found \in SUBSET Rows /\ \A e \in found : e.pid \in Pids => parent[e.pid] # Exited
  <2>1. found \subseteq Table
    BY DescendantsAreRows
  <2>2. \A e \in Table : e \in Rows /\ (e.pid \in Pids => e.pid \in Alive)
    BY <1>f, TableFacts
  <2> HIDE DEF found
  <2> QED BY <2>1, <2>2 DEF Alive
<1> HIDE DEF found
<1>r. /\ work'[s] = [by |-> who, entries |-> found] /\ \A t \in Sessions : t # s => work'[t] = work[t]
      /\ work'[s].by = who /\ work'[s].entries = found /\ work'[s] # Idle
  BY <1>f, <1>c DEF MonitorOK, Idle
<1>v. work' \in [Sessions -> [by : {"none", "opener", "runner"}, entries : SUBSET Rows]]
  <2>1. [by |-> who, entries |-> found] \in [by : {"none", "opener", "runner"}, entries : SUBSET Rows]
    BY <1>e
  <2> QED BY <1>f, <1>c, <2>1 DEF MonitorOK
<1>1. KernelOK'
  BY <1>f, <1>u, KernelFrame
<1>2. MonitorOK'
  BY <1>f, <1>u, <1>v DEF MonitorOK
<1>3. WatchOK'
  BY <1>f, <1>u, WatchFrame
<1>4. LedgerOK'
  BY <1>f, <1>u, LedgerFrame
<1>5. StreamOK'
  BY <1>f, <1>u, StreamFrame
<1>6. Roles'
  <2>1. opener[s] \notin {"opening", "committed"} /\ reaper[s] \notin {"records", "done"}
    BY <1>f, <1>c DEF Roles, MonitorOK
  <2>2. s \in monitors \/ reaper[s] \notin {"none", "ended"}
    BY <1>f, <1>c DEF Roles
  <2> QED BY <1>f, <1>u, <1>c, <1>r, <2>1, <2>2 DEF Roles
<1>7. Descriptors'
  BY <1>f, <1>u, DescriptorsFrame
<1>8. Haunted'
  <2>1. Watched'
    BY <1>f, <1>u, <1>e, <1>r DEF Haunted, Watched
  <2>2. NoGhostsAtRest'
    BY <1>f, <1>u, <1>r DEF Haunted, NoGhostsAtRest, Untended
  <2> QED BY <2>1, <2>2 DEF Haunted
<1>9. Carried'
  BY <1>f, <1>u, CarriedFrame
<1> QED BY <1>1, <1>2, <1>3, <1>4, <1>5, <1>6, <1>7, <1>8, <1>9
        DEF InventoryInv, TypeOK, Haunted, Carried

\* A comparison fails, with some more processes watched.
LEMMA ReconcileFailsKeeps ==
    ASSUME InventoryInv, NEW s \in Sessions, NEW n \in 0..Cardinality(Pids), ReconcileFails(s, n)
    PROVE  InventoryInv'
<1>f. /\ KernelOK /\ MonitorOK /\ WatchOK /\ LedgerOK /\ StreamOK
      /\ Roles /\ Descriptors /\ Haunted /\ Carried
  BY DEF InventoryInv, TypeOK, Haunted, Carried
<1>u. UNCHANGED <<parent, image, moves, up, front, closed, monitors, ended, cached, offer,
                  reaper, watch, pending, fd, holder, on, stolen, revision,
                  sessions, processes, stream, queue, seen, view, gone>>
  BY DEF ReconcileFails, kernelVars, monitorVars, watchVars, ledgerVars, streamVars
<1>h. /\ work[s].by \in {"opener", "runner"}
      /\ (work[s].by = "opener" => opener[s] = "watched") /\ (work[s].by = "runner" => runner[s] = "called")
  BY <1>f DEF ReconcileFails, Roles, MonitorOK
<1>c. failures' \in 0..MaxFailures /\ failed' = [failed EXCEPT ![s] = TRUE]
  BY <1>f, InventoryConstants DEF ReconcileFails, MonitorOK
<1>t. /\ tracked' \in [Sessions -> SUBSET (Sessions \cup Pids)]
      /\ \A t \in Sessions : tracked[t] \subseteq tracked'[t] /\ (t # s => tracked'[t] = tracked[t])
  <2>1. PICK more \in SUBSET Pids : tracked' = [tracked EXCEPT ![s] = tracked[s] \cup more]
    <3>1. PICK pids \in InOrder(PidsOf(work[s].entries)) :
            tracked' = [tracked EXCEPT ![s] = tracked[s] \cup ({pids[i] : i \in 1..n} \cap Alive)]
      BY DEF ReconcileFails
    <3>2. ({pids[i] : i \in 1..n} \cap Alive) \in SUBSET Pids
      BY DEF Alive
    <3> QED BY <3>1, <3>2
  <2>2. tracked \in [Sessions -> SUBSET (Sessions \cup Pids)]
    BY <1>f DEF WatchOK
  <2> QED BY <2>1, <2>2
<1>k. /\ work' = [work EXCEPT ![s] = Idle] /\ mapMu' = (IF work[s].by = "opener" THEN NoOne ELSE mapMu)
      /\ opener' = [opener EXCEPT ![s] = IF work[s].by = "opener" THEN "done" ELSE @]
      /\ runner' = [runner EXCEPT ![s] = IF work[s].by = "runner" THEN "loop" ELSE @]
  BY DEF ReconcileFails, Returns
<1>r. /\ work'[s] = Idle /\ Idle.by = "none" /\ Idle.entries = {}
      /\ opener'[s] = (IF work[s].by = "opener" THEN "done" ELSE opener[s])
      /\ runner'[s] = (IF work[s].by = "runner" THEN "loop" ELSE runner[s])
      /\ \A t \in Sessions : t # s => work'[t] = work[t] /\ opener'[t] = opener[t] /\ runner'[t] = runner[t]
  BY <1>f, <1>k DEF WatchOK, MonitorOK, Idle
<1>v. /\ opener' \in [Sessions -> {"opening", "committed", "watched", "done"}]
      /\ runner' \in [Sessions -> {"off", "loop", "blocked", "called"}]
      /\ work' \in [Sessions -> [by : {"none", "opener", "runner"}, entries : SUBSET Rows]]
      /\ mapMu' \in Sessions \cup {NoOne}
      /\ \A t \in Sessions : mapMu' = t <=> opener'[t] \in {"committed", "watched"}
  <2>1. opener' \in [Sessions -> {"opening", "committed", "watched", "done"}]
    BY <1>f, <1>k DEF MonitorOK
  <2>2. runner' \in [Sessions -> {"off", "loop", "blocked", "called"}]
    BY <1>f, <1>k DEF WatchOK
  <2>3. work' \in [Sessions -> [by : {"none", "opener", "runner"}, entries : SUBSET Rows]]
    <3>1. Idle \in [by : {"none", "opener", "runner"}, entries : SUBSET Rows]
      BY DEF Idle
    <3> QED BY <1>f, <1>k, <3>1 DEF MonitorOK
  <2>4. /\ mapMu' \in Sessions \cup {NoOne}
        /\ \A t \in Sessions : mapMu' = t <=> opener'[t] \in {"committed", "watched"}
    BY <1>f, <1>k, <1>r, <1>h, Numbers DEF MonitorOK
  <2> QED BY <2>1, <2>2, <2>3, <2>4
<1>1. KernelOK'
  BY <1>f, <1>u, KernelFrame
<1>2. MonitorOK'
  BY <1>f, <1>u, <1>c, <1>v DEF MonitorOK
<1>3. WatchOK'
  BY <1>f, <1>u, <1>t, <1>v DEF WatchOK
<1>4. LedgerOK'
  BY <1>f, <1>u, LedgerFrame
<1>5. StreamOK'
  BY <1>f, <1>u, StreamFrame
<1>6. Roles'
  <2>1. work[s] # Idle
    BY <1>h, <1>r
  <2>2. /\ opener[s] \notin {"opening", "committed"} /\ reaper[s] \notin {"records", "done"}
        /\ (s \in monitors \/ reaper[s] \notin {"none", "ended"})
    BY <1>f, <2>1 DEF Roles
  <2> QED BY <1>f, <1>u, <1>h, <1>r, <2>2 DEF Roles
<1>7. Descriptors'
  BY <1>f, <1>u, <1>h, <1>r, Numbers DEF Descriptors, WatchOK
<1>8. Haunted'
  <2>1. failed'[s] /\ \A t \in Sessions : t # s => failed'[t] = failed[t]
    BY <1>f, <1>c DEF MonitorOK
  <2>2. Watched'
    BY <1>f, <1>u, <1>r, <1>t DEF Haunted, Watched
  <2>3. NoGhostsAtRest'
    BY <1>f, <1>u, <1>r, <2>1 DEF Haunted, NoGhostsAtRest, Untended
  <2> QED BY <2>2, <2>3 DEF Haunted
<1>9. Carried'
  BY <1>f, <1>u, CarriedFrame
<1> QED BY <1>1, <1>2, <1>3, <1>4, <1>5, <1>6, <1>7, <1>8, <1>9
        DEF InventoryInv, TypeOK, Haunted, Carried

\* An opener commits the record of the shell, before anything watches it.
LEMMA StartCommitsKeeps ==
    ASSUME InventoryInv, NEW s \in Sessions, StartCommits(s)
    PROVE  InventoryInv'
<1>f. /\ KernelOK /\ MonitorOK /\ WatchOK /\ LedgerOK /\ StreamOK
      /\ Roles /\ Descriptors /\ Haunted /\ Carried
  BY DEF InventoryInv, TypeOK, Haunted, Carried
<1>u. UNCHANGED <<parent, image, moves, up, front, closed, ended, work, failed, cached, offer,
                  reaper, failures, watch, pending, tracked, fd, holder,
                  runner, on, stolen>>
  BY DEF StartCommits, kernelVars, monitorVars, watchVars, ledgerVars, streamVars
<1> DEFINE next == Records(s, {})
<1>n. /\ DOMAIN next = {s} /\ DOMAIN next \subseteq Sessions \cup Pids
      /\ \A p \in DOMAIN next : next[p] \in Nat
  <2>1. PidsOf({}) = {} /\ {} \in SUBSET Rows
    BY PidsOfFacts
  <2> QED BY <2>1, RecordsFacts
<1>y. ReplaceSession(s, next)
  BY DEF StartCommits
<1> HIDE DEF next
<1>x. /\ LedgerOK' /\ StreamOK' /\ Carried'
      /\ sessions'[s] = next /\ \A t \in Sessions : t # s => sessions'[t] = sessions[t]
  BY <1>f, <1>n, <1>y, ReplaceKeeps
<1>c. /\ opener[s] = "opening" /\ mapMu = NoOne /\ s \notin closed
      /\ mapMu' = s /\ monitors' = monitors \cup {s}
      /\ opener' = [opener EXCEPT ![s] = "committed"]
  BY DEF StartCommits, Starts
<1>1. KernelOK'
  BY <1>f, <1>u, KernelFrame
<1>2. MonitorOK'
  BY <1>f, <1>u, <1>c, Numbers DEF MonitorOK
<1>3. WatchOK'
  BY <1>f, <1>u, WatchFrame
<1>4. LedgerOK'
  BY <1>x
<1>5. StreamOK'
  BY <1>x
<1>6. Roles'
  <2>1. /\ opener'[s] = "committed" /\ \A t \in Sessions : t # s => opener'[t] = opener[t]
        /\ s \in monitors' /\ \A t \in Sessions : t # s => (t \in monitors' <=> t \in monitors)
    BY <1>f, <1>c DEF MonitorOK
  <2>2. reaper[s] = "none" /\ ~watch[s] /\ runner[s] = "off" /\ work[s] = Idle /\ Idle.by = "none"
    BY <1>f, <1>c DEF Roles, Idle
  <2>3. s \notin ended
    BY <1>f, <2>2 DEF Roles
  <2> QED BY <1>f, <1>u, <1>n, <1>x, <2>1, <2>2, <2>3 DEF Roles
<1>7. Descriptors'
  BY <1>f, <1>u, <1>c, Numbers DEF Descriptors, MonitorOK, WatchOK
<1>8. Haunted'
  <2>1. ~watch[s]
    BY <1>f, <1>c DEF Roles
  <2>2. \A t \in Sessions : t # s => opener'[t] = opener[t]
    BY <1>f, <1>c DEF MonitorOK
  <2>3. Watched'
    BY <1>f, <1>u, <1>x, <2>1 DEF Haunted, Watched
  <2>4. NoGhostsAtRest'
    BY <1>f, <1>u, <1>x, <2>1, <2>2 DEF Haunted, NoGhostsAtRest, Untended
  <2> QED BY <2>3, <2>4 DEF Haunted
<1>9. Carried'
  BY <1>x
<1> QED BY <1>1, <1>2, <1>3, <1>4, <1>5, <1>6, <1>7, <1>8, <1>9
        DEF InventoryInv, TypeOK, Haunted, Carried

\* The reaper takes the session's records out of the ledger.
LEMMA EndRecordsKeeps ==
    ASSUME InventoryInv, NEW s \in Sessions, EndRecords(s)
    PROVE  InventoryInv'
<1>f. /\ KernelOK /\ MonitorOK /\ WatchOK /\ LedgerOK /\ StreamOK
      /\ Roles /\ Descriptors /\ Haunted /\ Carried
  BY DEF InventoryInv, TypeOK, Haunted, Carried
<1>u. UNCHANGED <<parent, image, moves, up, front, closed, monitors, ended, opener, mapMu, work,
                  failed, cached, offer, failures, watch, pending, tracked,
                  fd, holder, runner, on, stolen>>
  BY DEF EndRecords, kernelVars, monitorVars, watchVars, ledgerVars, streamVars
<1> DEFINE next == Nothing
<1>n. /\ DOMAIN next = {} /\ DOMAIN next \subseteq Sessions \cup Pids
      /\ \A p \in DOMAIN next : next[p] \in Nat
  BY DEF Nothing
<1>y. ReplaceSession(s, next)
  BY DEF EndRecords
<1>o. next = Nothing
  OBVIOUS
<1> HIDE DEF next
<1>x. /\ LedgerOK' /\ StreamOK' /\ Carried'
      /\ sessions'[s] = next /\ \A t \in Sessions : t # s => sessions'[t] = sessions[t]
  BY <1>f, <1>n, <1>y, ReplaceKeeps
<1>c. /\ reaper[s] = "records"
      /\ reaper' = [reaper EXCEPT ![s] = "done"]
  BY DEF EndRecords
<1>1. KernelOK'
  BY <1>f, <1>u, KernelFrame
<1>2. MonitorOK'
  BY <1>f, <1>u, <1>c, Numbers DEF MonitorOK
<1>3. WatchOK'
  BY <1>f, <1>u, WatchFrame
<1>4. LedgerOK'
  BY <1>x
<1>5. StreamOK'
  BY <1>x
<1>6. Roles'
  <2>1. reaper'[s] = "done" /\ \A t \in Sessions : t # s => reaper'[t] = reaper[t]
    BY <1>f, <1>c DEF MonitorOK
  <2>2. sessions'[s] = Nothing /\ DOMAIN sessions'[s] = {}
    BY <1>n, <1>o, <1>x
  <2> QED BY <1>f, <1>u, <1>c, <1>x, <2>1, <2>2 DEF Roles
<1>7. Descriptors'
  BY <1>f, <1>u, DescriptorsFrame
<1>8. Haunted'
  <2>1. DOMAIN sessions'[s] = {}
    BY <1>n, <1>x
  <2>3. Watched'
    BY <1>f, <1>u, <1>x, <2>1 DEF Haunted, Watched
  <2>4. NoGhostsAtRest'
    BY <1>f, <1>u, <1>x, <2>1 DEF Haunted, NoGhostsAtRest, Untended
  <2> QED BY <2>3, <2>4 DEF Haunted
<1>9. Carried'
  BY <1>x
<1> QED BY <1>1, <1>2, <1>3, <1>4, <1>5, <1>6, <1>7, <1>8, <1>9
        DEF InventoryInv, TypeOK, Haunted, Carried

\* A comparison replaces the records by entries that are watched.
LEMMA ReconcileAppliesKeeps ==
    ASSUME InventoryInv, NEW s \in Sessions, NEW exited \in SUBSET Pids, NEW written \in BOOLEAN, ReconcileApplies(s, exited, written)
    PROVE  InventoryInv'
<1>f. /\ KernelOK /\ MonitorOK /\ WatchOK /\ LedgerOK /\ StreamOK
      /\ Roles /\ Descriptors /\ Haunted /\ Carried
  BY DEF InventoryInv, TypeOK, Haunted, Carried
<1>u. UNCHANGED <<parent, image, moves, up, front, closed, monitors, ended, reaper, watch,
                  pending, fd, holder, on, stolen>>
  BY DEF ReconcileApplies, kernelVars, monitorVars, watchVars, ledgerVars, streamVars
<1> DEFINE read == {e \in work[s].entries : e.pid \notin exited}
<1> DEFINE kept == SyncKeeps(s, read)
<1> DEFINE next == Records(s, kept)
<1>y. ReplaceSession(s, next)
  BY DEF ReconcileApplies
<1>h. /\ work[s].by \in {"opener", "runner"}
      /\ (work[s].by = "opener" => opener[s] = "watched") /\ (work[s].by = "runner" => runner[s] = "called")
  BY <1>f DEF ReconcileApplies, Roles, MonitorOK
<1>c. failures' \in 0..MaxFailures /\ failed' = [failed EXCEPT ![s] = FALSE]
  BY <1>f, InventoryConstants DEF ReconcileApplies, MonitorOK
<1>t. tracked' = [tracked EXCEPT ![s] = SyncTracks(s, read)]
  BY DEF ReconcileApplies
<1>e. work[s].entries \in SUBSET Rows
  BY <1>f DEF MonitorOK
<1>i. /\ read \in SUBSET Rows /\ kept \in SUBSET Rows
      /\ \A e \in kept : e \in read /\ e \in work[s].entries /\ (watch[s] => e.pid \in tracked[s] \cup Alive)
  BY <1>e DEF SyncKeeps
<1> HIDE DEF read, kept
<1>n. /\ DOMAIN next = {s} \cup PidsOf(kept) /\ DOMAIN next \subseteq Sessions \cup Pids
      /\ \A p \in DOMAIN next : next[p] \in Nat
  BY <1>i, RecordsFacts
<1> HIDE DEF next
<1>x. /\ LedgerOK' /\ StreamOK' /\ Carried'
      /\ sessions'[s] = next /\ \A t \in Sessions : t # s => sessions'[t] = sessions[t]
  BY <1>f, <1>n, <1>y, ReplaceKeeps
<1>g. /\ tracked' \in [Sessions -> SUBSET (Sessions \cup Pids)]
      /\ \A t \in Sessions : t # s => tracked'[t] = tracked[t]
      /\ watch[s] => DOMAIN next \cap Pids \subseteq tracked'[s]
  <2>1. PidsOf(read) \subseteq Sessions \cup Pids
    BY <1>i, PidsOfFacts
  <2>2. tracked \in [Sessions -> SUBSET (Sessions \cup Pids)]
    BY <1>f DEF WatchOK
  <2>3. SyncTracks(s, read) \in SUBSET (Sessions \cup Pids)
    BY <2>1, <2>2 DEF SyncTracks
  <2>4. ASSUME watch[s], NEW p \in DOMAIN next \cap Pids PROVE p \in SyncTracks(s, read)
    <3>1. PICK e \in kept : e.pid = p
      BY <1>n, <2>4, Numbers, PidsOfFacts
    <3>2. p \in PidsOf(read)
      BY <1>i, <3>1, PidsOfFacts
    <3> QED BY <1>i, <2>4, <3>1, <3>2 DEF SyncTracks
  <2>5. tracked'[s] = SyncTracks(s, read) /\ \A t \in Sessions : t # s => tracked'[t] = tracked[t]
    BY <1>t, <2>2
  <2>6. tracked' \in [Sessions -> SUBSET (Sessions \cup Pids)]
    BY <1>t, <2>2, <2>3
  <2> QED BY <2>4, <2>5, <2>6
<1>k. /\ work' = [work EXCEPT ![s] = Idle] /\ mapMu' = (IF work[s].by = "opener" THEN NoOne ELSE mapMu)
      /\ opener' = [opener EXCEPT ![s] = IF work[s].by = "opener" THEN "done" ELSE @]
      /\ runner' = [runner EXCEPT ![s] = IF work[s].by = "runner" THEN "loop" ELSE @]
  BY DEF ReconcileApplies, Returns
<1>r. /\ work'[s] = Idle /\ Idle.by = "none" /\ Idle.entries = {}
      /\ opener'[s] = (IF work[s].by = "opener" THEN "done" ELSE opener[s])
      /\ runner'[s] = (IF work[s].by = "runner" THEN "loop" ELSE runner[s])
      /\ \A t \in Sessions : t # s => work'[t] = work[t] /\ opener'[t] = opener[t] /\ runner'[t] = runner[t]
  BY <1>f, <1>k DEF WatchOK, MonitorOK, Idle
<1>v. /\ opener' \in [Sessions -> {"opening", "committed", "watched", "done"}]
      /\ runner' \in [Sessions -> {"off", "loop", "blocked", "called"}]
      /\ work' \in [Sessions -> [by : {"none", "opener", "runner"}, entries : SUBSET Rows]]
      /\ mapMu' \in Sessions \cup {NoOne}
      /\ \A t \in Sessions : mapMu' = t <=> opener'[t] \in {"committed", "watched"}
  <2>1. opener' \in [Sessions -> {"opening", "committed", "watched", "done"}]
    BY <1>f, <1>k DEF MonitorOK
  <2>2. runner' \in [Sessions -> {"off", "loop", "blocked", "called"}]
    BY <1>f, <1>k DEF WatchOK
  <2>3. work' \in [Sessions -> [by : {"none", "opener", "runner"}, entries : SUBSET Rows]]
    <3>1. Idle \in [by : {"none", "opener", "runner"}, entries : SUBSET Rows]
      BY DEF Idle
    <3> QED BY <1>f, <1>k, <3>1 DEF MonitorOK
  <2>4. /\ mapMu' \in Sessions \cup {NoOne}
        /\ \A t \in Sessions : mapMu' = t <=> opener'[t] \in {"committed", "watched"}
    BY <1>f, <1>k, <1>r, <1>h, Numbers DEF MonitorOK
  <2> QED BY <2>1, <2>2, <2>3, <2>4
<1>1. KernelOK'
  BY <1>f, <1>u, KernelFrame
<1>2. MonitorOK'
  BY <1>f, <1>u, <1>c, <1>v DEF MonitorOK
<1>3. WatchOK'
  BY <1>f, <1>u, <1>g, <1>v DEF WatchOK
<1>4. LedgerOK'
  BY <1>x
<1>5. StreamOK'
  BY <1>x
<1>6. Roles'
  <2>1. work[s] # Idle
    BY <1>h, <1>r
  <2>2. /\ opener[s] \notin {"opening", "committed"} /\ reaper[s] \notin {"records", "done"}
        /\ (s \in monitors \/ reaper[s] \notin {"none", "ended"})
    BY <1>f, <2>1 DEF Roles
  <2> QED BY <1>f, <1>u, <1>h, <1>r, <1>x, <2>2 DEF Roles
<1>7. Descriptors'
  BY <1>f, <1>u, <1>h, <1>r, Numbers DEF Descriptors, WatchOK
<1>8. Haunted'
  <2>1. ~failed'[s] /\ \A t \in Sessions : t # s => failed'[t] = failed[t]
    BY <1>f, <1>c DEF MonitorOK
  <2>2. Watched'
    BY <1>f, <1>u, <1>g, <1>r, <1>x DEF Haunted, Watched
  <2>3. ASSUME NEW p \in Pids, p \in DOMAIN next, parent[p] = Exited, watch[s], s \notin stolen
        PROVE  pending[s] \/ runner'[s] = "called"
    <3>1. PICK e \in kept : e.pid = p
      BY <1>n, <2>3, Numbers, PidsOfFacts
    <3>2. e \in work[s].entries /\ e.pid \in tracked[s]
      BY <1>i, <2>3, <3>1 DEF Alive
    <3>3. pending[s] \/ (work[s].by = "opener" /\ runner[s] = "called")
      BY <1>f, <2>3, <3>1, <3>2 DEF Haunted, Watched
    <3> QED BY <1>r, <3>3
  <2>4. NoGhostsAtRest'
    <3> SUFFICES ASSUME NEW t \in Sessions, NEW p \in Pids, p \in DOMAIN sessions'[t],
                        parent[p] = Exited, ~failed'[t], watch[t], t \notin stolen
                 PROVE  pending[t] \/ runner'[t] = "called" \/ work'[t] # Idle \/ opener'[t] = "watched"
      BY <1>u DEF NoGhostsAtRest, Untended
    <3>1. CASE t = s
      BY <1>x, <2>3, <3>1
    <3>2. CASE t # s
      BY <1>f, <1>r, <1>x, <2>1, <3>2 DEF Haunted, NoGhostsAtRest, Untended
    <3> QED BY <3>1, <3>2
  <2> QED BY <2>2, <2>4 DEF Haunted
<1>9. Carried'
  BY <1>x
<1> QED BY <1>1, <1>2, <1>3, <1>4, <1>5, <1>6, <1>7, <1>8, <1>9
        DEF InventoryInv, TypeOK, Haunted, Carried

\* A client begins with a snapshot of the ledger, and nothing on its way.
LEMMA SubscribeKeeps ==
    ASSUME InventoryInv, NEW o \in Streams, Subscribe(o)
    PROVE  InventoryInv'
<1>f. /\ KernelOK /\ MonitorOK /\ WatchOK /\ LedgerOK /\ StreamOK
      /\ Roles /\ Descriptors /\ Haunted /\ Carried
  BY DEF InventoryInv, TypeOK, Haunted, Carried
<1>u. UNCHANGED <<parent, image, moves, up, front, closed, monitors, ended, opener, mapMu, work,
                  failed, cached, offer, reaper, failures, watch, pending,
                  tracked, fd, holder, runner, on, stolen, revision, sessions,
                  processes, queue, gone>>
  BY DEF Subscribe, kernelVars, monitorVars, watchVars, ledgerVars, streamVars
<1>c. /\ stream[o] = "off" /\ stream' = [stream EXCEPT ![o] = "live"]
      /\ view' = [view EXCEPT ![o] = processes] /\ seen' = [seen EXCEPT ![o] = revision]
  BY DEF Subscribe
<1>1. KernelOK'
  BY <1>f, <1>u, KernelFrame
<1>2. MonitorOK'
  BY <1>f, <1>u, MonitorFrame
<1>3. WatchOK'
  BY <1>f, <1>u, WatchFrame
<1>4. LedgerOK'
  BY <1>f, <1>u, LedgerFrame
<1>5. StreamOK'
  BY <1>f, <1>u, <1>c DEF StreamOK, LedgerOK
<1>6. Roles'
  BY <1>f, <1>u, RolesFrame
<1>7. Descriptors'
  BY <1>f, <1>u, DescriptorsFrame
<1>8. Haunted'
  BY <1>f, <1>u, HauntedFrame
<1>9. Carried'
  <2>1. /\ stream'[o] = "live" /\ view'[o] = processes /\ seen'[o] = revision
        /\ \A x \in Streams : x # o => stream'[x] = stream[x] /\ view'[x] = view[x] /\ seen'[x] = seen[x]
    BY <1>f, <1>c DEF StreamOK
  <2>2. queue'[o] = <<>> /\ Len(queue'[o]) = 0 /\ revision \in Nat
    BY <1>f, <1>u, <1>c DEF Carried, Ledger, LedgerOK
  <2>3. Ledger'
    BY <1>f, <1>u, <2>1, <2>2 DEF Carried, Ledger, Agrees
  <2>4. \A s \in Sessions, p \in Sessions \cup Pids : About(o, s, p)' = {} /\ Agrees(view[o], s, p)'
    <3> SUFFICES ASSUME NEW s \in Sessions, NEW p \in Sessions \cup Pids
                 PROVE  About(o, s, p)' = {} /\ Agrees(view[o], s, p)'
      OBVIOUS
    <3>1. About(o, s, p)' = {}
      <4>1. 1..0 = {}
        OBVIOUS
      <4> QED BY <2>2, <4>1 DEF About
    <3>2. Agrees(processes, s, p)
      BY <1>f DEF Carried, Ledger
    <3> QED BY <1>u, <2>1, <3>1, <3>2 DEF Agrees
  <2>5. DOMAIN view'[o] \subseteq Ids
    BY <1>f, <2>1 DEF Carried, Ledger
  <2>6. \A x \in Streams : x # o => Follows(x)'
    BY <1>f, <1>u, <2>1, EachStream, FollowsFrame DEF Carried
  <2>7. Follows(o)'
    BY <1>u, <2>1, <2>2, <2>4, <2>5 DEF Follows
  <2> QED BY <2>3, <2>6, <2>7, EachStream DEF Carried
<1> QED BY <1>1, <1>2, <1>3, <1>4, <1>5, <1>6, <1>7, <1>8, <1>9
        DEF InventoryInv, TypeOK, Haunted, Carried

\* A subscription is given back.
LEMMA PeerNoticedKeeps ==
    ASSUME InventoryInv, NEW o \in Streams, PeerNoticed(o)
    PROVE  InventoryInv'
<1>f. /\ KernelOK /\ MonitorOK /\ WatchOK /\ LedgerOK /\ StreamOK
      /\ Roles /\ Descriptors /\ Haunted /\ Carried
  BY DEF InventoryInv, TypeOK, Haunted, Carried
<1>u. UNCHANGED <<parent, image, moves, up, front, closed, monitors, ended, opener, mapMu, work,
                  failed, cached, offer, reaper, failures, watch, pending,
                  tracked, fd, holder, runner, on, stolen, revision, sessions,
                  processes, queue, seen, view, gone>>
  BY DEF PeerNoticed, kernelVars, monitorVars, watchVars, ledgerVars, streamVars
<1>c. /\ stream[o] = "live" /\ stream' = [stream EXCEPT ![o] = "cut"]
  BY DEF PeerNoticed
<1>q. stream'[o] = "cut" /\ \A x \in Streams : x # o => stream'[x] = stream[x]
  BY <1>f, <1>c DEF StreamOK
<1>1. KernelOK'
  BY <1>f, <1>u, KernelFrame
<1>2. MonitorOK'
  BY <1>f, <1>u, MonitorFrame
<1>3. WatchOK'
  BY <1>f, <1>u, WatchFrame
<1>4. LedgerOK'
  BY <1>f, <1>u, LedgerFrame
<1>5. StreamOK'
  BY <1>f, <1>u, <1>c, Numbers DEF StreamOK
<1>6. Roles'
  BY <1>f, <1>u, RolesFrame
<1>7. Descriptors'
  BY <1>f, <1>u, DescriptorsFrame
<1>8. Haunted'
  BY <1>f, <1>u, HauntedFrame
<1>9. Carried'
  <2>o. \A x \in Streams : x # o => Follows(x)'
    BY <1>f, <1>u, <1>q, EachStream, FollowsFrame DEF Carried
  <2>1. Follows(o)'
    BY <1>f, <1>u, <1>q DEF Carried, StreamFollowsTheLedger, Follows
  <2>2. Ledger'
    BY <1>f, <1>u, <1>q DEF Carried, Ledger, Agrees
  <2> QED BY <2>o, <2>1, <2>2, EachStream DEF Carried
<1> QED BY <1>1, <1>2, <1>3, <1>4, <1>5, <1>6, <1>7, <1>8, <1>9
        DEF InventoryInv, TypeOK, Haunted, Carried

\* A stream is closed, and what it carried is dropped.
LEMMA StreamEndsKeeps ==
    ASSUME InventoryInv, NEW o \in Streams, StreamEnds(o)
    PROVE  InventoryInv'
<1>f. /\ KernelOK /\ MonitorOK /\ WatchOK /\ LedgerOK /\ StreamOK
      /\ Roles /\ Descriptors /\ Haunted /\ Carried
  BY DEF InventoryInv, TypeOK, Haunted, Carried
<1>u. UNCHANGED <<parent, image, moves, up, front, closed, monitors, ended, opener, mapMu, work,
                  failed, cached, offer, reaper, failures, watch, pending,
                  tracked, fd, holder, runner, on, stolen, revision, sessions,
                  processes, seen, view, gone>>
  BY DEF StreamEnds, kernelVars, monitorVars, watchVars, ledgerVars, streamVars
<1>c. /\ stream' = [stream EXCEPT ![o] = "over"]
      /\ queue' = [queue EXCEPT ![o] = <<>>]
  BY DEF StreamEnds
<1>q. /\ stream'[o] = "over" /\ queue'[o] = <<>> /\ Len(queue'[o]) = 0
      /\ \A x \in Streams : x # o => stream'[x] = stream[x] /\ queue'[x] = queue[x]
  BY <1>f, <1>c DEF StreamOK
<1>1. KernelOK'
  BY <1>f, <1>u, KernelFrame
<1>2. MonitorOK'
  BY <1>f, <1>u, MonitorFrame
<1>3. WatchOK'
  BY <1>f, <1>u, WatchFrame
<1>4. LedgerOK'
  BY <1>f, <1>u, LedgerFrame
<1>5. StreamOK'
  BY <1>f, <1>u, <1>c, Numbers DEF StreamOK
<1>6. Roles'
  BY <1>f, <1>u, RolesFrame
<1>7. Descriptors'
  BY <1>f, <1>u, DescriptorsFrame
<1>8. Haunted'
  BY <1>f, <1>u, HauntedFrame
<1>9. Carried'
  <2>o. \A x \in Streams : x # o => Follows(x)'
    BY <1>f, <1>u, <1>q, EachStream, FollowsFrame DEF Carried
  <2>1. Follows(o)'
    BY <1>q DEF Follows
  <2>2. Ledger'
    BY <1>f, <1>u, <1>q DEF Carried, Ledger, Agrees
  <2> QED BY <2>o, <2>1, <2>2, EachStream DEF Carried
<1> QED BY <1>1, <1>2, <1>3, <1>4, <1>5, <1>6, <1>7, <1>8, <1>9
        DEF InventoryInv, TypeOK, Haunted, Carried

\* A client applies the event at the head of its queue: it has what that one says.
LEMMA SendsKeeps ==
    ASSUME InventoryInv, NEW o \in Streams, Sends(o)
    PROVE  InventoryInv'
<1>f. /\ KernelOK /\ MonitorOK /\ WatchOK /\ LedgerOK /\ StreamOK
      /\ Roles /\ Descriptors /\ Haunted /\ Carried
  BY DEF InventoryInv, TypeOK, Haunted, Carried
<1>u. UNCHANGED <<parent, image, moves, up, front, closed, monitors, ended, opener, mapMu, work,
                  failed, cached, offer, reaper, failures, watch, pending,
                  tracked, fd, holder, runner, on, stolen, revision, sessions,
                  processes, stream, gone>>
  BY DEF Sends, kernelVars, monitorVars, watchVars, ledgerVars, streamVars
<1> DEFINE e == Head(queue[o])
           q == queue[o]
<1>c. /\ q # <<>> /\ view' = [view EXCEPT ![o] = Applied(view[o], e)]
      /\ seen' = [seen EXCEPT ![o] = e.rev] /\ queue' = [queue EXCEPT ![o] = Tail(q)]
  BY DEF Sends
<1>t. /\ q \in Seq(Events) /\ Len(q) \in Nat /\ Len(q) >= 1 /\ e = q[1] /\ e \in Events
      /\ Tail(q) \in Seq(Events) /\ Len(Tail(q)) = Len(q) - 1
      /\ \A i \in 1..(Len(q) - 1) : Tail(q)[i] = q[i + 1]
  <2>1. q \in Seq(Events)
    BY <1>f DEF StreamOK
  <2> QED BY <1>c, <2>1
<1>s. seen[o] \in Nat /\ e.rev = seen[o] + 1
  BY <1>f, <1>t DEF Carried, StreamFollowsTheLedger, StreamOK
<1> HIDE DEF e
<1>q. /\ view'[o] = Applied(view[o], e) /\ seen'[o] = seen[o] + 1 /\ queue'[o] = Tail(q)
      /\ \A x \in Streams : x # o => view'[x] = view[x] /\ seen'[x] = seen[x] /\ queue'[x] = queue[x]
  BY <1>f, <1>c, <1>s DEF StreamOK
<1>w. /\ Len(queue'[o]) = Len(q) - 1 /\ \A i \in 1..(Len(q) - 1) : queue'[o][i] = q[i + 1]
  BY <1>q, <1>t
<1>1. KernelOK'
  BY <1>f, <1>u, KernelFrame
<1>2. MonitorOK'
  BY <1>f, <1>u, MonitorFrame
<1>3. WatchOK'
  BY <1>f, <1>u, WatchFrame
<1>4. LedgerOK'
  BY <1>f, <1>u, LedgerFrame
<1>5. StreamOK'
  <2>1. queue' \in [Streams -> Seq(Events)]
    BY <1>f, <1>c, <1>t DEF StreamOK
  <2>2. seen' \in [Streams -> Nat]
    BY <1>f, <1>c, <1>s DEF StreamOK
  <2>3. DOMAIN view' = Streams
    BY <1>f, <1>c DEF StreamOK
  <2> QED BY <1>f, <1>u, <2>1, <2>2, <2>3 DEF StreamOK
<1>6. Roles'
  BY <1>f, <1>u, RolesFrame
<1>7. Descriptors'
  BY <1>f, <1>u, DescriptorsFrame
<1>8. Haunted'
  BY <1>f, <1>u, HauntedFrame
<1>9. Carried'
  <2>o. \A x \in Streams : x # o => Follows(x)'
    BY <1>f, <1>u, <1>q, EachStream, FollowsFrame DEF Carried
  <2>1. Ledger'
    BY <1>f, <1>u, <1>c, <1>q DEF Carried, Ledger, Agrees
  <2> HIDE DEF q
  <2>2. \A i \in 1..Len(queue'[o]) : queue'[o][i].rev = seen'[o] + i
    <3> SUFFICES ASSUME NEW i \in 1..(Len(q) - 1) PROVE q[i + 1].rev = (seen[o] + 1) + i
      BY <1>q, <1>w
    <3>1. i + 1 \in 1..Len(q) /\ i \in Int
      BY <1>t
    <3>2. q[i + 1].rev = seen[o] + (i + 1)
      BY <1>f, <3>1 DEF Carried, StreamFollowsTheLedger, q
    <3>3. seen[o] + (i + 1) = (seen[o] + 1) + i
      BY <1>s, <3>1
    <3> QED BY <3>2, <3>3
  <2>3. ASSUME stream[o] = "live"
        PROVE  seen'[o] + Len(queue'[o]) = revision /\ DOMAIN view'[o] \subseteq Ids
    <3>1. seen[o] + Len(q) = revision /\ DOMAIN view[o] \subseteq Ids
      BY <1>f, <2>3 DEF Carried, StreamFollowsTheLedger, q
    <3>2. (seen[o] + 1) + (Len(q) - 1) = seen[o] + Len(q)
      BY <1>s, <1>t
    <3>3. e.id \in Ids
      BY <1>t DEF Events
    <3>4. DOMAIN view'[o] \subseteq DOMAIN view[o] \cup {e.id}
      BY <1>q DEF Applied
    <3> QED BY <1>q, <1>w, <3>1, <3>2, <3>3, <3>4
  <2>4. ASSUME stream[o] = "live", NEW s \in Sessions, NEW p \in Sessions \cup Pids
        PROVE  /\ \A i \in About(o, s, p)' :
                    (\A j \in About(o, s, p)' : j <= i) => IsCurrent(queue[o][i], s, p)'
               /\ About(o, s, p)' = {} => Agrees(view[o], s, p)'
    <3>1. /\ \A i \in About(o, s, p) : (\A j \in About(o, s, p) : j <= i) => IsCurrent(q[i], s, p)
          /\ About(o, s, p) = {} => Agrees(view[o], s, p)
      BY <1>f, <2>4 DEF Carried, StreamFollowsTheLedger, q
    <3>2. /\ About(o, s, p) = {i \in 1..Len(q) : q[i].id = <<s, p>>}
          /\ About(o, s, p)' = {i \in 1..Len(queue'[o]) : queue'[o][i].id = <<s, p>>}
      BY DEF About, q
    <3>3. \A i \in About(o, s, p) : i = 1 \/ i - 1 \in About(o, s, p)'
      <4> SUFFICES ASSUME NEW i \in About(o, s, p), i # 1 PROVE i - 1 \in About(o, s, p)'
        OBVIOUS
      <4>1. i \in 1..Len(q) /\ q[i].id = <<s, p>>
        BY <3>2
      <4>2. i - 1 \in 1..(Len(q) - 1) /\ (i - 1) + 1 = i
        BY <1>t, <4>1
      <4> QED BY <1>w, <3>2, <4>1, <4>2
    <3>4. \A i \in About(o, s, p)' : /\ i + 1 \in About(o, s, p) /\ queue'[o][i] = q[i + 1]
                                    /\ i \in Nat /\ i >= 1
      <4> SUFFICES ASSUME NEW i \in About(o, s, p)'
                   PROVE  /\ i + 1 \in About(o, s, p) /\ queue'[o][i] = q[i + 1]
                          /\ i \in Nat /\ i >= 1
        OBVIOUS
      <4>1. i \in 1..(Len(q) - 1) /\ queue'[o][i].id = <<s, p>>
        BY <1>w, <3>2
      <4>2. i \in Nat /\ i >= 1 /\ i + 1 \in 1..Len(q)
        BY <1>t, <4>1
      <4>3. queue'[o][i] = q[i + 1]
        BY <1>w, <4>1
      <4> QED BY <3>2, <4>1, <4>2, <4>3
    <3>5. ASSUME NEW i \in About(o, s, p)', \A j \in About(o, s, p)' : j <= i
          PROVE  IsCurrent(queue[o][i], s, p)'
      <4>1. ASSUME NEW j \in About(o, s, p) PROVE j <= i + 1
        <5>1. CASE j = 1
          BY <3>4, <5>1
        <5>2. CASE j # 1
          <6>1. j - 1 <= i /\ j \in Int /\ i \in Int
            BY <1>t, <3>2, <3>3, <3>4, <3>5, <5>2
          <6> QED BY <6>1
        <5> QED BY <5>1, <5>2
      <4>2. IsCurrent(q[i + 1], s, p)
        BY <3>1, <3>4, <4>1
      <4> QED BY <1>u, <3>4, <4>2 DEF IsCurrent
    <3>6. ASSUME About(o, s, p)' = {} PROVE Agrees(view[o], s, p)'
      <4>1. About(o, s, p) \subseteq {1}
        BY <3>3, <3>6
      <4>2. CASE e.id = <<s, p>>
        <5>1. 1 \in About(o, s, p) /\ \A j \in About(o, s, p) : j <= 1
          BY <1>t, <3>2, <4>1, <4>2
        <5>2. IsCurrent(e, s, p)
          BY <1>t, <3>1, <5>1
        <5> QED BY <1>u, <1>q, <4>2, <5>2 DEF IsCurrent, Agrees, Applied
      <4>3. CASE e.id # <<s, p>>
        <5>1. About(o, s, p) = {}
          BY <1>t, <3>2, <4>1, <4>3
        <5>2. Agrees(view[o], s, p)
          BY <3>1, <5>1
        <5>3. /\ <<s, p>> \in DOMAIN view'[o] <=> <<s, p>> \in DOMAIN view[o]
              /\ <<s, p>> \in DOMAIN view[o] => view'[o][<<s, p>>] = view[o][<<s, p>>]
          BY <1>q, <4>3 DEF Applied
        <5> QED BY <1>u, <5>2, <5>3 DEF Agrees
      <4> QED BY <4>2, <4>3
    <3> QED BY <3>5, <3>6
  <2>5. Follows(o)'
    BY <1>u, <2>2, <2>3, <2>4 DEF Follows
  <2> QED BY <2>o, <2>1, <2>5, EachStream DEF Carried
<1> QED BY <1>1, <1>2, <1>3, <1>4, <1>5, <1>6, <1>7, <1>8, <1>9
        DEF InventoryInv, TypeOK, Haunted, Carried

\* A step that changes nothing.
LEMMA StutterKeeps ==
    ASSUME InventoryInv, UNCHANGED vars
    PROVE  InventoryInv'
<1>f. /\ KernelOK /\ MonitorOK /\ WatchOK /\ LedgerOK /\ StreamOK
      /\ Roles /\ Descriptors /\ Haunted /\ Carried
  BY DEF InventoryInv, TypeOK, Haunted, Carried
<1>1. /\ UNCHANGED <<parent, image, moves, up, front>>
      /\ UNCHANGED <<closed, monitors, ended, opener, mapMu, work, failed, reaper, failures>>
      /\ UNCHANGED <<watch, pending, tracked, fd, holder, runner, on, stolen>>
      /\ UNCHANGED <<revision, sessions, processes, stream, queue, seen, view, gone>>
  BY DEF vars, kernelVars, monitorVars, watchVars, ledgerVars, streamVars
<1>2. KernelOK' /\ MonitorOK' /\ WatchOK' /\ LedgerOK' /\ StreamOK'
  BY <1>f, <1>1, KernelFrame, MonitorFrame, WatchFrame, LedgerFrame, StreamFrame
<1>3. Roles' /\ Descriptors' /\ Haunted' /\ Carried'
  BY <1>f, <1>1, RolesFrame, DescriptorsFrame, HauntedFrame, CarriedFrame
<1> QED BY <1>2, <1>3 DEF InventoryInv, TypeOK, Haunted, Carried

\* No session is open, nobody listens and nothing is recorded at the start.
LEMMA InitHolds == Init => InventoryInv
<1> SUFFICES ASSUME Init PROVE InventoryInv
  OBVIOUS
<1>0. /\ Idle \in [by : {"none", "opener", "runner"}, entries : SUBSET Rows] /\ Idle.entries = {}
      /\ Idle.by = "none" /\ DOMAIN Nothing = {}
  BY DEF Idle, Nothing
<1>1. KernelOK
  BY InventoryConstants DEF Init, KernelOK
<1>2. MonitorOK
  BY <1>0, InventoryConstants, Numbers DEF Init, MonitorOK
<1>3. WatchOK
  BY DEF Init, WatchOK
<1>4. LedgerOK
  BY <1>0 DEF Init, LedgerOK
<1>5. StreamOK
  BY DEF Init, StreamOK
<1>6. Roles
  BY <1>0 DEF Init, Roles
<1>7. Descriptors
  BY DEF Init, Descriptors
<1>8. Watched /\ NoGhostsAtRest
  BY <1>0 DEF Init, Watched, NoGhostsAtRest
<1>9. Ledger
  BY <1>0 DEF Init, Ledger, Agrees
<1>10. StreamFollowsTheLedger
  <2>1. \A o \in Streams : queue[o] = <<>> /\ Len(queue[o]) = 0 /\ stream[o] = "off"
    BY DEF Init
  <2> QED BY <2>1 DEF StreamFollowsTheLedger
<1> QED BY <1>1, <1>2, <1>3, <1>4, <1>5, <1>6, <1>7, <1>8, <1>9, <1>10 DEF InventoryInv, TypeOK

\* Every step keeps the invariant, action by action.
LEMMA NextKeeps == InventoryInv /\ [Next]_vars => InventoryInv'
<1> SUFFICES ASSUME InventoryInv, [Next]_vars PROVE InventoryInv'
  OBVIOUS
<1>1. CASE Kernel
  BY <1>1, ForkKeeps, ExecKeeps, ExitKeeps, ShellExitsKeeps, ToFrontKeeps DEF Kernel
<1>2. ASSUME NEW s \in Sessions, Reap(s) PROVE InventoryInv'
  BY <1>2, ReapKeeps
<1>3. ASSUME NEW s \in Sessions, OpenerStep(s) PROVE InventoryInv'
  BY <1>3, StartCommitsKeeps, StartReturnsKeeps, StartObservesKeeps, StartUnwatchedKeeps
     DEF OpenerStep
<1>4. ASSUME NEW s \in Sessions, Reconciles(s) PROVE InventoryInv'
  <2>1. CASE \E who \in {"opener", "runner"} : ReconcileReturns(s, who) \/ ReconcileReads(s, who)
    BY <2>1, ReconcileReturnsKeeps, ReconcileReadsKeeps
  <2>2. CASE \E exited \in SUBSET Pids, written \in BOOLEAN : ReconcileApplies(s, exited, written)
    BY <2>2, ReconcileAppliesKeeps
  <2>3. CASE \E n \in 0..Cardinality(Pids) : ReconcileFails(s, n)
    BY <2>3, ReconcileFailsKeeps
  <2> QED BY <1>4, <2>1, <2>2, <2>3 DEF Reconciles
<1>5. ASSUME NEW s \in Sessions, RunnerStep(s) PROVE InventoryInv'
  BY <1>5, RunWaitsKeeps, RunWakesKeeps DEF RunnerStep
<1>6. ASSUME NEW s \in Sessions, ReaperStep(s) PROVE InventoryInv'
  BY <1>6, EndTakesKeeps, EndClosesKeeps, EndRecordsKeeps DEF ReaperStep
<1>7. ASSUME NEW o \in Streams, Subscribe(o) \/ StreamStep(o) \/ PeerNoticed(o) \/ PeerDies(o)
      PROVE  InventoryInv'
  BY <1>7, SubscribeKeeps, SendsKeeps, StreamEndsKeeps, PeerNoticedKeeps, PeerDiesKeeps
     DEF StreamStep
<1>8. CASE UNCHANGED vars
  BY <1>8, StutterKeeps
<1> QED BY <1>1, <1>2, <1>3, <1>4, <1>5, <1>6, <1>7, <1>8 DEF Next

----------------------------------------------------------------------------
(* The walk over the process table *)

\* g is a run of n steps from a start.
IsRun(g, S, start, step, n) ==
    /\ g \in [0..n -> S] /\ g[0] = start
    /\ \A i \in 1..n : g[i] = step[<<i, g[i - 1]>>]

\* A step that is taken some number of times from a start has a run.
LEMMA RunExists ==
    ASSUME NEW S, NEW start \in S, NEW step \in [Nat \X S -> S], NEW N \in Nat
    PROVE  \E g : IsRun(g, S, start, step, N)
<1> DEFINE Run(g, n) == IsRun(g, S, start, step, n)
           Bad == {n \in Nat : ~\E g : Run(g, n)}
<1> SUFFICES ASSUME Bad # {} PROVE FALSE
  OBVIOUS
<1>1. PICK n \in Bad : \A m \in Bad : n <= m
  BY LeastNumber
<1>2. n \in Nat /\ ~\E g : Run(g, n)
  BY <1>1
<1>3. n # 0
  <2> SUFFICES ASSUME n = 0 PROVE FALSE
    OBVIOUS
  <2>1. Run([i \in 0..0 |-> start], 0)
    BY DEF IsRun
  <2> QED BY <1>2, <2>1
<1>4. n - 1 \in Nat /\ n - 1 \notin Bad
  <2> HIDE DEF Bad, Run
  <2> QED BY <1>1, <1>2, <1>3
<1>5. PICK g : Run(g, n - 1)
  BY <1>4
<1> DEFINE h == [i \in 0..n |-> IF i = n THEN step[<<n, g[n - 1]>>] ELSE g[i]]
<1>6. \A i \in 0..n : i = n \/ i \in 0..(n - 1)
  BY <1>2
<1>7. g[n - 1] \in S /\ step[<<n, g[n - 1]>>] \in S
  BY <1>2, <1>4, <1>5 DEF IsRun
<1>8. h \in [0..n -> S] /\ h[0] = start
  <2>1. \A i \in 0..n : h[i] \in S
    BY <1>5, <1>6, <1>7 DEF IsRun
  <2>2. 0 \in 0..n /\ 0 # n
    BY <1>2, <1>3
  <2> QED BY <1>4, <1>5, <2>1, <2>2 DEF IsRun
<1>9. ASSUME NEW i \in 1..n PROVE h[i] = step[<<i, h[i - 1]>>]
  <2>1. i - 1 \in 0..n /\ i - 1 # n /\ i \in 0..n
    BY <1>2
  <2>2. h[i - 1] = g[i - 1]
    BY <2>1
  <2>3. CASE i = n
    BY <2>1, <2>2, <2>3
  <2>4. CASE i # n
    <3>1. i \in 1..(n - 1)
      BY <1>2, <2>4
    <3> QED BY <1>5, <2>1, <2>2, <2>4, <3>1 DEF IsRun
  <2> QED BY <2>3, <2>4
<1>10. Run(h, n)
  BY <1>8, <1>9 DEF IsRun
<1> QED BY <1>2, <1>10

\* The shell, and the processes that run and whose parent is in S.
Below(s, S) == {s} \cup {p \in Alive : parent[p] \in S}

\* The shell, what is at most one below it, two below it, and so on.
Levels(v, s, n) ==
    /\ v \in [0..n -> SUBSET (Sessions \cup Pids)] /\ v[0] = {s}
    /\ \A i \in 1..n : v[i] = Below(s, v[i - 1])

\* The children the table has of some pids.
LEMMA ChildrenInTheTable ==
    ASSUME KernelOK, NEW s \in Sessions, NEW S \in SUBSET (Sessions \cup Pids)
    PROVE  /\ {s} \cup UNION {PidsOf(ChildrenOf(Table, q)) : q \in S} = Below(s, S)
           /\ Below(s, S) \in SUBSET (Sessions \cup Pids)
<1>1. Launchd \notin S
  BY Numbers
<1>2. ASSUME NEW q \in S, NEW p \in PidsOf(ChildrenOf(Table, q)) PROVE p \in Below(s, S)
  <2>1. PICK e \in Table : e.parent = q /\ e.pid = p
    BY DEF PidsOf, ChildrenOf
  <2>2. CASE \E x \in Alive : e = Row(x)
    BY <2>1, <2>2 DEF Row, Below
  <2>3. CASE \E x \in up : e = ShellRow(x)
    BY <1>1, <2>1, <2>3 DEF ShellRow
  <2> QED BY <2>2, <2>3 DEF Table
<1>3. ASSUME NEW p \in Alive, parent[p] \in S PROVE p \in PidsOf(ChildrenOf(Table, parent[p]))
  <2>1. Row(p) \in Table /\ Row(p).parent = parent[p] /\ Row(p).pid = p
    BY DEF Table, Row
  <2>2. Row(p) \in ChildrenOf(Table, parent[p])
    BY <2>1 DEF ChildrenOf
  <2> QED BY <2>1, <2>2 DEF PidsOf
<1>4. Below(s, S) \subseteq {s} \cup UNION {PidsOf(ChildrenOf(Table, q)) : q \in S}
  BY <1>3 DEF Below
<1>5. UNION {PidsOf(ChildrenOf(Table, q)) : q \in S} \subseteq Below(s, S)
  BY <1>2
<1>6. s \in Below(s, S)
  BY DEF Below
<1>7. Below(s, S) \in SUBSET (Sessions \cup Pids)
  BY DEF Below, Alive
<1> QED BY <1>4, <1>5, <1>6, <1>7

\* There are levels, as many as one asks for.
LEMMA LevelsExist ==
    ASSUME KernelOK, NEW s \in Sessions, NEW n \in Nat
    PROVE  \E v : Levels(v, s, n)
<1> DEFINE S == SUBSET (Sessions \cup Pids)
           step == [x \in Nat \X S |-> Below(s, x[2])]
<1>1. \A i \in Nat, x \in S : step[<<i, x>>] = Below(s, x) /\ Below(s, x) \in S
  BY ChildrenInTheTable
<1>2. step \in [Nat \X S -> S] /\ {s} \in S
  BY ChildrenInTheTable
<1> HIDE DEF step, S
<1>3. PICK v : IsRun(v, S, {s}, step, n)
  BY <1>2, RunExists
<1>4. ASSUME NEW i \in 1..n PROVE v[i] = Below(s, v[i - 1])
  <2>1. i - 1 \in 0..n /\ i \in Nat
    OBVIOUS
  <2> QED BY <1>1, <1>3, <2>1 DEF IsRun
<1> QED BY <1>3, <1>4 DEF IsRun, Levels, S

\* Every level has the shell and else only what runs, and what the level before it has.
LEMMA LevelFacts ==
    ASSUME KernelOK, NEW s \in Sessions, NEW n \in Nat, NEW v, Levels(v, s, n)
    PROVE  /\ \A i \in 0..n : s \in v[i] /\ v[i] \subseteq {s} \cup Alive
           /\ \A i \in 1..n : v[i - 1] \subseteq v[i]
<1>1. \A i \in 0..n : i = 0 \/ i \in 1..n
  OBVIOUS
<1>2. \A i \in 0..n : s \in v[i] /\ v[i] \subseteq {s} \cup Alive
  BY <1>1 DEF Levels, Below
<1> DEFINE Bad == {i \in Nat : i \in 1..n /\ ~(v[i - 1] \subseteq v[i])}
<1>3. Bad = {}
  <2> SUFFICES ASSUME Bad # {} PROVE FALSE
    OBVIOUS
  <2>1. PICK k \in Bad : \A m \in Bad : k <= m
    BY LeastNumber
  <2>2. k \in 1..n /\ ~(v[k - 1] \subseteq v[k])
    BY <2>1
  <2>3. k # 1
    <3>1. 1 - 1 = 0
      OBVIOUS
    <3> QED BY <1>2, <2>2, <3>1 DEF Levels
  <2>4. k - 1 \in Nat /\ k - 1 \in 1..n /\ k - 1 \notin Bad
    <3> HIDE DEF Bad
    <3> QED BY <2>1, <2>2, <2>3
  <2>5. v[(k - 1) - 1] \subseteq v[k - 1]
    BY <2>4
  <2>6. v[k] = Below(s, v[k - 1]) /\ v[k - 1] = Below(s, v[(k - 1) - 1])
    BY <2>2, <2>4 DEF Levels
  <2> QED BY <2>2, <2>5, <2>6 DEF Below
<1> QED BY <1>2, <1>3

\* Levels are the same, however many there are.
LEMMA LevelsAgree ==
    ASSUME NEW s, NEW n \in Nat, NEW m \in Nat, NEW v, NEW w, Levels(v, s, n), Levels(w, s, m),
           NEW i \in Nat, i <= n, i <= m
    PROVE  v[i] = w[i]
<1> DEFINE Bad == {k \in Nat : k <= n /\ k <= m /\ v[k] # w[k]}
<1> SUFFICES ASSUME Bad # {} PROVE FALSE
  OBVIOUS
<1>1. PICK k \in Bad : \A x \in Bad : k <= x
  BY LeastNumber
<1>2. k \in Nat /\ k <= n /\ k <= m /\ v[k] # w[k]
  BY <1>1
<1>3. k # 0
  BY <1>2 DEF Levels
<1>4. k - 1 \in Nat /\ k - 1 \notin Bad /\ k - 1 <= n /\ k - 1 <= m /\ k \in 1..n /\ k \in 1..m
  <2> HIDE DEF Bad
  <2> QED BY <1>1, <1>2, <1>3
<1>5. v[k - 1] = w[k - 1]
  BY <1>4
<1> QED BY <1>2, <1>4, <1>5 DEF Levels

\* The levels stop growing before there are more of them than processes that run: each one
\* that grows has a process the ones before it did not have.
LEMMA LevelsSettle ==
    ASSUME KernelOK, NEW s \in Sessions, NEW n \in Nat, NEW v, Levels(v, s, n),
           n > Cardinality(Alive)
    PROVE  /\ Cardinality(Alive) \in Nat
           /\ \A i \in Cardinality(Alive)..n : v[i] = v[Cardinality(Alive)]
<1> DEFINE a == Cardinality(Alive)
<1>1. IsFiniteSet(Alive) /\ a \in Nat
  <2>1. Alive \subseteq Pids
    BY DEF Alive
  <2> QED BY <2>1, InventoryConstants, FS_Subset, FS_CardinalityType
<1>0. n > a
  OBVIOUS
<1> HIDE DEF a
<1>2. /\ \A i \in 0..n : s \in v[i] /\ v[i] \subseteq {s} \cup Alive
      /\ \A i \in 1..n : v[i - 1] \subseteq v[i]
  BY LevelFacts
<1>3. ASSUME NEW k \in 0..n, NEW l \in 0..n, k <= l PROVE v[k] \subseteq v[l]
  <2> DEFINE Bad == {i \in Nat : k <= i /\ i <= n /\ ~(v[k] \subseteq v[i])}
  <2> SUFFICES ASSUME Bad # {} PROVE FALSE
    BY <1>3
  <2>1. PICK i \in Bad : \A m \in Bad : i <= m
    BY LeastNumber
  <2>2. i \in Nat /\ k <= i /\ i <= n /\ ~(v[k] \subseteq v[i]) /\ i # k
    BY <2>1
  <2>3. i - 1 \in Nat /\ k <= i - 1 /\ i - 1 <= n /\ i - 1 \notin Bad /\ i \in 1..n
    <3> HIDE DEF Bad
    <3> QED BY <2>1, <2>2
  <2> QED BY <1>2, <2>2, <2>3
<1>4. \E k \in 0..a : v[k + 1] = v[k]
  <2> SUFFICES ASSUME \A k \in 0..a : v[k + 1] # v[k] PROVE FALSE
    OBVIOUS
  <2>1. ASSUME NEW k \in 0..a PROVE \E p \in Alive : p \in v[k + 1] /\ p \notin v[k]
    <3>1. k \in 0..n /\ k + 1 \in 1..n /\ k + 1 \in 0..n /\ (k + 1) - 1 = k
      BY <1>0, <1>1
    <3>2. v[k] \subseteq v[k + 1] /\ v[k + 1] # v[k]
      BY <1>2, <3>1
    <3>3. PICK p \in v[k + 1] : p \notin v[k]
      BY <3>2
    <3> QED BY <1>2, <3>1, <3>3
  <2> DEFINE f == [k \in 0..a |-> CHOOSE p \in Alive : p \in v[k + 1] /\ p \notin v[k]]
  <2>2. \A k \in 0..a : f[k] \in Alive /\ f[k] \in v[k + 1] /\ f[k] \notin v[k]
    BY <2>1
  <2>3. f \in [0..a -> Alive]
    BY <2>2
  <2> HIDE DEF f
  <2>4. ASSUME NEW k \in 0..a, NEW l \in 0..a, k < l PROVE f[k] # f[l]
    <3>1. k + 1 \in 0..n /\ l \in 0..n /\ k + 1 <= l
      BY <1>0, <1>1, <2>4
    <3> QED BY <1>3, <2>2, <3>1
  <2>5. f \in Injection(0..a, Alive)
    <3>1. \A k, l \in 0..a : f[k] = f[l] => k = l
      <4>1. \A k, l \in 0..a : k < l \/ l < k \/ k = l
        BY <1>1
      <4> QED BY <2>4, <4>1
    <3> QED BY <2>3, <3>1 DEF Injection, IsInjective
  <2>6. Cardinality(0..a) = a + 1
    BY <1>1, FS_Interval
  <2>7. Cardinality(0..a) <= Cardinality(Alive)
    BY <1>1, <2>5, FS_Injection
  <2> QED BY <1>1, <2>6, <2>7 DEF a
<1>5. PICK k \in 0..a : v[k + 1] = v[k]
  BY <1>4
<1>6. ASSUME NEW i \in k..n PROVE v[i] = v[k]
  <2> DEFINE Bad == {j \in Nat : k <= j /\ j <= n /\ v[j] # v[k]}
  <2> SUFFICES ASSUME Bad # {} PROVE FALSE
    BY <1>1, <1>5
  <2>1. PICK j \in Bad : \A m \in Bad : j <= m
    BY LeastNumber
  <2>2. j \in Nat /\ k <= j /\ j <= n /\ v[j] # v[k] /\ j # k /\ j # k + 1 /\ k \in Nat
    BY <1>1, <1>5, <2>1
  <2>3. j - 1 \in Nat /\ k <= j - 1 /\ j - 1 <= n /\ j - 1 \notin Bad /\ j \in 1..n /\ k + 1 \in 1..n
    <3> HIDE DEF Bad
    <3> QED BY <1>0, <1>1, <2>1, <2>2
  <2>4. v[j] = Below(s, v[j - 1]) /\ v[k + 1] = Below(s, v[(k + 1) - 1]) /\ (k + 1) - 1 = k
    BY <2>2, <2>3 DEF Levels
  <2> QED BY <1>5, <2>2, <2>3, <2>4
<1>7. a \in k..n /\ \A i \in a..n : i \in k..n
  BY <1>0, <1>1, <1>5
<1> QED BY <1>1, <1>6, <1>7 DEF a

\* The table has a row for each process that runs and each shell.
LEMMA TableIsFinite ==
    ASSUME KernelOK
    PROVE  Cardinality(Table) \in Nat /\ Cardinality(Alive) <= Cardinality(Table)
<1>1. IsFiniteSet(Alive) /\ IsFiniteSet(up)
  <2>1. Alive \subseteq Pids /\ up \subseteq Sessions
    BY DEF Alive, KernelOK
  <2> QED BY <2>1, InventoryConstants, FS_Subset
<1>2. IsFiniteSet(Table)
  <2> DEFINE rows == [p \in Alive |-> Row(p)]
             shells == [t \in up |-> ShellRow(t)]
  <2>1. rows \in Surjection(Alive, {Row(p) : p \in Alive})
    BY DEF Surjection
  <2>2. shells \in Surjection(up, {ShellRow(t) : t \in up})
    BY DEF Surjection
  <2> HIDE DEF rows, shells
  <2>3. IsFiniteSet({Row(p) : p \in Alive}) /\ IsFiniteSet({ShellRow(t) : t \in up})
    BY <1>1, <2>1, <2>2, FS_Surjection
  <2> QED BY <2>3, FS_Union DEF Table
<1>3. [p \in Alive |-> Row(p)] \in Injection(Alive, Table)
  <2>1. \A p \in Alive : Row(p) \in Table /\ Row(p).pid = p
    BY DEF Table, Row
  <2>2. [p \in Alive |-> Row(p)] \in [Alive -> Table]
    BY <2>1
  <2>3. \A p, q \in Alive : [x \in Alive |-> Row(x)][p] = [x \in Alive |-> Row(x)][q] => p = q
    BY <2>1
  <2> QED BY <2>2, <2>3 DEF Injection, IsInjective
<1>4. Cardinality(Table) \in Nat
  BY <1>2, FS_CardinalityType
<1>5. Cardinality(Alive) <= Cardinality(Table)
  BY <1>2, <1>3, FS_Injection
<1> QED BY <1>4, <1>5

\* The walk over the table goes through the levels under the shell.
LEMMA TheWalkIsTheLevels ==
    ASSUME KernelOK, NEW s \in Sessions, NEW exited
    PROVE  \E w : /\ Levels(w, s, Cardinality(Table))
                  /\ Walked(Table, s, exited) = w[Cardinality(Table)]
<1> DEFINE N == Cardinality(Table)
           Children(S) == {s} \cup UNION {PidsOf(ChildrenOf(Table, q)) : q \in S}
           Steps(r) == r = [i \in 0..N |-> IF i = 0 THEN {s} ELSE Children(r[i - 1])]
<1>1. N \in Nat
  BY TableIsFinite
<1>2. \A S \in SUBSET (Sessions \cup Pids) :
        Children(S) = Below(s, S) /\ Below(s, S) \in SUBSET (Sessions \cup Pids)
  BY ChildrenInTheTable
<1> DEFINE w == CHOOSE r : Steps(r)
<1>3. Walked(Table, s, exited) = w[N]
  BY DEF Walked
<1> HIDE DEF N, Children
<1>4. PICK v : Levels(v, s, N)
  BY <1>1, LevelsExist
<1>5. Steps(v)
  <2>1. \A i \in 0..N : v[i] = IF i = 0 THEN {s} ELSE Children(v[i - 1])
    <3>1. ASSUME NEW i \in 1..N PROVE v[i] = Children(v[i - 1])
      <4>1. i - 1 \in 0..N
        BY <1>1
      <4>2. v[i - 1] \in SUBSET (Sessions \cup Pids) /\ v[i] = Below(s, v[i - 1])
        BY <1>4, <4>1 DEF Levels
      <4> QED BY <1>2, <4>2
    <3>2. \A i \in 0..N : i = 0 \/ i \in 1..N
      BY <1>1
    <3>3. \A i \in 1..N : i # 0
      BY <1>1
    <3> QED BY <1>4, <3>1, <3>2, <3>3 DEF Levels
  <2>2. v = [i \in 0..N |-> v[i]]
    BY <1>4 DEF Levels
  <2> QED BY <2>1, <2>2, Zenon
<1>6. Steps(w)
  BY <1>5, Zenon
<1> HIDE DEF w
<1>7. /\ \A i \in 0..N : w[i] = IF i = 0 THEN {s} ELSE Children(w[i - 1])
      /\ w = [i \in 0..N |-> w[i]]
  BY <1>6, Zenon
<1>8. w[0] = {s} /\ \A i \in 1..N : w[i] = Children(w[i - 1])
  <2>1. 0 \in 0..N /\ \A i \in 1..N : i \in 0..N /\ i # 0
    BY <1>1
  <2> QED BY <1>7, <2>1
<1>9. \A i \in 0..N : w[i] \in SUBSET (Sessions \cup Pids)
  <2> DEFINE Bad == {i \in Nat : i <= N /\ w[i] \notin SUBSET (Sessions \cup Pids)}
  <2> SUFFICES ASSUME Bad # {} PROVE FALSE
    BY <1>1
  <2>1. PICK k \in Bad : \A m \in Bad : k <= m
    BY LeastNumber
  <2>2. k \in Nat /\ k <= N /\ w[k] \notin SUBSET (Sessions \cup Pids) /\ k # 0
    BY <1>8, <2>1
  <2>3. k - 1 \in Nat /\ k - 1 <= N /\ k - 1 \notin Bad /\ k \in 1..N
    <3> HIDE DEF Bad
    <3> QED BY <1>1, <2>1, <2>2
  <2>4. w[k - 1] \in SUBSET (Sessions \cup Pids) /\ w[k] = Children(w[k - 1])
    BY <1>8, <2>3
  <2> QED BY <1>2, <2>2, <2>4
<1>10. ASSUME NEW i \in 1..N PROVE w[i] = Below(s, w[i - 1])
  <2>1. i - 1 \in 0..N
    BY <1>1
  <2> QED BY <1>2, <1>8, <1>9, <2>1
<1>11. w \in [0..N -> SUBSET (Sessions \cup Pids)]
  BY <1>7, <1>9
<1>12. Levels(w, s, N)
  BY <1>8, <1>10, <1>11 DEF Levels
<1> QED BY <1>3, <1>12 DEF N

\* One generation further up.
Climbs(c) ==
    [p \in Sessions \cup Pids |->
        IF p \in Pids /\ parent[p] \notin {Unborn, Exited, Launchd}
        THEN {p} \cup c[parent[p]]
        ELSE {p}]

\* The ancestors are what the climb has come to after as many generations as there are pids.
LEMMA TheClimbRuns ==
    ASSUME KernelOK
    PROVE  /\ Cardinality(Pids) \in Nat
           /\ \E c : /\ c[0] = [p \in Sessions \cup Pids |-> {p}]
                     /\ \A i \in 1..Cardinality(Pids) : c[i] = Climbs(c[i - 1])
                     /\ Ancestors = c[Cardinality(Pids)]
<1> DEFINE K == Cardinality(Pids)
           C == [Sessions \cup Pids -> SUBSET (Sessions \cup Pids)]
           start == [p \in Sessions \cup Pids |-> {p}]
           Steps(r) == r = [i \in 0..K |-> IF i = 0 THEN start ELSE Climbs(r[i - 1])]
<1>1. K \in Nat
  BY InventoryConstants, FS_CardinalityType
<1>2. start \in C
  OBVIOUS
<1>3. \A x \in C : Climbs(x) \in C
  BY DEF Climbs, KernelOK
<1> DEFINE c == CHOOSE r : Steps(r)
<1>4. Ancestors = c[K]
  BY DEF Ancestors, Climbs
<1> DEFINE step == [x \in Nat \X C |-> Climbs(x[2])]
<1>5. step \in [Nat \X C -> C] /\ \A i \in Nat, x \in C : step[<<i, x>>] = Climbs(x)
  <2> HIDE DEF C
  <2> QED BY <1>3
<1> HIDE DEF K, C, start, step, c
<1>6. PICK g : IsRun(g, C, start, step, K)
  BY <1>1, <1>2, <1>5, RunExists
<1>7. Steps(g)
  <2>1. ASSUME NEW i \in 1..K PROVE g[i] = Climbs(g[i - 1])
    <3>1. i - 1 \in 0..K /\ i \in Nat
      BY <1>1
    <3> QED BY <1>5, <1>6, <3>1 DEF IsRun
  <2>2. \A i \in 0..K : i = 0 \/ (i \in 1..K /\ i # 0)
    BY <1>1
  <2>3. \A i \in 0..K : g[i] = IF i = 0 THEN start ELSE Climbs(g[i - 1])
    BY <1>6, <2>1, <2>2 DEF IsRun
  <2>4. g = [i \in 0..K |-> g[i]]
    BY <1>6 DEF IsRun
  <2> QED BY <2>3, <2>4, Zenon
<1>8. Steps(c)
  BY <1>7, Zenon DEF c
<1>9. \A i \in 0..K : c[i] = IF i = 0 THEN start ELSE Climbs(c[i - 1])
  BY <1>8, Zenon
<1>10. c[0] = start /\ \A i \in 1..K : c[i] = Climbs(c[i - 1])
  <2>1. 0 \in 0..K /\ \A i \in 1..K : i \in 0..K /\ i # 0
    BY <1>1
  <2> QED BY <1>9, <2>1
<1> QED BY <1>1, <1>4, <1>10 DEF K, start

\* A process has the shell among its ancestors, some generations up, exactly when it is in
\* the level of that number.
LEMMA TheClimbIsTheLevels ==
    ASSUME KernelOK, NEW s \in up, NEW n \in Nat, NEW v, Levels(v, s, n), n >= Cardinality(Pids),
           NEW p \in Alive
    PROVE  s \in Ancestors[p] <=> p \in v[Cardinality(Pids)]
<1> DEFINE K == Cardinality(Pids)
<1>1. K \in Nat /\ n >= K
  BY TheClimbRuns
<1>2. PICK c : /\ c[0] = [x \in Sessions \cup Pids |-> {x}]
               /\ \A i \in 1..K : c[i] = Climbs(c[i - 1])
               /\ Ancestors = c[K]
  BY TheClimbRuns
<1> HIDE DEF K
<1>3. s \in Sessions /\ s \notin Pids
  BY Numbers DEF KernelOK
<1>4. \A i \in 0..n : s \in v[i] /\ v[i] \subseteq {s} \cup Alive
  BY <1>3, LevelFacts
<1>5. \A x \in Alive : x \in Pids /\ x # s /\ parent[x] \notin {Unborn, Exited}
                       /\ parent[x] \in {Launchd} \cup Sessions \cup Pids
  BY <1>3 DEF Alive, KernelOK
<1>6. \A x \in Sessions \cup Pids, i \in 0..K : x \notin Alive => c[i][x] = {x}
  <2> SUFFICES ASSUME NEW x \in Sessions \cup Pids, NEW i \in 0..K, x \notin Alive
               PROVE  c[i][x] = {x}
    OBVIOUS
  <2>1. CASE i = 0
    BY <1>2, <2>1
  <2>2. CASE i # 0
    <3>1. c[i] = Climbs(c[i - 1])
      BY <1>1, <1>2, <2>2
    <3>2. ~(x \in Pids /\ parent[x] \notin {Unborn, Exited, Launchd})
      BY DEF Alive
    <3> QED BY <3>1, <3>2 DEF Climbs
  <2> QED BY <2>1, <2>2
<1> DEFINE Bad == {i \in Nat : i <= K /\ ~\A x \in Alive : s \in c[i][x] <=> x \in v[i]}
<1>7. Bad = {}
  <2> SUFFICES ASSUME Bad # {} PROVE FALSE
    OBVIOUS
  <2>1. PICK k \in Bad : \A m \in Bad : k <= m
    BY LeastNumber
  <2>2. k \in Nat /\ k <= K /\ ~\A x \in Alive : s \in c[k][x] <=> x \in v[k]
    BY <2>1
  <2>3. k # 0
    <3>1. \A x \in Alive : c[0][x] = {x} /\ v[0] = {s}
      BY <1>2, <1>5 DEF Levels
    <3> QED BY <1>5, <2>2, <3>1
  <2>4. k - 1 \in Nat /\ k - 1 <= K /\ k - 1 \notin Bad /\ k \in 1..K /\ k \in 1..n /\ k - 1 \in 0..n
        /\ k - 1 \in 0..K
    <3> HIDE DEF Bad
    <3> QED BY <1>1, <2>1, <2>2, <2>3
  <2>5. \A x \in Alive : s \in c[k - 1][x] <=> x \in v[k - 1]
    BY <2>4
  <2>6. c[k] = Climbs(c[k - 1]) /\ v[k] = Below(s, v[k - 1])
    BY <1>2, <2>4 DEF Levels
  <2>7. ASSUME NEW x \in Alive PROVE s \in c[k][x] <=> x \in v[k]
    <3> DEFINE q == parent[x]
    <3>1. x \in v[k] <=> q \in v[k - 1]
      BY <1>5, <2>6 DEF Below
    <3>2. CASE q = Launchd
      <4>1. c[k][x] = {x}
        BY <1>5, <2>6, <3>2 DEF Climbs
      <4>2. q \notin v[k - 1]
        BY <1>4, <1>3, <2>4, <3>2, Numbers DEF Alive
      <4> QED BY <1>5, <3>1, <4>1, <4>2
    <3>3. CASE q # Launchd
      <4>1. c[k][x] = {x} \cup c[k - 1][q] /\ q \in Sessions \cup Pids
        BY <1>5, <2>6, <3>3 DEF Climbs
      <4>2. s \in c[k][x] <=> s \in c[k - 1][q]
        BY <1>5, <4>1
      <4>3. CASE q \in Alive
        BY <2>5, <3>1, <4>2, <4>3
      <4>4. CASE q \notin Alive
        <5>1. c[k - 1][q] = {q}
          BY <1>6, <2>4, <4>1, <4>4
        <5>2. q \in v[k - 1] <=> q = s
          BY <1>4, <2>4, <4>4
        <5> QED BY <3>1, <4>2, <5>1, <5>2
      <4> QED BY <4>3, <4>4
    <3> QED BY <3>2, <3>3
  <2> QED BY <2>2, <2>7
<1>8. \A x \in Alive : s \in c[K][x] <=> x \in v[K]
  BY <1>1, <1>7
<1> QED BY <1>2, <1>8 DEF K

\* The walk over a table finds the processes whose ancestry leads to the shell.
LEMMA TheWalkIsTheAncestry ==
    ASSUME KernelOK
    PROVE  DescendantsAreTheAncestry
<1> SUFFICES ASSUME NEW s \in up, NEW exited \in SUBSET Alive
             PROVE  PidsOf(Descendants(Table, s, exited)) = {p \in Alive : s \in Ancestors[p]} \ exited
  BY DEF DescendantsAreTheAncestry
<1> DEFINE a == Cardinality(Alive)
           N == Cardinality(Table)
           K == Cardinality(Pids)
<1>1. s \in Sessions /\ s \notin Pids
  BY Numbers DEF KernelOK
<1>2. a \in Nat /\ N \in Nat /\ K \in Nat /\ a <= N /\ a <= K
  <2>1. Alive \subseteq Pids
    BY DEF Alive
  <2> QED BY <2>1, InventoryConstants, FS_Subset, FS_CardinalityType, TableIsFinite
<1>3. PICK w : Levels(w, s, N) /\ Walked(Table, s, exited) = w[N]
  BY <1>1, TheWalkIsTheLevels
<1> DEFINE n == N + K + 1
<1>4. n \in Nat /\ n > a /\ n >= K /\ N <= n /\ N \in a..n /\ K \in a..n
  <2> HIDE DEF a, N, K
  <2> QED BY <1>2
<1>5. PICK v : Levels(v, s, n)
  <2> HIDE DEF n
  <2> QED BY <1>1, <1>4, LevelsExist
<1>6. v[N] = v[K]
  <2>1. \A i \in a..n : v[i] = v[a]
    <3> HIDE DEF n
    <3> QED BY <1>1, <1>4, <1>5, LevelsSettle
  <2> QED BY <1>4, <2>1
<1>7. w[N] = v[N]
  <2> HIDE DEF n, N
  <2>1. N <= N
    BY <1>2
  <2> QED BY <1>2, <1>3, <1>4, <1>5, <2>1, LevelsAgree
<1>8. \A p \in Alive : s \in Ancestors[p] <=> p \in v[K]
  <2> HIDE DEF n
  <2> QED BY <1>4, <1>5, TheClimbIsTheLevels
<1>9. w[N] \subseteq {s} \cup Alive
  <2> HIDE DEF N
  <2>1. N \in 0..N
    BY <1>2
  <2> QED BY <1>1, <1>2, <1>3, <2>1, LevelFacts
<1>10. \A p \in Alive : p \in PidsOf(Table) /\ p # s
  <2>1. \A p \in Alive : Row(p) \in Table /\ Row(p).pid = p
    BY DEF Table, Row
  <2> QED BY <1>1, <2>1 DEF PidsOf, Alive
<1>11. s \in PidsOf(Table)
  <2>1. ShellRow(s) \in Table /\ ShellRow(s).pid = s
    BY DEF Table, ShellRow
  <2> QED BY <2>1 DEF PidsOf
<1>12. PidsOf(Descendants(Table, s, exited)) = {p \in PidsOf(Table) : p \in w[N] \ (exited \cup {s})}
  BY <1>3, <1>11 DEF Descendants, PidsOf
<1> HIDE DEF N, K
<1> QED BY <1>6, <1>7, <1>8, <1>9, <1>10, <1>12

----------------------------------------------------------------------------
(* What the inventory promises *)

\* The inductive invariant of the inventory holds in every state it reaches: of the
\* openers, runners and reapers (process_monitor.go 35-168), of the kqueues' descriptors,
\* of what is watched, and of the ledger and its streams.
THEOREM InventoryInvariance == Safety => []InventoryInv
BY InitHolds, NextKeeps, PTL DEF Safety

\* Every variable of the inventory has a value of its kind, and processSessionsMu is held
\* exactly by an opener between its commit and its return.
THEOREM InventoryTypeCorrect == Safety => []TypeOK
<1>1. InventoryInv => TypeOK
  BY DEF InventoryInv
<1> QED BY <1>1, InventoryInvariance, PTL

\* A record of a process that has exited never stays without someone on the way to take it
\* out, however exits, forks, comparisons and notifications interleave, unless the last
\* comparison failed, there is no watch, or another session's runner took the event
\* (reconcile 92-98, Sync 68-83).
THEOREM NoGhostStays == Safety => []NoGhostsAtRest
<1>1. InventoryInv => NoGhostsAtRest
  BY DEF InventoryInv
<1> QED BY <1>1, InventoryInvariance, PTL

\* A client of process.observe that applies what its stream carries to its snapshot has the
\* ledger, for any number of streams, of any buffer, and of changes at a time
\* (publishLocked 94-112).
THEOREM EveryStreamFollows == Safety => []StreamFollowsTheLedger
<1>1. InventoryInv => StreamFollowsTheLedger
  BY DEF InventoryInv
<1> QED BY <1>1, InventoryInvariance, PTL

\* Once the reaper has taken a session's records out of the ledger nothing brings them back,
\* neither an opener that began before the end nor a runner on its way: processSessionEnded
\* after the monitor's close, reconcile's check of closed and processSessionStarted's.
THEOREM NothingBringsRecordsBack ==
    Safety => [](\A s \in Sessions : reaper[s] = "done" => sessions[s] = Nothing)
<1>1. InventoryInv => \A s \in Sessions : reaper[s] = "done" => sessions[s] = Nothing
  BY DEF InventoryInv, Roles
<1> QED BY <1>1, InventoryInvariance, PTL

\* The walk over the process table finds exactly the live processes whose parents lead to
\* the shell, for any number of processes and however deep their ancestry: a queue that is
\* fed the children of what it holds has them all when it is empty, and one that exits
\* before its directory is read hides none of its children (Descendants 82-105).
THEOREM TheWalkFindsTheDescendants == Safety => []DescendantsAreTheAncestry
<1>1. InventoryInv => DescendantsAreTheAncestry
  BY TheWalkIsTheAncestry DEF InventoryInv, TypeOK
<1> QED BY <1>1, InventoryInvariance, PTL
=============================================================================

----------------------------- MODULE ProcessTree -----------------------------
(***************************************************************************)
(* What process_tree_unix.go and process_monitor.go compute from one       *)
(* process table: the descendants of a shell and the program in front.     *)
(* A table is the set of rows ps printed, each with a pid, its parent, its *)
(* process group and what runs in it.                                      *)
(***************************************************************************)
EXTENDS Integers, FiniteSets

ChildrenOf(rows, pid) == {row \in rows : row.parent = pid}

PidsOf(rows) == {row.pid : row \in rows}

\* Mutant: a child whose directory cannot be read any more is not walked.
WalkedReadable(rows, root, exited) ==
    LET walk[n \in 0..Cardinality(rows)] ==
            IF n = 0 THEN {root}
            ELSE {root} \cup UNION {PidsOf(ChildrenOf(rows, q)) \ exited : q \in walk[n - 1]}
    IN walk[Cardinality(rows)]

\* The pids the queue is fed: the root, and the children of every pid in it,
\* those too whose directory could not be read because they have exited.
Walked(rows, root, exited) ==
    LET walk[n \in 0..Cardinality(rows)] ==
            IF n = 0 THEN {root}
            ELSE {root} \cup UNION {PidsOf(ChildrenOf(rows, q)) : q \in walk[n - 1]}
    IN walk[Cardinality(rows)]

\* Descendants: empty when the table has no root; a child that exited between
\* the table and the read of its directory is not reported.
Descendants(rows, root, exited) ==
    IF root \in PidsOf(rows)
    THEN {row \in rows : row.pid \in Walked(rows, root, exited) \ (exited \cup {root})}
    ELSE {}

NoProgram == [pid |-> 0, image |-> 0]

\* The entry with the lowest pid, as the program and where it runs.
FirstProgram(entries) ==
    IF entries = {} THEN NoProgram
    ELSE LET first == CHOOSE e \in entries : \A other \in entries : e.pid <= other.pid
         IN [pid |-> first.pid, image |-> first.image]

\* foregroundOf: the shell's child in the terminal's group; none while that is
\* the shell's own; any child where the platform reports no group.
ForegroundOf(entries, shell, group) ==
    CASE group = shell -> NoProgram
      [] group # shell /\ group # 0 ->
            FirstProgram({e \in ChildrenOf(entries, shell) : e.group = group})
      [] OTHER -> FirstProgram(ChildrenOf(entries, shell))
=============================================================================

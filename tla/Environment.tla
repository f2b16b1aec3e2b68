----------------------------- MODULE Environment -----------------------------
(***************************************************************************)
(* environment.go and sessionRecord.Shell: the environment and the shell a *)
(* session is started with.  A variable's name is a pair of the name and a *)
(* spelling of it, which only Windows takes for one; an environment is a   *)
(* sequence of entries <<name, value>>.  A command line is a sequence of   *)
(* words.                                                                  *)
(***************************************************************************)
EXTENDS Sequences, SequencesExt

CONSTANT TtyDefaults \* what the terminal is, by name

\* normalize
Normal(ci, name) == IF ci THEN name[1] ELSE name

Normals(ci, names) == {Normal(ci, n) : n \in names}

\* The entries of a function, in the order of its names.
Entries(f) == LET names == SetToSeq(DOMAIN f) IN [i \in DOMAIN names |-> <<names[i], f[names[i]]>>]

\* Mutant: a default is added although the caller dropped its name.
MissingUndropped(ci, given, drop) ==
    [n \in {d \in DOMAIN TtyDefaults : Normal(ci, d) \notin Normals(ci, given)} |-> TtyDefaults[n]]

\* The defaults nothing named, and nothing dropped.
Missing(ci, given, drop) ==
    [n \in {d \in DOMAIN TtyDefaults :
                Normal(ci, d) \notin Normals(ci, given) \cup Normals(ci, drop)} |-> TtyDefaults[n]]

\* applyEnvironment: the entries less what is dropped or replaced, the session's
\* variables, and the defaults that are missing.
ApplyEnvironment(ci, entries, variables, drop) ==
    LET gone == Normals(ci, drop) \cup Normals(ci, DOMAIN variables)
        stays(e) == Normal(ci, e[1]) \notin gone
        kept == SelectSeq(entries, stays)
        given == {kept[i][1] : i \in DOMAIN kept} \cup DOMAIN variables
    IN kept \o Entries(variables) \o Entries(Missing(ci, given, drop))

\* sessionEnvironment: the caller's entries whole, or else this process's own.
SessionEnvironment(ci, replace, own, variables, drop) ==
    ApplyEnvironment(ci, IF replace = <<>> THEN own ELSE replace, variables, drop)

\* What openWithObserver starts and records.
Command(shell) == shell \o <<"-l">>

\* Shell: the command line up to its first space.
Shell(command) == IF command = <<>> THEN <<>> ELSE <<Head(command)>>
=============================================================================

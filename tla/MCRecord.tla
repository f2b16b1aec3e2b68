------------------------------ MODULE MCRecord ------------------------------
(* Small instances of Record, and applyEnvironment over bounded inputs. *)
EXTENDS Record

CONSTANTS r1, r2

\* TERM is a default; TERM in another spelling and PATH are not.
MCDefaults == (<<"TERM", "upper">> :> "xterm")
OneWord == {<<"zsh">>}

Names == {<<"TERM", "upper">>, <<"TERM", "lower">>, <<"PATH", "upper">>}
SomeEntries == UNION {[1..n -> Names \X {"a", "b"}] : n \in 0..2}
SomeVariables == UNION {[d -> {"v"}] : d \in SUBSET Names}

\* The values the entries give a name, in their order.
ValuesOf(ci, entries, name) ==
    LET ofName(e) == Normal(ci, e[1]) = name
        found == SelectSeq(entries, ofName)
    IN [i \in DOMAIN found |-> found[i][2]]

\* The values a session should see under a name: the variables' own, whatever is
\* dropped; none if the name is dropped; else the entries' in their order; else the
\* default, if there is one.
Reference(ci, entries, variables, drop, name) ==
    LET own == ValuesOf(ci, Entries(variables), name)
        given == ValuesOf(ci, entries, name)
    IN IF own # <<>> THEN own
       ELSE IF name \in Normals(ci, drop) THEN <<>>
       ELSE IF given # <<>> THEN given
       ELSE ValuesOf(ci, Entries(TtyDefaults), name)

\* Under every name the shell sees what the reference says: a variable replaces what
\* the environment had in any spelling, a dropped default does not come back, and a
\* default never stands beside a value somebody named.  Both readings of a name's
\* case are checked, over every environment of up to two entries (asked once, in the
\* initial state).
EnvironmentIsTheReference ==
    starts = 0 /\ writes = 0 /\ record = NoRecord /\ job["create"].at = "idle" =>
        \A ci \in BOOLEAN, entries \in SomeEntries, variables \in SomeVariables,
           drop \in SUBSET Names :
            LET result == ApplyEnvironment(ci, entries, variables, drop) IN
            \A name \in Normals(ci, Names) :
                ValuesOf(ci, result, name) = Reference(ci, entries, variables, drop, name)
=============================================================================

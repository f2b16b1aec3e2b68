------------------------------- MODULE Output -------------------------------
(***************************************************************************)
(* What a session's retained output promises to those who read it, with no *)
(* buffer, slice, waiter or trim in it.  Output is numbered from 0 and     *)
(* never renumbered; a reader is handed it up to the live edge, in one     *)
(* piece, from where it stands or from the oldest byte kept; the output    *)
(* kept is bounded; and a promise to keep what follows a coordinate is     *)
(* withdrawn only when output outgrows its budget.  Ring implements this.  *)
(***************************************************************************)
EXTENDS Integers

CONSTANTS
    Capacity, LeaseBuffer, \* what is kept for nobody, and for one promise
    Tokens, Readers

VARIABLES
    produced, \* how much output there has been
    oldest,   \* the oldest coordinate kept
    ended,    \* no shell writes any more
    held,     \* the promises that stand
    promise,  \* the coordinate of each
    mode,     \* "idle", "reading" or "done", for each reader
    next      \* one past the last byte each reader was handed

vars == <<produced, oldest, ended, held, promise, mode, next>>

\* What is forgotten is forgotten for good, keeps the promises and the bound.
Forgets ==
    /\ oldest <= oldest' /\ oldest' <= produced'
    /\ \A t \in held' : oldest' <= promise[t]
    /\ produced' - oldest' <= Capacity \/ produced' - oldest' <= LeaseBuffer

\* Output comes, and only then may a promise be withdrawn.
Produce ==
    /\ produced' > produced
    /\ held' \subseteq held
    /\ \A t \in held \ held' : produced' - promise[t] > LeaseBuffer
    /\ Forgets
    /\ UNCHANGED <<ended, promise, mode, next>>

Promise(t, from) ==
    /\ t \notin held
    /\ held' = held \cup {t}
    /\ promise' = [promise EXCEPT ![t] = from]
    /\ UNCHANGED <<produced, oldest, ended, mode, next>>

\* r stands at a coordinate.
Stands(r, from) ==
    /\ mode[r] = "idle"
    /\ mode' = [mode EXCEPT ![r] = "reading"]
    /\ next' = [next EXCEPT ![r] = from]

\* A reader takes up a promise and the output it kept may go.
Redeem(t, r) ==
    /\ t \in held /\ held' = held \ {t}
    /\ Stands(r, promise[t])
    /\ produced' = produced /\ Forgets
    /\ UNCHANGED <<ended, promise>>

\* Nobody does, in its time or because it was withdrawn.
Release(t) ==
    /\ held' = held \ {t}
    /\ produced' = produced /\ Forgets
    /\ UNCHANGED <<ended, promise, mode, next>>

Join(r, from) ==
    /\ Stands(r, from)
    /\ UNCHANGED <<produced, oldest, ended, held, promise>>

Draw(r) ==
    /\ mode[r] = "reading" /\ next[r] < produced
    /\ next' = [next EXCEPT ![r] = produced]
    /\ UNCHANGED <<produced, oldest, ended, held, promise, mode>>

Finish ==
    /\ ended' = TRUE
    /\ UNCHANGED <<produced, oldest, held, promise, mode, next>>

\* A reader is told of the end when it has everything.
Complete(r) ==
    /\ mode[r] = "reading" /\ ended /\ next[r] = produced
    /\ mode' = [mode EXCEPT ![r] = "done"]
    /\ UNCHANGED <<produced, oldest, ended, held, promise, next>>

Depart(r) ==
    /\ mode' = [mode EXCEPT ![r] = "idle"]
    /\ next' = [next EXCEPT ![r] = 0]
    /\ UNCHANGED <<produced, oldest, ended, held, promise>>

Init ==
    /\ produced \in Nat /\ oldest \in Nat
    /\ oldest <= produced /\ produced - oldest <= Capacity
    /\ ended = FALSE
    /\ held = {} /\ promise = [t \in Tokens |-> 0]
    /\ mode = [r \in Readers |-> "idle"] /\ next = [r \in Readers |-> 0]

Next ==
    \/ Produce \/ Finish
    \/ \E t \in Tokens : Release(t)
    \/ \E t \in Tokens, from \in oldest..produced : Promise(t, from)
    \/ \E t \in Tokens, r \in Readers : Redeem(t, r)
    \/ \E r \in Readers, from \in oldest..produced : Join(r, from)
    \/ \E r \in Readers : Draw(r) \/ Complete(r) \/ Depart(r)

Spec == Init /\ [][Next]_vars
=============================================================================

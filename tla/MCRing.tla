------------------------------- MODULE MCRing -------------------------------
(* Ring on a small instance. *)
EXTENDS Ring, TLC

\* Readers and tokens are interchangeable.
Symmetric == Permutations(Readers) \cup Permutations(Tokens)
=============================================================================

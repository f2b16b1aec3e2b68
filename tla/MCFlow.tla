------------------------------- MODULE MCFlow -------------------------------
(* Flow on a small instance: the chunk sizes let one write pass the high mark *)
(* by one byte, the smallest case in which it matters that the check follows  *)
(* the write.                                                                 *)
EXTENDS Flow, TLC

\* Readers are interchangeable (safety runs only).
Symmetric == Permutations(Readers)
=============================================================================

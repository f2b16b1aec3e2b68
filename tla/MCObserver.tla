----------------------------- MODULE MCObserver -----------------------------
(* Observer on a small instance: a ring of two bytes and a queue of three, so *)
(* that output is trimmed, joined and dropped within six bytes.               *)
EXTENDS Observer
=============================================================================

----------------------------- MODULE MCPresence -----------------------------
(* Presence with two renderers or two observers and a window of two ticks. *)
EXTENDS Presence
=============================================================================

---------------------------- MODULE MCInventory ----------------------------
(* Inventory with two shells and a few descendants.  Pids come in order, so *)
(* nothing is symmetric but the sessions, which the descriptors tell apart. *)
EXTENDS Inventory
=============================================================================

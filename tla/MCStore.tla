------------------------------ MODULE MCStore ------------------------------
(* Instances of Store for TLC; the constants are in the MCStore*.cfg files.  *)
EXTENDS Store
=============================================================================

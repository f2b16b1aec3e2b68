----------------------------- MODULE MCRegistry -----------------------------
(* Registry with two panes: every connection may open the first one, the last *)
(* connection the second one too.                                             *)
EXTENDS Registry

CONSTANTS p1, p2, Last

AnyPane(o) == IF o = Last THEN {p1, p2} ELSE {p1}
=============================================================================

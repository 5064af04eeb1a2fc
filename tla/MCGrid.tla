------------------------------- MODULE MCGrid -------------------------------
(***************************************************************************)
(* Instances of Grid small enough for TLC: one role is there from the      *)
(* start, as Observer is, and another may be created.                      *)
(***************************************************************************)
EXTENDS Grid, TLC

CONSTANTS observer, flight, ground, thermal, power, first, second

\* The loops and the handlers are alike.  The roles are not: one of them is seeded.
Alike == Permutations(LoopIds) \cup Permutations(Handlers)
=============================================================================

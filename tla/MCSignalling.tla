----------------------------- MODULE MCSignalling -----------------------------
(***************************************************************************)
(* Instances of Signalling small enough for TLC: one person with two       *)
(* machines, and another who wants the same seat.                          *)
(***************************************************************************)
EXTENDS Signalling, Integers, TLC

CONSTANTS desk, phone, theirs, me, them, flight

Owners == (desk :> me) @@ (phone :> me) @@ (theirs :> them)

MyOwners == (desk :> me) @@ (phone :> me)

OneSeat == [r \in Roles |-> {1}]

\* The names are numbers here and are minted in order.  One name is as good as another,
\* and no fairness is asked of an assume, so every behaviour has a renaming that obeys.
MintedInOrder == \A n \in issued' : 1..n \subseteq issued'
=============================================================================

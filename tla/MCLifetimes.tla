----------------------------- MODULE MCLifetimes -----------------------------
(***************************************************************************)
(* An instance of Lifetimes small enough for TLC: two machines of one      *)
(* person, each signed in.                                                 *)
(***************************************************************************)
EXTENDS Lifetimes, Integers, TLC

CONSTANTS desk, phone, me, flight

Owners == (desk :> me) @@ (phone :> me)

OneSeat == [r \in Roles |-> {1}]

\* The names are numbers here and are minted in order, as in MCSignalling.
MintedInOrder == \A n \in issued' : 1..n \subseteq issued'
=============================================================================

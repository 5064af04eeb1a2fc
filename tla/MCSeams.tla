------------------------------- MODULE MCSeams -------------------------------
(***************************************************************************)
(* An instance of Seams small enough for TLC.                              *)
(***************************************************************************)
EXTENDS Seams

\* A talker is heard by nobody, or by some.
Some == "some"
None == "none"
SomeOrNobody == {None, Some}

NothingIsRouted ==
  /\ last_routing' = {}
  /\ \A s \in DOMAIN sessions' : sessions'[s].audience = Nobody /\ ~sessions'[s].gone
  /\ at' = [s \in Names |-> "talking"]

NothingIsReported ==
  /\ \A s \in Names : paths'[s] \in {"none", "asked"}
  /\ worker' = "alive"

\* What goes down and what comes up are looked at apart.
EitherWay == NothingIsRouted \/ NothingIsReported
=============================================================================

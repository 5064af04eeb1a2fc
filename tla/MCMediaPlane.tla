----------------------------- MODULE MCMediaPlane -----------------------------
(***************************************************************************)
(* An instance of MediaPlane small enough for TLC: ada talks on two loops, *)
(* bob and eve may hear her, and bob counts the beacon of one loop.        *)
(***************************************************************************)
EXTENDS MediaPlane

CONSTANTS ada, bob, eve, flight, capcom

\* A carriage of ada's voice to bob may fail to be built; every other is built.
ToBobMayFail == {<<bob, ada>>}
=============================================================================

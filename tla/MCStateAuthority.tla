--------------------------- MODULE MCStateAuthority ---------------------------
(***************************************************************************)
(* Instances of StateAuthority small enough for TLC.  Each configuration   *)
(* lets its clients make the requests its question is about.               *)
(***************************************************************************)
EXTENDS StateAuthority, FiniteSets, TLC

CONSTANTS flight, guest   \* the two roles of every instance

\* One seat for flight; two for guest, which three people compete for.
SeatLimits == (flight :> {1}) @@ (guest :> {2})

NoLimits == [r \in Roles |-> {}]

NothingRemembered == {{}}

AnythingRemembered == SUBSET Loops

\* Control carries emit and is read nowhere else on the live side.
\* Before its first projection a session has no reach at all.
MonitorOrEmit == [Loops -> {Monitor, Emit}]

NoneOrEmit == [Loops -> {NoPermission, Emit}]

OnlyOne ==
  /\ Cardinality(minted') <= 1
  /\ last_routing' = {}
  /\ last_beacons' = {}

\* A session nobody has done anything at, whatever its channel has come to.
IsAtRest(x) == [x EXCEPT !.unheard = 0, !.steady = 0] = Taken(x.occupant, x.role, {})

AllAtRest ==
  \A s \in DOMAIN sessions' :
    /\ IsAtRest(sessions'[s])
    /\ s \in Live => sessions[s].unheard <= sessions'[s].unheard

\* What is heard is looked at on one console, and who sits where with every console at
\* rest on a channel that is only lost.
OneIsMeasured == OnlyOne \/ AllAtRest

Symmetry == Permutations(Users) \cup Permutations(Names)

\* Where no role has a limit, nothing tells the roles apart either.
SymmetryOfRoles == Symmetry \cup Permutations(Roles)
=============================================================================

-------------------------------- MODULE Seats --------------------------------
(***************************************************************************)
(* What the State Authority promises about seats, with the console left    *)
(* out: who is in which role, under a name minted once, and whom it still  *)
(* owes an account of a session that was taken from them.  StateAuthority  *)
(* implements it, and the modules that only need its seats compose it.     *)
(***************************************************************************)
EXTENDS Naturals, FiniteSets, Functions

CONSTANTS Users, Roles, Names, MaxOccupants

ASSUME SeatsAssumption == MaxOccupants \in [Roles -> SUBSET Nat]

VARIABLES
  seats,    \* who is in which role, by the name of the session
  owed,     \* the sessions whose ending can still be explained, and to whom
  issued    \* every name ever minted

seatVars == <<seats, owed, issued>>

Seat == [occupant : Users, role : Roles]

Seated == DOMAIN seats

SeatsOf(u) == {s \in Seated : seats[s].occupant = u}

TakenByOthers(u, r) == {s \in Seated : seats[s].role = r /\ seats[s].occupant # u}

SeatsInit ==
  /\ seats = [s \in {} |-> {}]
  /\ owed = {}
  /\ issued = {}

\* A user sits in one place: taking a seat gives up the one they had, and what they
\* were owed for any before it.
Take(u, r, n) ==
  /\ n \notin issued
  /\ \A limit \in MaxOccupants[r] : Cardinality(TakenByOthers(u, r)) < limit
  /\ seats' = [s \in (Seated \ SeatsOf(u)) \cup {n} |->
                 IF s = n THEN [occupant |-> u, role |-> r] ELSE seats[s]]
  /\ owed' = {o \in owed : o.occupant # u}
               \cup {[session |-> s, occupant |-> u] : s \in SeatsOf(u)}
  /\ issued' = issued \cup {n}

\* A seat given up by the one who holds it owes nobody an account.
Leave(s) ==
  /\ s \in Seated
  /\ seats' = Restrict(seats, Seated \ {s})
  /\ UNCHANGED <<owed, issued>>

\* An account is given, or has been kept long enough.
Settle(kept) ==
  /\ kept \subseteq owed
  /\ owed' = kept
  /\ UNCHANGED <<seats, issued>>

SeatsNext ==
  \/ \E u \in Users, r \in Roles, n \in Names : Take(u, r, n)
  \/ \E s \in Seated : Leave(s)
  \/ \E kept \in SUBSET owed : Settle(kept)

SeatsSpec == SeatsInit /\ [][SeatsNext]_seatVars
=============================================================================

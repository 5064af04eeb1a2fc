----------------------------- MODULE SeatsProofs -----------------------------
(***************************************************************************)
(* Who sits where: theorems about the seats the State Authority hands out, *)
(* takes away and explains.                                                *)
(***************************************************************************)
EXTENDS StateAuthorityProofs

\* What a session's own socket does to it, short of ending it, moves no seat.
LEMMA ConsoleKeepsTheSeats ==
  ASSUME TypeOK, NEW s \in Live, AtTheConsole(s)
  PROVE  /\ Live' = Live
         /\ \A t \in Live : /\ sessions'[t].occupant = sessions[t].occupant
                            /\ sessions'[t].role = sessions[t].role
         /\ UNCHANGED BesidesSessions
<1> DEFINE Kept == /\ Live' = Live
                   /\ \A t \in Live : /\ sessions'[t].occupant = sessions[t].occupant
                                      /\ sessions'[t].role = sessions[t].role
                   /\ UNCHANGED BesidesSessions
<1>1. sessions \in [Live -> Session]
  BY DEF TypeOK
<1>2. CASE \/ OffConsole(s) \/ ADeliberateAct(s) \/ TheClientKeys(s) \/ TheClientUnkeys(s)
           \/ TheClientKeysPriority(s) \/ TheClientUnkeysPriority(s) \/ TheChannelIsGone(s)
  BY <1>1, <1>2 DEF OffConsole, ADeliberateAct, TheClientKeys, TheClientUnkeys,
       TheClientKeysPriority, TheClientUnkeysPriority, TheChannelIsGone, Live, Session
<1>3. CASE TheClientIsThere(s)
  BY <1>1, <1>3 DEF TheClientIsThere, Live, Session
<1>4. ASSUME NEW l \in Loops,
             \/ Subscribe(s, l) \/ Unsubscribe(s, l) \/ Mute(s, l) \/ Unmute(s, l)
             \/ Arm(s, l) \/ Disarm(s, l)
      PROVE  Kept
  BY <1>1, <1>4 DEF Subscribe, Unsubscribe, Mute, Unmute, Arm, Disarm, Live, Session
<1>5. ASSUME NEW within \in Reaches, Presence(s, within)
      PROVE  Kept
  BY <1>1, <1>5 DEF Presence, Live, Session
<1>6. ASSUME NEW counts \in Counts, TheClientCounted(s, counts)
      PROVE  Kept
  BY <1>1, <1>6 DEF TheClientCounted, Live, Session
<1>7. QED
  BY <1>2, <1>3, <1>4, <1>5, <1>6 DEF AtTheConsole, KeyingPriority, Keying, Arming, Muting,
     Monitoring

\* A tick moves no seat either.
LEMMA TickKeepsTheSeats ==
  ASSUME TypeOK, Tick
  PROVE  /\ Live' = Live
         /\ \A t \in Live : /\ sessions'[t].occupant = sessions[t].occupant
                            /\ sessions'[t].role = sessions[t].role
         /\ minted' = minted
<1>1. Live' = Live
  BY DEF Tick, Live
<1>2. ASSUME NEW t \in Live
      PROVE  /\ Aged(sessions[t]).occupant = sessions[t].occupant
             /\ Aged(sessions[t]).role = sessions[t].role
  <2>1. sessions[t] \in Session
    BY DEF TypeOK
  <2>2. QED
    BY <2>1 DEF Aged, Session
<1>3. QED
  BY <1>1, <1>2 DEF Tick

\* Where a user has at most one session, an assume displaces all they hold: the
\* first one Vec::position finds is the only one.
LEMMA AllThatIsHeldIsDisplaced ==
  ASSUME TypeOK, OneSessionPerUser, NEW u \in Users, NEW r \in Roles,
         NEW remembered \in Remembered, NEW n \in Names, Assume(u, r, remembered, n)
  PROVE  /\ n \notin minted
         /\ Live' = (Live \ HeldAlready(u, r)) \cup {n}
         /\ \A s \in Live \ HeldAlready(u, r) : sessions'[s] = sessions[s]
         /\ sessions'[n].occupant = u
         /\ sessions'[n].role = r
         /\ HeldAlready(u, r) = {} \/ (\E s \in Live : HeldAlready(u, r) = {s})
         /\ tombstones' = Remembering(HeldAlready(u, r), u)
         /\ minted' = minted \cup {n}
<1> DEFINE held == HeldAlready(u, r)
<1>1. PICK displaced \in FoundIn(HeldAlready(u, r)) :
        /\ tombstones' = Remembering(displaced, u)
        /\ sessions' = [s \in (Live \ displaced) \cup {n} |->
                          IF s = n THEN Taken(u, r, remembered) ELSE sessions[s]]
  BY DEF Assume
<1>2. held = {} \/ (\E s \in Live : held = {s})
  BY DEF OneSessionPerUser, HeldAlready
<1>3. displaced = held
  <2>1. CASE HeldAlready(u, r) = {}
    BY <1>1, <2>1 DEF FoundIn
  <2>2. CASE HeldAlready(u, r) # {}
    BY <1>1, <1>2, <2>2 DEF FoundIn
  <2>3. QED
    BY <2>1, <2>2
<1>4. n \notin Live /\ n \notin minted /\ minted' = minted \cup {n}
  BY DEF Assume, Minted, TypeOK
<1>5. Live' = (Live \ held) \cup {n}
  BY <1>1, <1>3 DEF Live
<1>6. sessions'[n] = Taken(u, r, remembered)
  BY <1>1
<1>7. sessions'[n].occupant = u /\ sessions'[n].role = r
  BY <1>6 DEF Taken
<1>8. \A s \in Live \ held : sessions'[s] = sessions[s]
  BY <1>1, <1>3, <1>4
<1>9. QED
  BY <1>1, <1>2, <1>3, <1>4, <1>5, <1>7, <1>8

\* A seat given up is one session fewer, and the rest unchanged.
LEMMA RelinquishKeepsTheOthers ==
  ASSUME TypeOK, NEW s \in Live, EndedByItsOwnHolder(s)
  PROVE  /\ Live' = Live \ {s}
         /\ \A t \in Live' : sessions'[t] = sessions[t]
         /\ UNCHANGED <<tombstones, minted>>
<1>1. sessions' = [t \in Live \ {s} |-> sessions[t]]
  BY DEF EndedByItsOwnHolder, Restrict
<1>2. QED
  BY <1>1 DEF Live, EndedByItsOwnHolder

\* The steps that take nothing from a seat and give nothing to one.
Elsewhere == TheRoutingIfItMoved \/ TheBeaconsIfTheyMoved \/ UNCHANGED vars

\* The operations that only read the sessions leave every seat where it was.
LEMMA ElsewhereKeepsTheSeats ==
  ASSUME Elsewhere
  PROVE  UNCHANGED <<sessions, tombstones, minted>> /\ Live' = Live
  BY DEF Elsewhere, TheRoutingIfItMoved, TheBeaconsIfTheyMoved, vars, Live

-----------------------------------------------------------------------------

\* A user has at most one session, however many machines they assume from: each
\* assume takes away the seat the user held, whatever role it was in.
THEOREM OneSession == Spec => []OneSessionPerUser
<1>1. Init => OneSessionPerUser
  BY DEF Init, OneSessionPerUser, Live
<1>2. TypeOK /\ OneSessionPerUser /\ [Next]_vars => OneSessionPerUser'
  <2> SUFFICES ASSUME TypeOK, OneSessionPerUser, [Next]_vars
               PROVE  OneSessionPerUser'
    OBVIOUS
  <2>1. ASSUME NEW u \in Users, NEW r \in Roles, NEW remembered \in Remembered,
               NEW n \in Names, Assume(u, r, remembered, n)
        PROVE  OneSessionPerUser'
    <3>1. /\ Live' = (Live \ HeldAlready(u, r)) \cup {n}
          /\ \A s \in Live \ HeldAlready(u, r) : sessions'[s] = sessions[s]
          /\ sessions'[n].occupant = u
      BY <2>1, AllThatIsHeldIsDisplaced
    <3>2. \A s \in Live \ HeldAlready(u, r) : sessions[s].occupant # u
      BY DEF HeldAlready
    <3>3. QED
      BY <3>1, <3>2 DEF OneSessionPerUser
  <2>2. ASSUME NEW s \in Live, EndedByItsOwnHolder(s)
        PROVE  OneSessionPerUser'
    BY <2>2, RelinquishKeepsTheOthers DEF OneSessionPerUser
  <2>3. ASSUME NEW s \in minted, WhyItEnded(s)
        PROVE  OneSessionPerUser'
    BY <2>3 DEF WhyItEnded, OneSessionPerUser, Live
  <2>4. ASSUME NEW s \in Live, AtTheConsole(s)
        PROVE  OneSessionPerUser'
    BY <2>4, ConsoleKeepsTheSeats DEF OneSessionPerUser
  <2>5. CASE Tick
    BY <2>5, TickKeepsTheSeats DEF OneSessionPerUser
  <2>6. CASE Elsewhere
    BY <2>6, ElsewhereKeepsTheSeats DEF OneSessionPerUser
  <2>7. QED
    BY <2>1, <2>2, <2>3, <2>4, <2>5, <2>6 DEF Next, HandsDownTheRouting, Elsewhere
<1>3. QED
  BY <1>1, <1>2, TypeCorrect, PTL DEF Spec

\* Every tombstone is of a session that is over, and no user has two: the sockets
\* of displaced consoles are told what happened to their own session.
THEOREM TombstonesAreTrue == Spec => []TombstonesExplain
<1>1. Init => TombstonesExplain
  BY DEF Init, TombstonesExplain
<1>2. TypeOK /\ OneSessionPerUser /\ TombstonesExplain /\ [Next]_vars => TombstonesExplain'
  <2> SUFFICES ASSUME TypeOK, OneSessionPerUser, TombstonesExplain, [Next]_vars
               PROVE  TombstonesExplain'
    OBVIOUS
  <2>1. ASSUME NEW u \in Users, NEW r \in Roles, NEW remembered \in Remembered,
               NEW n \in Names, Assume(u, r, remembered, n)
        PROVE  TombstonesExplain'
    <3> DEFINE held == HeldAlready(u, r)
    <3>0. held \subseteq Live
      BY DEF HeldAlready
    <3>1. tombstones' = Remembering(held, u)
      BY <2>1, AllThatIsHeldIsDisplaced
    <3>2. \A t \in tombstones' :
            \/ t \in tombstones /\ t.occupant # u
            \/ \E s \in held : t = [session |-> s, occupant |-> u, age |-> 0]
      BY <3>1 DEF Remembering
    <3>3. held = {} \/ (\E s \in Live : held = {s})
      BY <2>1, AllThatIsHeldIsDisplaced
    <3>4. Live' = (Live \ held) \cup {n} /\ minted' = minted \cup {n} /\ n \notin minted
      BY <2>1, AllThatIsHeldIsDisplaced
    <3>5. \A t \in tombstones' : t.session \in minted' \ Live'
      BY <3>0, <3>2, <3>4 DEF TombstonesExplain, TypeOK
    <3>6. \A t, other \in tombstones' : t.occupant = other.occupant => t = other
      BY <3>2, <3>3 DEF TombstonesExplain
    <3>7. QED
      BY <3>5, <3>6 DEF TombstonesExplain
  <2>2. ASSUME NEW s \in Live, EndedByItsOwnHolder(s)
        PROVE  TombstonesExplain'
    BY <2>2, RelinquishKeepsTheOthers DEF TombstonesExplain
  <2>3. ASSUME NEW s \in minted, WhyItEnded(s)
        PROVE  TombstonesExplain'
    BY <2>3 DEF WhyItEnded, TombstonesExplain, Live
  <2>4. ASSUME NEW s \in Live, AtTheConsole(s)
        PROVE  TombstonesExplain'
    BY <2>4, ConsoleKeepsTheSeats DEF TombstonesExplain, BesidesSessions
  <2>5. CASE Tick
    <3>1. Live' = Live /\ minted' = minted
      BY <2>5, TickKeepsTheSeats
    <3>2. \A t \in tombstones' : \E old \in tombstones :
            t = [session |-> old.session, occupant |-> old.occupant,
                 age |-> Older(old.age, KeptFor)]
      BY <2>5 DEF Tick, TypeOK, Tombstone
    <3>3. QED
      BY <3>1, <3>2 DEF TombstonesExplain
  <2>6. CASE Elsewhere
    BY <2>6, ElsewhereKeepsTheSeats DEF TombstonesExplain
  <2>7. QED
    BY <2>1, <2>2, <2>3, <2>4, <2>5, <2>6 DEF Next, HandsDownTheRouting, Elsewhere
<1>3. QED
  BY <1>1, <1>2, TypeCorrect, OneSession, PTL DEF Spec

\* Nobody loses a seat to anybody else's assume, and whoever loses one to their own
\* left a tombstone where the socket of the old seat will find it.
THEOREM DisplacementIsExplained == Spec => DisplacedIsExplained
<1> DEFINE Explained ==
      minted' # minted =>
        \A s \in Live \ DOMAIN sessions' :
          /\ \E n \in minted' \ minted : sessions'[n].occupant = sessions[s].occupant
          /\ \E t \in tombstones' : t.session = s
<1>1. TypeOK /\ OneSessionPerUser /\ [Next]_vars => [Explained]_vars
  <2> SUFFICES ASSUME TypeOK, OneSessionPerUser, Next, minted' # minted,
                      NEW s \in Live \ DOMAIN sessions'
               PROVE  /\ \E n \in minted' \ minted : sessions'[n].occupant = sessions[s].occupant
                      /\ \E t \in tombstones' : t.session = s
    OBVIOUS
  <2>1. PICK u \in Users, r \in Roles, remembered \in Remembered, n \in Names :
          Assume(u, r, remembered, n)
    <3>1. CASE \E t \in Live : EndedByItsOwnHolder(t)
      BY <3>1 DEF EndedByItsOwnHolder
    <3>2. CASE \E t \in minted : WhyItEnded(t)
      BY <3>2 DEF WhyItEnded
    <3>3. CASE \E t \in Live : AtTheConsole(t)
      BY <3>3, ConsoleKeepsTheSeats DEF BesidesSessions
    <3>4. CASE Tick \/ TheRoutingIfItMoved \/ TheBeaconsIfTheyMoved
      BY <3>4 DEF Tick, TheRoutingIfItMoved, TheBeaconsIfTheyMoved
    <3>5. QED
      BY <3>1, <3>2, <3>3, <3>4 DEF Next, HandsDownTheRouting
  <2>2. /\ n \notin minted
        /\ DOMAIN sessions' = (Live \ HeldAlready(u, r)) \cup {n}
        /\ sessions'[n].occupant = u
        /\ tombstones' = Remembering(HeldAlready(u, r), u)
        /\ minted' = minted \cup {n}
    <3>1. /\ n \notin minted
          /\ Live' = (Live \ HeldAlready(u, r)) \cup {n}
          /\ sessions'[n].occupant = u
          /\ tombstones' = Remembering(HeldAlready(u, r), u)
          /\ minted' = minted \cup {n}
      BY <2>1, AllThatIsHeldIsDisplaced
    <3>2. Live' = DOMAIN sessions'
      BY DEF Live
    <3>3. QED
      BY <3>1, <3>2
  <2>3. s \in HeldAlready(u, r)
    BY <2>2
  <2>4. sessions[s].occupant = u
    BY <2>3 DEF HeldAlready
  <2>5. [session |-> s, occupant |-> u, age |-> 0] \in tombstones'
    BY <2>2, <2>3 DEF Remembering
  <2>6. QED
    BY <2>2, <2>4, <2>5
<1>2. QED
  BY <1>1, TypeCorrect, OneSession, PTL DEF Spec, DisplacedIsExplained

\* What a user is owed of an explanation stays until their own console asks for it, they
\* assume again, or it has been kept long enough: nobody else's act costs them it.
THEOREM OwedIsKept == Spec => WhatIsOwedIsKept
<1> DEFINE Lasts(t) == \/ \E kept \in tombstones' : kept.session = t.session
                       \/ t.age >= KeptFor
                       \/ WhyItEnded(t.session)
                       \/ \E n \in minted' \ minted : sessions'[n].occupant = t.occupant
<1>1. TypeOK /\ OneSessionPerUser /\ [Next]_vars => [\A t \in tombstones : Lasts(t)]_vars
  <2> SUFFICES ASSUME TypeOK, OneSessionPerUser, Next, NEW t \in tombstones
               PROVE  Lasts(t)
    OBVIOUS
  <2>0. t \in Tombstone
    BY DEF TypeOK
  <2>1. ASSUME NEW u \in Users, NEW r \in Roles, NEW remembered \in Remembered,
               NEW n \in Names, Assume(u, r, remembered, n)
        PROVE  Lasts(t)
    <3>1. /\ n \in minted' \ minted
          /\ sessions'[n].occupant = u
          /\ tombstones' = Remembering(HeldAlready(u, r), u)
      BY <2>1, AllThatIsHeldIsDisplaced
    <3>2. CASE t.occupant = u
      BY <3>1, <3>2
    <3>3. CASE t.occupant # u /\ ~(t.age >= KeptFor)
      <4>1. t.age < KeptFor
        BY <2>0, <3>3, LadderAssumption DEF Tombstone
      <4>2. t \in tombstones'
        BY <3>1, <3>3, <4>1 DEF Remembering
      <4> QED BY <4>2
    <3> QED BY <3>2, <3>3
  <2>2. ASSUME NEW s \in minted, WhyItEnded(s)
        PROVE  Lasts(t)
    <3>1. CASE t.session = s
      BY <2>2, <3>1
    <3>2. CASE t.session # s /\ ~(t.age >= KeptFor)
      <4>1. t.age < KeptFor
        BY <2>0, <3>2, LadderAssumption DEF Tombstone
      <4>2. t \in tombstones'
        BY <2>2, <3>2, <4>1 DEF WhyItEnded
      <4> QED BY <4>2
    <3> QED BY <3>1, <3>2
  <2>3. CASE Tick
    <3>1. [t EXCEPT !.age = Older(@, KeptFor)] \in tombstones'
      BY <2>3 DEF Tick
    <3>2. [t EXCEPT !.age = Older(@, KeptFor)].session = t.session
      BY <2>0 DEF Tombstone
    <3> QED BY <3>1, <3>2
  <2>4. CASE \/ \E s \in Live : EndedByItsOwnHolder(s) \/ AtTheConsole(s)
             \/ HandsDownTheRouting
    <3>1. tombstones' = tombstones
      <4>1. CASE \E s \in Live : EndedByItsOwnHolder(s)
        BY <4>1, RelinquishKeepsTheOthers
      <4>2. CASE \E s \in Live : AtTheConsole(s)
        BY <4>2, ConsoleKeepsTheSeats DEF BesidesSessions
      <4>3. CASE HandsDownTheRouting
        BY <4>3 DEF HandsDownTheRouting, TheRoutingIfItMoved, TheBeaconsIfTheyMoved
      <4> QED BY <2>4, <4>1, <4>2, <4>3
    <3> QED BY <3>1
  <2> QED BY <2>1, <2>2, <2>3, <2>4 DEF Next
<1> QED
  BY <1>1, TypeCorrect, OneSession, PTL DEF Spec, WhatIsOwedIsKept

-----------------------------------------------------------------------------

\* Finitely many sessions were ever minted, so those in a role can be counted.
FinitelyMany == IsFiniteSet(minted)

\* There are finitely many live sessions, so occupants can be counted.
LEMMA FinitelyManyAlways == Spec => []FinitelyMany
<1>1. Init => FinitelyMany
  BY FS_EmptySet DEF Init, FinitelyMany
<1>2. TypeOK /\ FinitelyMany /\ [Next]_vars => FinitelyMany'
  <2> SUFFICES ASSUME TypeOK, FinitelyMany, [Next]_vars
               PROVE  FinitelyMany'
    OBVIOUS
  <2>1. ASSUME NEW u \in Users, NEW r \in Roles, NEW remembered \in Remembered,
               NEW n \in Names, Assume(u, r, remembered, n)
        PROVE  FinitelyMany'
    BY <2>1, FS_AddElement DEF Assume, Minted, FinitelyMany
  <2>2. ASSUME NEW s \in Live, AtTheConsole(s)
        PROVE  minted' = minted
    BY <2>2, ConsoleKeepsTheSeats DEF BesidesSessions
  <2>3. CASE minted' = minted
    BY <2>3 DEF FinitelyMany
  <2>4. QED
    BY <2>1, <2>2, <2>3 DEF Next, HandsDownTheRouting, EndedByItsOwnHolder, WhyItEnded,
       TheRoutingIfItMoved,
       TheBeaconsIfTheyMoved, Tick, vars
<1>3. QED
  BY <1>1, <1>2, TypeCorrect, PTL DEF Spec

\* A role that is assumed by nobody is occupied by no more than before.
LEMMA FewerOccupants ==
  ASSUME TypeOK, FinitelyMany, WithinTheLimit,
         \A r \in Roles : OccupantsOf({r})' \subseteq OccupantsOf({r})
  PROVE  WithinTheLimit'
<1> SUFFICES ASSUME NEW r \in Roles, NEW limit \in MaxOccupants[r]
             PROVE  Cardinality(OccupantsOf({r})') <= limit
  BY DEF WithinTheLimit
<1>1. IsFiniteSet(OccupantsOf({r}))
  BY FS_Subset DEF FinitelyMany, OccupantsOf, TypeOK
<1>2. /\ IsFiniteSet(OccupantsOf({r})')
      /\ Cardinality(OccupantsOf({r})') <= Cardinality(OccupantsOf({r}))
  BY <1>1, FS_Subset
<1>3. Cardinality(OccupantsOf({r})) <= limit
  BY DEF WithinTheLimit
<1>4. limit \in Nat
  BY LimitAssumption
<1>5. QED
  BY <1>1, <1>2, <1>3, <1>4, FS_CardinalityType

\* The limit a role carries is never passed, whoever assumes and whatever they held:
\* leaving the caller out of the count is sound because the seat they held is taken
\* away in the same act.
THEOREM LimitIsKept == Spec => []WithinTheLimit
<1>1. Init => WithinTheLimit
  <2> SUFFICES ASSUME Init, NEW r \in Roles, NEW limit \in MaxOccupants[r]
               PROVE  Cardinality(OccupantsOf({r})) <= limit
    BY DEF WithinTheLimit
  <2>1. OccupantsOf({r}) = {}
    BY DEF Init, OccupantsOf, Live
  <2>2. limit \in Nat
    BY LimitAssumption
  <2>3. QED
    BY <2>1, <2>2, FS_EmptySet
<1>2. TypeOK /\ OneSessionPerUser /\ FinitelyMany /\ WithinTheLimit /\ [Next]_vars
        => WithinTheLimit'
  <2> SUFFICES ASSUME TypeOK, OneSessionPerUser, FinitelyMany, WithinTheLimit, [Next]_vars
               PROVE  WithinTheLimit'
    OBVIOUS
  <2>1. ASSUME NEW u \in Users, NEW r \in Roles, NEW remembered \in Remembered,
               NEW n \in Names, Assume(u, r, remembered, n)
        PROVE  WithinTheLimit'
    <3> SUFFICES ASSUME NEW role \in Roles, NEW limit \in MaxOccupants[role]
                 PROVE  Cardinality(OccupantsOf({role})') <= limit
      BY DEF WithinTheLimit
    <3>1. /\ n \notin Live
          /\ Live' = (Live \ HeldAlready(u, r)) \cup {n}
          /\ \A s \in Live \ HeldAlready(u, r) : sessions'[s] = sessions[s]
          /\ sessions'[n].role = r
      BY <2>1, AllThatIsHeldIsDisplaced DEF TypeOK
    <3>2. limit \in Nat
      BY LimitAssumption
    <3>3. IsFiniteSet(Live)
      BY FS_Subset DEF FinitelyMany, TypeOK
    <3>4. CASE role # r
      <4>1. OccupantsOf({role})' \subseteq OccupantsOf({role})
        BY <3>1, <3>4 DEF OccupantsOf
      <4>2. IsFiniteSet(OccupantsOf({role}))
        BY <3>3, FS_Subset DEF OccupantsOf
      <4>3. Cardinality(OccupantsOf({role})) <= limit
        BY DEF WithinTheLimit
      <4>4. /\ IsFiniteSet(OccupantsOf({role})')
            /\ Cardinality(OccupantsOf({role})') <= Cardinality(OccupantsOf({role}))
        BY <4>1, <4>2, FS_Subset
      <4>5. /\ Cardinality(OccupantsOf({role})) \in Nat
            /\ Cardinality(OccupantsOf({role})') \in Nat
        BY <4>2, <4>4, FS_CardinalityType
      <4>6. QED
        BY <3>2, <4>3, <4>4, <4>5
    <3>5. CASE role = r
      <4> DEFINE others == OccupiedByOthers(u, r)
      <4>1. OccupantsOf({r})' \subseteq others \cup {n}
        BY <3>1 DEF OccupantsOf, OccupiedByOthers, HeldAlready
      <4>2. IsFiniteSet(others)
        BY <3>3, FS_Subset DEF OccupiedByOthers, OccupantsOf
      <4>3. Cardinality(others) < limit
        BY <2>1, <3>5 DEF Assume, HasRoom
      <4>4. /\ IsFiniteSet(others \cup {n})
            /\ Cardinality(others \cup {n}) <= Cardinality(others) + 1
        <5> HIDE DEF others
        <5>1. Cardinality(others) \in Nat
          BY <4>2, FS_CardinalityType
        <5>2. /\ IsFiniteSet(others \cup {n})
              /\ Cardinality(others \cup {n}) =
                   IF n \in others THEN Cardinality(others) ELSE Cardinality(others) + 1
          BY <4>2, FS_AddElement
        <5>3. QED
          BY <5>1, <5>2
      <4>5. /\ IsFiniteSet(OccupantsOf({r})')
            /\ Cardinality(OccupantsOf({r})') <= Cardinality(others \cup {n})
        BY <4>1, <4>4, FS_Subset
      <4>6. QED
        <5>1. /\ Cardinality(others) \in Nat
              /\ Cardinality(others \cup {n}) \in Nat
              /\ Cardinality(OccupantsOf({r})') \in Nat
          BY <4>2, <4>4, <4>5, FS_CardinalityType
        <5>2. QED
          BY <3>2, <3>5, <4>3, <4>4, <4>5, <5>1
    <3>6. QED
      BY <3>4, <3>5
  <2>2. ASSUME NEW s \in Live, EndedByItsOwnHolder(s)
        PROVE  WithinTheLimit'
    <3>1. \A r \in Roles : OccupantsOf({r})' \subseteq OccupantsOf({r})
      BY <2>2, RelinquishKeepsTheOthers DEF OccupantsOf
    <3>2. QED
      BY <3>1, FewerOccupants
  <2>3. ASSUME NEW s \in minted, WhyItEnded(s)
        PROVE  WithinTheLimit'
    BY <2>3, FewerOccupants DEF WhyItEnded, OccupantsOf, Live
  <2>4. ASSUME NEW s \in Live, AtTheConsole(s)
        PROVE  WithinTheLimit'
    BY <2>4, FewerOccupants, ConsoleKeepsTheSeats DEF OccupantsOf
  <2>5. CASE Tick
    BY <2>5, FewerOccupants, TickKeepsTheSeats DEF OccupantsOf
  <2>6. CASE Elsewhere
    BY <2>6, FewerOccupants, ElsewhereKeepsTheSeats DEF OccupantsOf
  <2>7. QED
    BY <2>1, <2>2, <2>3, <2>4, <2>5, <2>6 DEF Next, HandsDownTheRouting, Elsewhere
<1>3. QED
  BY <1>1, <1>2, TypeCorrect, OneSession, FinitelyManyAlways, PTL DEF Spec
-----------------------------------------------------------------------------
(* The promise.                                                            *)

\* The seats, and the accounts owed, that the live state stands for.
SeatsHeld == [s \in Live |-> [occupant |-> sessions[s].occupant, role |-> sessions[s].role]]

AccountsOwed ==
  {[session |-> t.session, occupant |-> t.occupant] :
     t \in {kept \in tombstones : kept.age < KeptFor}}

\* An account is owed of the tombstones that are not too old.
LEMMA OwedIs ==
  \A o : o \in AccountsOwed <=>
    \E t \in tombstones : /\ t.age < KeptFor
                          /\ o = [session |-> t.session, occupant |-> t.occupant]
BY DEF AccountsOwed

LEMMA OwedIsNext ==
  \A o : o \in AccountsOwed' <=>
    \E t \in tombstones' : /\ t.age < KeptFor
                           /\ o = [session |-> t.session, occupant |-> t.occupant]
BY DEF AccountsOwed

\* Where no seat moves, none is taken or left.
LEMMA NoSeatMoves ==
  ASSUME Live' = Live,
         \A t \in Live : /\ sessions'[t].occupant = sessions[t].occupant
                         /\ sessions'[t].role = sessions[t].role
  PROVE  SeatsHeld' = SeatsHeld
BY DEF SeatsHeld

\* Accounts given or grown old are settled.
LEMMA SettlingIsPromised ==
  ASSUME SeatsHeld' = SeatsHeld, minted' = minted, AccountsOwed' \subseteq AccountsOwed
  PROVE  AsSeats!SeatsNext
<1>1. \A kept : kept = AccountsOwed' => AsSeats!Settle(kept)
  BY DEF AsSeats!Settle, SeatsHeld, AccountsOwed
<1> DEFINE Settled(kept) == AsSeats!Settle(kept)
<1> HIDE DEF Settled
<1>2. \E kept \in SUBSET AccountsOwed : Settled(kept)
  BY <1>1 DEF Settled
<1> QED
  BY <1>2 DEF AsSeats!SeatsNext, AccountsOwed, Settled

LEMMA LeavingIsPromised ==
  ASSUME TypeOK, NEW s \in Live, EndedByItsOwnHolder(s)
  PROVE  AsSeats!SeatsNext
<1>1. /\ Live' = Live \ {s}
      /\ \A t \in Live' : sessions'[t] = sessions[t]
      /\ UNCHANGED <<tombstones, minted>>
  BY RelinquishKeepsTheOthers
<1>2. SeatsHeld' = [t \in (DOMAIN SeatsHeld) \ {s} |-> SeatsHeld[t]]
  BY <1>1 DEF SeatsHeld
<1>3. AccountsOwed' = AccountsOwed
  BY <1>1 DEF AccountsOwed
<1>4. AsSeats!Leave(s)
  BY <1>1, <1>2, <1>3
     DEF AsSeats!Leave, AsSeats!Seated, AsSeats!Restrict, SeatsHeld, AccountsOwed
<1> QED
  BY <1>4 DEF AsSeats!SeatsNext, AsSeats!Seated

LEMMA TakingIsPromised ==
  ASSUME TypeOK, OneSessionPerUser, NEW u \in Users, NEW r \in Roles,
         NEW remembered \in Remembered, NEW n \in Names, Assume(u, r, remembered, n)
  PROVE  AsSeats!SeatsNext
<1> DEFINE held == HeldAlready(u, r)
<1>1. /\ n \notin minted
      /\ Live' = (Live \ held) \cup {n}
      /\ \A s \in Live \ held : sessions'[s] = sessions[s]
      /\ sessions'[n].occupant = u
      /\ sessions'[n].role = r
      /\ tombstones' = Remembering(held, u)
      /\ minted' = minted \cup {n}
  BY AllThatIsHeldIsDisplaced
<1>2. n \notin Live
  BY <1>1 DEF TypeOK
<1>3. AsSeats!SeatsOf(u) = held
  BY DEF AsSeats!SeatsOf, AsSeats!Seated, HeldAlready
<1>4. AsSeats!TakenByOthers(u, r) = OccupiedByOthers(u, r)
  BY DEF AsSeats!TakenByOthers, AsSeats!Seated, OccupiedByOthers, OccupantsOf
<1>5. \A limit \in MaxOccupants[r] : Cardinality(OccupiedByOthers(u, r)) < limit
  BY DEF Assume, HasRoom
<1> HIDE DEF held
<1>6. SeatsHeld' = [s \in (Live \ held) \cup {n} |->
                     IF s = n THEN [occupant |-> u, role |-> r] ELSE SeatsHeld[s]]
  BY <1>1, <1>2 DEF SeatsHeld
<1>7. AccountsOwed' = {o \in AccountsOwed : o.occupant # u}
                        \cup {[session |-> s, occupant |-> u] : s \in held}
  <2>1. 0 < KeptFor
    BY LadderAssumption
  <2>2. \A t \in tombstones' :
          \/ t \in tombstones /\ t.occupant # u
          \/ \E s \in held : t = [session |-> s, occupant |-> u, age |-> 0]
    BY <1>1 DEF Remembering
  <2>3. \A t \in tombstones : t.occupant # u /\ t.age < KeptFor => t \in tombstones'
    BY <1>1 DEF Remembering
  <2>4. \A s \in held : [session |-> s, occupant |-> u, age |-> 0] \in tombstones'
    BY <1>1 DEF Remembering
  <2>5. ASSUME NEW o \in AccountsOwed'
        PROVE  \/ o \in AccountsOwed /\ o.occupant # u
               \/ \E s \in held : o = [session |-> s, occupant |-> u]
    <3>1. PICK t \in tombstones' : /\ t.age < KeptFor
                                   /\ o = [session |-> t.session, occupant |-> t.occupant]
      BY <2>5, OwedIsNext
    <3> QED
      BY <2>2, <3>1, OwedIs
  <2>6. ASSUME NEW o \in AccountsOwed, o.occupant # u PROVE o \in AccountsOwed'
    <3>1. PICK t \in tombstones : /\ t.age < KeptFor
                                  /\ o = [session |-> t.session, occupant |-> t.occupant]
      BY <2>6, OwedIs
    <3> QED
      BY <2>3, <2>6, <3>1, OwedIsNext
  <2>7. ASSUME NEW s \in held PROVE [session |-> s, occupant |-> u] \in AccountsOwed'
    BY <2>1, <2>4, <2>7, OwedIsNext
  <2> QED
    BY <2>5, <2>6, <2>7
<1>8. \A S : AsSeats!Cardinality(S) = Cardinality(S)
  BY DEF AsSeats!Cardinality, Cardinality
<1>9. DOMAIN SeatsHeld = Live
  BY DEF SeatsHeld
<1>10. AsSeats!Take(u, r, n)
  <2>1. \A limit \in MaxOccupants[r] :
          AsSeats!Cardinality(AsSeats!TakenByOthers(u, r)) < limit
    BY <1>4, <1>5, <1>8
  <2>2. SeatsHeld' = [s \in (DOMAIN SeatsHeld \ AsSeats!SeatsOf(u)) \cup {n} |->
                       IF s = n THEN [occupant |-> u, role |-> r] ELSE SeatsHeld[s]]
    BY <1>3, <1>6, <1>9
  <2>3. AccountsOwed' = {o \in AccountsOwed : o.occupant # u}
                          \cup {[session |-> s, occupant |-> u] : s \in AsSeats!SeatsOf(u)}
    BY <1>3, <1>7
  <2> QED
    BY <1>1, <2>1, <2>2, <2>3 DEF AsSeats!Take, AsSeats!Seated, SeatsHeld, AccountsOwed
<1> QED
  BY <1>10 DEF AsSeats!SeatsNext

\* Every operation of the State Authority, its console and its passing of time included,
\* is an operation of Seats or none: whoever builds on the promise builds on the code.
THEOREM Refinement == Spec => ImplementsSeats
<1>1. Init => AsSeats!SeatsInit
  BY DEF Init, AsSeats!SeatsInit, Live
<1>2. TypeOK /\ OneSessionPerUser /\ [Next]_vars => [AsSeats!SeatsNext]_(AsSeats!seatVars)
  <2> SUFFICES ASSUME TypeOK, OneSessionPerUser, [Next]_vars
               PROVE  \/ AsSeats!SeatsNext
                      \/ UNCHANGED <<SeatsHeld, AccountsOwed, minted>>
    BY DEF AsSeats!seatVars, SeatsHeld, AccountsOwed
  <2>1. ASSUME NEW u \in Users, NEW r \in Roles, NEW remembered \in Remembered,
               NEW n \in Names, Assume(u, r, remembered, n)
        PROVE  AsSeats!SeatsNext
    BY <2>1, TakingIsPromised
  <2>2. ASSUME NEW s \in Live, EndedByItsOwnHolder(s)
        PROVE  AsSeats!SeatsNext
    BY <2>2, LeavingIsPromised
  <2>3. ASSUME NEW s \in minted, WhyItEnded(s)
        PROVE  AsSeats!SeatsNext
    <3>1. tombstones' \subseteq tombstones /\ UNCHANGED <<sessions, minted>>
      BY <2>3 DEF WhyItEnded
    <3>2. AccountsOwed' \subseteq AccountsOwed
      BY <3>1, OwedIs, OwedIsNext
    <3>3. SeatsHeld' = SeatsHeld
      BY <3>1 DEF SeatsHeld, Live
    <3> QED
      BY <3>1, <3>2, <3>3, SettlingIsPromised
  <2>4. ASSUME NEW s \in Live, AtTheConsole(s)
        PROVE  UNCHANGED <<SeatsHeld, AccountsOwed, minted>>
    <3>1. UNCHANGED <<tombstones, minted>>
      BY <2>4, ConsoleKeepsTheSeats DEF BesidesSessions
    <3> QED
      BY <2>4, <3>1, ConsoleKeepsTheSeats, NoSeatMoves DEF AccountsOwed
  <2>5. CASE Tick
    <3>1. \A t \in tombstones' : \E old \in tombstones :
            t = [session |-> old.session, occupant |-> old.occupant,
                 age |-> Older(old.age, KeptFor)]
      BY <2>5 DEF Tick, TypeOK, Tombstone
    <3>2. \A old \in tombstones : old.age \in 0..KeptFor
      BY DEF TypeOK, Tombstone
    <3>3. \A old \in tombstones : Older(old.age, KeptFor) < KeptFor => old.age < KeptFor
      BY <3>2, LadderAssumption DEF Older
    <3>4. AccountsOwed' \subseteq AccountsOwed
      <4> SUFFICES ASSUME NEW o \in AccountsOwed' PROVE o \in AccountsOwed
        OBVIOUS
      <4>1. PICK t \in tombstones' : /\ t.age < KeptFor
                                     /\ o = [session |-> t.session, occupant |-> t.occupant]
        BY OwedIsNext
      <4> QED
        BY <3>1, <3>3, <4>1, OwedIs
    <3> QED
      BY <2>5, <3>4, TickKeepsTheSeats, NoSeatMoves, SettlingIsPromised
  <2>6. CASE Elsewhere
    BY <2>6, ElsewhereKeepsTheSeats DEF SeatsHeld, AccountsOwed
  <2>7. QED
    BY <2>1, <2>2, <2>3, <2>4, <2>5, <2>6 DEF Next, HandsDownTheRouting, Elsewhere
<1>3. QED
  BY <1>1, <1>2, TypeCorrect, OneSession, PTL DEF Spec, ImplementsSeats, AsSeats!SeatsSpec

-----------------------------------------------------------------------------
(* What is counted of those who are away.                                  *)

\* Of the reasons an occupant is not hearing a loop one is given at most: the one furthest
\* upstream.
LEMMA OneReasonEach ==
  ASSUME NEW x, NEW l
  PROVE  \/ NotHearing(x, l) = {}
         \/ \E i \in 1..5 : NotHearing(x, l) = {FurthestUpstreamFirst[i]}
<1> DEFINE First(i) == Applies(i, x, l) /\ \A k \in 1..(i - 1) : ~Applies(k, x, l)
<1>1. NotHearing(x, l) = {FurthestUpstreamFirst[i] : i \in {j \in 1..5 : First(j)}}
  BY DEF NotHearing
<1>2. ASSUME NEW i \in 1..5, First(i), NEW j \in 1..5, First(j)
      PROVE  i = j
  <2>1. i < j \/ j < i \/ i = j
    OBVIOUS
  <2>2. ~(i < j)
    <3>1. i < j => i \in 1..(j - 1)
      OBVIOUS
    <3> QED BY <1>2, <3>1
  <2>3. ~(j < i)
    <3>1. j < i => j \in 1..(i - 1)
      OBVIOUS
    <3> QED BY <1>2, <3>1
  <2> QED BY <2>1, <2>2, <2>3
<1>3. CASE \A i \in 1..5 : ~First(i)
  BY <1>1, <1>3
<1>4. CASE \E i \in 1..5 : First(i)
  <2>1. PICK i \in 1..5 : First(i)
    BY <1>4
  <2> HIDE DEF First
  <2>2. {j \in 1..5 : First(j)} = {i}
    BY <1>2, <2>1
  <2> QED BY <1>1, <2>2
<1> QED BY <1>3, <1>4

\* A finite set in two parts is as large as both.
LEMMA TwoParts ==
  ASSUME NEW S, IsFiniteSet(S), NEW T, IsFiniteSet(T), S \cap T = {}
  PROVE  IsFiniteSet(S \cup T) /\ Cardinality(S \cup T) = Cardinality(S) + Cardinality(T)
<1>1. /\ Cardinality(S \cap T) = 0
      /\ Cardinality(S) \in Nat
      /\ Cardinality(T) \in Nat
  BY FS_EmptySet, FS_CardinalityType
<1>2. /\ IsFiniteSet(S \cup T)
      /\ Cardinality(S \cup T) = Cardinality(S) + Cardinality(T) - Cardinality(S \cap T)
  BY FS_Union
<1> QED BY <1>1, <1>2

\* Where nobody hears a loop, the numbers shown of those who are away add up to all who
\* staff it: nobody is counted against two reasons, and nobody against none
\* (staffing_of, and Session::not_hearing).
TheAwayAreCounted ==
  \A l \in Loops, roles \in SUBSET Roles :
    LET staffing == Staffing(l, roles)
    IN  staffing.is = "away" =>
          staffing.counted[1] + staffing.counted[2] + staffing.counted[3]
            + staffing.counted[4] + staffing.counted[5] = Cardinality(OccupantsOf(roles))

\* Everybody who is away from a loop is counted against one reason of their own.
THEOREM AwayAreCounted == Spec => []TheAwayAreCounted
<1>1. TypeOK /\ FinitelyMany => TheAwayAreCounted
  <2> SUFFICES ASSUME TypeOK, FinitelyMany, NEW l \in Loops, NEW roles \in SUBSET Roles,
                      Staffing(l, roles).is = "away"
               PROVE  LET counted == Staffing(l, roles).counted
                      IN  counted[1] + counted[2] + counted[3] + counted[4] + counted[5]
                            = Cardinality(OccupantsOf(roles))
    BY DEF TheAwayAreCounted
  <2> DEFINE occupants == OccupantsOf(roles)
             away(reason) == {s \in occupants : NotHearing(sessions[s], l) = {reason}}
             A(i) == away(FurthestUpstreamFirst[i])
  <2>1. /\ ~(\E s \in occupants : NotHearing(sessions[s], l) = {})
        /\ Staffing(l, roles).counted = [i \in 1..5 |-> Cardinality(A(i))]
    BY DEF Staffing
  <2>2. IsFiniteSet(occupants)
    BY FS_Subset DEF FinitelyMany, OccupantsOf, TypeOK
  <2>3. \A i \in 1..5 : IsFiniteSet(A(i))
    BY <2>2, FS_Subset
  <2>4. \A i, j \in 1..5 : i # j => A(i) \cap A(j) = {}
    BY DEF FurthestUpstreamFirst
  <2>5. occupants = A(1) \cup A(2) \cup A(3) \cup A(4) \cup A(5)
    <3>1. ASSUME NEW s \in occupants
          PROVE  \E i \in 1..5 : s \in A(i)
      BY <2>1, OneReasonEach
    <3>2. \A i \in 1..5 : i = 1 \/ i = 2 \/ i = 3 \/ i = 4 \/ i = 5
      OBVIOUS
    <3>3. \A i \in 1..5 : A(i) \subseteq occupants
      OBVIOUS
    <3> HIDE DEF A, occupants
    <3> QED BY <3>1, <3>2, <3>3
  <2> HIDE DEF A, occupants
  <2>6. /\ IsFiniteSet(A(1) \cup A(2))
        /\ Cardinality(A(1) \cup A(2)) = Cardinality(A(1)) + Cardinality(A(2))
    BY <2>3, <2>4, TwoParts
  <2>7. /\ IsFiniteSet(A(1) \cup A(2) \cup A(3))
        /\ Cardinality(A(1) \cup A(2) \cup A(3))
             = Cardinality(A(1) \cup A(2)) + Cardinality(A(3))
    <3>1. (A(1) \cup A(2)) \cap A(3) = {}
      BY <2>4
    <3> QED BY <2>3, <2>6, <3>1, TwoParts
  <2>8. /\ IsFiniteSet(A(1) \cup A(2) \cup A(3) \cup A(4))
        /\ Cardinality(A(1) \cup A(2) \cup A(3) \cup A(4))
             = Cardinality(A(1) \cup A(2) \cup A(3)) + Cardinality(A(4))
    <3>1. (A(1) \cup A(2) \cup A(3)) \cap A(4) = {}
      BY <2>4
    <3> QED BY <2>3, <2>7, <3>1, TwoParts
  <2>9. Cardinality(A(1) \cup A(2) \cup A(3) \cup A(4) \cup A(5))
          = Cardinality(A(1) \cup A(2) \cup A(3) \cup A(4)) + Cardinality(A(5))
    <3>1. (A(1) \cup A(2) \cup A(3) \cup A(4)) \cap A(5) = {}
      BY <2>4
    <3> QED BY <2>3, <2>8, <3>1, TwoParts
  <2>10. \A i \in 1..5 : Staffing(l, roles).counted[i] = Cardinality(A(i))
    BY <2>1
  <2> QED BY <2>5, <2>6, <2>7, <2>8, <2>9, <2>10 DEF occupants
<1> QED BY <1>1, TypeCorrect, FinitelyManyAlways, PTL
=============================================================================

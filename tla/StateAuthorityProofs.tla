------------------------ MODULE StateAuthorityProofs ------------------------
(***************************************************************************)
(* The State Authority, for every population, limit and threshold: what    *)
(* it holds keeps its shape, and what a seated person's console holds, is  *)
(* heard saying and is shown of the others stays true of the live state.   *)
(* The theorems about who sits where are in SeatsProofs.                   *)
(***************************************************************************)
EXTENDS StateAuthority, FiniteSetTheorems, TLAPS

\* A fresh age is within every bound an age is kept under.
LEMMA TheBoundsAreCounted ==
  /\ 0 \in 0..LostAfter
  /\ 0 \in 0..DisconnectedAfter
  /\ 0 \in 0..KeptFor
  BY LadderAssumption

\* A measurement that has just started is a measurement.
LEMMA StartingType == Starting \in Counting
  BY LadderAssumption DEF Starting, Counting

\* Growing older never passes the bound.
LEMMA OlderType ==
  ASSUME NEW bound \in Nat, NEW age \in 0..bound
  PROVE  Older(age, bound) \in 0..bound
  BY DEF Older

\* The three things that happen to a measurement leave it one.
LEMMA CountingType ==
  ASSUME NEW c \in Counting
  PROVE  /\ Again(c) \in Counting
         /\ ATickOlder(c) \in Counting
         /\ \A packets \in 0..MaxCount : Counted(c, packets) \in Counting
<1>1. Again(c) \in Counting
  BY LadderAssumption DEF Again, Counting
<1>2. ATickOlder(c) \in Counting
  BY LadderAssumption, OlderType DEF ATickOlder, Counting
<1>3. ASSUME NEW packets \in 0..MaxCount
      PROVE  Counted(c, packets) \in Counting
  BY LadderAssumption DEF Counted, Counting
<1>4. QED
  BY <1>1, <1>2, <1>3

\* An operation on one session keeps the type if what it leaves there is a session.
LEMMA EditKeepsTheType ==
  ASSUME TypeOK, NEW s \in Live, NEW x \in Session,
         sessions' = [sessions EXCEPT ![s] = x], UNCHANGED BesidesSessions
  PROVE  TypeOK'
<1>1. DOMAIN sessions' = Live /\ Live' = Live
  BY DEF TypeOK, Live
<1>2. sessions' \in [Live' -> Session]
  BY <1>1 DEF TypeOK
<1>3. QED
  BY <1>1, <1>2 DEF TypeOK, BesidesSessions

\* Taking a loop up starts measuring it, over a console that grows by one loop.
LEMMA SubscribeType ==
  ASSUME TypeOK, NEW s \in Live, NEW l \in Loops, Subscribe(s, l)
  PROVE  TypeOK'
<1> DEFINE x == sessions[s]
           beacons == [m \in DOMAIN x.beacons \cup {l} |-> IF m = l THEN Starting ELSE x.beacons[m]]
           y == [x EXCEPT !.subscriptions = @ \cup {l}, !.beacons = beacons]
<1>1. x \in Session
  BY DEF TypeOK
<1>2. PICK D \in SUBSET Loops : x.beacons \in [D -> Counting]
  BY <1>1 DEF Session, Measures
<1>3. beacons \in [D \cup {l} -> Counting]
  BY <1>2, StartingType
<1>4. beacons \in Measures
  BY <1>3 DEF Measures
<1>5. y \in Session
  BY <1>1, <1>4 DEF Session
<1>6. sessions' = [sessions EXCEPT ![s] = y]
  BY DEF Subscribe, TypeOK
<1>7. QED
  BY <1>5, <1>6, EditKeepsTheType DEF Subscribe

\* Dropping a loop drops its measurement and its mute.
LEMMA UnsubscribeType ==
  ASSUME TypeOK, NEW s \in Live, NEW l \in Loops, Unsubscribe(s, l)
  PROVE  TypeOK'
<1> DEFINE x == sessions[s]
           beacons == Restrict(x.beacons, DOMAIN x.beacons \ {l})
           y == [x EXCEPT !.subscriptions = @ \ {l}, !.beacons = beacons, !.mutes = @ \ {l}]
<1>1. x \in Session
  BY DEF TypeOK
<1>2. PICK D \in SUBSET Loops : x.beacons \in [D -> Counting]
  BY <1>1 DEF Session, Measures
<1>3. beacons \in [D \ {l} -> Counting]
  BY <1>2 DEF Restrict
<1>4. beacons \in Measures
  BY <1>3 DEF Measures
<1>5. y \in Session
  BY <1>1, <1>4 DEF Session
<1>6. sessions' = [sessions EXCEPT ![s] = y]
  BY DEF Unsubscribe, TypeOK
<1>7. QED
  BY <1>5, <1>6, EditKeepsTheType DEF Unsubscribe

\* An edit of one session that leaves what it measures alone.
LEMMA PlainEditType ==
  ASSUME TypeOK, NEW s \in Live, NEW l \in Loops,
         \/ Mute(s, l) \/ Unmute(s, l) \/ Arm(s, l) \/ Disarm(s, l)
  PROVE  TypeOK'
<1> DEFINE x == sessions[s]
<1>1. x \in Session
  BY DEF TypeOK
<1>2. CASE Mute(s, l)
  <2>1. [x EXCEPT !.mutes = @ \cup {l}] \in Session
    BY <1>1 DEF Session
  <2>2. QED
    BY <1>2, <2>1, EditKeepsTheType DEF Mute
<1>3. CASE Unmute(s, l)
  <2>1. [x EXCEPT !.mutes = @ \ {l}] \in Session
    BY <1>1 DEF Session
  <2>2. QED
    BY <1>3, <2>1, EditKeepsTheType DEF Unmute
<1>4. CASE Arm(s, l)
  <2>1. [x EXCEPT !.arms = @ \cup {l}] \in Session
    BY <1>1 DEF Session
  <2>2. QED
    BY <1>4, <2>1, EditKeepsTheType DEF Arm
<1>5. CASE Disarm(s, l)
  <2>1. [x EXCEPT !.arms = @ \ {l}] \in Session
    BY <1>1 DEF Session
  <2>2. QED
    BY <1>5, <2>1, EditKeepsTheType DEF Disarm
<1>6. QED
  BY <1>2, <1>3, <1>4, <1>5

\* The keys: a press names the arms it began over, which are loops.
LEMMA KeyType ==
  ASSUME TypeOK, NEW s \in Live,
         \/ OffConsole(s) \/ ADeliberateAct(s) \/ TheClientKeys(s) \/ TheClientUnkeys(s)
         \/ TheClientKeysPriority(s) \/ TheClientUnkeysPriority(s) \/ TheChannelIsGone(s)
  PROVE  TypeOK'
<1> DEFINE x == sessions[s]
<1>1. x \in Session
  BY DEF TypeOK
<1>2. CASE OffConsole(s)
  <2>1. [x EXCEPT !.off_console = TRUE] \in Session
    BY <1>1 DEF Session
  <2>2. QED
    BY <1>2, <2>1, EditKeepsTheType DEF OffConsole
<1>3. CASE ADeliberateAct(s)
  <2>1. [x EXCEPT !.off_console = FALSE] \in Session
    BY <1>1 DEF Session
  <2>2. QED
    BY <1>3, <2>1, EditKeepsTheType DEF ADeliberateAct
<1>4. CASE TheClientKeys(s)
  <2>1. [x EXCEPT !.keyed = TRUE] \in Session
    BY <1>1 DEF Session
  <2>2. QED
    BY <1>4, <2>1, EditKeepsTheType DEF TheClientKeys
<1>5. CASE TheClientUnkeys(s)
  <2>1. [x EXCEPT !.keyed = FALSE] \in Session
    BY <1>1 DEF Session
  <2>2. QED
    BY <1>5, <2>1, EditKeepsTheType DEF TheClientUnkeys
<1>6. CASE TheClientKeysPriority(s)
  <2>1. [x EXCEPT !.pressing = {x.arms}] \in Session
    BY <1>1 DEF Session
  <2>2. QED
    BY <1>6, <2>1, EditKeepsTheType DEF TheClientKeysPriority
<1>7. CASE TheClientUnkeysPriority(s)
  <2>1. [x EXCEPT !.pressing = {}] \in Session
    BY <1>1 DEF Session
  <2>2. QED
    BY <1>7, <2>1, EditKeepsTheType DEF TheClientUnkeysPriority
<1>8. CASE TheChannelIsGone(s)
  <2>1. [x EXCEPT !.gone = TRUE, !.pressing = {}, !.steady = 0] \in Session
    BY <1>1, TheBoundsAreCounted DEF Session
  <2>2. sessions' = [sessions EXCEPT ![s] = [x EXCEPT !.gone = TRUE, !.pressing = {}, !.steady = 0]]
    BY <1>8 DEF TheChannelIsGone, TypeOK
  <2>3. QED
    BY <1>8, <2>1, <2>2, EditKeepsTheType DEF TheChannelIsGone
<1>9. QED
  BY <1>2, <1>3, <1>4, <1>5, <1>6, <1>7, <1>8

\* A projection replaces the reach and keeps the arms inside it.
LEMMA PresenceType ==
  ASSUME TypeOK, NEW s \in Live, NEW within \in Reaches, Presence(s, within)
  PROVE  TypeOK'
<1> DEFINE x == sessions[s]
           y == [x EXCEPT !.reach = within, !.arms = ArmsWithin(@, within)]
<1>1. x \in Session
  BY DEF TypeOK
<1>2. y \in Session
  BY <1>1, ReachAssumption DEF Session, ArmsWithin
<1>3. sessions' = [sessions EXCEPT ![s] = y]
  BY DEF Presence, TypeOK
<1>4. QED
  BY <1>2, <1>3, EditKeepsTheType DEF Presence

\* A heartbeat may start every measurement again.
LEMMA HeartbeatType ==
  ASSUME TypeOK, NEW s \in Live, TheClientIsThere(s)
  PROVE  TypeOK'
<1> DEFINE x == sessions[s]
           beacons == IF Connection(x) = "confirmed" THEN x.beacons
                      ELSE [l \in DOMAIN x.beacons |-> Again(x.beacons[l])]
           y == [x EXCEPT !.beacons = beacons, !.unheard = 0, !.gone = FALSE]
<1>1. x \in Session
  BY DEF TypeOK
<1>2. PICK D \in SUBSET Loops : x.beacons \in [D -> Counting]
  BY <1>1 DEF Session, Measures
<1>4. beacons \in [D -> Counting]
  BY <1>2, CountingType
<1>5. beacons \in Measures
  BY <1>4 DEF Measures
<1>6. y \in Session
  <2> HIDE DEF beacons
  <2> QED
    BY <1>1, <1>5, TheBoundsAreCounted DEF Session
<1>7. sessions' = [sessions EXCEPT ![s] = y]
  BY DEF TheClientIsThere, TypeOK
<1>8. QED
  BY <1>6, <1>7, EditKeepsTheType DEF TheClientIsThere

\* A report counts what is measured and nothing else.
LEMMA CountType ==
  ASSUME TypeOK, NEW s \in Live, NEW counts \in Counts, TheClientCounted(s, counts)
  PROVE  TypeOK'
<1> DEFINE x == sessions[s]
           beacons == [l \in DOMAIN x.beacons |->
                         IF l \in DOMAIN counts THEN Counted(x.beacons[l], counts[l])
                         ELSE x.beacons[l]]
           y == [x EXCEPT !.beacons = beacons]
<1>1. x \in Session
  BY DEF TypeOK
<1>2. PICK D \in SUBSET Loops : x.beacons \in [D -> Counting]
  BY <1>1 DEF Session, Measures
<1>4. \A l \in DOMAIN counts : counts[l] \in 0..MaxCount
  BY DEF Counts
<1>5. beacons \in [D -> Counting]
  BY <1>2, <1>4, CountingType
<1>6. beacons \in Measures
  BY <1>5 DEF Measures
<1>7. y \in Session
  BY <1>1, <1>6 DEF Session
<1>8. sessions' = [sessions EXCEPT ![s] = y]
  BY DEF TheClientCounted, TypeOK
<1>9. QED
  BY <1>7, <1>8, EditKeepsTheType DEF TheClientCounted

\* Whatever a console does of its own accord keeps the type.
LEMMA ConsoleType ==
  ASSUME TypeOK, NEW s \in Live, AtTheConsole(s)
  PROVE  TypeOK'
  BY KeyType, SubscribeType, UnsubscribeType, PlainEditType, PresenceType, HeartbeatType,
     CountType DEF AtTheConsole, KeyingPriority, Keying, Arming, Muting, Monitoring

\* A session a tick older is a session.
LEMMA AgedType ==
  ASSUME NEW x \in Session
  PROVE  Aged(x) \in Session
<1> DEFINE beacons == [l \in DOMAIN x.beacons |-> ATickOlder(x.beacons[l])]
           older == [x EXCEPT !.unheard = Older(@, DisconnectedAfter), !.beacons = beacons]
           steady == IF Connection(older) = "confirmed" THEN Older(x.steady, LostAfter) ELSE 0
<1>1. PICK D \in SUBSET Loops : x.beacons \in [D -> Counting]
  BY DEF Session, Measures
<1>3. beacons \in [D -> Counting]
  BY <1>1, CountingType
<1>4. beacons \in Measures
  BY <1>3 DEF Measures
<1>5. Older(x.unheard, DisconnectedAfter) \in 0..DisconnectedAfter
  BY LadderAssumption, OlderType DEF Session
<1>6. older \in Session
  BY <1>4, <1>5 DEF Session
<1>7. steady \in 0..LostAfter
  BY LadderAssumption, OlderType DEF Session
<1>8. Aged(x) = [older EXCEPT !.steady = steady]
  BY <1>6 DEF Aged, Session
<1>9. QED
  BY <1>6, <1>7, <1>8 DEF Session

\* A seat newly taken is a session, and whom it displaced leaves a tombstone.
LEMMA AssumeType ==
  ASSUME TypeOK, NEW u \in Users, NEW r \in Roles, NEW remembered \in Remembered,
         NEW n \in Names, Assume(u, r, remembered, n)
  PROVE  TypeOK'
<1> DEFINE x == Taken(u, r, remembered)
<1>1. x \in Session
  <2>1. remembered \in SUBSET Loops
    BY ReachAssumption
  <2>2. [l \in remembered |-> Starting] \in [remembered -> Counting]
    BY StartingType
  <2>3. [l \in remembered |-> Starting] \in Measures
    BY <2>1, <2>2 DEF Measures
  <2>4. [l \in Loops |-> NoPermission] \in [Loops -> Permissions]
    BY DEF NoPermission, Permissions
  <2>5. QED
    BY <2>1, <2>3, <2>4, TheBoundsAreCounted DEF Taken, Session
<1>2. PICK displaced \in FoundIn(HeldAlready(u, r)) :
        /\ tombstones' = Remembering(displaced, u)
        /\ sessions' = [s \in (Live \ displaced) \cup {n} |->
                          IF s = n THEN x ELSE sessions[s]]
  BY DEF Assume
<1>3. displaced \subseteq Live
  BY <1>2 DEF FoundIn, HeldAlready
<1>4. Live' = (Live \ displaced) \cup {n}
  BY <1>2 DEF Live
<1>5. sessions' \in [Live' -> Session]
  <2> HIDE DEF x
  <2> QED
    BY <1>1, <1>2, <1>4 DEF TypeOK
<1>6. minted' = minted \cup {n}
  BY DEF Assume, Minted
<1>7. tombstones' \subseteq Tombstone
  BY <1>2, <1>3, TheBoundsAreCounted DEF Remembering, Tombstone, TypeOK
<1>8. QED
  BY <1>4, <1>5, <1>6, <1>7 DEF TypeOK, Assume

\* A seat given up leaves the others as they were.
LEMMA RelinquishType ==
  ASSUME TypeOK, NEW s \in Live, EndedByItsOwnHolder(s)
  PROVE  TypeOK'
<1>1. sessions' = [t \in Live \ {s} |-> sessions[t]]
  BY DEF EndedByItsOwnHolder, Restrict
<1>2. Live' = Live \ {s}
  BY <1>1 DEF Live
<1>3. QED
  BY <1>1, <1>2 DEF TypeOK, EndedByItsOwnHolder

\* Taking a tombstone only takes tombstones away.
LEMMA WhyItEndedType ==
  ASSUME TypeOK, NEW s \in minted, WhyItEnded(s)
  PROVE  TypeOK'
<1>1. Live' = Live
  BY DEF WhyItEnded, Live
<1>2. QED
  BY <1>1 DEF WhyItEnded, TypeOK

\* What is handed to the media plane names live sessions, which have been minted.
LEMMA TakenAwayType ==
  ASSUME TypeOK, TheRoutingIfItMoved \/ TheBeaconsIfTheyMoved
  PROVE  TypeOK'
<1>1. Live' = Live
  BY DEF TheRoutingIfItMoved, TheBeaconsIfTheyMoved, Live
<1>2. CASE TheRoutingIfItMoved
  <2>1. ASSUME NEW talker \in Live
        PROVE  WhoHears(talker) \subseteq Heard
    <3>1. sessions[talker].arms \subseteq Loops
      BY DEF TypeOK, Session
    <3>2. [listener : Live \ {talker}, on : sessions[talker].arms] \subseteq Heard
      BY <3>1 DEF Heard, TypeOK
    <3>3. QED
      BY <3>2 DEF WhoHears
  <2>2. Routing \in [Live -> SUBSET Heard]
    BY <2>1 DEF Routing
  <2>3. DOMAIN Routing = Live
    BY DEF Routing
  <2>4. QED
    BY <1>1, <1>2, <2>2, <2>3 DEF TheRoutingIfItMoved, TypeOK
<1>3. CASE TheBeaconsIfTheyMoved
  <2>1. Beacons \in [Live -> SUBSET Loops] /\ DOMAIN Beacons = Live
    BY DEF Beacons
  <2>2. QED
    BY <1>1, <1>3, <2>1 DEF TheBeaconsIfTheyMoved, TypeOK
<1>4. QED
  BY <1>2, <1>3

\* Time passing ages every session and every tombstone.
LEMMA TickType ==
  ASSUME TypeOK, Tick
  PROVE  TypeOK'
<1>1. Live' = Live
  BY DEF Tick, Live
<1>2. sessions' \in [Live' -> Session]
  <2>1. \A s \in Live : Aged(sessions[s]) \in Session
    BY AgedType DEF TypeOK
  <2>2. QED
    BY <1>1, <2>1 DEF Tick
<1>3. tombstones' \subseteq Tombstone
  <2>1. ASSUME NEW t \in tombstones
        PROVE  [t EXCEPT !.age = Older(@, KeptFor)] \in Tombstone
    BY LadderAssumption, OlderType DEF Tombstone, TypeOK
  <2>2. QED
    BY <2>1 DEF Tick
<1>4. QED
  BY <1>1, <1>2, <1>3 DEF Tick, TypeOK

\* Nothing happening changes nothing.
LEMMA StutterType ==
  ASSUME TypeOK, UNCHANGED vars
  PROVE  TypeOK'
<1>1. Live' = Live
  BY DEF vars, Live
<1>2. QED
  BY <1>1 DEF vars, TypeOK

\* Every operation of the State Authority keeps the shape of what it holds, for
\* every population, every limit and every threshold of the ladder.
THEOREM TypeCorrect == Spec => []TypeOK
<1>1. Init => TypeOK
  BY DEF Init, TypeOK, Live
<1>2. TypeOK /\ [Next]_vars => TypeOK'
  BY AssumeType, RelinquishType, WhyItEndedType, ConsoleType, TakenAwayType, TickType,
     StutterType DEF Next, HandsDownTheRouting
<1>3. QED
  BY <1>1, <1>2, PTL DEF Spec

-----------------------------------------------------------------------------
(* The lists of one session, its arms, and what is measured of the loops   *)
(* it monitors.                                                            *)

\* What ConsoleIsCoherent and HealthIsMeasured say of one session.
Coherent(x) == /\ DOMAIN x.beacons = x.subscriptions
               /\ x.mutes \subseteq x.subscriptions

Measured(x) ==
  Connection(x) = "confirmed" =>
    \A l \in DOMAIN x.beacons : /\ x.beacons[l].since <= x.steady
                                /\ \A age \in x.beacons[l].arrived : age <= x.steady

Sound(x) == Coherent(x) /\ Measured(x)

EverySession == \A s \in Live : Sound(sessions[s])

\* A seat just taken is coherent and measured from nothing.
LEMMA TakenIsSound ==
  ASSUME NEW u, NEW r, NEW remembered \in Remembered
  PROVE  Sound(Taken(u, r, remembered))
  BY DEF Sound, Coherent, Measured, Taken, Starting

\* An operation on one session disturbs no other.
LEMMA EditKeepsTheOthers ==
  ASSUME TypeOK, EverySession, NEW s \in Live,
         NEW x, Sound(x), sessions' = [sessions EXCEPT ![s] = x]
  PROVE  EverySession'
<1>1. Live' = Live
  BY DEF Live
<1>2. \A t \in Live : sessions'[t] = IF t = s THEN x ELSE sessions[t]
  BY DEF TypeOK
<1>3. QED
  BY <1>1, <1>2 DEF EverySession

\* The ladder and the lists of a session decide both facts and nothing else does.
LEMMA SoundnessIsOfTheLists ==
  ASSUME NEW x, NEW y, Sound(x),
         y.beacons = x.beacons, y.subscriptions = x.subscriptions, y.mutes = x.mutes,
         y.unheard = x.unheard, y.gone = x.gone, y.steady = x.steady
  PROVE  Sound(y)
  BY DEF Sound, Coherent, Measured, Connection

\* The operations that touch neither the lists nor the measurements.
LEMMA PlainEditsAreSound ==
  ASSUME TypeOK, EverySession, NEW s \in Live,
         \/ OffConsole(s) \/ ADeliberateAct(s) \/ TheClientKeys(s) \/ TheClientUnkeys(s)
         \/ TheClientKeysPriority(s) \/ TheClientUnkeysPriority(s)
         \/ \E l \in Loops : Arm(s, l) \/ Disarm(s, l)
         \/ \E within \in Reaches : Presence(s, within)
  PROVE  EverySession'
<1> DEFINE x == sessions[s]
           y == sessions'[s]
           Same == /\ y.beacons = x.beacons /\ y.subscriptions = x.subscriptions
                   /\ y.mutes = x.mutes /\ y.unheard = x.unheard
                   /\ y.gone = x.gone /\ y.steady = x.steady
                   /\ Live' = Live
                   /\ \A t \in Live \ {s} : sessions'[t] = sessions[t]
<1>1. sessions \in [Live -> Session] /\ x \in Session
  BY DEF TypeOK
<1>2. ASSUME \/ OffConsole(s) \/ ADeliberateAct(s) \/ TheClientKeys(s) \/ TheClientUnkeys(s)
             \/ TheClientKeysPriority(s) \/ TheClientUnkeysPriority(s)
      PROVE  Same
  BY <1>1, <1>2 DEF OffConsole, ADeliberateAct, TheClientKeys, TheClientUnkeys,
     TheClientKeysPriority, TheClientUnkeysPriority, Session, Live
<1>3. ASSUME NEW l \in Loops, Arm(s, l) \/ Disarm(s, l)
      PROVE  Same
  BY <1>1, <1>3 DEF Arm, Disarm, Session, Live
<1>4. ASSUME NEW within \in Reaches, Presence(s, within)
      PROVE  Same
  <2>1. sessions' = [sessions EXCEPT ![s] =
                       [x EXCEPT !.reach = within, !.arms = ArmsWithin(x.arms, within)]]
    BY <1>1, <1>4 DEF Presence
  <2>2. QED
    BY <1>1, <2>1 DEF Session, Live
<1>5. Same
  BY <1>2, <1>3, <1>4
<1>6. Sound(y)
  <2>1. Sound(x)
    BY DEF EverySession
  <2>2. QED
    BY <1>5, <2>1, SoundnessIsOfTheLists
<1>7. QED
  BY <1>5, <1>6 DEF EverySession

\* The operations on the three lists edit them together.
LEMMA ListEditsAreSound ==
  ASSUME TypeOK, EverySession, NEW s \in Live, NEW l \in Loops,
         Subscribe(s, l) \/ Unsubscribe(s, l) \/ Mute(s, l) \/ Unmute(s, l)
  PROVE  EverySession'
<1> DEFINE x == sessions[s]
           y == sessions'[s]
<1>1. x \in Session /\ Coherent(x) /\ Measured(x)
  BY DEF EverySession, Sound, TypeOK
<1>2. /\ \A t \in Live \ {s} : sessions'[t] = sessions[t]
      /\ Live' = Live
  BY DEF Subscribe, Unsubscribe, Mute, Unmute, TypeOK, Live
<1>3. Connection(y) = Connection(x) /\ y.steady = x.steady
  BY <1>1 DEF Subscribe, Unsubscribe, Mute, Unmute, TypeOK, Session, Connection
<1>4. CASE Subscribe(s, l)
  <2>1. /\ y.subscriptions = x.subscriptions \cup {l}
        /\ y.mutes = x.mutes
        /\ y.beacons = [m \in DOMAIN x.beacons \cup {l} |->
                          IF m = l THEN Starting ELSE x.beacons[m]]
    BY <1>1, <1>4 DEF Subscribe, TypeOK, Session
  <2>2. Coherent(y)
    BY <1>1, <2>1 DEF Coherent
  <2>3. x.steady >= 0
    BY <1>1, LadderAssumption DEF Session
  <2>4. Measured(y)
    <3> HIDE DEF x, y
    <3> QED
      BY <1>1, <1>3, <2>1, <2>3 DEF Measured, Starting
  <2>5. QED
    BY <1>2, <2>2, <2>4 DEF EverySession, Sound
<1>5. CASE Unsubscribe(s, l)
  <2>1. /\ y.subscriptions = x.subscriptions \ {l}
        /\ y.mutes = x.mutes \ {l}
        /\ y.beacons = [m \in DOMAIN x.beacons \ {l} |-> x.beacons[m]]
    BY <1>1, <1>5 DEF Unsubscribe, Restrict, TypeOK, Session
  <2>2. Coherent(y)
    BY <1>1, <2>1 DEF Coherent
  <2>3. Measured(y)
    <3> HIDE DEF x, y
    <3> QED
      BY <1>1, <1>3, <2>1 DEF Measured
  <2>4. QED
    BY <1>2, <2>2, <2>3 DEF EverySession, Sound
<1>6. CASE Mute(s, l) \/ Unmute(s, l)
  <2>1. /\ y.subscriptions = x.subscriptions
        /\ y.mutes \subseteq x.mutes \cup {l}
        /\ l \in x.subscriptions \/ y.mutes \subseteq x.mutes
        /\ y.beacons = x.beacons
    BY <1>1, <1>6 DEF Mute, Unmute, TypeOK, Session
  <2>2. Coherent(y)
    BY <1>1, <2>1 DEF Coherent
  <2>3. Measured(y)
    BY <1>1, <1>3, <2>1 DEF Measured
  <2>4. QED
    BY <1>2, <2>2, <2>3 DEF EverySession, Sound
<1>7. QED
  BY <1>4, <1>5, <1>6

\* The operations of the signalling channel and its beacons.
LEMMA ChannelEditsAreSound ==
  ASSUME TypeOK, EverySession, NEW s \in Live,
         \/ TheClientIsThere(s) \/ TheChannelIsGone(s)
         \/ \E counts \in Counts : TheClientCounted(s, counts)
  PROVE  EverySession'
<1> DEFINE x == sessions[s]
           y == sessions'[s]
<1>1. x \in Session /\ Coherent(x) /\ Measured(x)
  BY DEF EverySession, Sound, TypeOK
<1>2. /\ \A t \in Live \ {s} : sessions'[t] = sessions[t]
      /\ Live' = Live
  BY DEF TheClientIsThere, TheChannelIsGone, TheClientCounted, TypeOK, Live
<1>3. x.steady >= 0
  BY <1>1, LadderAssumption DEF Session
<1>4. CASE TheClientIsThere(s)
  <2>1. /\ y.subscriptions = x.subscriptions
        /\ y.mutes = x.mutes
        /\ y.steady = x.steady
        /\ y.beacons = IF Connection(x) = "confirmed" THEN x.beacons
                       ELSE [l \in DOMAIN x.beacons |-> Again(x.beacons[l])]
    BY <1>1, <1>4 DEF TheClientIsThere, TypeOK, Session
  <2>2. Coherent(y)
    BY <1>1, <2>1 DEF Coherent
  <2>3. Measured(y)
    <3> HIDE DEF x, y
    <3> QED
      BY <1>1, <1>3, <2>1 DEF Measured, Again
  <2>4. QED
    BY <1>2, <2>2, <2>3 DEF EverySession, Sound
<1>5. CASE TheChannelIsGone(s)
  <2>1. /\ y.subscriptions = x.subscriptions
        /\ y.mutes = x.mutes
        /\ y.gone
        /\ y.beacons = x.beacons
    BY <1>1, <1>5 DEF TheChannelIsGone, TypeOK, Session
  <2>2. Coherent(y) /\ Measured(y)
    BY <1>1, <2>1 DEF Coherent, Measured, Connection
  <2>3. QED
    BY <1>2, <2>2 DEF EverySession, Sound
<1>6. ASSUME NEW counts \in Counts, TheClientCounted(s, counts)
      PROVE  EverySession'
  <2>1. /\ y.subscriptions = x.subscriptions
        /\ y.mutes = x.mutes
        /\ y.steady = x.steady
        /\ Connection(y) = Connection(x)
        /\ y.beacons = [l \in DOMAIN x.beacons |->
                          IF l \in DOMAIN counts THEN Counted(x.beacons[l], counts[l])
                          ELSE x.beacons[l]]
    BY <1>1, <1>6 DEF TheClientCounted, TypeOK, Session, Connection
  <2>2. Coherent(y)
    BY <1>1, <2>1 DEF Coherent
  <2>3. Measured(y)
    <3> HIDE DEF x, y
    <3> QED
      BY <1>1, <1>3, <2>1 DEF Measured, Counted
  <2>4. QED
    BY <1>2, <2>2, <2>3 DEF EverySession, Sound
<1>7. QED
  BY <1>4, <1>5, <1>6

\* Time ages the evidence and the channel together, so no evidence outgrows it.
LEMMA AgedIsSound ==
  ASSUME NEW x \in Session, Sound(x)
  PROVE  Sound(Aged(x))
<1> DEFINE y == Aged(x)
<1>1. /\ y.subscriptions = x.subscriptions
      /\ y.mutes = x.mutes
      /\ y.gone = x.gone
      /\ y.unheard = Older(x.unheard, DisconnectedAfter)
      /\ y.beacons = [l \in DOMAIN x.beacons |-> ATickOlder(x.beacons[l])]
      /\ y.steady = IF Connection(y) = "confirmed" THEN Older(x.steady, LostAfter) ELSE 0
  BY DEF Aged, Session, Connection
<1>2. Coherent(y)
  BY <1>1 DEF Sound, Coherent
<1>3. Measured(y)
  <2> SUFFICES ASSUME Connection(y) = "confirmed", NEW l \in DOMAIN x.beacons
               PROVE  /\ ATickOlder(x.beacons[l]).since <= Older(x.steady, LostAfter)
                      /\ \A age \in ATickOlder(x.beacons[l]).arrived :
                           age <= Older(x.steady, LostAfter)
    <3> HIDE DEF y
    <3> QED
      BY <1>1 DEF Measured
  <2>1. Connection(x) = "confirmed"
    <3> HIDE DEF y
    <3> QED
      BY <1>1, LadderAssumption DEF Connection, Older, Session
  <2>2. x.steady \in 0..LostAfter /\ x.beacons[l] \in Counting
    BY DEF Session, Measures
  <2>3. /\ x.beacons[l].since <= x.steady
        /\ \A age \in x.beacons[l].arrived : age <= x.steady
    BY <2>1 DEF Sound, Measured
  <2>4. QED
    BY <2>2, <2>3, LadderAssumption DEF ATickOlder, Older, Counting
<1>4. QED
  BY <1>2, <1>3 DEF Sound

\* The inductive invariant: every live session is sound, taken one at a time.
LEMMA EverySessionIsSound == Spec => []EverySession
<1>1. Init => EverySession
  BY DEF Init, EverySession, Live
<1>2. TypeOK /\ EverySession /\ [Next]_vars => EverySession'
  <2> SUFFICES ASSUME TypeOK, EverySession, [Next]_vars
               PROVE  EverySession'
    OBVIOUS
  <2>1. ASSUME NEW u \in Users, NEW r \in Roles, NEW remembered \in Remembered,
               NEW n \in Names, Assume(u, r, remembered, n)
        PROVE  EverySession'
    <3>1. \A s \in DOMAIN sessions' : \/ sessions'[s] = Taken(u, r, remembered)
                                      \/ s \in Live /\ sessions'[s] = sessions[s]
      BY <2>1 DEF Assume
    <3>2. QED
      BY <3>1, TakenIsSound DEF EverySession, Live
  <2>2. ASSUME NEW s \in Live, EndedByItsOwnHolder(s)
        PROVE  EverySession'
    <3>1. sessions' = [t \in Live \ {s} |-> sessions[t]]
      BY <2>2 DEF EndedByItsOwnHolder, Restrict
    <3>2. QED
      BY <3>1 DEF EverySession, Live
  <2>3. ASSUME NEW s \in Live, AtTheConsole(s)
        PROVE  EverySession'
    BY <2>3, PlainEditsAreSound, ListEditsAreSound, ChannelEditsAreSound DEF AtTheConsole,
       KeyingPriority, Keying, Arming, Muting, Monitoring
  <2>4. CASE Tick
    <3>1. \A s \in Live : Sound(Aged(sessions[s]))
      BY AgedIsSound DEF EverySession, TypeOK
    <3>2. QED
      BY <2>4, <3>1 DEF Tick, EverySession, Live
  <2>5. CASE UNCHANGED sessions
    BY <2>5 DEF EverySession, Live
  <2>6. QED
    BY <2>1, <2>2, <2>3, <2>4, <2>5 DEF Next, HandsDownTheRouting, WhyItEnded,
       TheRoutingIfItMoved,
       TheBeaconsIfTheyMoved, vars
<1>3. QED
  BY <1>1, <1>2, TypeCorrect, PTL DEF Spec

-----------------------------------------------------------------------------

\* The three lists of a console never come apart: whatever is measured is subscribed
\* and the reverse, and no mute outlives its subscription.
THEOREM CoherentConsoles == Spec => []ConsoleIsCoherent
<1>1. EverySession => ConsoleIsCoherent
  BY DEF EverySession, Sound, Coherent, ConsoleIsCoherent
<1>2. QED
  BY <1>1, EverySessionIsSound, PTL

\* Neither a receipt nor a silence from before an outage of the signalling channel
\* is evidence once the channel is back, for every threshold of the ladder.
THEOREM MeasuredHealth == Spec => []HealthIsMeasured
<1>1. EverySession => HealthIsMeasured
  BY DEF EverySession, Sound, Measured, HealthIsMeasured
<1>2. QED
  BY <1>1, EverySessionIsSound, PTL

-----------------------------------------------------------------------------
(* What the others are told of a session.                                  *)

\* Voice never lands unattributed: the fan-out and the indicator are read off the same
\* rung of the ladder.
THEOREM AudibleIsShown == Spec => []AudibleIsAttributed
<1>1. AudibleIsAttributed
  <2> SUFFICES ASSUME NEW talker \in Live, sessions[talker].keyed, NEW h \in WhoHears(talker)
               PROVE  h.on \in LoopsBeingSpokenOn
    BY DEF AudibleIsAttributed
  <2>1. CarriesEmission(sessions[talker]) /\ h.on \in sessions[talker].arms
    BY DEF WhoHears
  <2> QED
    BY <2>1 DEF LoopsBeingSpokenOn, IsTransmitting
<1> QED
  BY <1>1, PTL

\* What is done at one console is done to one session.
LEMMA ConsoleKeepsTheOthers ==
  ASSUME TypeOK, NEW s \in Live, AtTheConsole(s)
  PROVE  /\ Live' = Live
         /\ \A t \in Live \ {s} : sessions'[t] = sessions[t]
<1>1. sessions \in [Live -> Session]
  BY DEF TypeOK
<1>2. CASE \/ OffConsole(s) \/ ADeliberateAct(s) \/ TheClientKeys(s) \/ TheClientUnkeys(s)
           \/ TheClientKeysPriority(s) \/ TheClientUnkeysPriority(s)
           \/ TheClientIsThere(s) \/ TheChannelIsGone(s)
  BY <1>1, <1>2 DEF OffConsole, ADeliberateAct, TheClientKeys, TheClientUnkeys,
     TheClientKeysPriority, TheClientUnkeysPriority, TheClientIsThere, TheChannelIsGone, Live
<1>3. ASSUME NEW l \in Loops,
             \/ Subscribe(s, l) \/ Unsubscribe(s, l) \/ Mute(s, l) \/ Unmute(s, l)
             \/ Arm(s, l) \/ Disarm(s, l)
      PROVE  /\ Live' = Live
             /\ \A t \in Live \ {s} : sessions'[t] = sessions[t]
  BY <1>1, <1>3 DEF Subscribe, Unsubscribe, Mute, Unmute, Arm, Disarm, Live
<1>4. ASSUME NEW within \in Reaches, Presence(s, within)
      PROVE  /\ Live' = Live
             /\ \A t \in Live \ {s} : sessions'[t] = sessions[t]
  BY <1>1, <1>4 DEF Presence, Live
<1>5. ASSUME NEW counts \in Counts, TheClientCounted(s, counts)
      PROVE  /\ Live' = Live
             /\ \A t \in Live \ {s} : sessions'[t] = sessions[t]
  BY <1>1, <1>5 DEF TheClientCounted, Live
<1> QED
  BY <1>2, <1>3, <1>4, <1>5 DEF AtTheConsole, KeyingPriority, Keying, Arming, Muting, Monitoring

\* A press does not outlive its channel.
PressesStand == \A s \in Live : sessions[s].pressing # {} => ~sessions[s].gone

LEMMA PressesStandStill ==
  ASSUME TypeOK, PressesStand, [Next]_vars
  PROVE  PressesStand'
<1>1. sessions \in [Live -> Session]
  BY DEF TypeOK
<1>2. ASSUME NEW u \in Users, NEW r \in Roles, NEW remembered \in Remembered,
             NEW n \in Names, Assume(u, r, remembered, n)
      PROVE  PressesStand'
  <2>1. \A s \in DOMAIN sessions' : \/ sessions'[s].pressing = {}
                                    \/ s \in Live /\ sessions'[s] = sessions[s]
    BY <1>2 DEF Assume, Taken
  <2> QED
    BY <2>1 DEF PressesStand, Live
<1>3. ASSUME NEW s \in Live, EndedByItsOwnHolder(s) PROVE PressesStand'
  BY <1>3 DEF EndedByItsOwnHolder, Restrict, PressesStand, Live
<1>4. ASSUME NEW s \in Live, AtTheConsole(s) PROVE PressesStand'
  <2>1. /\ Live' = Live
        /\ \A t \in Live \ {s} : sessions'[t] = sessions[t]
    BY <1>1, <1>4, ConsoleKeepsTheOthers
  <2>2. sessions'[s].pressing # {} => ~sessions'[s].gone
    <3>1. CASE TheChannelIsGone(s)
      BY <1>1, <3>1 DEF TheChannelIsGone, Session, Live
    <3>2. CASE TheClientKeysPriority(s)
      BY <1>1, <3>2 DEF TheClientKeysPriority, Asked, Session, Live
    <3>3. CASE TheClientIsThere(s)
      BY <1>1, <3>3 DEF TheClientIsThere, Session, Live
    <3>4. CASE TheClientUnkeysPriority(s)
      BY <1>1, <3>4 DEF TheClientUnkeysPriority, Session, Live
    <3>5. CASE OffConsole(s) \/ ADeliberateAct(s) \/ TheClientKeys(s) \/ TheClientUnkeys(s)
      BY <1>1, <3>5 DEF OffConsole, ADeliberateAct, TheClientKeys, TheClientUnkeys, Session,
         Live, PressesStand
    <3>6. ASSUME NEW l \in Loops,
                 \/ Subscribe(s, l) \/ Unsubscribe(s, l) \/ Mute(s, l) \/ Unmute(s, l)
                 \/ Arm(s, l) \/ Disarm(s, l)
          PROVE  sessions'[s].pressing # {} => ~sessions'[s].gone
      BY <1>1, <3>6 DEF Subscribe, Unsubscribe, Mute, Unmute, Arm, Disarm, Session, Live,
         PressesStand
    <3>7. ASSUME NEW within \in Reaches, Presence(s, within)
          PROVE  sessions'[s].pressing # {} => ~sessions'[s].gone
      BY <1>1, <3>7 DEF Presence, Session, Live, PressesStand
    <3>8. ASSUME NEW counts \in Counts, TheClientCounted(s, counts)
          PROVE  sessions'[s].pressing # {} => ~sessions'[s].gone
      BY <1>1, <3>8 DEF TheClientCounted, Session, Live, PressesStand
    <3> QED
      BY <1>4, <3>1, <3>2, <3>3, <3>4, <3>5, <3>6, <3>7, <3>8 DEF AtTheConsole, KeyingPriority,
         Keying, Arming, Muting, Monitoring
  <2> QED
    BY <2>1, <2>2 DEF PressesStand
<1>5. CASE Tick
  <2>1. \A s \in Live : /\ Aged(sessions[s]).pressing = sessions[s].pressing
                        /\ Aged(sessions[s]).gone = sessions[s].gone
    BY <1>1 DEF Aged, Session
  <2> QED
    BY <1>5, <2>1 DEF Tick, PressesStand, Live
<1>6. CASE UNCHANGED sessions
  BY <1>6 DEF PressesStand, Live
<1> QED
  BY <1>2, <1>3, <1>4, <1>5, <1>6 DEF Next, HandsDownTheRouting, WhyItEnded,
     TheRoutingIfItMoved,
     TheBeaconsIfTheyMoved, vars

\* Whatever takes a transmission off the air takes its priority with it, and a press
\* does not outlive its channel.
THEOREM PriorityIsShownOnTheAir == Spec => []PriorityIsOnTheAir
<1>1. Init => PressesStand
  BY DEF Init, PressesStand, Live
<1>2. TypeOK /\ PressesStand /\ [Next]_vars => PressesStand'
  BY PressesStandStill
<1>3. PressesStand => PriorityIsOnTheAir
  BY DEF PressesStand, PriorityIsOnTheAir, LoopsSpokenOnAtPriority, LoopsBeingSpokenOn,
     IsAtPriority
<1> QED
  BY <1>1, <1>2, <1>3, TypeCorrect, PTL DEF Spec

\* Nothing but a projection changes what a session reaches.
LEMMA OnlyAProjectionMovesTheReach ==
  ASSUME TypeOK, [Next]_vars, NEW s \in Live \cap DOMAIN sessions',
         sessions'[s].reach # sessions[s].reach
  PROVE  \E within \in Reaches : Presence(s, within)
<1>1. sessions \in [Live -> Session]
  BY DEF TypeOK
<1>2. ASSUME NEW u \in Users, NEW r \in Roles, NEW remembered \in Remembered,
             NEW n \in Names, Assume(u, r, remembered, n)
      PROVE  FALSE
  BY <1>2 DEF Assume, TypeOK
<1>3. ASSUME NEW t \in Live, EndedByItsOwnHolder(t) PROVE FALSE
  BY <1>3 DEF EndedByItsOwnHolder, Restrict
<1>4. ASSUME NEW t \in Live, AtTheConsole(t) PROVE \E within \in Reaches : Presence(s, within)
  <2>1. t = s
    BY <1>4, ConsoleKeepsTheOthers
  <2>2. ASSUME \/ OffConsole(s) \/ ADeliberateAct(s) \/ TheClientKeys(s) \/ TheClientUnkeys(s)
               \/ TheClientKeysPriority(s) \/ TheClientUnkeysPriority(s)
               \/ TheClientIsThere(s) \/ TheChannelIsGone(s)
        PROVE  FALSE
    <3>1. CASE \/ OffConsole(s) \/ ADeliberateAct(s) \/ TheClientKeys(s) \/ TheClientUnkeys(s)
               \/ TheClientKeysPriority(s) \/ TheClientUnkeysPriority(s)
      BY <1>1, <3>1 DEF OffConsole, ADeliberateAct, TheClientKeys, TheClientUnkeys,
         TheClientKeysPriority, TheClientUnkeysPriority, Session
    <3>2. CASE TheClientIsThere(s)
      BY <1>1, <3>2 DEF TheClientIsThere, Session
    <3>3. CASE TheChannelIsGone(s)
      BY <1>1, <3>3 DEF TheChannelIsGone, Session
    <3> QED
      BY <2>2, <3>1, <3>2, <3>3
  <2>3. ASSUME NEW l \in Loops,
               \/ Subscribe(s, l) \/ Unsubscribe(s, l) \/ Mute(s, l) \/ Unmute(s, l)
               \/ Arm(s, l) \/ Disarm(s, l)
        PROVE  FALSE
    BY <1>1, <2>3 DEF Subscribe, Unsubscribe, Mute, Unmute, Arm, Disarm, Session
  <2>4. ASSUME NEW counts \in Counts, TheClientCounted(s, counts) PROVE FALSE
    BY <1>1, <2>4 DEF TheClientCounted, Session
  <2> QED
    BY <1>4, <2>1, <2>2, <2>3, <2>4 DEF AtTheConsole, KeyingPriority, Keying, Arming, Muting,
       Monitoring
<1>5. CASE Tick
  <2>1. Aged(sessions[s]).reach = sessions[s].reach
    BY <1>1 DEF Aged, Session
  <2> QED
    BY <1>5, <2>1 DEF Tick
<1> QED
  BY <1>2, <1>3, <1>4, <1>5 DEF Next, HandsDownTheRouting, WhyItEnded, TheRoutingIfItMoved,
     TheBeaconsIfTheyMoved,
     vars

\* A projection never gives a route and leaves none the role may not emit on.
THEOREM RevocationDestroys == Spec => RevocationIsDestructive
<1>1. TypeOK /\ [Next]_vars =>
        [\A s \in Live \cap DOMAIN sessions' :
           sessions'[s].reach # sessions[s].reach =>
             /\ sessions'[s].arms \subseteq sessions[s].arms
             /\ \A l \in sessions'[s].arms : sessions'[s].reach[l] >= Emit]_vars
  <2> SUFFICES ASSUME TypeOK, [Next]_vars, NEW s \in Live \cap DOMAIN sessions',
                      sessions'[s].reach # sessions[s].reach
               PROVE  /\ sessions'[s].arms \subseteq sessions[s].arms
                      /\ \A l \in sessions'[s].arms : sessions'[s].reach[l] >= Emit
    OBVIOUS
  <2>1. PICK within \in Reaches : Presence(s, within)
    BY OnlyAProjectionMovesTheReach
  <2>2. sessions \in [Live -> Session]
    BY DEF TypeOK
  <2>3. /\ sessions'[s].reach = within
        /\ sessions'[s].arms = ArmsWithin(sessions[s].arms, within)
    BY <2>1, <2>2 DEF Presence, Session
  <2> QED
    BY <2>3 DEF ArmsWithin
<1> QED
  BY <1>1, TypeCorrect, PTL DEF Spec, RevocationIsDestructive

\* Whoever has no reason not to hear a loop hears it.
LEMMA NoReasonIsHearing ==
  ASSUME NEW x, NEW l, NotHearing(x, l) = {}
  PROVE  Hears(x, l)
<1>1. \A i \in 1..5 : ~(Applies(i, x, l) /\ \A k \in 1..(i - 1) : ~Applies(k, x, l))
  BY DEF NotHearing
<1>2. ~Applies(1, x, l)
  BY <1>1
<1>3. ~Applies(2, x, l)
  BY <1>1, <1>2
<1>4. ~Applies(3, x, l)
  <2>1. \A k \in 1..2 : ~Applies(k, x, l)
    <3>1. \A k \in 1..2 : k = 1 \/ k = 2
      OBVIOUS
    <3> QED
      BY <1>2, <1>3, <3>1
  <2> QED
    BY <1>1, <2>1
<1>5. ~Applies(4, x, l)
  <2>1. \A k \in 1..3 : ~Applies(k, x, l)
    <3>1. \A k \in 1..3 : k = 1 \/ k = 2 \/ k = 3
      OBVIOUS
    <3> QED
      BY <1>2, <1>3, <1>4, <3>1
  <2> QED
    BY <1>1, <2>1
<1>6. ~Applies(5, x, l)
  <2>1. \A k \in 1..4 : ~Applies(k, x, l)
    <3>1. \A k \in 1..4 : k = 1 \/ k = 2 \/ k = 3 \/ k = 4
      OBVIOUS
    <3> QED
      BY <1>2, <1>3, <1>4, <1>5, <3>1
  <2> QED
    BY <1>1, <2>1
<1> QED
  BY <1>4, <1>6 DEF Applies, Hears

\* A loop shown as staffed has somebody behind it: the indicator and the fan-out, two
\* computations over the sessions, agree.
THEOREM StaffedIsReached == Spec => []StaffedIsReachable
<1>1. StaffedIsReachable
  <2> SUFFICES ASSUME NEW l \in Loops, NEW roles \in SUBSET Roles,
                      Staffing(l, roles).is = "staffed",
                      NEW talker \in Live \ OccupantsOf(roles),
                      CarriesEmission(sessions[talker]), l \in sessions[talker].arms
               PROVE  \E h \in WhoHears(talker) : h.on = l /\ h.listener \in OccupantsOf(roles)
    BY DEF StaffedIsReachable
  <2>1. PICK s \in OccupantsOf(roles) : NotHearing(sessions[s], l) = {}
    BY DEF Staffing
  <2>2. s \in Live \ {talker} /\ Hears(sessions[s], l)
    BY <2>1, NoReasonIsHearing DEF OccupantsOf
  <2> DEFINE h == [listener |-> s, on |-> l]
  <2>3. h \in WhoHears(talker)
    BY <2>2 DEF WhoHears
  <2> QED
    BY <2>1, <2>3
<1> QED
  BY <1>1, PTL
=============================================================================

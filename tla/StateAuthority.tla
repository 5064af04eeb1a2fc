---------------------------- MODULE StateAuthority ----------------------------
(***************************************************************************)
(* The State Authority (src/src/state.rs): the live side of VoxLoop, held  *)
(* in one process behind one mutex.  Every operation below is one critical *)
(* section of that mutex, so every operation is one action.                *)
(*                                                                         *)
(* An Option is a set of at most one element.  An Instant is an age, which *)
(* Tick advances and which stops at the threshold it is compared with.     *)
(*                                                                         *)
(* Left out: volumes, last_active and the numbering of the presence        *)
(* document (version, last), which no other live fact is computed from.    *)
(***************************************************************************)
EXTENDS Integers, FiniteSets, Functions

CONSTANTS
  Users,              \* the people who may occupy a role
  Roles,
  Loops,
  Names,              \* the session names that can be minted, never one twice
  MaxOccupants,       \* MaxOccupants[r]: the limit on role r, an Option<u32>
  Remembered,         \* the subscription sets Configuration may hand an assume
  Reaches,            \* the reaches Configuration may answer with
  Requests,           \* the kinds of request the clients of an instance make
  UnconfirmedAfter,   \* the ladder, in ticks
  DisconnectedAfter,
  LostAfter,          \* A_BEACON_IS_LOST_AFTER, in ticks
  KeptFor,            \* TOMBSTONES_ARE_KEPT_FOR, in ticks
  MaxCount            \* bound: the largest beacon count a client reports

Permissions == 0..3
NoPermission == 0
Monitor == 1
Emit == 2
Control == 3

ASSUME LimitAssumption ==
  /\ MaxOccupants \in [Roles -> SUBSET Nat]
  /\ \A r \in Roles : Cardinality(MaxOccupants[r]) <= 1

ASSUME LadderAssumption ==
  /\ UnconfirmedAfter \in Nat \ {0}
  /\ DisconnectedAfter \in Nat
  /\ UnconfirmedAfter < DisconnectedAfter
  /\ LostAfter \in Nat \ {0}
  /\ KeptFor \in Nat \ {0}
  /\ MaxCount \in Nat

ASSUME ReachAssumption ==
  /\ Remembered \subseteq SUBSET Loops
  /\ Reaches \subseteq [Loops -> Permissions]

VARIABLES
  sessions,      \* Live.sessions, by name: a function on the live names
  tombstones,    \* Live.tombstones
  minted,        \* every name ever minted: names are unguessable, so never reused
  last_routing,  \* Live.last_routing, an Option of who hears each talker
  last_beacons   \* Live.last_beacons, an Option of what each listener counts

vars == <<sessions, tombstones, minted, last_routing, last_beacons>>

-----------------------------------------------------------------------------
(* The shapes.                                                             *)

Counting == [counted : 0..MaxCount,
             arrived : SUBSET (0..LostAfter),
             since   : 0..LostAfter]

\* One beacon to a loop that is measured.
Measures == UNION {[D -> Counting] : D \in SUBSET Loops}

\* `steady` is history and not in the code: how long the signalling channel has
\* stood confirmed without a break, which the health of a loop is judged against.
Session == [occupant      : Users,
            role          : Roles,
            subscriptions : SUBSET Loops,
            beacons       : Measures,
            arms          : SUBSET Loops,
            mutes         : SUBSET Loops,
            keyed         : BOOLEAN,
            pressing      : SUBSET SUBSET Loops,
            reach         : [Loops -> Permissions],
            off_console   : BOOLEAN,
            unheard       : 0..DisconnectedAfter,
            gone          : BOOLEAN,
            steady        : 0..LostAfter]

Tombstone == [session : Names, occupant : Users, age : 0..KeptFor]

Heard == [listener : Names, on : Loops]

Live == DOMAIN sessions

\* What Vec::position or find answers over a set whose order is not modelled:
\* nothing, or one of its elements.
FoundIn(S) == IF S = {} THEN {{}} ELSE {{x} : x \in S}

Older(age, bound) == IF age < bound THEN age + 1 ELSE bound

-----------------------------------------------------------------------------
(* What is read off one session: the methods of Session and Counting.      *)

Connection(x) ==
  CASE x.gone \/ x.unheard >= DisconnectedAfter -> "disconnected"
    [] ~x.gone /\ x.unheard \in UnconfirmedAfter..(DisconnectedAfter - 1) -> "unconfirmed"
    [] OTHER -> "confirmed"

CarriesEmission(x) == Connection(x) # "disconnected"

\* Slip: the indicator is read at another rung than the fan-out.
IsTransmittingConfirmed(x) == x.keyed /\ Connection(x) = "confirmed"

IsTransmitting(x) == x.keyed /\ CarriesEmission(x)

\* Slip: the priority level is read beside the transmission rather than off it.
IsAtPriorityWhilePressed(x) == x.pressing # {}

IsAtPriority(x) == x.pressing # {} /\ IsTransmitting(x)

InReach(x, l) == x.reach[l] >= Monitor

Monitors(x, l) == l \in x.subscriptions /\ InReach(x, l)

Hears(x, l) == Monitors(x, l) /\ l \notin x.mutes

Starting == [counted |-> 0, arrived |-> {}, since |-> 0]

Counted(c, packets) ==
  [counted |-> packets,
   arrived |-> IF packets # c.counted /\ packets > 0 THEN {0} ELSE c.arrived,
   since   |-> c.since]

\* Slip: the window starts again and the last arrival is not forgotten.
AgainKeepingTheArrival(c) == [counted |-> c.counted, arrived |-> c.arrived, since |-> 0]

Again(c) == [counted |-> c.counted, arrived |-> {}, since |-> 0]

ATickOlder(c) ==
  [counted |-> c.counted,
   arrived |-> {Older(age, LostAfter) : age \in c.arrived},
   since   |-> Older(c.since, LostAfter)]

Health(c) ==
  CASE \E age \in c.arrived : age < LostAfter -> "receiving"
    [] c.arrived = {} /\ c.since < LostAfter -> "checking"
    [] OTHER -> "not-receiving"

\* An Option: no health for a loop that is not monitored, nor while the channel
\* the counts ride on is not confirmed.
HealthOf(x, l) ==
  IF Monitors(x, l) /\ Connection(x) = "confirmed" /\ l \in DOMAIN x.beacons
  THEN {Health(x.beacons[l])}
  ELSE {}

FurthestUpstreamFirst ==
  <<"unreachable", "off-console", "not-subscribed", "not-receiving", "muted">>

Applies(i, x, l) ==
  CASE i = 1 -> Connection(x) = "disconnected"
    [] i = 2 -> x.off_console
    [] i = 3 -> ~Monitors(x, l)
    [] i = 4 -> HealthOf(x, l) = {"not-receiving"}
    [] i = 5 -> l \in x.mutes

\* Slip: a mute is not taken for a reason.
NotHearingBarMutes(x, l) ==
  {FurthestUpstreamFirst[i] : i \in {j \in 1..4 : Applies(j, x, l)
                                          /\ \A k \in 1..(j - 1) : ~Applies(k, x, l)}}

\* Why this occupant is not hearing the loop, an Option: of the reasons that
\* apply, the one furthest upstream.
NotHearing(x, l) ==
  {FurthestUpstreamFirst[i] : i \in {j \in 1..5 : Applies(j, x, l)
                                          /\ \A k \in 1..(j - 1) : ~Applies(k, x, l)}}

-----------------------------------------------------------------------------
(* What is read off every session at once: the methods of Live.            *)

OccupantsOf(roles) == {s \in Live : sessions[s].role \in roles}

OccupiedByOthers(u, r) == {s \in OccupantsOf({r}) : sessions[s].occupant # u}

\* No partial value: one occupant hearing the loop makes it staffed, and where
\* none does every one of them is counted against their own reason.
Staffing(l, roles) ==
  LET occupants == OccupantsOf(roles)
      away(reason) == {s \in occupants : NotHearing(sessions[s], l) = {reason}}
  IN CASE occupants = {} -> [is |-> "vacant"]
       [] \E s \in occupants : NotHearing(sessions[s], l) = {} -> [is |-> "staffed"]
       [] OTHER -> [is |-> "away",
                    counted |-> [i \in 1..5 |-> Cardinality(away(FurthestUpstreamFirst[i]))]]

\* A talker with no signalling channel reaches nobody.
WhoHears(talker) ==
  IF CarriesEmission(sessions[talker])
  THEN {h \in [listener : Live \ {talker}, on : sessions[talker].arms] :
          Hears(sessions[h.listener], h.on)}
  ELSE {}

Routing == [talker \in Live |-> WhoHears(talker)]

Beacons == [s \in Live |-> {l \in Loops : Monitors(sessions[s], l)}]

LoopsBeingSpokenOn ==
  UNION {sessions[s].arms : s \in {t \in Live : IsTransmitting(sessions[t])}}

LoopsSpokenOnAtPriority ==
  UNION {sessions[s].arms : s \in {t \in Live : IsAtPriority(sessions[t])}}

-----------------------------------------------------------------------------
(* Seats.                                                                  *)

Init ==
  /\ sessions = [s \in {} |-> {}]
  /\ tombstones = {}
  /\ minted = {}
  /\ last_routing = {}
  /\ last_beacons = {}

\* Only what is remembered is seeded: a seat just taken holds no arm, no mute and
\* no key, is on console, and reaches nothing until its first projection.
Taken(u, r, remembered) ==
  [occupant |-> u, role |-> r,
   subscriptions |-> remembered, beacons |-> [l \in remembered |-> Starting],
   arms |-> {}, mutes |-> {}, keyed |-> FALSE, pressing |-> {},
   reach |-> [l \in Loops |-> NoPermission],
   off_console |-> FALSE, unheard |-> 0, gone |-> FALSE, steady |-> 0]

\* Slip: what the user was last told is never spent.
RememberingEverything(displaced, u) ==
  tombstones \cup {[session |-> s, occupant |-> u, age |-> 0] : s \in displaced}

\* Slip: the user's tombstones are spent after the displacement, its own included.
RememberingNothing(displaced, u) == {t \in tombstones : t.occupant # u}

\* Slip: what is remembered takes the place of what was.
RememberingTheLastAlone(displaced, u) ==
  IF displaced = {} THEN {t \in tombstones : t.occupant # u}
  ELSE {[session |-> s, occupant |-> u, age |-> 0] : s \in displaced}

\* Live::remember, which first forgets the tombstones that have been kept long
\* enough.  The displaced user's own were spent before.
Remembering(displaced, u) ==
  LET kept == {t \in tombstones : t.occupant # u}
  IN IF displaced = {} THEN kept
     ELSE {t \in kept : t.age < KeptFor}
            \cup {[session |-> s, occupant |-> u, age |-> 0] : s \in displaced}

\* Slip: a limit that is reached still lets one more in.
HasRoomPastTheLimit(u, r) ==
  \A limit \in MaxOccupants[r] : Cardinality(OccupiedByOthers(u, r)) <= limit

\* The caller's own session is about to be displaced, so it is not counted.
HasRoom(u, r) ==
  \A limit \in MaxOccupants[r] : Cardinality(OccupiedByOthers(u, r)) < limit

\* Slip: a change of role is not seen as taking the user's seat away.
HeldAlreadyInThatRole(u, r) ==
  {s \in Live : sessions[s].occupant = u /\ sessions[s].role = r}

HeldAlready(u, r) == {s \in Live : sessions[s].occupant = u}

Minted(n) == minted \cup {n}

Assume(u, r, remembered, n) ==
  /\ "assume" \in Requests
  /\ n \notin minted
  /\ HasRoom(u, r)
  /\ \E displaced \in FoundIn(HeldAlready(u, r)) :
       /\ tombstones' = Remembering(displaced, u)
       /\ sessions' = [s \in (Live \ displaced) \cup {n} |->
                         IF s = n THEN Taken(u, r, remembered) ELSE sessions[s]]
  /\ minted' = Minted(n)
  /\ UNCHANGED <<last_routing, last_beacons>>

EndedByItsOwnHolder(s) ==
  /\ "relinquish" \in Requests
  /\ sessions' = Restrict(sessions, Live \ {s})
  /\ UNCHANGED <<tombstones, minted, last_routing, last_beacons>>

\* Asked by a socket that found its session gone.  The tombstone is taken.
WhyItEnded(s) ==
  /\ s \in minted \ Live
  /\ tombstones' = {t \in tombstones : t.age < KeptFor /\ t.session # s}
  /\ UNCHANGED <<sessions, minted, last_routing, last_beacons>>

-----------------------------------------------------------------------------
(* The console.  A request comes in over the session's own socket, so one  *)
(* is made only while that socket stands.                                  *)

Asked(s, request) == request \in Requests /\ ~sessions[s].gone

BesidesSessions == <<tombstones, minted, last_routing, last_beacons>>

Subscribe(s, l) ==
  /\ Asked(s, "subscribe")
  /\ l \notin sessions[s].subscriptions
  /\ sessions' = [sessions EXCEPT
       ![s].subscriptions = @ \cup {l},
       ![s].beacons = [m \in DOMAIN @ \cup {l} |-> IF m = l THEN Starting ELSE @[m]]]
  /\ UNCHANGED BesidesSessions

\* Slip: dropping a loop leaves its mute behind.
UnsubscribeKeepingTheMute(s, l) ==
  /\ Asked(s, "unsubscribe")
  /\ sessions' = [sessions EXCEPT
       ![s].subscriptions = @ \ {l},
       ![s].beacons = Restrict(@, DOMAIN @ \ {l})]
  /\ UNCHANGED BesidesSessions

Unsubscribe(s, l) ==
  /\ Asked(s, "unsubscribe")
  /\ sessions' = [sessions EXCEPT
       ![s].subscriptions = @ \ {l},
       ![s].beacons = Restrict(@, DOMAIN @ \ {l}),
       ![s].mutes = @ \ {l}]
  /\ UNCHANGED BesidesSessions

\* What each message does to the State Authority is done at once.  The document that
\* answers it is a Presence of its own, and others come between the two.
Monitoring(s, l) == Subscribe(s, l) \/ Unsubscribe(s, l)

\* A mute presupposes a subscription.
Mute(s, l) ==
  /\ Asked(s, "mute")
  /\ l \in sessions[s].subscriptions
  /\ sessions' = [sessions EXCEPT ![s].mutes = @ \cup {l}]
  /\ UNCHANGED BesidesSessions

Unmute(s, l) ==
  /\ Asked(s, "mute")
  /\ sessions' = [sessions EXCEPT ![s].mutes = @ \ {l}]
  /\ UNCHANGED BesidesSessions

Muting(s, l) == Mute(s, l) \/ Unmute(s, l)

OffConsole(s) ==
  /\ Asked(s, "off_console")
  /\ sessions' = [sessions EXCEPT ![s].off_console = TRUE]
  /\ UNCHANGED BesidesSessions

ADeliberateAct(s) ==
  /\ Asked(s, "off_console")
  /\ sessions' = [sessions EXCEPT ![s].off_console = FALSE]
  /\ UNCHANGED BesidesSessions

Arm(s, l) ==
  /\ Asked(s, "arm")
  /\ sessions' = [sessions EXCEPT ![s].arms = @ \cup {l}]
  /\ UNCHANGED BesidesSessions

Disarm(s, l) ==
  /\ Asked(s, "arm")
  /\ sessions' = [sessions EXCEPT ![s].arms = @ \ {l}]
  /\ UNCHANGED BesidesSessions

Arming(s, l) == Arm(s, l) \/ Disarm(s, l)

TheClientKeys(s) ==
  /\ Asked(s, "key")
  /\ sessions' = [sessions EXCEPT ![s].keyed = TRUE]
  /\ UNCHANGED BesidesSessions

TheClientUnkeys(s) ==
  /\ Asked(s, "key")
  /\ sessions' = [sessions EXCEPT ![s].keyed = FALSE]
  /\ UNCHANGED BesidesSessions

Keying(s) == TheClientKeys(s) \/ TheClientUnkeys(s)

\* A press names the arm set it began over.  One already held is left standing.
TheClientKeysPriority(s) ==
  /\ Asked(s, "priority")
  /\ sessions[s].pressing = {}
  /\ sessions' = [sessions EXCEPT ![s].pressing = {sessions[s].arms}]
  /\ UNCHANGED BesidesSessions

TheClientUnkeysPriority(s) ==
  /\ Asked(s, "priority")
  /\ sessions' = [sessions EXCEPT ![s].pressing = {}]
  /\ UNCHANGED BesidesSessions

KeyingPriority(s) == TheClientKeysPriority(s) \/ TheClientUnkeysPriority(s)

-----------------------------------------------------------------------------
(* The projection, and what is taken away to be executed.                  *)

\* Slip: an arm out of reach is kept inert, as a subscription is.
ArmsKept(arms, reach) == arms

\* Session::take_the_arms_out_of_reach
ArmsWithin(arms, reach) == {l \in arms : reach[l] >= Emit}

Presence(s, within) ==
  /\ Asked(s, "presence")
  /\ sessions' = [sessions EXCEPT ![s].reach = within,
                                  ![s].arms = ArmsWithin(@, within)]
  /\ UNCHANGED BesidesSessions

TheRoutingIfItMoved ==
  /\ "routing" \in Requests
  /\ last_routing # {Routing}
  /\ last_routing' = {Routing}
  /\ UNCHANGED <<sessions, tombstones, minted, last_beacons>>

TheBeaconsIfTheyMoved ==
  /\ "beacons" \in Requests
  /\ last_beacons # {Beacons}
  /\ last_beacons' = {Beacons}
  /\ UNCHANGED <<sessions, tombstones, minted, last_routing>>

\* Any socket hands down either, as it moved: neither waits on the other.
HandsDownTheRouting == TheRoutingIfItMoved \/ TheBeaconsIfTheyMoved

-----------------------------------------------------------------------------
(* The signalling channel, the beacons and time.                           *)

\* The only thing that moves the ladder back down.  A channel coming back starts
\* every measurement again.
TheClientIsThere(s) ==
  /\ Asked(s, "heartbeat")
  /\ sessions' = [sessions EXCEPT
       ![s].beacons = IF Connection(sessions[s]) = "confirmed" THEN @
                      ELSE [l \in DOMAIN @ |-> Again(@[l])],
       ![s].unheard = 0,
       ![s].gone = FALSE]
  /\ UNCHANGED BesidesSessions

\* A count of a loop that is not measured is ignored.
TheClientCounted(s, counts) ==
  /\ Asked(s, "count")
  /\ sessions' = [sessions EXCEPT
       ![s].beacons = [l \in DOMAIN @ |-> IF l \in DOMAIN counts THEN Counted(@[l], counts[l])
                                          ELSE @[l]]]
  /\ UNCHANGED BesidesSessions

\* It does not end the session.  It ends a priority press.
TheChannelIsGone(s) ==
  /\ Asked(s, "go")
  /\ sessions' = [sessions EXCEPT ![s].gone = TRUE, ![s].pressing = {}, ![s].steady = 0]
  /\ UNCHANGED BesidesSessions

Aged(x) ==
  LET older == [x EXCEPT
        !.unheard = Older(@, DisconnectedAfter),
        !.beacons = [l \in DOMAIN @ |-> ATickOlder(@[l])]]
  IN [older EXCEPT !.steady = IF Connection(older) = "confirmed" THEN Older(@, LostAfter) ELSE 0]

Tick ==
  /\ "tick" \in Requests
  /\ sessions' = [s \in Live |-> Aged(sessions[s])]
  /\ tombstones' = {[t EXCEPT !.age = Older(@, KeptFor)] : t \in tombstones}
  /\ UNCHANGED <<minted, last_routing, last_beacons>>

Counts == UNION {[D -> 0..MaxCount] : D \in SUBSET Loops}

\* What one session's own socket does to it, short of ending it.
AtTheConsole(s) ==
  \/ OffConsole(s)
  \/ ADeliberateAct(s)
  \/ Keying(s)
  \/ KeyingPriority(s)
  \/ TheClientIsThere(s)
  \/ TheChannelIsGone(s)
  \/ \E l \in Loops : Monitoring(s, l) \/ Muting(s, l) \/ Arming(s, l)
  \/ \E within \in Reaches : Presence(s, within)
  \/ \E counts \in Counts : TheClientCounted(s, counts)

Next ==
  \/ \E u \in Users, r \in Roles, remembered \in Remembered, n \in Names :
       Assume(u, r, remembered, n)
  \/ \E s \in Live : EndedByItsOwnHolder(s)
  \/ \E s \in minted : WhyItEnded(s)
  \/ \E s \in Live : AtTheConsole(s)
  \/ HandsDownTheRouting
  \/ Tick

Spec == Init /\ [][Next]_vars

-----------------------------------------------------------------------------
(* What the State Authority promises.                                      *)

\* Every variable has the shape the code gives it.
TypeOK ==
  /\ sessions \in [Live -> Session]
  /\ Live \subseteq minted
  /\ minted \subseteq Names
  /\ tombstones \subseteq Tombstone
  /\ \A routing \in last_routing :
       DOMAIN routing \subseteq minted /\ routing \in [DOMAIN routing -> SUBSET Heard]
  /\ \A counting \in last_beacons :
       DOMAIN counting \subseteq minted /\ counting \in [DOMAIN counting -> SUBSET Loops]

\* A user has at most one session, though they may be signed in on several
\* machines and assume on each of them (state.rs:935, Live.sessions).
OneSessionPerUser ==
  \A s, t \in Live : sessions[s].occupant = sessions[t].occupant => s = t

\* No role is ever occupied past its limit, although an assume leaves its own
\* caller out of the count (state.rs:1394, StateAuthority::assume).
WithinTheLimit ==
  \A r \in Roles : \A limit \in MaxOccupants[r] : Cardinality(OccupantsOf({r})) <= limit

\* A tombstone is of a session that is over, and a user has at most one: what
\* they were last told is spent when they assume again (state.rs:1412).
TombstonesExplain ==
  /\ \A t \in tombstones : t.session \in minted \ Live
  /\ \A t, other \in tombstones : t.occupant = other.occupant => t = other

\* An assume ends nobody's session but its caller's, and the session it ends is
\* explained by a tombstone the same act left behind (state.rs:1412-1420).
DisplacedIsExplained ==
  [][minted' # minted =>
       \A s \in Live \ DOMAIN sessions' :
         /\ \E n \in minted' \ minted : sessions'[n].occupant = sessions[s].occupant
         /\ \E t \in tombstones' : t.session = s]_vars

\* What a user is owed of an explanation is lost in three ways only: its own console asks
\* for it, the user assumes again, or it has been kept long enough.  Nobody else's assume,
\* displacement or question costs them it (state.rs:1412, Live::remember, why_it_ended).
WhatIsOwedIsKept ==
  [][\A t \in tombstones :
       \/ \E kept \in tombstones' : kept.session = t.session
       \/ t.age >= KeptFor
       \/ WhyItEnded(t.session)
       \/ \E n \in minted' \ minted : sessions'[n].occupant = t.occupant]_vars

\* Exactly what is subscribed is measured, and only what is subscribed is muted,
\* whichever way the three lists were edited (state.rs:539-584).
ConsoleIsCoherent ==
  \A s \in Live : /\ DOMAIN sessions[s].beacons = sessions[s].subscriptions
                  /\ sessions[s].mutes \subseteq sessions[s].subscriptions

\* Voice never lands unattributed: a loop on which a keyed talker is routed to
\* anybody is shown as spoken on (state.rs:690-703 and 2559, ADR-0018).
AudibleIsAttributed ==
  \A talker \in Live : sessions[talker].keyed =>
    {h.on : h \in WhoHears(talker)} \subseteq LoopsBeingSpokenOn

\* Whatever takes a transmission off the air takes its priority with it, and a
\* press outlives neither its channel nor the arms it is drawn over: a loop marked
\* at priority is one that is spoken on, by a talker whose socket stands.
PriorityIsOnTheAir ==
  /\ LoopsSpokenOnAtPriority \subseteq LoopsBeingSpokenOn
  /\ \A s \in Live : sessions[s].pressing # {} => ~sessions[s].gone

\* A projection never gives a route and leaves none the role may not emit on: an
\* arm lost to a revocation does not come back with the permission (state.rs:862).
RevocationIsDestructive ==
  [][\A s \in Live \cap DOMAIN sessions' :
       sessions'[s].reach # sessions[s].reach =>
         /\ sessions'[s].arms \subseteq sessions[s].arms
         /\ \A l \in sessions'[s].arms : sessions'[s].reach[l] >= Emit]_vars

\* While the channel is confirmed, a loop's health is read off evidence gathered
\* since the channel last came back: neither a receipt nor a silence from before an
\* outage counts (state.rs:2130-2146).
HealthIsMeasured ==
  \A s \in Live : Connection(sessions[s]) = "confirmed" =>
    \A l \in DOMAIN sessions[s].beacons :
      /\ sessions[s].beacons[l].since <= sessions[s].steady
      /\ \A age \in sessions[s].beacons[l].arrived : age <= sessions[s].steady

\* A loop shown as staffed has somebody behind it: anyone else who has it armed and
\* a channel to speak on is routed to an occupant of a staffing role.  Two separate
\* computations over the sessions agree (state.rs:2484 and 2559).
StaffedIsReachable ==
  \A l \in Loops, roles \in SUBSET Roles :
    Staffing(l, roles).is = "staffed" =>
      \A talker \in Live \ OccupantsOf(roles) :
        CarriesEmission(sessions[talker]) /\ l \in sessions[talker].arms =>
          \E h \in WhoHears(talker) : h.on = l /\ h.listener \in OccupantsOf(roles)

-----------------------------------------------------------------------------
(* With the console left out, this is Seats.                               *)

AsSeats ==
  INSTANCE Seats WITH
    seats  <- [s \in Live |-> [occupant |-> sessions[s].occupant, role |-> sessions[s].role]],
    owed   <- {[session |-> t.session, occupant |-> t.occupant] :
                 t \in {kept \in tombstones : kept.age < KeptFor}},
    issued <- minted

\* The State Authority is its promise about seats and no more: every operation of it
\* takes a seat, leaves one, settles what is owed, or touches none (state.rs:1367-1546).
ImplementsSeats == AsSeats!SeatsSpec
=============================================================================

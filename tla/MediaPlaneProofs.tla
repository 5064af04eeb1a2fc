--------------------------- MODULE MediaPlaneProofs ---------------------------
(***************************************************************************)
(* Theorems about MediaPlane, for all sessions and loops and every choice  *)
(* of the bounds: type correctness, that what is carried is what is        *)
(* instructed, and that clients are told of it and hear it uninterrupted.  *)
(*                                                                         *)
(* The argument is one pair at a time, a listener and a source.  An        *)
(* instruction reconciles some pairs and leaves the others; a pair it      *)
(* reconciles is sound whatever it was (ReconcilingASource), so all there  *)
(* is to show of each instruction is that the pairs it leaves are sound    *)
(* under the memory it leaves behind (CarryingIsSound).                    *)
(***************************************************************************)
EXTENDS MediaPlane, TLAPS

\* What CarriesWhatIsInstructed says of one listener and one source, of any paths and any
\* memory.
Sound(at, aud, cnt, loops, l, x) ==
  LET wanted == Wanted(l, aud, cnt)[x]
      able   == at[l].decodes /\ x \in Sounding(at, loops) /\ wanted # {}
  IN  IF x \in DOMAIN at[l].carries
        THEN able /\ at[l].carries[x].on = wanted
        ELSE able => x \in at[l].refused

\* The bound of the instance is kept: who is wanted and not carried can still be named.
Room(at, aud, cnt, l, x) ==
  Wanted(l, aud, cnt)[x] # {} /\ x \notin DOMAIN at[l].carries
    => at[l].made[x] < MaxCarriages

WellFormed(p) == IsMap(p.carries, Sources, Carriage) /\ p \in PathOf(p.carries)

Memory(aud, cnt) ==
  IsMap(aud, Sessions, Audience) /\ IsMap(cnt, Sessions, SUBSET Destinations)

\* The inductive invariant.
IInv ==
  /\ TypeOK
  /\ \A s \in Open : stage[s] # "unopened"
  /\ \A l \in Open, x \in Sources :
       /\ Sound(paths, audiences, counts, beacons, l, x)
       /\ Room(paths, audiences, counts, l, x)

-----------------------------------------------------------------------------

\* What a listener is to be carried of a source is a set of loops.
LEMMA WantedAreLoops ==
  ASSUME NEW aud, NEW cnt, Memory(aud, cnt), NEW l \in Sessions
  PROVE  Wanted(l, aud, cnt) \in [Sources -> SUBSET Destinations]
  BY DEF Memory, IsMap, Audience, Wanted, Sources

\* There is a name left for each source of S that is wanted and not carried.
Nameable(p, S, wanted) ==
  \A x \in S : wanted[x] # {} /\ x \notin DOMAIN p.carries => p.made[x] < MaxCarriages

\* q is p with the sources of S carried as wanted where they can be, and the others as
\* they were.
BroughtInLine(p, S, wanted, sounding, q) ==
  /\ WellFormed(q)
  /\ q.decodes = p.decodes
  /\ q.speaks = p.speaks
  /\ \A x \in Sources \ S :
       /\ x \in DOMAIN q.carries <=> x \in DOMAIN p.carries
       /\ x \in DOMAIN p.carries => q.carries[x] = p.carries[x]
       /\ x \in q.refused <=> x \in p.refused
       /\ q.made[x] = p.made[x]
  /\ \A x \in S :
       IF x \in DOMAIN q.carries
         THEN /\ wanted[x] # {}
              /\ q.carries[x].on = wanted[x]
              /\ x \in DOMAIN p.carries \/ (p.decodes /\ x \in sounding)
         ELSE /\ wanted[x] # {} /\ p.decodes /\ x \in sounding => x \in q.refused
              /\ wanted[x] # {} => x \notin DOMAIN p.carries
              /\ q.made[x] = p.made[x]

\* What one_more_talker, heard_on and stop_hearing leave of a path: a source that was
\* reconciled is carried as wanted where it can be, and the others are as they were.
LEMMA ReconcilingASource ==
  ASSUME NEW p, WellFormed(p), NEW S \in SUBSET Sources,
         NEW wanted \in [Sources -> SUBSET Destinations],
         NEW sounding, NEW failing \in SUBSET Sources,
         Nameable(p, S, wanted),
         NEW q, q = Reconciled(p, S, wanted, sounding, failing)
  PROVE  BroughtInLine(p, S, wanted, sounding, q)
<1> DEFINE held    == S \cap DOMAIN p.carries
           dropped == {x \in held : wanted[x] = {}}
           moved   == {x \in held : wanted[x] \notin {{}, p.carries[x].on}}
           tried   == {x \in (S \ held) \cap sounding : p.decodes /\ wanted[x] # {}}
           built   == tried \ failing
           after   == [x \in (DOMAIN p.carries \ dropped) \cup built |->
                         CASE x \in built -> Built(p, x, wanted[x])
                           [] x \in moved -> Relabelled(p, x, wanted[x])
                           [] OTHER       -> p.carries[x]]
           made    == [x \in Sources |-> p.made[x] + (IF x \in built THEN 1 ELSE 0)]
           told    == StillTold(p, dropped \cup moved) \cup
                      {[of |-> x, nth |-> after[x].nth, on |-> after[x].on] :
                         x \in moved \cup built}
           refused == (p.refused \ S) \cup (tried \cap failing)
<1>1. /\ p.carries \in [DOMAIN p.carries -> Carriage]
      /\ DOMAIN p.carries \subseteq Sources
      /\ p.made \in [Sources -> 0..MaxCarriages]
      /\ p.told \subseteq Entry
      /\ p.refused \subseteq Sources
      /\ MaxCarriages \in Nat
  BY SourcesAssumption DEF WellFormed, IsMap, PathOf
<1>2. q = [p EXCEPT !.carries = after, !.made = made, !.told = told, !.refused = refused]
  BY DEF Reconciled
<1>3. DOMAIN after = (DOMAIN p.carries \ dropped) \cup built
  OBVIOUS
<1>4. built \cap DOMAIN p.carries = {} /\ built \subseteq S
  OBVIOUS
<1>5. \A x \in built :
        /\ p.made[x] + 1 \in 1..MaxCarriages
        /\ p.made[x] + 1 \in 0..MaxCarriages
        /\ wanted[x] \in SUBSET Destinations
        /\ after[x] \in Carriage
        /\ after[x].on = wanted[x]
  <2> TAKE x \in built
  <2>1. after[x] = [nth |-> p.made[x] + 1, on |-> wanted[x], running |-> FALSE]
    BY <1>4 DEF Built
  <2>2. p.made[x] + 1 \in 1..MaxCarriages /\ p.made[x] + 1 \in 0..MaxCarriages
    BY <1>1, <1>4 DEF Nameable
  <2>3. wanted[x] \in SUBSET Destinations
    BY <1>4
  <2> HIDE DEF built, after
  <2> QED BY <2>1, <2>2, <2>3 DEF Carriage
<1>6. ASSUME NEW x \in moved
      PROVE  /\ after[x] = [p.carries[x] EXCEPT !.on = wanted[x]]
             /\ x \in DOMAIN p.carries /\ x \notin dropped /\ x \notin built
  BY <1>4 DEF Relabelled
<1>7. ASSUME NEW x \in DOMAIN p.carries \ (dropped \cup moved)
      PROVE  after[x] = p.carries[x] /\ x \notin built
  BY <1>4
<1>8. /\ dropped = {x \in S \cap DOMAIN p.carries : wanted[x] = {}}
      /\ moved = {x \in S \cap DOMAIN p.carries : wanted[x] \notin {{}, p.carries[x].on}}
      /\ tried = {x \in (S \ DOMAIN p.carries) \cap sounding : p.decodes /\ wanted[x] # {}}
      /\ built = tried \ failing
      /\ refused = (p.refused \ S) \cup (tried \cap failing)
      /\ made = [x \in Sources |-> p.made[x] + (IF x \in built THEN 1 ELSE 0)]
      /\ told = StillTold(p, dropped \cup moved) \cup
                {[of |-> x, nth |-> after[x].nth, on |-> after[x].on] : x \in moved \cup built}
  OBVIOUS
<1>9. after = [x \in DOMAIN after |-> after[x]]
  OBVIOUS
<1> HIDE DEF held, dropped, moved, tried, built, after, made, told, refused
<1>10. q = [decodes |-> p.decodes, speaks |-> p.speaks, carries |-> after, made |-> made,
            told |-> told, answered |-> p.answered, refused |-> refused]
  BY <1>2 DEF WellFormed, PathOf
<1>11. \A x \in DOMAIN after : after[x] \in Carriage
  <2> TAKE x \in DOMAIN after
  <2>1. CASE x \in built
    BY <2>1, <1>5
  <2>2. CASE x \in moved
    <3>1. x \in S /\ p.carries[x] \in Carriage /\ wanted[x] \in SUBSET Destinations
      BY <2>2, <1>1, <1>8, <1>6
    <3> QED BY <2>2, <3>1, <1>6 DEF Carriage
  <2>3. CASE x \in DOMAIN p.carries \ (dropped \cup moved)
    BY <2>3, <1>7, <1>1
  <2> QED BY <2>1, <2>2, <2>3, <1>3
<1>12. made \in [Sources -> 0..MaxCarriages]
  BY <1>5, <1>1, <1>8
<1>13. told \subseteq Entry
  <2>1. StillTold(p, dropped \cup moved) \subseteq Entry
    BY <1>1 DEF StillTold
  <2>2. \A x \in moved \cup built : x \in DOMAIN after /\ x \in Sources
    BY <1>3, <1>4, <1>6, <1>1
  <2>3. \A x \in moved \cup built : after[x].nth \in 1..MaxCarriages /\ after[x].on \in SUBSET Destinations
    BY <2>2, <1>11 DEF Carriage
  <2>4. \A x \in moved \cup built : [of |-> x, nth |-> after[x].nth, on |-> after[x].on] \in Entry
    BY <2>2, <2>3 DEF Entry
  <2> QED BY <2>1, <2>4, <1>8
<1>14. DOMAIN after \subseteq Sources
  BY <1>3, <1>1, <1>4
<1>15. refused \subseteq Sources
  BY <1>1, <1>8
<1>16. WellFormed(q)
  <2>1. IsMap(after, Sources, Carriage)
    BY <1>9, <1>11, <1>14 DEF IsMap
  <2>2. p.decodes \in BOOLEAN /\ p.speaks \in BOOLEAN /\ p.answered \subseteq Sources \X (1..MaxCarriages)
    BY DEF WellFormed, PathOf
  <2>3. q \in PathOf(after)
    BY <2>2, <1>10, <1>12, <1>13, <1>15 DEF PathOf
  <2> QED BY <2>1, <2>3, <1>10 DEF WellFormed
<1>17. ASSUME NEW x \in Sources \ S
       PROVE  /\ x \in DOMAIN q.carries <=> x \in DOMAIN p.carries
              /\ x \in DOMAIN p.carries => q.carries[x] = p.carries[x]
              /\ x \in q.refused <=> x \in p.refused
              /\ q.made[x] = p.made[x]
  <2>1. x \notin built /\ x \notin dropped /\ x \notin moved
    BY <1>8, <1>4
  <2>2. made[x] = p.made[x] /\ (x \in refused <=> x \in p.refused)
    BY <2>1, <1>8, <1>1
  <2>3. x \in DOMAIN p.carries => after[x] = p.carries[x]
    BY <2>1, <1>7
  <2> QED BY <2>1, <2>2, <2>3, <1>3, <1>10
<1>18. ASSUME NEW x \in S, x \in DOMAIN after
       PROVE  /\ wanted[x] # {}
              /\ after[x].on = wanted[x]
              /\ x \in DOMAIN p.carries \/ (p.decodes /\ x \in sounding)
  <2>1. CASE x \in built
    BY <2>1, <1>5, <1>8
  <2>2. CASE x \in moved
    <3>1. p.carries[x] \in Carriage /\ wanted[x] # {} /\ x \in DOMAIN p.carries
      BY <2>2, <1>1, <1>8, <1>6
    <3> QED BY <2>2, <3>1, <1>6 DEF Carriage
  <2>3. CASE x \in DOMAIN p.carries \ (dropped \cup moved)
    BY <2>3, <1>7, <1>8
  <2> QED BY <1>18, <2>1, <2>2, <2>3, <1>3
<1>19. ASSUME NEW x \in S, x \notin DOMAIN after
       PROVE  /\ wanted[x] # {} /\ p.decodes /\ x \in sounding => x \in refused
              /\ wanted[x] # {} => x \notin DOMAIN p.carries
              /\ made[x] = p.made[x]
  <2>1. x \notin built
    BY <1>19, <1>3
  <2>2. wanted[x] # {} => x \notin DOMAIN p.carries
    BY <1>19, <1>3, <1>8
  <2>3. made[x] = p.made[x]
    BY <2>1, <1>8, <1>1
  <2>4. wanted[x] # {} /\ p.decodes /\ x \in sounding => x \in refused
    BY <2>1, <2>2, <1>8
  <2> QED BY <2>2, <2>3, <2>4
<1>20. /\ q.carries = after /\ q.made = made /\ q.refused = refused
       /\ q.decodes = p.decodes /\ q.speaks = p.speaks
  BY <1>10
<1> QED BY <1>16, <1>17, <1>18, <1>19, <1>20 DEF BroughtInLine

\* What must be so of a pair before the sources in `about` are reconciled: sound already
\* unless it is among them, and if it is, a carriage has not lost its talker or beacon.
Due(at, about, aud, cnt, loops, l, x) ==
  /\ Room(at, aud, cnt, l, x)
  /\ IF x \in about[l]
       THEN x \in DOMAIN at[l].carries /\ Wanted(l, aud, cnt)[x] # {}
              => at[l].decodes /\ x \in Sounding(at, loops)
       ELSE Sound(at, aud, cnt, loops, l, x)

\* Every path brought in line on the sources `about` names: every pair is sound.
LEMMA CarryingIsSound ==
  ASSUME NEW at, DOMAIN at \subseteq Sessions, \A l \in DOMAIN at : WellFormed(at[l]),
         NEW aud, NEW cnt, Memory(aud, cnt), NEW loops, NEW fails,
         NEW about, \A l \in DOMAIN at : about[l] \subseteq Sources,
         \A l \in DOMAIN at : \A x \in Sources : Due(at, about, aud, cnt, loops, l, x),
         NEW now, now = Carry(at, about, aud, cnt, loops, fails)
  PROVE  /\ DOMAIN now = DOMAIN at
         /\ \A l \in DOMAIN at : WellFormed(now[l])
         /\ \A l \in DOMAIN at : \A x \in Sources :
              Sound(now, aud, cnt, loops, l, x) /\ Room(now, aud, cnt, l, x)
<1> DEFINE failing(l) == {x \in Sources : <<l, x>> \in fails}
<1>1. /\ DOMAIN now = DOMAIN at
      /\ \A l \in DOMAIN at :
           now[l] = Reconciled(at[l], about[l], Wanted(l, aud, cnt), Sounding(at, loops),
                               failing(l))
  BY DEF Carry
<1> HIDE DEF failing
<1>2. ASSUME NEW l \in DOMAIN at
      PROVE  BroughtInLine(at[l], about[l], Wanted(l, aud, cnt), Sounding(at, loops), now[l])
  <2>1. Wanted(l, aud, cnt) \in [Sources -> SUBSET Destinations]
    BY WantedAreLoops
  <2>2. failing(l) \in SUBSET Sources
    BY DEF failing
  <2>3. about[l] \in SUBSET Sources /\ WellFormed(at[l])
    OBVIOUS
  <2>4. Nameable(at[l], about[l], Wanted(l, aud, cnt))
    BY <2>3 DEF Due, Room, Nameable
  <2> QED BY <1>1, <2>1, <2>2, <2>3, <2>4, ReconcilingASource
<1>3. Sounding(now, loops) = Sounding(at, loops)
  BY <1>1, <1>2 DEF Sounding, BroughtInLine
<1>4. ASSUME NEW l \in DOMAIN at, NEW x \in Sources
      PROVE  Sound(now, aud, cnt, loops, l, x) /\ Room(now, aud, cnt, l, x)
  <2>1. CASE x \in about[l]
    BY <1>2, <1>3, <2>1 DEF Due, Sound, Room, BroughtInLine
  <2>2. CASE x \notin about[l]
    BY <1>2, <1>3, <2>2 DEF Due, Sound, Room, BroughtInLine
  <2> QED BY <2>1, <2>2
<1> QED BY <1>1, <1>2, <1>4 DEF BroughtInLine

-----------------------------------------------------------------------------

\* The task starts with nothing open and nothing remembered.
LEMMA InitIsSound ==
  ASSUME Init
  PROVE  IInv
  BY DEF Init, IInv, TypeOK, IsMap, Open, Stages

\* What IInv says of the memory and of every path, in the words of the lemmas above.
LEMMA WhatHolds ==
  ASSUME IInv
  PROVE  /\ Memory(audiences, counts)
         /\ Open \subseteq Sessions
         /\ \A l \in Open : WellFormed(paths[l])
         /\ beacons \subseteq Destinations
  BY DEF IInv, TypeOK, Memory, WellFormed

\* And what is left of it to show of a step.
LEMMA Established ==
  ASSUME Memory(audiences, counts)', (Open \subseteq Sessions)',
         (\A l \in Open : WellFormed(paths[l]))',
         (beacons \subseteq Destinations)', (stage \in [Sessions -> Stages])',
         (\A s \in Open : stage[s] # "unopened")',
         (\A l \in Open : \A x \in Sources :
            /\ Sound(paths, audiences, counts, beacons, l, x)
            /\ Room(paths, audiences, counts, l, x))'
  PROVE  IInv'
  BY DEF IInv, TypeOK, Memory, WellFormed

\* A path just opened carries nothing and can decode nothing, so nothing is due on it.
LEMMA OpenIsSound ==
  ASSUME IInv, NEW s \in Sessions, OpenAPathFor(s)
  PROVE  IInv'
<1> USE DEF OpenAPathFor
<1>1. /\ Memory(audiences, counts)' /\ (beacons \subseteq Destinations)'
      /\ (stage \in [Sessions -> Stages])'
  BY WhatHolds DEF Memory, IInv, TypeOK, Stages
<1>2. CASE paths' = paths
  BY <1>1, <1>2, WhatHolds, Established DEF IInv, TypeOK, Open
<1>3. CASE paths' = With(paths, s, NewPath)
  <2>1. s \notin Open
    BY DEF IInv
  <2>2. /\ DOMAIN paths' = Open \cup {s} /\ paths'[s] = NewPath
        /\ \A l \in Open : paths'[l] = paths[l]
    BY <1>3, <2>1 DEF With, Open
  <2>3. WellFormed(NewPath)
    BY SourcesAssumption DEF WellFormed, NewPath, PathOf, IsMap
  <2>4. Sounding(paths, beacons)' = Sounding(paths, beacons)
    BY <2>1, <2>2 DEF Sounding, NewPath, Open
  <2>5. ASSUME NEW l \in Open', NEW x \in Sources
        PROVE  (Sound(paths, audiences, counts, beacons, l, x) /\ Room(paths, audiences, counts, l, x))'
    <3>1. CASE l = s
      <4>1. x \notin DOMAIN NewPath.carries /\ ~NewPath.decodes /\ NewPath.made[x] < MaxCarriages
        BY SourcesAssumption DEF NewPath
      <4> QED BY <3>1, <4>1, <2>2 DEF Sound, Room
    <3>2. CASE l # s
      BY <3>2, <2>2, <2>4 DEF Sound, Room, IInv, Open
    <3> QED BY <3>1, <3>2
  <2>6. (\A l \in Open : WellFormed(paths[l]))' /\ (Open \subseteq Sessions)'
    BY <2>2, <2>3, WhatHolds DEF Open
  <2>7. (\A r \in Open : stage[r] # "unopened")'
    <3> SUFFICES ASSUME NEW r \in Open' PROVE stage'[r] # "unopened"
      OBVIOUS
    <3>1. stage' = [stage EXCEPT ![s] = "offered"] \/ stage' = [stage EXCEPT ![s] = "unbuilt"]
      OBVIOUS
    <3>2. r \in Open \/ r = s
      BY <2>2 DEF Open
    <3> QED BY <3>1, <3>2, WhatHolds DEF IInv, TypeOK
  <2> QED BY <1>1, <2>5, <2>6, <2>7, Established
<1> QED BY <1>2, <1>3

\* An instruction that ends by reconciling is sound if each pair was due for it.
LEMMA CarriedThrough ==
  ASSUME IInv, Memory(audiences, counts)', (beacons \subseteq Destinations)',
         (stage \in [Sessions -> Stages])',
         NEW at, DOMAIN at \subseteq Open, \A l \in DOMAIN at : WellFormed(at[l]),
         \A s \in DOMAIN at : stage'[s] # "unopened",
         NEW fails, NEW about, \A l \in DOMAIN at : about[l] \subseteq Sources,
         \A l \in DOMAIN at : \A x \in Sources :
           Due(at, about, audiences', counts', beacons', l, x),
         paths' = Carry(at, about, audiences', counts', beacons', fails)
  PROVE  IInv'
<1>1. Open \subseteq Sessions
  BY WhatHolds
<1>2. /\ DOMAIN paths' = DOMAIN at
      /\ \A l \in DOMAIN at : WellFormed(paths'[l])
      /\ \A l \in DOMAIN at : \A x \in Sources :
           /\ Sound(paths', audiences', counts', beacons', l, x)
           /\ Room(paths', audiences', counts', l, x)
  BY <1>1, CarryingIsSound
<1> QED BY <1>1, <1>2, Established DEF Open

\* Closing a path forgets its session as a talker, and lets go of it everywhere.
LEMMA CloseIsSound ==
  ASSUME IInv, NEW s \in Sessions, CloseThePathOf(s)
  PROVE  IInv'
<1> DEFINE left  == Without(paths, s)
           about == [l \in Open |-> {s}]
<1>1. /\ audiences' = Without(audiences, s) /\ counts' = Without(counts, s)
      /\ paths' = Carry(left, about, audiences', counts', beacons', {})
      /\ beacons' = beacons /\ stage' = stage
  BY DEF CloseThePathOf
<1>2. /\ Memory(audiences, counts)' /\ (beacons \subseteq Destinations)'
      /\ (stage \in [Sessions -> Stages])'
  BY <1>1, WhatHolds DEF IInv, TypeOK, Memory, IsMap, Without, Restrict
<1>3. /\ DOMAIN left = Open \ {s}
      /\ \A l \in Open \ {s} : left[l] = paths[l]
  BY DEF Without, Restrict, Open
<1> HIDE DEF left
<1>4. \A l \in DOMAIN left : WellFormed(left[l]) /\ stage'[l] # "unopened" /\ about[l] \subseteq Sources
  BY <1>1, <1>3, WhatHolds DEF IInv, Sources
<1>5. ASSUME NEW l \in DOMAIN left, NEW x \in Sources
      PROVE  Due(left, about, audiences', counts', beacons', l, x)
  <2>1. l \in Open /\ l # s /\ left[l] = paths[l] /\ about[l] = {s}
    BY <1>3
  <2>2. CASE x = s
    <3>1. Wanted(l, audiences', counts')[x] = {}
      BY <1>1, <2>2 DEF Wanted, Without, Restrict, Sources
    <3> QED BY <2>1, <2>2, <3>1 DEF Due, Room
  <2>3. CASE x # s
    <3>1. Wanted(l, audiences', counts')[x] = Wanted(l, audiences, counts)[x]
      BY <1>1, <2>1, <2>3 DEF Wanted, Without, Restrict
    <3>2. x \in Sounding(left, beacons') <=> x \in Sounding(paths, beacons)
      BY <1>1, <1>3, <2>3 DEF Sounding, Open
    <3>3. Sound(paths, audiences, counts, beacons, l, x) /\ Room(paths, audiences, counts, l, x)
      BY <2>1 DEF IInv
    <3> QED BY <2>1, <2>3, <3>1, <3>2, <3>3 DEF Due, Room, Sound
  <2> QED BY <2>2, <2>3
<1> QED BY <1>1, <1>2, <1>3, <1>4, <1>5, CarriedThrough

\* Once a client can decode, what it is due is exactly what is replayed to it: everything
\* it was named for, and nothing of anybody else changes.
LEMMA WillHearIsSound ==
  ASSUME IInv, NEW s \in Sessions, NEW fails, TheClientWillHear(s, fails)
  PROVE  IInv'
<1> DEFINE able  == [l \in Open |-> [paths[l] EXCEPT !.decodes = @ \/ l = s]]
           about == [l \in Open |-> AlreadySaid(s) \cup
                       (IF l = s /\ s \in DOMAIN counts THEN Destinations ELSE {})]
<1>1. /\ stage' = [stage EXCEPT ![s] = "answered"]
      /\ paths' = Carry(able, about, audiences', counts', beacons', fails)
      /\ audiences' = audiences /\ beacons' = beacons /\ counts' = counts
  BY DEF TheClientWillHear
<1>2. /\ Memory(audiences, counts)' /\ (beacons \subseteq Destinations)'
      /\ (stage \in [Sessions -> Stages])'
  BY <1>1, WhatHolds DEF IInv, TypeOK, Stages
<1>3. /\ DOMAIN able = Open
      /\ \A l \in Open : /\ WellFormed(able[l])
                         /\ able[l].carries = paths[l].carries
                         /\ able[l].made = paths[l].made
                         /\ able[l].refused = paths[l].refused
                         /\ able[l].speaks = paths[l].speaks
                         /\ able[l].decodes = (paths[l].decodes \/ l = s)
  BY WhatHolds DEF WellFormed, PathOf
<1>4. /\ \A l \in Open : about[l] = AlreadySaid(s) \cup
                           (IF l = s /\ s \in DOMAIN counts THEN Destinations ELSE {})
      /\ AlreadySaid(s) \subseteq Sources
  BY WhatHolds DEF AlreadySaid, Memory, IsMap, Sources
<1>5. \A l \in Open : stage'[l] # "unopened" /\ about[l] \subseteq Sources
  BY <1>1, <1>4 DEF IInv, TypeOK, Sources
<1> HIDE DEF able, about
<1>6. Sounding(able, beacons') = Sounding(paths, beacons)
  BY <1>1, <1>3 DEF Sounding, Open
<1>7. ASSUME NEW l \in DOMAIN able, NEW x \in Sources
      PROVE  Due(able, about, audiences', counts', beacons', l, x)
  <2>1. l \in Open
    BY <1>3
  <2>2. Sound(paths, audiences, counts, beacons, l, x) /\ Room(paths, audiences, counts, l, x)
    BY <2>1 DEF IInv
  <2>3. CASE x \in about[l] \/ l # s
    BY <1>1, <1>3, <1>6, <2>1, <2>2, <2>3 DEF Due, Room, Sound
  <2>4. CASE x \notin about[l] /\ l = s
    <3>1. Wanted(l, audiences, counts)[x] = {}
      BY <1>4, <2>1, <2>4 DEF Wanted, AlreadySaid, Sources
    <3> QED BY <1>1, <1>3, <1>6, <2>1, <2>2, <2>4, <3>1 DEF Due, Room, Sound
  <2> QED BY <2>3, <2>4
<1> QED BY <1>1, <1>2, <1>3, <1>5, <1>7, CarriedThrough

\* A microphone makes one source sound, and its audience is replayed if there is one.
LEMMA SpeaksIsSound ==
  ASSUME IInv, NEW s \in Sessions, NEW fails, TheClientSpeaks(s, fails)
  PROVE  IInv'
<1> DEFINE heard == [paths EXCEPT ![s].speaks = TRUE]
           about == [l \in Open |-> DOMAIN audiences \cap {s}]
<1>1. /\ paths' = Carry(heard, about, audiences', counts', beacons', fails)
      /\ audiences' = audiences /\ beacons' = beacons /\ counts' = counts /\ stage' = stage
      /\ s \in Open
  BY DEF TheClientSpeaks
<1>2. /\ Memory(audiences, counts)' /\ (beacons \subseteq Destinations)'
      /\ (stage \in [Sessions -> Stages])'
  BY <1>1, WhatHolds DEF IInv, TypeOK
<1>3. /\ DOMAIN heard = Open
      /\ \A l \in Open : /\ WellFormed(heard[l])
                         /\ heard[l].carries = paths[l].carries
                         /\ heard[l].made = paths[l].made
                         /\ heard[l].refused = paths[l].refused
                         /\ heard[l].decodes = paths[l].decodes
                         /\ heard[l].speaks = (paths[l].speaks \/ l = s)
  BY WhatHolds DEF WellFormed, PathOf, Open
<1>4. \A l \in Open : /\ stage'[l] # "unopened" /\ about[l] \subseteq Sources
                      /\ about[l] = DOMAIN audiences \cap {s}
  BY <1>1 DEF IInv, Sources
<1> HIDE DEF heard, about
<1>5. /\ \A x \in Sources : x # s => (x \in Sounding(heard, beacons') <=> x \in Sounding(paths, beacons))
      /\ s \in Sounding(heard, beacons')
  BY <1>1, <1>3 DEF Sounding, Open
<1>6. ASSUME NEW l \in DOMAIN heard, NEW x \in Sources
      PROVE  Due(heard, about, audiences', counts', beacons', l, x)
  <2>1. l \in Open
    BY <1>3
  <2>2. Sound(paths, audiences, counts, beacons, l, x) /\ Room(paths, audiences, counts, l, x)
    BY <2>1 DEF IInv
  <2>3. CASE x # s
    BY <1>1, <1>3, <1>4, <1>5, <2>1, <2>2, <2>3 DEF Due, Room, Sound
  <2>4. CASE x = s /\ s \in DOMAIN audiences
    BY <1>1, <1>3, <1>4, <1>5, <2>1, <2>2, <2>4 DEF Due, Room, Sound
  <2>5. CASE x = s /\ s \notin DOMAIN audiences
    <3>1. Wanted(l, audiences, counts)[x] = {}
      BY <2>5 DEF Wanted
    <3> QED BY <1>1, <1>3, <1>4, <2>1, <2>2, <2>5, <3>1 DEF Due, Room, Sound
  <2> QED BY <2>3, <2>4, <2>5
<1> QED BY <1>1, <1>2, <1>3, <1>4, <1>6, CarriedThrough

\* What a client says of its end of a carriage moves nothing but what runs on it.
LEMMA HearsIsSound ==
  ASSUME IInv, NEW s \in Sessions, NEW x \in Sources, NEW n \in 1..MaxCarriages,
         TheClientHears(s, x, n)
  PROVE  IInv'
<1> DEFINE heard == Running(paths[s], x, n)
<1>0. Resumed(paths[s], x, n) =
        [paths[s] EXCEPT !.answered = @ \cup {<<x, n>>}, !.carries = heard]
  BY DEF Resumed
<1>1. /\ s \in Open
      /\ paths' = [paths EXCEPT ![s] = Resumed(paths[s], x, n)]
      /\ audiences' = audiences /\ beacons' = beacons /\ counts' = counts /\ stage' = stage
  BY DEF TheClientHears
<1>2. WellFormed(paths[s])
  BY <1>1, WhatHolds
<1>3. /\ DOMAIN heard = DOMAIN paths[s].carries
      /\ \A y \in DOMAIN heard : heard[y] \in Carriage /\ heard[y].on = paths[s].carries[y].on
  <2>1. \A y \in DOMAIN heard : paths[s].carries[y] \in Carriage
    BY <1>2 DEF WellFormed, IsMap, Running
  <2>2. \A y \in DOMAIN heard : Names(paths[s], y, x, n) \in BOOLEAN
    BY DEF Names
  <2> QED BY <2>1, <2>2 DEF Carriage, Running
<1>4. heard = [y \in DOMAIN heard |-> heard[y]]
  BY DEF Running
<1> HIDE DEF heard
<1>5. DOMAIN paths' = Open /\ \A l \in Open : l # s => paths'[l] = paths[l]
  BY <1>1 DEF Open
<1>6. paths'[s] = [paths[s] EXCEPT !.answered = @ \cup {<<x, n>>}, !.carries = heard]
  BY <1>1, <1>0 DEF Open
<1>7. /\ paths'[s].carries = heard /\ paths'[s].decodes = paths[s].decodes
      /\ paths'[s].speaks = paths[s].speaks /\ paths'[s].made = paths[s].made
      /\ paths'[s].refused = paths[s].refused
  BY <1>2, <1>6 DEF WellFormed, PathOf
<1>8. WellFormed(paths'[s])
  <2>1. IsMap(heard, Sources, Carriage)
    BY <1>2, <1>3, <1>4 DEF WellFormed, IsMap
  <2>2. /\ paths[s] \in PathOf(paths[s].carries)
        /\ paths[s].answered \cup {<<x, n>>} \subseteq Sources \X (1..MaxCarriages)
    BY <1>2 DEF WellFormed, PathOf
  <2>3. paths'[s] = [decodes |-> paths[s].decodes, speaks |-> paths[s].speaks,
                     carries |-> heard, made |-> paths[s].made, told |-> paths[s].told,
                     answered |-> paths[s].answered \cup {<<x, n>>},
                     refused |-> paths[s].refused]
    BY <1>6, <2>2 DEF PathOf
  <2>4. paths'[s] \in PathOf(heard)
    BY <2>2, <2>3 DEF PathOf
  <2> QED BY <1>7, <2>1, <2>4 DEF WellFormed
<1>9. Sounding(paths', beacons') = Sounding(paths, beacons)
  BY <1>1, <1>5, <1>7 DEF Sounding, Open
<1>10. ASSUME NEW l \in Open', NEW y \in Sources
       PROVE  (Sound(paths, audiences, counts, beacons, l, y) /\ Room(paths, audiences, counts, l, y))'
  <2>1. l \in Open
    BY <1>5 DEF Open
  <2>2. Sound(paths, audiences, counts, beacons, l, y) /\ Room(paths, audiences, counts, l, y)
    BY <2>1 DEF IInv
  <2>3. CASE l # s
    BY <1>1, <1>5, <1>9, <2>1, <2>2, <2>3 DEF Sound, Room
  <2>4. CASE l = s
    BY <1>1, <1>3, <1>7, <1>9, <2>2, <2>4 DEF Sound, Room
  <2> QED BY <2>3, <2>4
<1>11. /\ Memory(audiences, counts)' /\ (Open \subseteq Sessions)' /\ (beacons \subseteq Destinations)'
       /\ (\A l \in Open : WellFormed(paths[l]))'
       /\ (stage \in [Sessions -> Stages])' /\ (\A l \in Open : stage[l] # "unopened")'
  BY <1>1, <1>5, <1>8, WhatHolds DEF Open, IInv, TypeOK
<1> QED BY <1>10, <1>11, Established

\* A new audience touches what is wanted of its talker alone, whom it reconciles.
LEMMA TheseShouldHearIsSound ==
  ASSUME IInv, NEW t \in Sessions, NEW audience \in Audience, NEW fails,
         TheseShouldHear(t, audience, fails)
  PROVE  IInv'
<1> DEFINE about == [l \in Open |-> {t}]
<1>1. /\ audiences' = With(audiences, t, audience)
      /\ paths' = Carry(paths, about, audiences', counts', beacons', fails)
      /\ beacons' = beacons /\ counts' = counts /\ stage' = stage
      /\ \A l \in Sessions : audience[l] # {} => Spare(l, t)
  BY DEF TheseShouldHear
<1>2. /\ Memory(audiences, counts)' /\ (beacons \subseteq Destinations)'
      /\ (stage \in [Sessions -> Stages])'
  BY <1>1, WhatHolds DEF IInv, TypeOK, Memory, IsMap, With
<1>3. \A l \in Open : WellFormed(paths[l]) /\ stage'[l] # "unopened" /\ about[l] \subseteq Sources
  BY <1>1, WhatHolds DEF IInv, Sources
<1>4. ASSUME NEW l \in Open, NEW x \in Sources
      PROVE  Due(paths, about, audiences', counts', beacons', l, x)
  <2>1. about[l] = {t} /\ l \in Sessions
    BY WhatHolds
  <2>2. Sound(paths, audiences, counts, beacons, l, x) /\ Room(paths, audiences, counts, l, x)
    BY DEF IInv
  <2>3. CASE x # t
    <3>1. Wanted(l, audiences', counts')[x] = Wanted(l, audiences, counts)[x]
      BY <1>1, <2>3 DEF Wanted, With
    <3> QED BY <1>1, <2>1, <2>2, <2>3, <3>1 DEF Due, Room, Sound
  <2>4. CASE x = t
    <3>1. Wanted(l, audiences', counts')[x] = audience[l]
      BY <1>1, <2>4 DEF Wanted, With
    <3>2. x \in DOMAIN paths[l].carries => paths[l].decodes /\ x \in Sounding(paths, beacons')
      BY <1>1, <2>2 DEF Sound
    <3>3. audience[l] # {} => x \in DOMAIN paths[l].carries \/ paths[l].made[x] < MaxCarriages
      BY <1>1, <2>1, <2>4 DEF Spare
    <3> QED BY <2>1, <2>4, <3>1, <3>2, <3>3 DEF Due, Room
  <2> QED BY <2>3, <2>4
<1> HIDE DEF about
<1> QED BY <1>1, <1>2, <1>3, <1>4, CarriedThrough DEF Open

\* Beacons are no sessions, so only a loop's beacon can sound for it.
LEMMA LoopsAreNoSessions ==
  ASSUME IInv, NEW loops, NEW d \in Destinations
  PROVE  d \notin Sessions /\ (d \in Sounding(paths, loops) <=> d \in loops)
  BY WhatHolds, SourcesAssumption DEF Sounding, Open

\* A loop that loses its beacon is forgotten by everybody, and whoever counts any loop is
\* reconciled with all of them.
LEMMA TheseLoopsRunBeaconsIsSound ==
  ASSUME IInv, NEW loops \in SUBSET Destinations, NEW silent \in SUBSET (loops \ beacons),
         NEW fails, TheseLoopsRunBeacons(loops, silent, fails)
  PROVE  IInv'
<1> DEFINE gone  == beacons \ loops
           about == [l \in Open |-> IF l \in DOMAIN counts THEN Destinations ELSE gone]
<1>1. /\ beacons' = loops \ (silent \ beacons)
      /\ counts' = [l \in DOMAIN counts |-> counts[l] \ gone]
      /\ paths' = Carry(paths, about, audiences', counts', beacons', fails)
      /\ audiences' = audiences /\ stage' = stage
  BY DEF TheseLoopsRunBeacons
<1>2. /\ Memory(audiences, counts)' /\ (beacons \subseteq Destinations)'
      /\ (stage \in [Sessions -> Stages])'
  BY <1>1, WhatHolds DEF IInv, TypeOK, Memory, IsMap
<1>3. \A l \in Open : WellFormed(paths[l]) /\ stage'[l] # "unopened" /\ about[l] \subseteq Sources
  BY <1>1, WhatHolds DEF IInv, Sources
<1>4. ASSUME NEW l \in Open, NEW x \in Sources
      PROVE  Due(paths, about, audiences', counts', beacons', l, x)
  <2>1. about[l] = (IF l \in DOMAIN counts THEN Destinations ELSE gone) /\ l \in Sessions
    BY WhatHolds
  <2>2. Sound(paths, audiences, counts, beacons, l, x) /\ Room(paths, audiences, counts, l, x)
    BY DEF IInv
  <2>3. CASE x \in Sessions
    <3>1. Wanted(l, audiences', counts')[x] = Wanted(l, audiences, counts)[x]
      BY <1>1, <2>3 DEF Wanted
    <3>2. x \notin Destinations
      BY <2>3, SourcesAssumption
    <3>3. x \in Sounding(paths, beacons') <=> x \in Sounding(paths, beacons)
      BY <1>2, <3>2, WhatHolds DEF Sounding
    <3>4. x \notin about[l]
      BY <2>1, <3>2, WhatHolds
    <3> QED BY <2>2, <3>1, <3>3, <3>4 DEF Due, Room, Sound
  <2>4. CASE x \in Destinations /\ l \in DOMAIN counts
    <3>1. x \in about[l]
      BY <2>1, <2>4
    <3>2. /\ Wanted(l, audiences', counts')[x] = (counts[l] \ gone) \cap {x}
          /\ Wanted(l, audiences, counts)[x] = counts[l] \cap {x}
      BY <1>1, <2>4, LoopsAreNoSessions DEF Wanted
    <3>3. x \in Sounding(paths, beacons) /\ x \notin gone => x \in Sounding(paths, beacons')
      BY <1>1, <2>4, LoopsAreNoSessions
    <3> HIDE DEF gone, about
    <3>4. Wanted(l, audiences', counts')[x] # {} => Wanted(l, audiences, counts)[x] # {} /\ x \notin gone
      BY <3>2
    <3> QED BY <2>2, <3>1, <3>3, <3>4 DEF Due, Room, Sound
  <2>5. CASE x \in Destinations /\ l \notin DOMAIN counts
    <3>1. Wanted(l, audiences', counts')[x] = {} /\ Wanted(l, audiences, counts)[x] = {}
      BY <1>1, <2>5, LoopsAreNoSessions DEF Wanted
    <3> QED BY <2>2, <3>1 DEF Due, Room, Sound
  <2> QED BY <2>3, <2>4, <2>5 DEF Sources
<1> HIDE DEF about
<1> QED BY <1>1, <1>2, <1>3, <1>4, CarriedThrough DEF Open

\* What a listener is said to count touches no pair but its own.
LEMMA TheseBeaconsReachIsSound ==
  ASSUME IInv, NEW s \in Sessions, NEW on \in SUBSET Destinations, NEW fails,
         TheseBeaconsReach(s, on, fails)
  PROVE  IInv'
<1> DEFINE about == [m \in Open |-> IF m = s THEN Destinations ELSE {}]
<1>1. /\ counts' = With(counts, s, on)
      /\ paths' = Carry(paths, about, audiences', counts', beacons', fails)
      /\ audiences' = audiences /\ beacons' = beacons /\ stage' = stage
      /\ \A d \in on : Spare(s, d)
  BY DEF TheseBeaconsReach
<1>2. /\ Memory(audiences, counts)' /\ (beacons \subseteq Destinations)'
      /\ (stage \in [Sessions -> Stages])'
  BY <1>1, WhatHolds DEF IInv, TypeOK, Memory, IsMap, With
<1>3. \A l \in Open : WellFormed(paths[l]) /\ stage'[l] # "unopened" /\ about[l] \subseteq Sources
  BY <1>1, WhatHolds DEF IInv, Sources
<1>4. ASSUME NEW l \in Open, NEW x \in Sources
      PROVE  Due(paths, about, audiences', counts', beacons', l, x)
  <2>1. Sound(paths, audiences, counts, beacons, l, x) /\ Room(paths, audiences, counts, l, x)
    BY DEF IInv
  <2>2. CASE x \in Sessions \/ l # s
    <3>1. Wanted(l, audiences', counts')[x] = Wanted(l, audiences, counts)[x]
      BY <1>1, <2>2 DEF Wanted, With
    <3>2. x \notin about[l]
      BY <2>2, SourcesAssumption
    <3> QED BY <1>1, <2>1, <3>1, <3>2 DEF Due, Room, Sound
  <2>3. CASE x \in Destinations /\ l = s
    <3>1. x \in about[l]
      BY <2>3
    <3>2. Wanted(l, audiences', counts')[x] = on \cap {x}
      BY <1>1, <2>3, LoopsAreNoSessions DEF Wanted, With
    <3>3. x \in DOMAIN paths[l].carries => paths[l].decodes /\ x \in Sounding(paths, beacons')
      BY <1>1, <2>1 DEF Sound
    <3>4. x \in on => x \in DOMAIN paths[l].carries \/ paths[l].made[x] < MaxCarriages
      BY <1>1, <2>3 DEF Spare
    <3> QED BY <3>1, <3>2, <3>3, <3>4 DEF Due, Room
  <2> QED BY <2>2, <2>3 DEF Sources
<1> HIDE DEF about
<1> QED BY <1>1, <1>2, <1>3, <1>4, CarriedThrough DEF Open

-----------------------------------------------------------------------------

\* Every instruction leaves every pair of a listener and a source as instructed.
THEOREM Inductive == Spec => []IInv
<1>1. Init => IInv
  BY InitIsSound
<1>2. IInv /\ [Next]_vars => IInv'
  <2> SUFFICES ASSUME IInv, [Next]_vars PROVE IInv'
    OBVIOUS
  <2>1. Talkers \subseteq Sessions /\ Counters \subseteq Sessions /\ Measured \subseteq Destinations
    BY SourcesAssumption
  <2>2. CASE \E s \in Sessions : OpenAPathFor(s)
    BY <2>2, OpenIsSound
  <2>3. CASE \E s \in Sessions : CloseThePathOf(s)
    BY <2>3, CloseIsSound
  <2>4. CASE \E s \in Sessions : \E x \in Sources, n \in 1..MaxCarriages : TheClientHears(s, x, n)
    BY <2>4, HearsIsSound
  <2>5. CASE \E fails \in SUBSET MayFail, s \in Sessions : TheClientWillHear(s, fails)
    BY <2>5, WillHearIsSound
  <2>6. CASE \E fails \in SUBSET MayFail, t \in Talkers : TheClientSpeaks(t, fails)
    BY <2>1, <2>6, SpeaksIsSound
  <2>7. CASE \E fails \in SUBSET MayFail, t \in Talkers : \E audience \in Audiences(t) :
               TheseShouldHear(t, audience, fails)
    BY <2>1, <2>7, TheseShouldHearIsSound DEF Audiences
  <2>8. CASE \E fails \in SUBSET MayFail, loops \in SUBSET Measured :
               \E silent \in SUBSET (loops \ beacons) : TheseLoopsRunBeacons(loops, silent, fails)
    BY <2>1, <2>8, TheseLoopsRunBeaconsIsSound
  <2>9. CASE \E fails \in SUBSET MayFail, l \in Counters, on \in SUBSET Measured :
               TheseBeaconsReach(l, on, fails)
    BY <2>1, <2>9, TheseBeaconsReachIsSound
  <2>10. CASE UNCHANGED vars
    <3>1. /\ paths' = paths /\ audiences' = audiences /\ beacons' = beacons
          /\ counts' = counts /\ stage' = stage
      BY <2>10 DEF vars
    <3>2. ASSUME NEW l \in Open', NEW x \in Sources
          PROVE  (Sound(paths, audiences, counts, beacons, l, x) /\ Room(paths, audiences, counts, l, x))'
      <4>1. Sound(paths, audiences, counts, beacons, l, x) /\ Room(paths, audiences, counts, l, x)
        BY <3>1 DEF Open, IInv
      <4> QED BY <3>1, <4>1
    <3>3. /\ Memory(audiences, counts)' /\ (Open \subseteq Sessions)' /\ (beacons \subseteq Destinations)'
          /\ (\A l \in Open : WellFormed(paths[l]))'
          /\ (stage \in [Sessions -> Stages])' /\ (\A s \in Open : stage[s] # "unopened")'
      BY <3>1, WhatHolds DEF Open, IInv, TypeOK
    <3> QED BY <3>2, <3>3, Established
  <2> QED BY <2>2, <2>3, <2>4, <2>5, <2>6, <2>7, <2>8, <2>9, <2>10 DEF Next
<1> QED BY <1>1, <1>2, PTL DEF Spec

\* The maps of the worker's Paths hold what their types say, within the bounds.
THEOREM TypeCorrect == Spec => []TypeOK
<1>1. IInv => TypeOK
  BY DEF IInv
<1> QED BY <1>1, Inductive, PTL

\* However audiences, paths, answers, microphones and beacons come to be ordered, every
\* path carries exactly what was last instructed, but for what could not be built.
THEOREM InstructedIsCarried == Spec => []CarriesWhatIsInstructed
<1>1. IInv => CarriesWhatIsInstructed
  BY DEF IInv, CarriesWhatIsInstructed, Carriable, Meant, Sound
<1> QED BY <1>1, Inductive, PTL

-----------------------------------------------------------------------------
(* What the client holds, and over which stream.  The argument is one path *)
(* at a time, for no instruction looks at what another path carries.       *)

\* The entry that tells a client of the carriage of x.
EntryOf(carries, x) == [of |-> x, nth |-> carries[x].nth, on |-> carries[x].on]

\* The client holds what is carried, audio runs on what it answered, and no carriage and no
\* answer names one that was never built, so the next to be built has a name of its own.
Honest(p) ==
  /\ p.told = {EntryOf(p.carries, x) : x \in DOMAIN p.carries}
  /\ \A x \in DOMAIN p.carries :
       /\ p.carries[x].nth <= p.made[x]
       /\ p.carries[x].running <=> <<x, p.carries[x].nth>> \in p.answered
  /\ \A x \in Sources, n \in 1..MaxCarriages : <<x, n>> \in p.answered => n <= p.made[x]

\* What p carries and q goes on carrying is the same stream.
Continues(p, q) ==
  \A x \in DOMAIN p.carries \cap DOMAIN q.carries :
    /\ q.carries[x].nth = p.carries[x].nth
    /\ p.carries[x].running => q.carries[x].running

\* Reconciling a path lets go of streams and builds new ones, and says each; what is not
\* built goes on as it was.
LEMMA ReconcilingIsHonest ==
  ASSUME NEW p, WellFormed(p), Honest(p), NEW S \in SUBSET Sources,
         NEW wanted, NEW sounding, NEW failing,
         NEW q, q = Reconciled(p, S, wanted, sounding, failing)
  PROVE  Honest(q) /\ Continues(p, q)
<1> DEFINE held    == S \cap DOMAIN p.carries
           dropped == {x \in held : wanted[x] = {}}
           moved   == {x \in held : wanted[x] \notin {{}, p.carries[x].on}}
           tried   == {x \in (S \ held) \cap sounding : p.decodes /\ wanted[x] # {}}
           built   == tried \ failing
           after   == [x \in (DOMAIN p.carries \ dropped) \cup built |->
                         CASE x \in built -> Built(p, x, wanted[x])
                           [] x \in moved -> Relabelled(p, x, wanted[x])
                           [] OTHER       -> p.carries[x]]
           made    == [x \in Sources |-> p.made[x] + (IF x \in built THEN 1 ELSE 0)]
           told    == StillTold(p, dropped \cup moved) \cup
                      {[of |-> x, nth |-> after[x].nth, on |-> after[x].on] :
                         x \in moved \cup built}
           refused == (p.refused \ S) \cup (tried \cap failing)
<1>1. /\ p.carries \in [DOMAIN p.carries -> Carriage]
      /\ DOMAIN p.carries \subseteq Sources
      /\ p.made \in [Sources -> 0..MaxCarriages]
      /\ p.answered \subseteq Sources \X (1..MaxCarriages)
      /\ MaxCarriages \in Nat
  BY SourcesAssumption DEF WellFormed, IsMap, PathOf
<1>2. q = [p EXCEPT !.carries = after, !.made = made, !.told = told, !.refused = refused]
  BY DEF Reconciled
<1>3. /\ DOMAIN after = (DOMAIN p.carries \ dropped) \cup built
      /\ built \cap DOMAIN p.carries = {} /\ built \subseteq Sources
      /\ moved \subseteq DOMAIN p.carries /\ moved \cap dropped = {}
      /\ told = StillTold(p, dropped \cup moved) \cup
                {EntryOf(after, x) : x \in moved \cup built}
      /\ made = [x \in Sources |-> p.made[x] + (IF x \in built THEN 1 ELSE 0)]
  BY DEF EntryOf
<1>4. ASSUME NEW x \in built
      PROVE  after[x].nth = p.made[x] + 1 /\ after[x].running = FALSE
  BY DEF Built
<1>5. ASSUME NEW x \in moved
      PROVE  after[x].nth = p.carries[x].nth /\ after[x].running = p.carries[x].running
  <2>1. x \notin built /\ x \in DOMAIN after
    BY <1>3
  <2>2. after[x] = [p.carries[x] EXCEPT !.on = wanted[x]]
    BY <2>1 DEF Relabelled
  <2>3. p.carries[x] \in Carriage
    BY <1>1, <1>3
  <2> HIDE DEF after
  <2> QED BY <2>2, <2>3 DEF Carriage
<1>6. ASSUME NEW x \in DOMAIN p.carries \ (dropped \cup moved)
      PROVE  after[x] = p.carries[x]
  BY <1>3
<1> HIDE DEF held, dropped, moved, tried, built, after, made, told, refused
<1>7. /\ q.carries = after /\ q.made = made /\ q.told = told /\ q.answered = p.answered
  BY <1>2 DEF WellFormed, PathOf
<1>8. \A x \in Sources : p.made[x] \in Nat /\ made[x] \in Nat /\ p.made[x] <= made[x]
  BY <1>1, <1>3
<1>9. \A x \in DOMAIN p.carries \cap DOMAIN after :
        /\ after[x].nth = p.carries[x].nth
        /\ after[x].running = p.carries[x].running
  BY <1>3, <1>5, <1>6
<1>10. told = {EntryOf(after, x) : x \in DOMAIN after}
  <2>1. StillTold(p, dropped \cup moved) =
          {EntryOf(p.carries, x) : x \in DOMAIN p.carries \ (dropped \cup moved)}
    BY DEF StillTold, EntryOf, Honest
  <2>2. \A x \in DOMAIN p.carries \ (dropped \cup moved) :
          EntryOf(p.carries, x) = EntryOf(after, x)
    BY <1>6 DEF EntryOf
  <2>3. DOMAIN after = (DOMAIN p.carries \ (dropped \cup moved)) \cup (moved \cup built)
    BY <1>3
  <2> QED BY <1>3, <2>1, <2>2, <2>3
<1>11. ASSUME NEW x \in DOMAIN after
       PROVE  /\ after[x].nth <= made[x]
              /\ after[x].running <=> <<x, after[x].nth>> \in p.answered
  <2>1. CASE x \in built
    <3>1. x \in Sources /\ p.made[x] \in Nat /\ made[x] = p.made[x] + 1
      BY <2>1, <1>3, <1>8
    <3>2. <<x, p.made[x] + 1>> \notin p.answered
      BY <3>1, <1>1 DEF Honest
    <3>3. after[x].nth = p.made[x] + 1 /\ after[x].running = FALSE
      BY <2>1, <1>4
    <3>4. after[x].nth <= made[x]
      BY <3>1, <3>3
    <3>5. <<x, after[x].nth>> \notin p.answered
      BY <3>2, <3>3
    <3>6. after[x].running <=> <<x, after[x].nth>> \in p.answered
      BY <3>3, <3>5, Zenon
    <3> QED BY <3>4, <3>6
  <2>2. CASE x \in DOMAIN p.carries
    <3>1. p.carries[x].nth \in Nat /\ x \in Sources
      BY <2>2, <1>1 DEF Carriage
    <3>2. /\ p.carries[x].nth <= p.made[x]
          /\ p.carries[x].running <=> <<x, p.carries[x].nth>> \in p.answered
      BY <2>2 DEF Honest
    <3>3. after[x].nth = p.carries[x].nth /\ after[x].running = p.carries[x].running
      BY <2>2, <1>9, <1>11
    <3>4. after[x].nth <= made[x]
      BY <3>1, <3>2, <3>3, <1>8
    <3>5. after[x].running <=> <<x, after[x].nth>> \in p.answered
      BY <3>2, <3>3
    <3> QED BY <3>4, <3>5
  <2> QED BY <2>1, <2>2, <1>3
<1>12. \A x \in Sources, n \in 1..MaxCarriages : <<x, n>> \in p.answered => n <= made[x]
  BY <1>8 DEF Honest
<1>13. Honest(q)
  BY <1>7, <1>10, <1>11, <1>12 DEF Honest
<1>14. Continues(p, q)
  BY <1>7, <1>9 DEF Continues
<1> QED BY <1>13, <1>14

\* What a path carries and what was said of it, whatever its client can do.
Alike(p, q) ==
  /\ q.carries = p.carries /\ q.made = p.made
  /\ q.told = p.told /\ q.answered = p.answered

\* Every instruction that carries leaves each path honest, and the streams it goes on with.
LEMMA CarryingIsHonest ==
  ASSUME NEW at, NEW about, NEW aud, NEW cnt, NEW loops, NEW fails,
         paths' = Carry(at, about, aud, cnt, loops, fails),
         DOMAIN at \subseteq Open,
         \A l \in DOMAIN at : /\ WellFormed(at[l]) /\ Alike(paths[l], at[l])
                              /\ about[l] \subseteq Sources,
         \A l \in Open : Honest(paths[l])
  PROVE  /\ \A l \in DOMAIN paths' : Honest(paths'[l])
         /\ \A l \in Open \cap DOMAIN paths' : Continues(paths[l], paths'[l])
<1>1. DOMAIN paths' = DOMAIN at
  BY DEF Carry
<1>2. ASSUME NEW l \in DOMAIN at
      PROVE  Honest(paths'[l]) /\ Continues(paths[l], paths'[l])
  <2>1. Honest(at[l]) /\ WellFormed(at[l]) /\ about[l] \in SUBSET Sources
    BY DEF Honest, Alike
  <2>2. paths'[l] = Reconciled(at[l], about[l], Wanted(l, aud, cnt), Sounding(at, loops),
                               {x \in Sources : <<l, x>> \in fails})
    BY DEF Carry
  <2>3. Honest(paths'[l]) /\ Continues(at[l], paths'[l])
    BY <2>1, <2>2, ReconcilingIsHonest
  <2> QED BY <2>3 DEF Continues, Alike
<1> QED BY <1>1, <1>2

Honesty == \A l \in Open : Honest(paths[l])

\* No step leaves a path that says what is not so, or a stream interrupted.
LEMMA StepsAreHonest ==
  ASSUME IInv, Honesty, [Next]_vars
  PROVE  /\ Honesty'
         /\ \A l \in Open \cap DOMAIN paths' : Continues(paths[l], paths'[l])
<1> DEFINE Goal == /\ \A l \in DOMAIN paths' : Honest(paths'[l])
                   /\ \A l \in Open \cap DOMAIN paths' : Continues(paths[l], paths'[l])
<1> SUFFICES Goal
  BY DEF Honesty, Open
<1>1. /\ \A l \in Open : WellFormed(paths[l]) /\ l \in Sources /\ Honest(paths[l])
      /\ beacons \subseteq Destinations
  BY WhatHolds DEF Honesty, Sources
<1>2. ASSUME paths' = paths PROVE Goal
  BY <1>1, <1>2 DEF Continues, Open
<1>3. ASSUME NEW s \in Sessions, OpenAPathFor(s) PROVE Goal
  <2>1. CASE paths' = paths
    BY <2>1, <1>2
  <2>2. CASE paths' = With(paths, s, NewPath)
    <3>1. s \notin Open
      BY <1>3 DEF IInv, OpenAPathFor
    <3>2. /\ DOMAIN paths' = Open \cup {s} /\ paths'[s] = NewPath
          /\ \A l \in Open : paths'[l] = paths[l]
      BY <2>2, <3>1 DEF With, Open
    <3>3. Honest(NewPath)
      BY DEF Honest, NewPath
    <3> QED BY <1>1, <3>1, <3>2, <3>3 DEF Continues
  <2> QED BY <1>3, <2>1, <2>2 DEF OpenAPathFor
<1>4. ASSUME NEW s \in Sessions, CloseThePathOf(s) PROVE Goal
  <2> DEFINE left  == Without(paths, s)
             about == [l \in Open |-> {s}]
  <2>1. paths' = Carry(left, about, audiences', counts', beacons, {})
    BY <1>4 DEF CloseThePathOf
  <2>2. DOMAIN left \subseteq Open /\ \A l \in DOMAIN left : left[l] = paths[l]
    BY DEF Without, Restrict, Open
  <2>3. \A l \in DOMAIN left : about[l] \subseteq Sources
    BY <2>2 DEF Sources
  <2> HIDE DEF left, about
  <2> QED BY <1>1, <2>1, <2>2, <2>3, CarryingIsHonest DEF Alike
<1>5. ASSUME NEW fails, NEW s \in Sessions, TheClientWillHear(s, fails) PROVE Goal
  <2> DEFINE able  == [l \in Open |-> [paths[l] EXCEPT !.decodes = @ \/ l = s]]
             about == [l \in Open |-> AlreadySaid(s) \cup
                        (IF l = s /\ s \in DOMAIN counts THEN Destinations ELSE {})]
  <2>1. paths' = Carry(able, about, audiences, counts, beacons, fails)
    BY <1>5 DEF TheClientWillHear
  <2>2. DOMAIN able = Open /\ \A l \in Open : WellFormed(able[l]) /\ Alike(paths[l], able[l])
    BY <1>1 DEF WellFormed, PathOf, Alike
  <2>3. \A l \in Open : about[l] \subseteq Sources
    BY WhatHolds DEF AlreadySaid, Memory, IsMap, Sources
  <2> HIDE DEF able, about
  <2> QED BY <1>1, <2>1, <2>2, <2>3, CarryingIsHonest
<1>6. ASSUME NEW fails, NEW s \in Sessions, TheClientSpeaks(s, fails) PROVE Goal
  <2> DEFINE heard == [paths EXCEPT ![s].speaks = TRUE]
             about == [l \in Open |-> DOMAIN audiences \cap {s}]
  <2>1. paths' = Carry(heard, about, audiences, counts, beacons, fails)
    BY <1>6 DEF TheClientSpeaks
  <2>2. DOMAIN heard = Open /\ \A l \in Open : WellFormed(heard[l]) /\ Alike(paths[l], heard[l])
    BY <1>1 DEF WellFormed, PathOf, Alike, Open
  <2>3. \A l \in Open : about[l] \subseteq Sources
    BY DEF Sources
  <2> HIDE DEF heard, about
  <2> QED BY <1>1, <2>1, <2>2, <2>3, CarryingIsHonest
<1>7. ASSUME NEW at \in {paths}, NEW about, NEW aud, NEW cnt, NEW loops, NEW fails,
             paths' = Carry(at, about, aud, cnt, loops, fails),
             \A l \in Open : about[l] \subseteq Sources
      PROVE  Goal
  BY <1>1, <1>7, CarryingIsHonest DEF Alike, Open
<1>8. ASSUME NEW t \in Sessions, NEW audience, NEW fails, TheseShouldHear(t, audience, fails)
      PROVE  Goal
  <2> DEFINE about == [l \in Open |-> {t}]
  <2>1. paths' = Carry(paths, about, audiences', counts, beacons, fails)
    BY <1>8 DEF TheseShouldHear
  <2>2. \A l \in Open : about[l] \subseteq Sources
    BY DEF Sources
  <2> HIDE DEF about
  <2> QED BY <1>7, <2>1, <2>2
<1>9. ASSUME NEW loops, NEW silent, NEW fails, TheseLoopsRunBeacons(loops, silent, fails)
      PROVE  Goal
  <2> DEFINE about == [l \in Open |-> IF l \in DOMAIN counts THEN Destinations
                                                               ELSE beacons \ loops]
  <2>1. paths' = Carry(paths, about, audiences, counts', beacons', fails)
    BY <1>9 DEF TheseLoopsRunBeacons
  <2>2. \A l \in Open : about[l] \subseteq Sources
    BY <1>1 DEF Sources
  <2> HIDE DEF about
  <2> QED BY <1>7, <2>1, <2>2
<1>10. ASSUME NEW s, NEW on, NEW fails, TheseBeaconsReach(s, on, fails) PROVE Goal
  <2> DEFINE about == [m \in Open |-> IF m = s THEN Destinations ELSE {}]
  <2>1. paths' = Carry(paths, about, audiences, counts', beacons, fails)
    BY <1>10 DEF TheseBeaconsReach
  <2>2. \A l \in Open : about[l] \subseteq Sources
    BY DEF Sources
  <2> HIDE DEF about
  <2> QED BY <1>7, <2>1, <2>2
<1>11. ASSUME NEW s \in Sessions, NEW x \in Sources, NEW n \in 1..MaxCarriages,
              TheClientHears(s, x, n)
       PROVE  Goal
  <2> DEFINE p == paths[s]
             heard == Running(p, x, n)
  <2>1. s \in Open /\ n <= p.made[x] /\ paths' = [paths EXCEPT ![s] = Resumed(p, x, n)]
    BY <1>11 DEF TheClientHears
  <2>2. DOMAIN paths' = Open /\ \A l \in Open : l # s => paths'[l] = paths[l]
    BY <2>1 DEF Open
  <2>3. paths'[s] = [p EXCEPT !.answered = @ \cup {<<x, n>>}, !.carries = heard]
    BY <2>1 DEF Open, Resumed
  <2>4. WellFormed(p) /\ Honest(p)
    BY <1>1, <2>1
  <2>5. /\ DOMAIN heard = DOMAIN p.carries
        /\ \A y \in DOMAIN heard :
             /\ heard[y].nth = p.carries[y].nth /\ heard[y].on = p.carries[y].on
             /\ heard[y].running <=> (p.carries[y].running \/ (y = x /\ p.carries[y].nth = n))
    <3>1. \A y \in DOMAIN p.carries : p.carries[y] \in Carriage
      BY <2>4 DEF WellFormed, IsMap
    <3>2. /\ DOMAIN heard = DOMAIN p.carries
          /\ \A y \in DOMAIN heard :
               heard[y] = [p.carries[y] EXCEPT !.running = @ \/ (y = x /\ p.carries[y].nth = n)]
      BY DEF Running, Names
    <3> HIDE DEF heard, p
    <3> QED BY <3>1, <3>2 DEF Carriage
  <2> HIDE DEF p, heard
  <2>6. /\ paths'[s].carries = heard /\ paths'[s].made = p.made /\ paths'[s].told = p.told
        /\ paths'[s].answered = p.answered \cup {<<x, n>>}
    BY <2>3, <2>4 DEF WellFormed, PathOf
  <2>7. {EntryOf(heard, y) : y \in DOMAIN heard} = {EntryOf(p.carries, y) : y \in DOMAIN p.carries}
    BY <2>5 DEF EntryOf
  <2>8. Honest(paths'[s])
    <3>1. ASSUME NEW y \in DOMAIN heard
          PROVE  /\ heard[y].nth <= p.made[y]
                 /\ heard[y].running <=> <<y, heard[y].nth>> \in p.answered \cup {<<x, n>>}
      <4>1. /\ p.carries[y].nth <= p.made[y]
            /\ p.carries[y].running <=> <<y, p.carries[y].nth>> \in p.answered
        BY <2>4, <2>5 DEF Honest
      <4> QED BY <4>1, <2>5
    <3>2. \A y \in Sources, m \in 1..MaxCarriages :
            <<y, m>> \in p.answered \cup {<<x, n>>} => m <= p.made[y]
      BY <2>1, <2>4 DEF Honest
    <3>3. p.told = {EntryOf(heard, y) : y \in DOMAIN heard}
      BY <2>4, <2>7 DEF Honest
    <3> QED BY <3>1, <3>2, <3>3, <2>6 DEF Honest
  <2>9. Continues(p, paths'[s])
    BY <2>5, <2>6 DEF Continues
  <2>10. \A l \in Open : l # s => Continues(paths[l], paths'[l])
    BY <2>2 DEF Continues
  <2> QED BY <1>1, <2>2, <2>8, <2>9, <2>10 DEF p
<1>12. CASE UNCHANGED vars
  BY <1>2, <1>12 DEF vars
<1>13. Talkers \subseteq Sessions
  BY SourcesAssumption
<1> HIDE DEF Goal
<1>14. CASE Next
  BY <1>3, <1>4, <1>5, <1>6, <1>8, <1>9, <1>10, <1>11, <1>13, <1>14 DEF Next
<1> QED BY <1>12, <1>14

\* With what IInv says, it holds of every behaviour.
LEMMA AlwaysHonest == Spec => []Honesty
<1>1. Init => Honesty
  BY DEF Init, Honesty, Open
<1>2. IInv /\ Honesty /\ [Next]_vars => Honesty'
  BY StepsAreHonest
<1> QED BY <1>1, <1>2, Inductive, PTL DEF Spec

\* A client that reads everything it is sent holds exactly what its path carries, each on
\* the loops it is heard on, however instructions and its own answers are ordered.
THEOREM ClientsAreTold == Spec => []ToldWhatIsCarried
<1>1. Honesty => ToldWhatIsCarried
  BY DEF Honesty, Honest, EntryOf, ToldWhatIsCarried
<1> QED BY <1>1, AlwaysHonest, PTL

\* Audio runs on a carriage exactly from when its client says that it built that one: an
\* answer about an earlier carriage of the same source starts nothing.
THEOREM RunsOnItsOwnAnswer == Spec => []RunsWhatWasAnswered
<1>1. Honesty => RunsWhatWasAnswered
  BY DEF Honesty, Honest, RunsWhatWasAnswered
<1> QED BY <1>1, AlwaysHonest, PTL

\* What goes on being carried goes on over the same stream, whatever is instructed.
THEOREM StreamsGoOn == Spec => NoStreamIsInterrupted
<1>1. IInv /\ Honesty /\ [Next]_vars =>
        [\A l \in Open \cap DOMAIN paths' :
           \A x \in DOMAIN paths[l].carries \cap DOMAIN paths'[l].carries :
             /\ paths'[l].carries[x].nth = paths[l].carries[x].nth
             /\ paths[l].carries[x].running => paths'[l].carries[x].running]_paths
  BY StepsAreHonest DEF Continues
<1> QED BY <1>1, Inductive, AlwaysHonest, PTL DEF Spec, NoStreamIsInterrupted

-----------------------------------------------------------------------------
(* Saying an instruction again.                                            *)

\* Where every source of S is carried as it is wanted, or could not be carried and was not
\* refused, reconciling leaves the path as it was.
LEMMA NothingToReconcile ==
  ASSUME NEW p, WellFormed(p), NEW S, NEW wanted, NEW sounding, NEW failing,
         p.refused = {},
         \A x \in S :
           IF x \in DOMAIN p.carries
             THEN wanted[x] # {} /\ p.carries[x].on = wanted[x]
             ELSE ~(p.decodes /\ x \in sounding /\ wanted[x] # {})
  PROVE  Reconciled(p, S, wanted, sounding, failing) = p
<1> DEFINE held    == S \cap DOMAIN p.carries
           dropped == {x \in held : wanted[x] = {}}
           moved   == {x \in held : wanted[x] \notin {{}, p.carries[x].on}}
           tried   == {x \in (S \ held) \cap sounding : p.decodes /\ wanted[x] # {}}
           built   == tried \ failing
           after   == [x \in (DOMAIN p.carries \ dropped) \cup built |->
                         CASE x \in built -> Built(p, x, wanted[x])
                           [] x \in moved -> Relabelled(p, x, wanted[x])
                           [] OTHER       -> p.carries[x]]
           made    == [x \in Sources |-> p.made[x] + (IF x \in built THEN 1 ELSE 0)]
           told    == StillTold(p, dropped \cup moved) \cup
                      {[of |-> x, nth |-> after[x].nth, on |-> after[x].on] :
                         x \in moved \cup built}
           refused == (p.refused \ S) \cup (tried \cap failing)
<1>1. /\ p.carries \in [DOMAIN p.carries -> Carriage]
      /\ p.made \in [Sources -> 0..MaxCarriages]
      /\ MaxCarriages \in Nat
      /\ p \in PathOf(p.carries)
  BY SourcesAssumption DEF WellFormed, IsMap, PathOf
<1>2. dropped = {} /\ moved = {} /\ tried = {}
  OBVIOUS
<1>3. built = {}
  BY <1>2
<1>4. Reconciled(p, S, wanted, sounding, failing) =
        [p EXCEPT !.carries = after, !.made = made, !.told = told, !.refused = refused]
  BY DEF Reconciled
<1>5. after = p.carries
  BY <1>1, <1>2, <1>3
<1>6. made = p.made
  <2>1. \A x \in Sources : made[x] = p.made[x]
    BY <1>1, <1>3
  <2> HIDE DEF built
  <2> QED BY <1>1, <2>1
<1>7. told = p.told
  BY <1>2, <1>3 DEF StillTold
<1>8. refused = p.refused
  BY <1>2
<1> HIDE DEF after, made, told, refused
<1> QED BY <1>1, <1>4, <1>5, <1>6, <1>7, <1>8 DEF PathOf

\* A step that brings every path in line with what is remembered already leaves alone
\* each path that nothing was refused on.
LEMMA CarryingAgain ==
  ASSUME IInv, NEW about, \A l \in Open : about[l] \subseteq Sources, NEW fails,
         paths' = Carry(paths, about, audiences, counts, beacons, fails),
         NEW l \in Open, paths[l].refused = {}
  PROVE  paths'[l] = paths[l]
<1>1. WellFormed(paths[l])
  BY WhatHolds
<1>2. \A x \in Sources : Sound(paths, audiences, counts, beacons, l, x)
  BY DEF IInv
<1>3. \A x \in about[l] :
        IF x \in DOMAIN paths[l].carries
          THEN /\ Wanted(l, audiences, counts)[x] # {}
               /\ paths[l].carries[x].on = Wanted(l, audiences, counts)[x]
          ELSE ~(/\ paths[l].decodes
                 /\ x \in Sounding(paths, beacons)
                 /\ Wanted(l, audiences, counts)[x] # {})
  BY <1>2 DEF Sound
<1>4. paths'[l] = Reconciled(paths[l], about[l], Wanted(l, audiences, counts),
                             Sounding(paths, beacons), {x \in Sources : <<l, x>> \in fails})
  BY DEF Carry, Open
<1> QED BY <1>1, <1>3, <1>4, NothingToReconcile

\* A routing in which anything moved is handed down whole, so most of what the media plane
\* is instructed it was instructed before: an audience, what somebody counts or the loops that
\* run beacons, said again as they were last said, touch nothing of a listener for whom
\* everything could be built.  Nothing is torn down, renamed or said to the client, and
\* only what was missing is tried again (these_hear, these_count).
SaidAgainChangesNothing ==
  [][\A fails \in SUBSET MayFail :
       \/ \E t \in DOMAIN audiences : TheseShouldHear(t, audiences[t], fails)
       \/ \E l \in DOMAIN counts : TheseBeaconsReach(l, counts[l], fails)
       \/ TheseLoopsRunBeacons(beacons, {}, fails)
     => \A l \in Open : paths[l].refused = {} => paths'[l] = paths[l]]_vars

\* However instructions and answers have been ordered so far, saying one again is harmless
\* (these_should_hear, these_beacons_reach, these_loops_run_beacons).
THEOREM SayingItAgainIsHarmless == Spec => SaidAgainChangesNothing
<1>1. ASSUME IInv, NEW fails,
             \/ \E t \in DOMAIN audiences : TheseShouldHear(t, audiences[t], fails)
             \/ \E l \in DOMAIN counts : TheseBeaconsReach(l, counts[l], fails)
             \/ TheseLoopsRunBeacons(beacons, {}, fails),
             NEW l \in Open, paths[l].refused = {}
      PROVE  paths'[l] = paths[l]
  <2>1. Memory(audiences, counts) /\ beacons \subseteq Destinations
    BY <1>1, WhatHolds
  <2>2. CASE \E t \in DOMAIN audiences : TheseShouldHear(t, audiences[t], fails)
    <3>1. PICK t \in DOMAIN audiences : TheseShouldHear(t, audiences[t], fails)
      BY <2>2
    <3> DEFINE about == [m \in Open |-> {t}]
    <3>2. t \in Sources
      BY <2>1 DEF Memory, IsMap, Sources
    <3>3. audiences' = audiences
      BY <2>1, <3>1 DEF TheseShouldHear, With, Memory, IsMap
    <3>4. paths' = Carry(paths, about, audiences, counts, beacons, fails)
      BY <3>1, <3>3 DEF TheseShouldHear
    <3>5. \A m \in Open : about[m] \subseteq Sources
      BY <3>2
    <3> HIDE DEF about
    <3> QED BY <1>1, <3>4, <3>5, CarryingAgain
  <2>3. CASE \E m \in DOMAIN counts : TheseBeaconsReach(m, counts[m], fails)
    <3>1. PICK m \in DOMAIN counts : TheseBeaconsReach(m, counts[m], fails)
      BY <2>3
    <3> DEFINE about == [n \in Open |-> IF n = m THEN Destinations ELSE {}]
    <3>2. counts' = counts
      BY <2>1, <3>1 DEF TheseBeaconsReach, With, Memory, IsMap
    <3>3. paths' = Carry(paths, about, audiences, counts, beacons, fails)
      BY <3>1, <3>2 DEF TheseBeaconsReach
    <3>4. \A n \in Open : about[n] \subseteq Sources
      BY DEF Sources
    <3> HIDE DEF about
    <3> QED BY <1>1, <3>3, <3>4, CarryingAgain
  <2>4. CASE TheseLoopsRunBeacons(beacons, {}, fails)
    <3> DEFINE about == [m \in Open |-> IF m \in DOMAIN counts THEN Destinations
                                         ELSE beacons \ beacons]
    <3>1. beacons' = beacons
      BY <2>4 DEF TheseLoopsRunBeacons
    <3>2. counts' = counts
      BY <2>1, <2>4 DEF TheseLoopsRunBeacons, Memory, IsMap
    <3>3. paths' = Carry(paths, about, audiences, counts, beacons, fails)
      BY <2>4, <3>1, <3>2 DEF TheseLoopsRunBeacons
    <3>4. \A m \in Open : about[m] \subseteq Sources
      BY DEF Sources
    <3> HIDE DEF about
    <3> QED BY <1>1, <3>3, <3>4, CarryingAgain
  <2> QED BY <1>1, <2>2, <2>3, <2>4
<1> DEFINE again == \A fails \in SUBSET MayFail :
                      \/ \E t \in DOMAIN audiences : TheseShouldHear(t, audiences[t], fails)
                      \/ \E l \in DOMAIN counts : TheseBeaconsReach(l, counts[l], fails)
                      \/ TheseLoopsRunBeacons(beacons, {}, fails)
                    => \A l \in Open : paths[l].refused = {} => paths'[l] = paths[l]
<1>2. IInv => [again]_vars
  BY <1>1
<1> QED BY <1>2, Inductive, PTL DEF SaidAgainChangesNothing
=============================================================================

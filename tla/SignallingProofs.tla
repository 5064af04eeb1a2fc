-------------------------- MODULE SignallingProofs --------------------------
(***************************************************************************)
(* Proofs about Signalling, for every population of sockets, users, roles  *)
(* and names, every limit and everything the store may fail to do.         *)
(***************************************************************************)
EXTENDS Signalling, FiniteSetTheorems, SequenceTheorems, TLAPS

-----------------------------------------------------------------------------
(* An Option, as a set.                                                    *)

AtMostOne(S) == \A s, t \in S : s = t

LEMMA AtMostOneIsCounted ==
  ASSUME NEW S, AtMostOne(S)
  PROVE  Cardinality(S) <= 1
<1>1. CASE S = {}
  BY <1>1, FS_EmptySet
<1>2. CASE S # {}
  <2>1. PICK s \in S : S = {s}
    BY <1>2 DEF AtMostOne
  <2> QED
    BY <2>1, FS_Singleton
<1> QED
  BY <1>1, <1>2

LEMMA TheOneIs ==
  ASSUME NEW S, AtMostOne(S), S # {}
  PROVE  (CHOOSE s \in S : TRUE) \in S /\ S = {CHOOSE s \in S : TRUE}
BY DEF AtMostOne

-----------------------------------------------------------------------------
(* The seats.                                                              *)

\* The names are minted once and a user sits in one place.
SeatsAreSound ==
  /\ issued \subseteq Names
  /\ Seated \subseteq issued
  /\ seats \in [Seated -> Seat]
  /\ \A s, t \in Seated : seats[s].occupant = seats[t].occupant => s = t

\* All that a step does to the seats, but for the taking of one.
SeatsOnlyGo ==
  /\ Seated' \subseteq Seated
  /\ \A s \in Seated' : seats'[s] = seats[s]
  /\ seats' \in [Seated' -> Seat]
  /\ issued' = issued

LEMMA LeavingIs ==
  ASSUME SeatsAreSound, NEW s, Leave(s)
  PROVE  SeatsOnlyGo /\ Seated' = Seated \ {s} /\ UNCHANGED owed
BY DEF SeatsAreSound, SeatsOnlyGo, Leave, Seated, Restrict

LEMMA SettlingIs ==
  ASSUME SeatsAreSound, NEW kept, Settle(kept)
  PROVE  SeatsOnlyGo /\ Seated' = Seated
BY DEF SeatsAreSound, SeatsOnlyGo, Settle, Seated

LEMMA NothingIs ==
  ASSUME SeatsAreSound, UNCHANGED seatVars
  PROVE  SeatsOnlyGo /\ Seated' = Seated
BY DEF SeatsAreSound, SeatsOnlyGo, seatVars, Seated

LEMMA TakingIs ==
  ASSUME SeatsAreSound, NEW u \in Users, NEW r \in Roles, NEW n \in Names, Take(u, r, n)
  PROVE  /\ n \notin issued /\ issued' = issued \cup {n}
         /\ Seated' = (Seated \ SeatsOf(u)) \cup {n}
         /\ \A s \in Seated' \ {n} : seats'[s] = seats[s]
         /\ seats'[n].occupant = u
         /\ seats' \in [Seated' -> Seat]
BY DEF SeatsAreSound, Take, Seated, Seat, SeatsOf

LEMMA SeatsThatGoAreSound ==
  ASSUME SeatsAreSound, SeatsOnlyGo
  PROVE  SeatsAreSound'
BY DEF SeatsAreSound, SeatsOnlyGo, Seated

LEMMA TakingIsSound ==
  ASSUME SeatsAreSound, NEW u \in Users, NEW r \in Roles, NEW n \in Names, Take(u, r, n)
  PROVE  SeatsAreSound'
<1>1. n \notin Seated
  BY TakingIs DEF SeatsAreSound
<1>2. \A s \in Seated' \ {n} : s \in Seated /\ seats[s].occupant # u /\ seats'[s] = seats[s]
  BY TakingIs DEF SeatsOf
<1>3. \A s, t \in Seated' : seats'[s].occupant = seats'[t].occupant => s = t
  BY <1>2, TakingIs DEF SeatsAreSound
<1>4. issued' \subseteq Names /\ Seated' \subseteq issued'
  BY TakingIs DEF SeatsAreSound
<1>5. seats' \in [Seated' -> Seat]
  BY TakingIs
<1> QED
  BY <1>3, <1>4, <1>5 DEF SeatsAreSound

LEMMA TakenBackIs ==
  ASSUME SeatsAreSound, NEW k, AtMostOne(assumed[k]), assumed[k] # {}, TakesItBack(k)
  PROVE  SeatsOnlyGo /\ Seated' = Seated \ assumed[k]
<1> DEFINE n == CHOOSE s \in assumed[k] : TRUE
<1>1. assumed[k] = {n}
  BY TheOneIs
<1>2. CASE assumed[k] \subseteq Seated
  <2>1. Leave(n)
    BY <1>2 DEF TakesItBack
  <2> HIDE DEF n
  <2> QED
    BY <1>1, <2>1, LeavingIs
<1>3. CASE ~(assumed[k] \subseteq Seated)
  <2>1. UNCHANGED seatVars
    BY <1>3 DEF TakesItBack
  <2> HIDE DEF n
  <2> QED
    BY <1>1, <1>3, <2>1, NothingIs
<1> QED
  BY <1>2, <1>3

-----------------------------------------------------------------------------
(* The log.                                                                *)

Has(L, entry) == \E i \in DOMAIN L : L[i] = entry

Distinct(L) == \A i, j \in DOMAIN L : L[i] = L[j] => i = j

LEMMA JoinedIs ==
  ASSUME NEW L \in Seq(Entry), NEW M \in Seq(Entry)
  PROVE  /\ L \o M \in Seq(Entry)
         /\ \A entry : Has(L \o M, entry) <=> Has(L, entry) \/ Has(M, entry)
<1>1. /\ L \o M \in Seq(Entry)
      /\ Len(L \o M) = Len(L) + Len(M)
      /\ \A i \in 1..Len(L) : (L \o M)[i] = L[i]
      /\ \A i \in 1..Len(M) : (L \o M)[Len(L) + i] = M[i]
  BY ConcatProperties
<1> USE LenProperties
<1>2. ASSUME NEW entry, Has(L \o M, entry) PROVE Has(L, entry) \/ Has(M, entry)
  <2>1. PICK i \in 1..Len(L \o M) : (L \o M)[i] = entry
    BY <1>1, <1>2 DEF Has
  <2>2. CASE i \in 1..Len(L)
    BY <1>1, <2>1, <2>2 DEF Has
  <2>3. CASE i \notin 1..Len(L)
    <3>1. i - Len(L) \in 1..Len(M) /\ i = Len(L) + (i - Len(L))
      BY <1>1, <2>1, <2>3
    <3> QED
      BY <1>1, <2>1, <3>1 DEF Has
  <2> QED
    BY <2>2, <2>3
<1>3. ASSUME NEW entry, Has(L, entry) PROVE Has(L \o M, entry)
  <2>1. PICK i \in 1..Len(L) : L[i] = entry
    BY <1>3 DEF Has
  <2>2. i \in 1..Len(L \o M) /\ (L \o M)[i] = entry
    BY <1>1, <2>1
  <2> QED
    BY <1>1, <2>2 DEF Has
<1>4. ASSUME NEW entry, Has(M, entry) PROVE Has(L \o M, entry)
  <2>1. PICK i \in 1..Len(M) : M[i] = entry
    BY <1>4 DEF Has
  <2>2. Len(L) + i \in 1..Len(L \o M) /\ (L \o M)[Len(L) + i] = entry
    BY <1>1, <2>1
  <2> QED
    BY <1>1, <2>2 DEF Has
<1> QED
  BY <1>1, <1>2, <1>3, <1>4

\* What is appended for the first time is there once.
LEMMA JoinedIsDistinct ==
  ASSUME NEW L \in Seq(Entry), NEW M \in Seq(Entry), Distinct(L), Distinct(M),
         \A i \in DOMAIN M : ~Has(L, M[i])
  PROVE  Distinct(L \o M)
<1> USE LenProperties
<1>1. /\ L \o M \in Seq(Entry)
      /\ Len(L \o M) = Len(L) + Len(M)
      /\ \A i \in 1..Len(L) : (L \o M)[i] = L[i]
      /\ \A i \in 1..Len(M) : (L \o M)[Len(L) + i] = M[i]
  BY ConcatProperties
<1>2. \A i \in 1..Len(L \o M) :
        \/ i \in 1..Len(L)
        \/ i - Len(L) \in 1..Len(M) /\ (L \o M)[i] = M[i - Len(L)]
  <2> TAKE i \in 1..Len(L \o M)
  <2>1. i \in 1..Len(L) \/ i - Len(L) \in 1..Len(M)
    BY <1>1
  <2>2. i = Len(L) + (i - Len(L))
    OBVIOUS
  <2> QED
    BY <1>1, <2>1, <2>2
<1>3. \A i \in 1..Len(L), j \in 1..Len(M) : L[i] # M[j]
  BY DEF Has
<1>4. \A i, j \in 1..Len(L) : L[i] = L[j] => i = j
  BY DEF Distinct
<1>5. \A i, j \in 1..Len(M) : M[i] = M[j] => i = j
  BY DEF Distinct
<1>6. ASSUME NEW i \in 1..Len(L \o M), NEW j \in 1..Len(L \o M),
             (L \o M)[i] = (L \o M)[j]
      PROVE  i = j
  BY <1>1, <1>2, <1>3, <1>4, <1>5, <1>6
<1> QED
  BY <1>1, <1>6 DEF Distinct

LEMMA OneEntryIs ==
  ASSUME NEW e \in Entry
  PROVE  /\ <<e>> \in Seq(Entry) /\ Distinct(<<e>>)
         /\ \A entry : Has(<<e>>, entry) <=> entry = e
<1>1. <<e>> \in Seq(Entry) /\ DOMAIN <<e>> = {1} /\ <<e>>[1] = e
  OBVIOUS
<1> QED
  BY <1>1 DEF Has, Distinct

LEMMA EndingsAre ==
  ASSUME NEW S, AtMostOne(S), S \subseteq Names
  PROVE  /\ Endings(S) \in Seq(Entry) /\ Distinct(Endings(S))
         /\ \A entry : Has(Endings(S), entry) <=> \E s \in S : entry = Ended(s)
<1>1. CASE S = {}
  <2>1. Endings(S) = <<>> /\ <<>> \in Seq(Entry) /\ DOMAIN <<>> = {}
    BY <1>1 DEF Endings
  <2> QED
    BY <1>1, <2>1 DEF Has, Distinct
<1>2. CASE S # {}
  <2>1. PICK s \in S : S = {s} /\ Endings(S) = <<Ended(s)>>
    BY <1>2, TheOneIs DEF Endings
  <2>2. Ended(s) \in Entry
    BY DEF Ended, Entry
  <2> QED
    BY <2>1, <2>2, OneEntryIs
<1> QED
  BY <1>1, <1>2

-----------------------------------------------------------------------------
(* The invariant.                                                          *)

OptionsOf(f, S) == f \in [Sockets -> SUBSET S] /\ \A k \in Sockets : AtMostOne(f[k])

\* The type, and what makes the seats and the names what they are.
Shaped ==
  /\ SeatsAreSound
  /\ at \in [Sockets -> Places]
  /\ OptionsOf(session, issued) /\ OptionsOf(assumed, issued)
  /\ OptionsOf(ending, issued) /\ OptionsOf(untold, issued)
  /\ log \in Seq(Entry) /\ \A entry : Has(log, entry) => entry.of \in issued
  /\ gone \cup lost \cup paths \subseteq issued

LEMMA OptionsKept ==
  ASSUME NEW f, NEW S, NEW T, S \subseteq T, OptionsOf(f, S)
  PROVE  OptionsOf(f, T)
BY DEF OptionsOf

LEMMA OptionSet ==
  ASSUME NEW f, NEW S, OptionsOf(f, S), NEW k \in Sockets, NEW V \in SUBSET S, AtMostOne(V)
  PROVE  OptionsOf([f EXCEPT ![k] = V], S)
BY DEF OptionsOf

LEMMA NoneIsAnOption == AtMostOne({})
BY DEF AtMostOne

\* The seats a socket's user holds are one at most.
LEMMA SeatsOfIsOne ==
  ASSUME SeatsAreSound, NEW u
  PROVE  SeatsOf(u) \subseteq issued /\ AtMostOne(SeatsOf(u))
BY DEF SeatsAreSound, SeatsOf, AtMostOne

-----------------------------------------------------------------------------
(* The shape is kept.                                                      *)

LEMMA ShapedAtFirst == Init => Shaped
<1> SUFFICES ASSUME Init PROVE Shaped
  OBVIOUS
<1>1. SeatsAreSound
  BY DEF Init, SeatsInit, SeatsAreSound, Seated
<1>2. \A f : f = [k \in Sockets |-> {}] => OptionsOf(f, issued)
  BY NoneIsAnOption DEF OptionsOf
<1>3. log \in Seq(Entry) /\ \A entry : ~Has(log, entry)
  BY DEF Init, Has
<1> QED
  BY <1>1, <1>2, <1>3 DEF Init, Shaped, Places

\* A step that takes no seat keeps the shape if what it sets has the shape.
LEMMA KeepsTheShape ==
  ASSUME Shaped, SeatsOnlyGo, NEW k \in Sockets,
         \E p \in Places : at' = [at EXCEPT ![k] = p],
         OptionsOf(session', issued), OptionsOf(assumed', issued),
         OptionsOf(ending', issued), OptionsOf(untold', issued),
         log' \in Seq(Entry), \A entry : Has(log', entry) => entry.of \in issued,
         gone' \cup lost' \cup paths' \subseteq issued
  PROVE  Shaped'
<1>1. issued' = issued
  BY DEF SeatsOnlyGo
<1>2. SeatsAreSound'
  BY SeatsThatGoAreSound DEF Shaped
<1>3. at' \in [Sockets -> Places]
  BY DEF Shaped
<1> QED
  BY <1>1, <1>2, <1>3 DEF Shaped, OptionsOf, Has

LEMMA BreakingKeepsTheShape ==
  ASSUME Shaped, SeatsOnlyGo, NEW k \in Sockets, NEW unaccounted \in SUBSET issued,
         Breaks(k, unaccounted), UNCHANGED <<log, paths>>
  PROVE  Shaped'
<1>1. \E p \in Places : at' = [at EXCEPT ![k] = p]
  BY DEF Breaks, Places
<1>2. /\ OptionsOf(session', issued) /\ OptionsOf(assumed', issued)
      /\ OptionsOf(ending', issued) /\ OptionsOf(untold', issued)
  BY OptionSet, NoneIsAnOption DEF Breaks, Shaped
<1>3. gone' \cup lost' \cup paths' \subseteq issued
  BY DEF Breaks, Shaped, SeatsAreSound
<1>4. log' \in Seq(Entry) /\ \A entry : Has(log', entry) => entry.of \in issued
  BY DEF Shaped
<1> QED
  BY <1>1, <1>2, <1>3, <1>4, KeepsTheShape

LEMMA AssumingKeepsTheShape ==
  ASSUME Shaped, SocketsAssumption,
         NEW k \in Sockets, NEW r \in Roles, NEW n \in Names, Assumes(k, r, n)
  PROVE  Shaped'
<1>1. UserOf[k] \in Users /\ Take(UserOf[k], r, n)
  BY DEF SocketsAssumption, Assumes
<1>2. issued' = issued \cup {n}
  BY <1>1 DEF Take
<1>3. SeatsAreSound'
  BY <1>1, TakingIsSound DEF Shaped
<1>4. at' \in [Sockets -> Places]
  BY DEF Assumes, Shaped, Places
<1>5. OptionsOf(session, issued') /\ OptionsOf(untold, issued')
  BY <1>2, OptionsKept DEF Shaped
<1>6. OptionsOf(assumed', issued')
  <2>1. OptionsOf(assumed, issued')
    BY <1>2, OptionsKept DEF Shaped
  <2>2. {n} \in SUBSET issued' /\ AtMostOne({n})
    BY <1>2 DEF AtMostOne
  <2>3. assumed' = [assumed EXCEPT ![k] = {n}]
    BY DEF Assumes
  <2> QED
    BY <2>1, <2>2, <2>3, OptionSet
<1>7. OptionsOf(ending', issued')
  <2>1. SeatsOf(UserOf[k]) \subseteq issued /\ AtMostOne(SeatsOf(UserOf[k]))
    BY SeatsOfIsOne DEF Shaped
  <2>2. OptionsOf(ending, issued')
    BY <1>2, OptionsKept DEF Shaped
  <2>3. ending' = [ending EXCEPT ![k] = SeatsOf(UserOf[k])]
    BY DEF Assumes
  <2>4. SeatsOf(UserOf[k]) \in SUBSET issued'
    BY <1>2, <2>1
  <2> QED
    BY <2>1, <2>2, <2>3, <2>4, OptionSet
<1> QED
  BY <1>2, <1>3, <1>4, <1>5, <1>6, <1>7 DEF Assumes, Shaped, OptionsOf, Has

\* What is written is of names that were minted.
LEMMA WritingTheTakingIs ==
  ASSUME Shaped, NEW k \in Sockets, assumed[k] # {}
  PROVE  /\ TheTaking(k) \in Seq(Entry)
         /\ \A entry : Has(TheTaking(k), entry) <=>
              \/ Has(log, entry)
              \/ \E s \in ending[k] : entry = Ended(s)
              \/ \E s \in assumed[k] : entry = Started(s)
<1> DEFINE n == CHOOSE s \in assumed[k] : TRUE
<1>1. assumed[k] = {n} /\ n \in Names
  BY TheOneIs DEF Shaped, OptionsOf, SeatsAreSound
<1>2. ending[k] \subseteq Names /\ AtMostOne(ending[k])
  BY DEF Shaped, OptionsOf, SeatsAreSound
<1>3. TheTaking(k) = (log \o Endings(ending[k])) \o <<Started(n)>>
  BY DEF TheTaking
<1> HIDE DEF n
<1>4. Started(n) \in Entry
  BY <1>1 DEF Started, Entry
<1>5. log \o Endings(ending[k]) \in Seq(Entry)
  BY <1>2, EndingsAre, JoinedIs DEF Shaped
<1>6. \A entry : Has(log \o Endings(ending[k]), entry) <=>
                   Has(log, entry) \/ \E s \in ending[k] : entry = Ended(s)
  BY <1>2, EndingsAre, JoinedIs DEF Shaped
<1>7. \A entry : Has(TheTaking(k), entry) <=>
        Has(log \o Endings(ending[k]), entry) \/ entry = Started(n)
  <2>1. /\ <<Started(n)>> \in Seq(Entry)
        /\ \A entry : Has(<<Started(n)>>, entry) <=> entry = Started(n)
    BY <1>4, OneEntryIs
  <2> DEFINE before == log \o Endings(ending[k])
  <2>2. before \in Seq(Entry) /\ TheTaking(k) = before \o <<Started(n)>>
    BY <1>3, <1>5
  <2> HIDE DEF before
  <2>3. \A entry : Has(before \o <<Started(n)>>, entry) <=>
                     Has(before, entry) \/ Has(<<Started(n)>>, entry)
    BY <2>1, <2>2, JoinedIs
  <2> QED
    BY <2>1, <2>2, <2>3 DEF before
<1>8. TheTaking(k) \in Seq(Entry)
  BY <1>3, <1>4, <1>5, OneEntryIs, JoinedIs
<1> QED
  BY <1>1, <1>6, <1>7, <1>8

LEMMA WritingTheEndIs ==
  ASSUME Shaped, NEW k \in Sockets
  PROVE  /\ log \o Endings(ending[k]) \in Seq(Entry)
         /\ \A entry : Has(log \o Endings(ending[k]), entry) <=>
              Has(log, entry) \/ \E s \in ending[k] : entry = Ended(s)
<1>1. ending[k] \subseteq Names /\ AtMostOne(ending[k])
  BY DEF Shaped, OptionsOf, SeatsAreSound
<1> QED
  BY <1>1, EndingsAre, JoinedIs DEF Shaped

\* A conversation that has a session under way has one in hand.
TakingPlaces == {"displacing", "recording", "opening"}

Placed ==
  \A k \in Sockets :
    /\ assumed[k] # {} <=> at[k] \in TakingPlaces
    /\ ending[k] # {} => at[k] \in TakingPlaces \cup {"auditing"}
    /\ at[k] \in {"auditing", "returning"} => session[k] = {}

LEMMA WritingKeepsTheShape ==
  ASSUME Shaped, Placed, NEW k \in Sockets, RecordsTheTaking(k) \/ AuditsTheEnd(k)
  PROVE  Shaped'
<1>1. SeatsOnlyGo
  BY NothingIs DEF RecordsTheTaking, AuditsTheEnd, Shaped
<1>2. \A s : Ended(s).of = s /\ Started(s).of = s
  BY DEF Ended, Started
<1>3. CASE RecordsTheTaking(k)
  <2>1. /\ log' = TheTaking(k) /\ at[k] = "recording"
        /\ at' = [at EXCEPT ![k] = "opening"]
        /\ UNCHANGED <<session, assumed, ending, untold, gone, lost, paths>>
    BY <1>3 DEF RecordsTheTaking
  <2>2. assumed[k] # {}
    BY <2>1 DEF Placed, TakingPlaces
  <2>3. log' \in Seq(Entry) /\ \A entry : Has(log', entry) => entry.of \in issued
    BY <1>2, <2>1, <2>2, WritingTheTakingIs DEF Shaped, OptionsOf
  <2>4. \E p \in Places : at' = [at EXCEPT ![k] = p]
    BY <2>1 DEF Places
  <2> QED
    BY <1>1, <2>1, <2>3, <2>4, KeepsTheShape DEF Shaped
<1>4. CASE AuditsTheEnd(k)
  <2>1. /\ log' = log \o Endings(ending[k])
        /\ at' = [at EXCEPT ![k] = "returning"]
        /\ ending' = [ending EXCEPT ![k] = {}]
        /\ UNCHANGED <<session, assumed, untold, gone, lost, paths>>
    BY <1>4 DEF AuditsTheEnd
  <2>2. log' \in Seq(Entry) /\ \A entry : Has(log', entry) => entry.of \in issued
    BY <1>2, <2>1, WritingTheEndIs DEF Shaped, OptionsOf
  <2>3. \E p \in Places : at' = [at EXCEPT ![k] = p]
    BY <2>1 DEF Places
  <2>4. OptionsOf(ending', issued)
    BY <2>1, OptionSet, NoneIsAnOption DEF Shaped
  <2> QED
    BY <1>1, <2>1, <2>2, <2>3, <2>4, KeepsTheShape DEF Shaped
<1> QED
  BY <1>3, <1>4

\* A step that moves what a conversation has in hand from one place to another.
Moves(k) ==
  /\ \E p \in Places : at' = [at EXCEPT ![k] = p]
  /\ session' \in {session, [session EXCEPT ![k] = {}], [session EXCEPT ![k] = assumed[k]]}
  /\ assumed' \in {assumed, [assumed EXCEPT ![k] = {}]}
  /\ ending' \in {ending, [ending EXCEPT ![k] = {}], [ending EXCEPT ![k] = session[k]]}
  /\ untold' \in {untold, [untold EXCEPT ![k] = {}], [untold EXCEPT ![k] = session[k]]}
  /\ paths' \subseteq paths \cup assumed[k]
  /\ UNCHANGED <<gone, lost, log>>

LEMMA OptionMoved ==
  ASSUME NEW f, NEW S, OptionsOf(f, S), NEW k \in Sockets, NEW V \in SUBSET S, AtMostOne(V),
         NEW g, g \in {f, [f EXCEPT ![k] = {}], [f EXCEPT ![k] = V]}
  PROVE  OptionsOf(g, S)
<1>1. OptionsOf([f EXCEPT ![k] = {}], S)
  BY OptionSet, NoneIsAnOption
<1>2. OptionsOf([f EXCEPT ![k] = V], S)
  BY OptionSet
<1>3. CASE g = f
  BY <1>3
<1>4. CASE g = [f EXCEPT ![k] = {}]
  BY <1>1, <1>4
<1>5. CASE g = [f EXCEPT ![k] = V]
  BY <1>2, <1>5
<1> QED
  BY <1>3, <1>4, <1>5

LEMMA MovingKeepsTheShape ==
  ASSUME Shaped, SeatsOnlyGo, NEW k \in Sockets, Moves(k)
  PROVE  Shaped'
<1>1. /\ session[k] \in SUBSET issued /\ AtMostOne(session[k])
      /\ assumed[k] \in SUBSET issued /\ AtMostOne(assumed[k])
  BY DEF Shaped, OptionsOf
<1>2. OptionsOf(session', issued)
  <2>1. session' \in {session, [session EXCEPT ![k] = {}], [session EXCEPT ![k] = assumed[k]]}
    BY DEF Moves
  <2>2. OptionsOf(session, issued)
    BY DEF Shaped
  <2> QED
    BY <1>1, <2>1, <2>2, OptionMoved
<1>3. OptionsOf(assumed', issued)
  <2>1. assumed' \in {assumed, [assumed EXCEPT ![k] = {}], [assumed EXCEPT ![k] = {}]}
    BY DEF Moves
  <2>2. OptionsOf(assumed, issued)
    BY DEF Shaped
  <2> QED
    BY <1>1, <2>1, <2>2, OptionMoved, NoneIsAnOption
<1>4. OptionsOf(ending', issued)
  <2>1. ending' \in {ending, [ending EXCEPT ![k] = {}], [ending EXCEPT ![k] = session[k]]}
    BY DEF Moves
  <2>2. OptionsOf(ending, issued)
    BY DEF Shaped
  <2> QED
    BY <1>1, <2>1, <2>2, OptionMoved
<1>5. OptionsOf(untold', issued)
  <2>1. untold' \in {untold, [untold EXCEPT ![k] = {}], [untold EXCEPT ![k] = session[k]]}
    BY DEF Moves
  <2>2. OptionsOf(untold, issued)
    BY DEF Shaped
  <2> QED
    BY <1>1, <2>1, <2>2, OptionMoved
<1>6. gone' \cup lost' \cup paths' \subseteq issued
  BY <1>1 DEF Moves, Shaped
<1>7. log' \in Seq(Entry) /\ \A entry : Has(log', entry) => entry.of \in issued
  BY DEF Moves, Shaped
<1>8. \E p \in Places : at' = [at EXCEPT ![k] = p]
  BY DEF Moves
<1> QED
  BY <1>2, <1>3, <1>4, <1>5, <1>6, <1>7, <1>8, KeepsTheShape

\* Which steps those are, and what each does to the seats.
MovingSteps(k) ==
  \/ ClosesTheDisplacedPath(k)
  \/ OpensThePath(k)
  \/ Presents(k)
  \/ TheSessionEnded(k)
  \/ ShowsTheLobby(k)
  \/ AsksToRelinquish(k)
  \/ Relinquishes(k)
  \/ FindsItEnded(k)
  \/ Returns(k)

LEMMA MovingIs ==
  ASSUME SeatsAreSound, NEW k \in Sockets, MovingSteps(k)
  PROVE  /\ Moves(k)
         /\ SeatsOnlyGo
         /\ \/ Seated' = Seated
            \/ Relinquishes(k) /\ \E s \in session[k] : s \in Seated /\ Seated' = Seated \ {s}
<1>1. CASE ClosesTheDisplacedPath(k)
  BY <1>1, NothingIs DEF ClosesTheDisplacedPath, Moves, Places
<1>2. CASE OpensThePath(k)
  BY <1>2, NothingIs DEF OpensThePath, Moves, Places
<1>3. CASE Presents(k)
  BY <1>3, NothingIs DEF Presents, Moves, Places
<1>4. CASE TheSessionEnded(k)
  <2>1. PICK s \in session[k] : Settle({o \in owed : o.session # s})
    BY <1>4 DEF TheSessionEnded, TakesTheAccount
  <2>2. SeatsOnlyGo /\ Seated' = Seated
    BY <2>1, SettlingIs
  <2> QED
    BY <1>4, <2>2 DEF TheSessionEnded, Moves, Places
<1>5. CASE ShowsTheLobby(k)
  BY <1>5, NothingIs DEF ShowsTheLobby, Moves, Places
<1>6. CASE AsksToRelinquish(k)
  BY <1>6, NothingIs DEF AsksToRelinquish, Moves, Places
<1>7. CASE Relinquishes(k)
  <2>1. PICK s \in session[k] : Leave(s)
    BY <1>7 DEF Relinquishes
  <2>2. SeatsOnlyGo /\ Seated' = Seated \ {s} /\ s \in Seated
    BY <2>1, LeavingIs DEF Leave
  <2> QED
    BY <1>7, <2>2 DEF Relinquishes, LetsGo, Moves, Places
<1>8. CASE FindsItEnded(k)
  BY <1>8, NothingIs DEF FindsItEnded, LetsGo, Moves, Places
<1>9. CASE Returns(k)
  BY <1>9, NothingIs DEF Returns, Moves, Places
<1> QED
  BY <1>1, <1>2, <1>3, <1>4, <1>5, <1>6, <1>7, <1>8, <1>9 DEF MovingSteps

\* A step that ends the conversation: what it had in hand is not accounted for, or the
\* seat it was taking is given up.
ClosesAtRest(k) ==
  /\ at[k] = "listening"
  /\ Breaks(k, {})
  /\ UNCHANGED <<seatVars, log, paths>>

FailingSteps(k) ==
  \/ ClosesAtRest(k)
  \/ Fails(k)

Failing(k) ==
  /\ UNCHANGED <<log, paths>>
  /\ \/ Breaks(k, ending[k] \cup (assumed[k] \ Seated)) /\ Seated' = Seated \ assumed[k]
     \/ Breaks(k, ending[k] \cup assumed[k]) /\ Seated' = Seated

LEMMA FailingIs ==
  ASSUME Shaped, Placed, NEW k \in Sockets, FailingSteps(k)
  PROVE  Failing(k) /\ SeatsOnlyGo
<1>1. ASSUME at[k] \notin TakingPlaces \cup {"auditing"}, Breaks(k, {}),
             UNCHANGED <<seatVars, log, paths>>
      PROVE  Failing(k) /\ SeatsOnlyGo
  <2>1. ending[k] = {} /\ assumed[k] = {}
    BY <1>1 DEF Placed
  <2>2. ending[k] \cup (assumed[k] \ Seated) = {}
    BY <2>1
  <2> QED
    BY <1>1, <2>1, <2>2, NothingIs DEF Failing, Shaped
<1>2. CASE ClosesAtRest(k)
  BY <1>1, <1>2 DEF ClosesAtRest, TakingPlaces
<1>3. CASE CannotRead(k)
  BY <1>1, <1>3 DEF CannotRead, TakingPlaces
<1>4. CASE CannotNoteTheAct(k)
  BY <1>1, <1>4 DEF CannotNoteTheAct, TakingPlaces
<1>5. CASE CannotAuditTheEnd(k)
  <2>1. assumed[k] = {}
    BY <1>5 DEF CannotAuditTheEnd, Placed, TakingPlaces
  <2>2. ending[k] \cup (assumed[k] \ Seated) = ending[k]
    BY <2>1
  <2>3. Breaks(k, ending[k]) /\ UNCHANGED <<seatVars, log, paths>>
    BY <1>5 DEF CannotAuditTheEnd
  <2>4. SeatsOnlyGo /\ Seated' = Seated \ assumed[k]
    BY <2>1, <2>3, NothingIs DEF Shaped
  <2> QED
    BY <2>2, <2>3, <2>4 DEF Failing
<1>6. CASE CannotWriteTheTaking(k)
  <2>1. assumed[k] # {} /\ AtMostOne(assumed[k])
    BY <1>6 DEF CannotWriteTheTaking, Placed, TakingPlaces, Shaped, OptionsOf
  <2> QED
    BY <1>6, <2>1, TakenBackIs DEF CannotWriteTheTaking, Failing, Shaped
<1>7. CASE CannotReachTheStore(k)
  BY <1>7, NothingIs DEF CannotReachTheStore, Failing, Shaped
<1> QED
  BY <1>2, <1>3, <1>4, <1>5, <1>6, <1>7 DEF FailingSteps, Fails

LEMMA FailingKeepsTheShape ==
  ASSUME Shaped, SeatsOnlyGo, NEW k \in Sockets, Failing(k)
  PROVE  Shaped'
<1>1. /\ ending[k] \cup (assumed[k] \ Seated) \in SUBSET issued
      /\ ending[k] \cup assumed[k] \in SUBSET issued
  BY DEF Shaped, OptionsOf
<1> QED
  BY <1>1, BreakingKeepsTheShape DEF Failing

\* A step that no conversation takes.
Elsewhere ==
  /\ SeatsOnlyGo
  /\ Seated' = Seated
  /\ UNCHANGED <<socketVars, gone, lost, log, paths>>

\* Every step is of one of these kinds, which is all that is asked of a step below.
OfAKind ==
  \/ \E k \in Sockets : MovingSteps(k)
  \/ \E k \in Sockets : FailingSteps(k)
  \/ \E k \in Sockets : RecordsTheTaking(k)
  \/ \E k \in Sockets : AuditsTheEnd(k)
  \/ \E k \in Sockets, r \in Roles, n \in Names : Assumes(k, r, n)
  \/ Elsewhere

LEMMA StepsAreOfAKind ==
  ASSUME Shaped, [Next]_vars
  PROVE  OfAKind
<1>1. ASSUME Forgets PROVE Elsewhere
  <2>1. PICK kept \in SUBSET owed : Settle(kept)
    BY <1>1 DEF Forgets
  <2> QED
    BY <1>1, <2>1, SettlingIs DEF Forgets, Elsewhere, Shaped
<1>2. ASSUME UNCHANGED vars PROVE Elsewhere
  BY <1>2, NothingIs DEF vars, Elsewhere, Shaped
<1>3. ASSUME NEW k \in Sockets, Goes(k) PROVE FailingSteps(k)
  BY <1>3 DEF Goes, FailingSteps, ClosesAtRest
<1> QED
  BY <1>1, <1>2, <1>3 DEF Next, Carries, MovingSteps, FailingSteps, OfAKind

LEMMA ElsewhereKeepsTheShape ==
  ASSUME Shaped, Elsewhere
  PROVE  Shaped'
<1>1. SeatsAreSound'
  BY SeatsThatGoAreSound DEF Shaped, Elsewhere
<1>2. issued' = issued
  BY DEF Elsewhere, SeatsOnlyGo
<1> QED
  BY <1>1, <1>2 DEF Elsewhere, socketVars, Shaped, OptionsOf, Has

-----------------------------------------------------------------------------
(* What is in hand is where its place says.                                *)

LEMMA PlacedIsKept ==
  ASSUME Shaped, Placed, OfAKind
  PROVE  Placed'
<1> USE DEF Placed, TakingPlaces
<1>1. ASSUME NEW k \in Sockets, MovingSteps(k) PROVE Placed'
  <2>1. at \in [Sockets -> Places]
    BY DEF Shaped
  <2>2. /\ session \in [Sockets -> SUBSET issued] /\ assumed \in [Sockets -> SUBSET issued]
        /\ ending \in [Sockets -> SUBSET issued]
    BY DEF Shaped, OptionsOf
  <2>3. CASE ClosesTheDisplacedPath(k)
    BY <2>1, <2>2, <2>3 DEF ClosesTheDisplacedPath
  <2>4. CASE OpensThePath(k)
    BY <2>1, <2>2, <2>4 DEF OpensThePath
  <2>5. CASE Presents(k)
    BY <2>1, <2>2, <2>5 DEF Presents
  <2>6. CASE TheSessionEnded(k)
    BY <2>1, <2>2, <2>6 DEF TheSessionEnded
  <2>7. CASE ShowsTheLobby(k)
    BY <2>1, <2>2, <2>7 DEF ShowsTheLobby
  <2>8. CASE AsksToRelinquish(k)
    BY <2>1, <2>2, <2>8 DEF AsksToRelinquish
  <2>9. CASE Relinquishes(k)
    BY <2>1, <2>2, <2>9 DEF Relinquishes, LetsGo
  <2>10. CASE FindsItEnded(k)
    BY <2>1, <2>2, <2>10 DEF FindsItEnded, LetsGo
  <2>11. CASE Returns(k)
    BY <2>1, <2>2, <2>11 DEF Returns
  <2> QED
    BY <1>1, <2>3, <2>4, <2>5, <2>6, <2>7, <2>8, <2>9, <2>10, <2>11 DEF MovingSteps
<1>2. ASSUME NEW k \in Sockets, FailingSteps(k) PROVE Placed'
  BY <1>2, FailingIs DEF Failing, Breaks, Shaped, OptionsOf
<1>3. ASSUME NEW k \in Sockets, RecordsTheTaking(k) PROVE Placed'
  BY <1>3 DEF RecordsTheTaking, Shaped
<1>4. ASSUME NEW k \in Sockets, AuditsTheEnd(k) PROVE Placed'
  BY <1>4 DEF AuditsTheEnd, Shaped, OptionsOf
<1>5. ASSUME NEW k \in Sockets, NEW r \in Roles, NEW n \in Names, Assumes(k, r, n)
      PROVE  Placed'
  BY <1>5 DEF Assumes, Shaped, OptionsOf
<1>6. CASE Elsewhere
  BY <1>6 DEF Elsewhere, socketVars
<1> QED
  BY <1>1, <1>2, <1>3, <1>4, <1>5, <1>6 DEF OfAKind

LEMMA ShapeIsKept ==
  ASSUME Shaped, Placed, OfAKind
  PROVE  Shaped'
<1>1. SeatsAreSound
  BY DEF Shaped
<1>2. ASSUME NEW k \in Sockets, MovingSteps(k) PROVE Shaped'
  BY <1>1, <1>2, MovingIs, MovingKeepsTheShape
<1>3. ASSUME NEW k \in Sockets, FailingSteps(k) PROVE Shaped'
  BY <1>3, FailingIs, FailingKeepsTheShape
<1>4. ASSUME NEW k \in Sockets, RecordsTheTaking(k) PROVE Shaped'
  BY <1>4, WritingKeepsTheShape
<1>5. ASSUME NEW k \in Sockets, AuditsTheEnd(k) PROVE Shaped'
  BY <1>5, WritingKeepsTheShape
<1>6. ASSUME NEW k \in Sockets, NEW r \in Roles, NEW n \in Names, Assumes(k, r, n)
      PROVE  Shaped'
  BY <1>6, SocketsAssumption, AssumingKeepsTheShape
<1> QED
  BY <1>1, <1>2, <1>3, <1>4, <1>5, <1>6, ElsewhereKeepsTheShape DEF OfAKind

LEMMA InPlace == Spec => [](Shaped /\ Placed)
<1>1. Init => Placed
  BY DEF Init, Placed, TakingPlaces
<1>2. Shaped /\ Placed /\ [Next]_vars => (Shaped /\ Placed)'
  BY StepsAreOfAKind, ShapeIsKept, PlacedIsKept
<1> QED
  BY <1>1, <1>2, ShapedAtFirst, PTL DEF Spec

\* The variables keep their shape, and no more than one session is held, shown or in
\* flight on a socket.
THEOREM TypeCorrect == Spec => []TypeOK
<1>1. Shaped => TypeOK
  <2> SUFFICES ASSUME Shaped PROVE TypeOK
    OBVIOUS
  <2>1. \A f : OptionsOf(f, issued) =>
          /\ f \in [Sockets -> SUBSET issued]
          /\ \A k \in Sockets : Cardinality(f[k]) <= 1
    BY AtMostOneIsCounted DEF OptionsOf
  <2>2. \A i \in DOMAIN log : log[i] \in Entry /\ log[i].of \in issued
    <3>1. \A i \in DOMAIN log : Has(log, log[i])
      BY DEF Has
    <3> QED
      BY <3>1, ElementOfSeq, LenProperties DEF Shaped
  <2> QED
    BY <2>1, <2>2 DEF Shaped, SeatsAreSound, TypeOK
<1> QED
  BY <1>1, InPlace, PTL

-----------------------------------------------------------------------------
(* Whose seats a conversation has in hand.                                 *)

\* What it holds or takes is its user's, nothing is in hand twice, what it is to end has
\* ended, and whoever takes a seat has left the one they had.
Owned ==
  /\ \A k \in Sockets :
       /\ \A s \in session[k] \cup assumed[k] : s \in Seated => seats[s].occupant = UserOf[k]
       /\ at[k] \in TakingPlaces => session[k] \cap Seated = {}
       /\ ending[k] \cap Seated = {}
  /\ \A j, k \in Sockets :
       j # k => assumed[j] \cap assumed[k] = {} /\ ending[j] \cap ending[k] = {}

\* A name that was never minted is in nobody's hand.
LEMMA FreshIsNobodys ==
  ASSUME Shaped, NEW n, n \notin issued
  PROVE  /\ \A k \in Sockets :
              n \notin session[k] /\ n \notin assumed[k] /\ n \notin ending[k]
         /\ n \notin Seated /\ n \notin gone /\ n \notin lost /\ n \notin paths
         /\ ~Has(log, Started(n)) /\ ~Has(log, Ended(n))
<1>1. Started(n).of = n /\ Ended(n).of = n
  BY DEF Started, Ended
<1> QED
  BY <1>1 DEF Shaped, OptionsOf, SeatsAreSound

LEMMA OwnedIsKept ==
  ASSUME Shaped, Placed, Owned, OfAKind
  PROVE  Owned'
<1> USE DEF Owned, TakingPlaces
<1>1. /\ at \in [Sockets -> Places]
      /\ session \in [Sockets -> SUBSET issued] /\ assumed \in [Sockets -> SUBSET issued]
      /\ ending \in [Sockets -> SUBSET issued]
  BY DEF Shaped, OptionsOf
<1>2. ASSUME SeatsOnlyGo PROVE \A s \in Seated' : s \in Seated /\ seats'[s] = seats[s]
  BY <1>2 DEF SeatsOnlyGo
<1>3. ASSUME NEW k \in Sockets, MovingSteps(k) PROVE Owned'
  <2>1. \A s \in Seated' : s \in Seated /\ seats'[s] = seats[s]
    BY <1>2, <1>3, MovingIs DEF Shaped
  <2>2. CASE OpensThePath(k)
    BY <1>1, <2>1, <2>2 DEF OpensThePath
  <2>3. CASE Relinquishes(k)
    <3>1. session[k] \cap Seated' = {}
      <4>1. PICK s \in session[k] : Leave(s)
        BY <2>3 DEF Relinquishes
      <4>2. session[k] = {s}
        BY DEF Shaped, OptionsOf, AtMostOne
      <4> QED
        BY <4>1, <4>2, LeavingIs DEF Shaped
    <3>2. session[k] \subseteq Seated
      BY <2>3 DEF Relinquishes, Leave, Shaped, OptionsOf, AtMostOne
    <3>3. ending' = [ending EXCEPT ![k] = session[k]]
      BY <2>3 DEF Relinquishes
    <3>4. session' = [session EXCEPT ![k] = {}] /\ assumed' = assumed
             /\ at' = [at EXCEPT ![k] = "auditing"]
      BY <2>3 DEF Relinquishes, LetsGo
    <3>5. \A j, i \in Sockets : j # i => ending'[j] \cap ending'[i] = {}
      BY <1>1, <3>2, <3>3
    <3>6. \A j \in Sockets : ending'[j] \cap Seated' = {}
      BY <1>1, <2>1, <3>1, <3>3
    <3>7. \A j \in Sockets :
            /\ \A s \in session'[j] \cup assumed'[j] :
                 s \in Seated' => seats'[s].occupant = UserOf[j]
            /\ at'[j] \in TakingPlaces => session'[j] \cap Seated' = {}
      BY <1>1, <2>1, <3>4
    <3> QED
      BY <3>4, <3>5, <3>6, <3>7
  <2>4. CASE \/ ClosesTheDisplacedPath(k) \/ Presents(k) \/ ShowsTheLobby(k)
             \/ TheSessionEnded(k) \/ AsksToRelinquish(k)
             \/ FindsItEnded(k) \/ Returns(k)
    <3>1. /\ session' \in {session, [session EXCEPT ![k] = {}]}
          /\ UNCHANGED <<assumed, ending>>
          /\ at' \in [Sockets -> Places]
          /\ \A j \in Sockets : at'[j] \in TakingPlaces => at[j] \in TakingPlaces
      BY <1>1, <2>4 DEF ClosesTheDisplacedPath, Presents, TheSessionEnded, ShowsTheLobby,
         AsksToRelinquish, FindsItEnded, LetsGo, Returns, Places
    <3> QED
      BY <1>1, <2>1, <3>1
  <2> QED
    BY <1>3, <2>2, <2>3, <2>4 DEF MovingSteps
<1>4. ASSUME NEW k \in Sockets, FailingSteps(k) PROVE Owned'
  <2>1. \A s \in Seated' : s \in Seated /\ seats'[s] = seats[s]
    BY <1>2, <1>4, FailingIs
  <2>2. /\ at' = [at EXCEPT ![k] = "closed"] /\ session' = session
        /\ assumed' = [assumed EXCEPT ![k] = {}] /\ ending' = [ending EXCEPT ![k] = {}]
    BY <1>4, FailingIs DEF Failing, Breaks
  <2> QED
    BY <1>1, <2>1, <2>2
<1>5. ASSUME NEW k \in Sockets, RecordsTheTaking(k) \/ AuditsTheEnd(k) PROVE Owned'
  <2>1. \A s \in Seated' : s \in Seated /\ seats'[s] = seats[s]
    BY <1>2, <1>5, NothingIs DEF RecordsTheTaking, AuditsTheEnd, Shaped
  <2> QED
    BY <1>1, <1>5, <2>1 DEF RecordsTheTaking, AuditsTheEnd
<1>6. ASSUME NEW k \in Sockets, NEW r \in Roles, NEW n \in Names, Assumes(k, r, n)
      PROVE  Owned'
  <2>1. UserOf[k] \in Users /\ Take(UserOf[k], r, n)
    BY <1>6, SocketsAssumption DEF Assumes
  <2>2. /\ n \notin issued
        /\ Seated' = (Seated \ SeatsOf(UserOf[k])) \cup {n}
        /\ \A s \in Seated' \ {n} : s \in Seated /\ seats'[s] = seats[s]
        /\ seats'[n].occupant = UserOf[k]
    BY <2>1, TakingIs DEF Shaped
  <2>3. /\ at[k] = "listening"
        /\ assumed' = [assumed EXCEPT ![k] = {n}]
        /\ ending' = [ending EXCEPT ![k] = SeatsOf(UserOf[k])]
        /\ at' = [at EXCEPT ![k] = "displacing"] /\ session' = session
    BY <1>6 DEF Assumes
  <2>4. \A j \in Sockets : n \notin session[j] /\ n \notin assumed[j] /\ n \notin ending[j]
    BY <2>2, FreshIsNobodys
  <2>5. \A j \in Sockets : \A s \in session'[j] \cup assumed'[j] :
          s \in Seated' => seats'[s].occupant = UserOf[j]
    BY <1>1, <2>2, <2>3, <2>4
  <2>6. session[k] \cap Seated \subseteq SeatsOf(UserOf[k])
    BY DEF SeatsOf
  <2>7. \A j \in Sockets : at'[j] \in TakingPlaces => session'[j] \cap Seated' = {}
    BY <1>1, <2>2, <2>3, <2>4, <2>6
  <2>8. SeatsOf(UserOf[k]) \subseteq Seated /\ n \notin SeatsOf(UserOf[k])
    BY <2>2, FreshIsNobodys DEF SeatsOf
  <2>9. \A j \in Sockets : ending'[j] \cap Seated' = {}
    BY <1>1, <2>2, <2>3, <2>4, <2>8
  <2>10. \A j, i \in Sockets :
           j # i => assumed'[j] \cap assumed'[i] = {} /\ ending'[j] \cap ending'[i] = {}
    BY <1>1, <2>3, <2>4, <2>8
  <2> QED
    BY <2>5, <2>7, <2>9, <2>10
<1>7. CASE Elsewhere
  BY <1>2, <1>7 DEF Elsewhere, socketVars
<1> QED
  BY <1>3, <1>4, <1>5, <1>6, <1>7 DEF OfAKind

-----------------------------------------------------------------------------
(* What the log says of what is in hand.                                   *)

\* A start or an end that is in hand is written once and by the one who has it.
Written ==
  /\ Distinct(log)
  /\ \A s \in Seated : ~Has(log, Ended(s))
  /\ \A k \in Sockets :
       /\ at[k] \in {"displacing", "recording"} =>
            /\ \A s \in assumed[k] : ~Has(log, Started(s))
            /\ \A s \in ending[k] : ~Has(log, Ended(s))
       /\ at[k] = "auditing" => \A s \in ending[k] : ~Has(log, Ended(s))
       /\ at[k] = "opening" =>
            /\ \A s \in assumed[k] : Has(log, Started(s))
            /\ \A s \in ending[k] : Has(log, Ended(s))

LEMMA EntriesAreNotMistaken ==
  /\ \A s, t : Started(s) # Ended(t)
  /\ \A s, t : Started(s) = Started(t) => s = t
  /\ \A s, t : Ended(s) = Ended(t) => s = t
<1>1. \A s : Started(s).event = "started" /\ Started(s).of = s
  BY DEF Started
<1>2. \A s : Ended(s).event = "ended" /\ Ended(s).of = s
  BY DEF Ended
<1> QED
  BY <1>1, <1>2

LEMMA WritingIsDistinct ==
  ASSUME Shaped, Placed, Written, NEW k \in Sockets, RecordsTheTaking(k) \/ AuditsTheEnd(k)
  PROVE  Distinct(log')
<1>1. ending[k] \subseteq Names /\ AtMostOne(ending[k])
  BY DEF Shaped, OptionsOf, SeatsAreSound
<1>2. \A s \in ending[k] : ~Has(log, Ended(s))
  BY DEF Written, RecordsTheTaking, AuditsTheEnd
<1> DEFINE after == log \o Endings(ending[k])
<1>3. \A i \in DOMAIN Endings(ending[k]) : Has(Endings(ending[k]), Endings(ending[k])[i])
  BY DEF Has
<1>4. after \in Seq(Entry) /\ Distinct(after)
  <2>1. \A i \in DOMAIN Endings(ending[k]) : ~Has(log, Endings(ending[k])[i])
    BY <1>1, <1>2, <1>3, EndingsAre
  <2> QED
    BY <1>1, <2>1, EndingsAre, JoinedIs, JoinedIsDistinct DEF Shaped, Written
<1>5. CASE AuditsTheEnd(k)
  BY <1>4, <1>5 DEF AuditsTheEnd
<1>6. CASE RecordsTheTaking(k)
  <2> DEFINE n == CHOOSE s \in assumed[k] : TRUE
  <2>1. at[k] = "recording" /\ assumed[k] # {}
    BY <1>6 DEF RecordsTheTaking, Placed, TakingPlaces
  <2>2. n \in assumed[k] /\ n \in Names
    BY <2>1, TheOneIs DEF Shaped, OptionsOf, SeatsAreSound
  <2>3. log' = after \o <<Started(n)>>
    BY <1>6 DEF RecordsTheTaking, TheTaking
  <2> HIDE DEF n
  <2>4. ~Has(log, Started(n))
    BY <2>1, <2>2 DEF Written
  <2>5. ~Has(after, Started(n))
    BY <1>1, <2>4, EndingsAre, JoinedIs, EntriesAreNotMistaken DEF Shaped
  <2>6. Started(n) \in Entry
    BY <2>2 DEF Started, Entry
  <2>7. /\ <<Started(n)>> \in Seq(Entry) /\ Distinct(<<Started(n)>>)
        /\ \A i \in DOMAIN <<Started(n)>> : <<Started(n)>>[i] = Started(n)
    BY <2>6, OneEntryIs
  <2> HIDE DEF after
  <2>8. \A i \in DOMAIN <<Started(n)>> : ~Has(after, <<Started(n)>>[i])
    BY <2>5, <2>7
  <2>9. Distinct(after \o <<Started(n)>>)
    BY <1>4, <2>7, <2>8, JoinedIsDistinct
  <2> QED
    BY <2>3, <2>9
<1> QED
  BY <1>5, <1>6

LEMMA WrittenIsKept ==
  ASSUME Shaped, Placed, Owned, Written, OfAKind
  PROVE  Written'
<1>1. /\ at \in [Sockets -> Places]
      /\ session \in [Sockets -> SUBSET issued] /\ assumed \in [Sockets -> SUBSET issued]
      /\ ending \in [Sockets -> SUBSET issued]
  BY DEF Shaped, OptionsOf
<1>2. ASSUME NEW k \in Sockets, MovingSteps(k) PROVE Written'
  <2>1. Seated' \subseteq Seated /\ log' = log
    BY <1>2, MovingIs DEF Shaped, Moves, SeatsOnlyGo
  <2>2. CASE ClosesTheDisplacedPath(k)
    BY <1>1, <2>1, <2>2 DEF ClosesTheDisplacedPath, Written
  <2>3. CASE Relinquishes(k)
    <3>1. session[k] \subseteq Seated
      BY <2>3 DEF Relinquishes, Leave, Shaped, OptionsOf, AtMostOne
    <3>2. /\ ending' = [ending EXCEPT ![k] = session[k]] /\ assumed' = assumed
          /\ at' = [at EXCEPT ![k] = "auditing"]
      BY <2>3 DEF Relinquishes
    <3> QED
      BY <1>1, <2>1, <3>1, <3>2 DEF Written
  <2>4. CASE \/ OpensThePath(k) \/ Presents(k) \/ ShowsTheLobby(k)
             \/ TheSessionEnded(k) \/ AsksToRelinquish(k)
             \/ FindsItEnded(k) \/ Returns(k)
    <3>1. /\ \A j \in Sockets \ {k} : UNCHANGED <<at[j], assumed[j], ending[j]>>
          /\ at'[k] \notin TakingPlaces \cup {"auditing"}
      BY <1>1, <2>4 DEF OpensThePath, Presents, TheSessionEnded, ShowsTheLobby,
         AsksToRelinquish, FindsItEnded, LetsGo, Returns, TakingPlaces
    <3> QED
      BY <2>1, <3>1 DEF Written, TakingPlaces
  <2> QED
    BY <1>2, <2>2, <2>3, <2>4 DEF MovingSteps
<1>3. ASSUME NEW k \in Sockets, FailingSteps(k) PROVE Written'
  <2>1. Seated' \subseteq Seated /\ log' = log
    BY <1>3, FailingIs DEF Failing, SeatsOnlyGo
  <2>2. /\ at' = [at EXCEPT ![k] = "closed"]
        /\ assumed' = [assumed EXCEPT ![k] = {}] /\ ending' = [ending EXCEPT ![k] = {}]
    BY <1>3, FailingIs DEF Failing, Breaks
  <2> QED
    BY <1>1, <2>1, <2>2 DEF Written
<1>4. ASSUME NEW k \in Sockets, RecordsTheTaking(k) PROVE Written'
  <2>1. /\ at[k] = "recording" /\ log' = TheTaking(k)
        /\ at' = [at EXCEPT ![k] = "opening"]
        /\ UNCHANGED <<assumed, ending>> /\ Seated' = Seated
    BY <1>4 DEF RecordsTheTaking, seatVars, Seated
  <2>2. assumed[k] # {}
    BY <2>1 DEF Placed, TakingPlaces
  <2>3. \A entry : Has(log', entry) <=>
              \/ Has(log, entry)
              \/ \E s \in ending[k] : entry = Ended(s)
              \/ \E s \in assumed[k] : entry = Started(s)
    BY <2>1, <2>2, WritingTheTakingIs
  <2>4. \A s : Has(log', Ended(s)) <=> Has(log, Ended(s)) \/ s \in ending[k]
    BY <2>3, EntriesAreNotMistaken
  <2>5. \A s : Has(log', Started(s)) <=> Has(log, Started(s)) \/ s \in assumed[k]
    BY <2>3, EntriesAreNotMistaken
  <2>6. Distinct(log')
    BY <1>4, WritingIsDistinct
  <2>7. \A s \in Seated' : ~Has(log', Ended(s))
    BY <2>1, <2>4 DEF Written, Owned
  <2>8. ASSUME NEW j \in Sockets, j # k
        PROVE  /\ assumed[j] \cap assumed[k] = {} /\ ending[j] \cap ending[k] = {}
               /\ at'[j] = at[j]
    BY <1>1, <2>1, <2>8 DEF Owned
  <2>9. at'[k] = "opening"
    BY <1>1, <2>1
  <2> QED
    BY <2>1, <2>4, <2>5, <2>6, <2>7, <2>8, <2>9 DEF Written
<1>5. ASSUME NEW k \in Sockets, AuditsTheEnd(k) PROVE Written'
  <2>1. /\ log' = log \o Endings(ending[k])
        /\ at' = [at EXCEPT ![k] = "returning"]
        /\ ending' = [ending EXCEPT ![k] = {}]
        /\ UNCHANGED assumed /\ Seated' = Seated
    BY <1>5 DEF AuditsTheEnd, seatVars, Seated
  <2>2. \A entry : Has(log', entry) <=>
                     Has(log, entry) \/ \E s \in ending[k] : entry = Ended(s)
    BY <2>1, WritingTheEndIs
  <2>3. \A s : Has(log', Ended(s)) <=> Has(log, Ended(s)) \/ s \in ending[k]
    BY <2>2, EntriesAreNotMistaken
  <2>4. \A s : Has(log', Started(s)) <=> Has(log, Started(s))
    BY <2>2, EntriesAreNotMistaken
  <2>5. Distinct(log')
    BY <1>5, WritingIsDistinct
  <2>6. \A s \in Seated' : ~Has(log', Ended(s))
    BY <2>1, <2>3 DEF Written, Owned
  <2>7. ASSUME NEW j \in Sockets, j # k
        PROVE  ending[j] \cap ending[k] = {} /\ at'[j] = at[j] /\ ending'[j] = ending[j]
    BY <1>1, <2>1, <2>7 DEF Owned
  <2>8. at'[k] = "returning"
    BY <1>1, <2>1
  <2> QED
    BY <2>1, <2>3, <2>4, <2>5, <2>6, <2>7, <2>8 DEF Written
<1>6. ASSUME NEW k \in Sockets, NEW r \in Roles, NEW n \in Names, Assumes(k, r, n)
      PROVE  Written'
  <2>1. UserOf[k] \in Users /\ Take(UserOf[k], r, n)
    BY <1>6, SocketsAssumption DEF Assumes
  <2>2. n \notin issued /\ Seated' = (Seated \ SeatsOf(UserOf[k])) \cup {n}
    BY <2>1, TakingIs DEF Shaped
  <2>3. /\ assumed' = [assumed EXCEPT ![k] = {n}]
        /\ ending' = [ending EXCEPT ![k] = SeatsOf(UserOf[k])]
        /\ at' = [at EXCEPT ![k] = "displacing"] /\ log' = log
    BY <1>6 DEF Assumes
  <2>4. SeatsOf(UserOf[k]) \subseteq Seated /\ ~Has(log, Started(n)) /\ ~Has(log, Ended(n))
    BY <2>2, FreshIsNobodys DEF SeatsOf
  <2> QED
    BY <1>1, <2>2, <2>3, <2>4 DEF Written
<1>7. CASE Elsewhere
  BY <1>7 DEF Elsewhere, socketVars, Written
<1> QED
  BY <1>2, <1>3, <1>4, <1>5, <1>6, <1>7 DEF OfAKind

LEMMA LoggedIs == \A entry : Logged(entry) <=> Has(log, entry)
BY DEF Logged, Has

LEMMA InHand == Spec => [](Shaped /\ Placed /\ Owned /\ Written)
<1>1. Init => Owned /\ Written
  <2> SUFFICES ASSUME Init PROVE Owned /\ Written
    OBVIOUS
  <2>1. log = <<>> /\ DOMAIN <<>> = {}
    BY DEF Init
  <2>2. Distinct(log)
    BY <2>1 DEF Distinct
  <2> QED
    BY <2>2 DEF Init, SeatsInit, Seated, Owned, Written, TakingPlaces
<1>2. Shaped /\ Placed /\ Owned /\ Written /\ [Next]_vars => (Owned /\ Written)'
  BY StepsAreOfAKind, OwnedIsKept, WrittenIsKept
<1> QED
  BY <1>1, <1>2, InPlace, PTL DEF Spec

\* An ending is written by whoever took it from the State Authority and by nobody else,
\* and never of a seat that is still held.
THEOREM EndsOnce == Spec => []EndsAreRecordedOnce
<1>1. Written => EndsAreRecordedOnce
  BY LoggedIs DEF Written, Distinct, EndsAreRecordedOnce
<1> QED
  BY <1>1, InHand, PTL

-----------------------------------------------------------------------------
(* What becomes of a session that ended.                                   *)

\* As EveryEndIsRecorded, and of a taking that is still to be written as well: a seat may
\* be taken away before the log says that it was taken.
Accounted ==
  \A s \in issued \ (Seated \cup lost) :
    Has(log, Started(s)) \/ (\E k \in Sockets : s \in assumed[k])
      => Has(log, Ended(s)) \/ \E k \in Sockets : s \in ending[k]

LEMMA AccountedIsKept ==
  ASSUME Shaped, Placed, Owned, Written, Accounted, OfAKind
  PROVE  Accounted'
<1>1. /\ session \in [Sockets -> SUBSET issued] /\ assumed \in [Sockets -> SUBSET issued]
      /\ ending \in [Sockets -> SUBSET issued]
  BY DEF Shaped, OptionsOf
<1>2. ASSUME NEW k \in Sockets, MovingSteps(k) PROVE Accounted'
  <2>1. log' = log /\ lost' = lost /\ issued' = issued
    BY <1>2, MovingIs DEF Shaped, Moves, SeatsOnlyGo
  <2>2. CASE Relinquishes(k)
    <3>1. PICK s \in session[k] : Seated' = Seated \ {s}
      BY <1>2, <2>2, MovingIs, LeavingIs DEF Relinquishes, Shaped
    <3>2. ending' = [ending EXCEPT ![k] = session[k]] /\ assumed' = assumed /\ ending[k] = {}
      BY <2>2 DEF Relinquishes, Placed, TakingPlaces
    <3>3. s \in ending'[k]
      BY <1>1, <3>1, <3>2
    <3>4. \A j \in Sockets : ending[j] \subseteq ending'[j]
      BY <1>1, <3>2
    <3> QED
      BY <2>1, <3>1, <3>2, <3>3, <3>4 DEF Accounted
  <2>3. CASE OpensThePath(k)
    <3>1. Seated' = Seated
      BY <1>2, <2>3, NothingIs DEF OpensThePath, Shaped
    <3>2. \A s \in ending[k] : Has(log, Ended(s))
      BY <2>3 DEF OpensThePath, Written
    <3>3. \A j \in Sockets : assumed'[j] \subseteq assumed[j]
      BY <1>1, <2>3 DEF OpensThePath
    <3>4. \A j \in Sockets \ {k} : ending'[j] = ending[j]
      BY <1>1, <2>3 DEF OpensThePath
    <3> QED
      BY <2>1, <3>1, <3>2, <3>3, <3>4 DEF Accounted
  <2>4. CASE \/ ClosesTheDisplacedPath(k) \/ Presents(k) \/ ShowsTheLobby(k)
             \/ TheSessionEnded(k) \/ AsksToRelinquish(k)
             \/ FindsItEnded(k) \/ Returns(k)
    <3>1. ~Relinquishes(k)
      BY <2>4 DEF ClosesTheDisplacedPath, Presents, TheSessionEnded, ShowsTheLobby,
         AsksToRelinquish, FindsItEnded, Returns, Relinquishes, Leave, Shaped, OptionsOf,
         AtMostOne
    <3>2. Seated' = Seated
      BY <1>2, <3>1, MovingIs DEF Shaped
    <3>3. UNCHANGED <<assumed, ending>>
      BY <2>4 DEF ClosesTheDisplacedPath, Presents, TheSessionEnded, ShowsTheLobby,
         AsksToRelinquish, FindsItEnded, Returns
    <3> QED
      BY <2>1, <3>2, <3>3 DEF Accounted
  <2> QED
    BY <1>2, <2>2, <2>3, <2>4 DEF MovingSteps
<1>3. ASSUME NEW k \in Sockets, FailingSteps(k) PROVE Accounted'
  <2>1. log' = log /\ issued' = issued
    BY <1>3, FailingIs DEF Failing, SeatsOnlyGo
  <2>2. assumed' = [assumed EXCEPT ![k] = {}] /\ ending' = [ending EXCEPT ![k] = {}]
    BY <1>3, FailingIs DEF Failing, Breaks
  <2>3. /\ ending[k] \subseteq lost' /\ lost \subseteq lost'
        /\ \/ Seated' = Seated
           \/ Seated' = Seated \ assumed[k]
    BY <1>3, FailingIs DEF Failing, Breaks
  <2>4. ASSUME NEW s \in issued \ (Seated' \cup lost'),
               Has(log, Started(s)) \/ (\E j \in Sockets : s \in assumed'[j])
        PROVE  Has(log, Ended(s)) \/ \E j \in Sockets : s \in ending'[j]
    <3>1. s \notin lost /\ s \notin ending[k]
      BY <2>3, <2>4
    <3>2. Has(log, Started(s)) \/ (\E j \in Sockets : s \in assumed[j])
      BY <1>1, <2>2, <2>4
    <3>3. s \notin Seated
      <4>1. SUFFICES ASSUME s \in Seated, s \in assumed[k], Seated' = Seated \ assumed[k],
                            assumed[k] # {}
                     PROVE  FALSE
        BY <2>3, <2>4
      <4>2. \A j \in Sockets : s \notin assumed'[j]
        BY <1>1, <2>2, <4>1 DEF Owned
      <4>3. at[k] = "recording"
        BY <1>3, <4>1 DEF FailingSteps, ClosesAtRest, Fails, CannotRead, CannotNoteTheAct,
           CannotAuditTheEnd, CannotWriteTheTaking, CannotReachTheStore, Placed, TakingPlaces
      <4> QED
        BY <2>4, <4>1, <4>2, <4>3 DEF Written
    <3>4. \A j \in Sockets : s \in ending[j] => s \in ending'[j]
      BY <1>1, <2>2, <3>1
    <3> QED
      BY <2>4, <3>1, <3>2, <3>3, <3>4 DEF Accounted
  <2> QED
    BY <2>1, <2>4 DEF Accounted
<1>4. ASSUME NEW k \in Sockets, RecordsTheTaking(k) PROVE Accounted'
  <2>1. /\ at[k] = "recording" /\ log' = TheTaking(k)
        /\ UNCHANGED <<assumed, ending, lost, issued>> /\ Seated' = Seated
    BY <1>4 DEF RecordsTheTaking, seatVars, Seated
  <2>2. assumed[k] # {}
    BY <2>1 DEF Placed, TakingPlaces
  <2>3. \A entry : Has(log', entry) <=>
              \/ Has(log, entry)
              \/ \E s \in ending[k] : entry = Ended(s)
              \/ \E s \in assumed[k] : entry = Started(s)
    BY <2>1, <2>2, WritingTheTakingIs
  <2>4. \A s : Has(log', Started(s)) => Has(log, Started(s)) \/ s \in assumed[k]
    BY <2>3, EntriesAreNotMistaken
  <2>5. \A s : Has(log, Ended(s)) => Has(log', Ended(s))
    BY <2>3
  <2> QED
    BY <2>1, <2>4, <2>5 DEF Accounted
<1>5. ASSUME NEW k \in Sockets, AuditsTheEnd(k) PROVE Accounted'
  <2>1. /\ log' = log \o Endings(ending[k])
        /\ ending' = [ending EXCEPT ![k] = {}]
        /\ UNCHANGED <<assumed, lost, issued>> /\ Seated' = Seated
    BY <1>5 DEF AuditsTheEnd, seatVars, Seated
  <2>2. \A entry : Has(log', entry) <=>
                     Has(log, entry) \/ \E s \in ending[k] : entry = Ended(s)
    BY <2>1, WritingTheEndIs
  <2>3. \A s : Has(log', Ended(s)) <=> Has(log, Ended(s)) \/ s \in ending[k]
    BY <2>2, EntriesAreNotMistaken
  <2>4. \A s : Has(log', Started(s)) <=> Has(log, Started(s))
    BY <2>2, EntriesAreNotMistaken
  <2>5. \A j \in Sockets \ {k} : ending'[j] = ending[j]
    BY <1>1, <2>1
  <2> QED
    BY <2>1, <2>3, <2>4, <2>5 DEF Accounted
<1>6. ASSUME NEW k \in Sockets, NEW r \in Roles, NEW n \in Names, Assumes(k, r, n)
      PROVE  Accounted'
  <2>1. UserOf[k] \in Users /\ Take(UserOf[k], r, n)
    BY <1>6, SocketsAssumption DEF Assumes
  <2>2. /\ issued' = issued \cup {n}
        /\ Seated' = (Seated \ SeatsOf(UserOf[k])) \cup {n}
    BY <2>1, TakingIs DEF Shaped
  <2>3. /\ at[k] = "listening"
        /\ assumed' = [assumed EXCEPT ![k] = {n}]
        /\ ending' = [ending EXCEPT ![k] = SeatsOf(UserOf[k])]
        /\ log' = log /\ lost' = lost
    BY <1>6 DEF Assumes
  <2>4. ending[k] = {}
    BY <2>3 DEF Placed, TakingPlaces
  <2>5. SeatsOf(UserOf[k]) \subseteq ending'[k]
    BY <1>1, <2>3
  <2>6. \A j \in Sockets : ending[j] \subseteq ending'[j]
    BY <1>1, <2>3, <2>4
  <2>7. \A s \in issued \ {n}, j \in Sockets : s \in assumed'[j] => s \in assumed[j]
    BY <1>1, <2>3
  <2> QED
    BY <2>2, <2>3, <2>5, <2>6, <2>7 DEF Accounted
<1>7. CASE Elsewhere
  BY <1>7 DEF Elsewhere, SeatsOnlyGo, socketVars, Accounted
<1> QED
  BY <1>2, <1>3, <1>4, <1>5, <1>6, <1>7 DEF OfAKind

\* An ending goes unrecorded only where the store failed to take it.
THEOREM EndsAreWritten == Spec => []EveryEndIsRecorded
<1>1. Init => Accounted
  BY DEF Init, SeatsInit, Accounted
<1>2. Shaped /\ Placed /\ Owned /\ Written /\ Accounted /\ [Next]_vars => Accounted'
  BY StepsAreOfAKind, AccountedIsKept
<1>3. Accounted => EveryEndIsRecorded
  BY LoggedIs DEF Accounted, EveryEndIsRecorded
<1> QED
  BY <1>1, <1>2, <1>3, InHand, PTL DEF Spec

-----------------------------------------------------------------------------
(* What becomes of a seat.                                                 *)

\* The two halves of SeatsAreRecordedOrGivenUp.
AllAttended == \A s \in Seated \ lost : Attended(s)

AllRecorded ==
  \A s \in Seated \ lost :
    \/ Has(log, Started(s))
    \/ \E k \in Sockets : at[k] \in {"displacing", "recording"} /\ s \in assumed[k]

LEMMA AllAttendedIsKept ==
  ASSUME Shaped, Placed, Owned, AllAttended, OfAKind
  PROVE  AllAttended'
<1>1. /\ at \in [Sockets -> Places]
      /\ session \in [Sockets -> SUBSET issued] /\ assumed \in [Sockets -> SUBSET issued]
  BY DEF Shaped, OptionsOf
<1>2. ASSUME NEW k \in Sockets, MovingSteps(k) PROVE AllAttended'
  <2>1. Seated' \subseteq Seated /\ lost' = lost /\ gone' = gone
    BY <1>2, MovingIs DEF Shaped, Moves, SeatsOnlyGo
  <2>2. SUFFICES ASSUME NEW s \in Seated' \ lost, s \notin gone
                 PROVE  \E j \in Sockets : at'[j] # "closed" /\ s \in session'[j] \cup assumed'[j]
    BY <2>1 DEF AllAttended, Attended
  <2>3. PICK j \in Sockets : at[j] # "closed" /\ s \in session[j] \cup assumed[j]
    BY <2>1, <2>2 DEF AllAttended, Attended
  <2>4. ASSUME j = k PROVE at'[k] # "closed" /\ s \in session'[k] \cup assumed'[k]
    <3>1. at[k] # "closed" /\ s \in session[k] \cup assumed[k] /\ s \in Seated
      BY <2>1, <2>2, <2>3, <2>4
    <3>2. CASE OpensThePath(k)
      <4>1. s \notin session[k]
        BY <3>1, <3>2 DEF OpensThePath, Owned, TakingPlaces
      <4> QED
        BY <1>1, <3>1, <3>2, <4>1 DEF OpensThePath
    <3>3. CASE TheSessionEnded(k)
      <4>1. s \notin session[k]
        BY <3>1, <3>3 DEF TheSessionEnded, Shaped, OptionsOf, AtMostOne
      <4> QED
        BY <1>1, <3>1, <3>3, <4>1 DEF TheSessionEnded
    <3>4. CASE Relinquishes(k)
      <4>1. session[k] \cap Seated' = {}
        BY <3>4, LeavingIs DEF Relinquishes, Shaped, OptionsOf, AtMostOne
      <4>2. s \notin session[k]
        BY <2>2, <4>1
      <4> QED
        BY <1>1, <3>1, <3>4, <4>2 DEF Relinquishes, LetsGo
    <3>5. CASE FindsItEnded(k)
      <4>1. s \notin session[k]
        BY <3>1, <3>5 DEF FindsItEnded
      <4> QED
        BY <1>1, <3>1, <3>5, <4>1 DEF FindsItEnded, LetsGo
    <3>6. CASE ClosesTheDisplacedPath(k) \/ Presents(k) \/ ShowsTheLobby(k) \/ AsksToRelinquish(k)
      BY <1>1, <3>1, <3>6 DEF ClosesTheDisplacedPath, Presents, ShowsTheLobby, AsksToRelinquish
    <3>7. CASE Returns(k)
      BY <3>1, <3>7 DEF Returns
    <3> QED
      BY <1>2, <3>2, <3>3, <3>4, <3>5, <3>6, <3>7 DEF MovingSteps
  <2>5. ASSUME j # k PROVE at'[j] = at[j] /\ session'[j] = session[j] /\ assumed'[j] = assumed[j]
    BY <1>1, <1>2, <2>5, MovingIs DEF Moves, Shaped
  <2> QED
    BY <2>3, <2>4, <2>5
<1>3. ASSUME NEW k \in Sockets, FailingSteps(k) PROVE AllAttended'
  <2>1. /\ at' = [at EXCEPT ![k] = "closed"] /\ session' = session
        /\ assumed' = [assumed EXCEPT ![k] = {}]
        /\ gone' = gone \cup (session[k] \cap Seated) /\ lost \subseteq lost'
        /\ \/ Seated' = Seated \ assumed[k]
           \/ Seated' = Seated /\ assumed[k] \subseteq lost'
    BY <1>3, FailingIs DEF Failing, Breaks
  <2> QED
    BY <1>1, <2>1 DEF AllAttended, Attended
<1>4. ASSUME NEW k \in Sockets, RecordsTheTaking(k) \/ AuditsTheEnd(k) PROVE AllAttended'
  <2>1. /\ Seated' = Seated /\ UNCHANGED <<session, assumed, gone, lost>>
        /\ \A j \in Sockets : at[j] # "closed" => at'[j] # "closed"
    BY <1>1, <1>4, NothingIs DEF RecordsTheTaking, AuditsTheEnd, Shaped
  <2> QED
    BY <2>1 DEF AllAttended, Attended
<1>5. ASSUME NEW k \in Sockets, NEW r \in Roles, NEW n \in Names, Assumes(k, r, n)
      PROVE  AllAttended'
  <2>1. UserOf[k] \in Users /\ Take(UserOf[k], r, n)
    BY <1>5, SocketsAssumption DEF Assumes
  <2>2. Seated' = (Seated \ SeatsOf(UserOf[k])) \cup {n}
    BY <2>1, TakingIs DEF Shaped
  <2>3. /\ at[k] = "listening"
        /\ assumed' = [assumed EXCEPT ![k] = {n}]
        /\ at' = [at EXCEPT ![k] = "displacing"]
        /\ UNCHANGED <<session, gone, lost>>
    BY <1>5 DEF Assumes
  <2>4. assumed[k] = {}
    BY <2>3 DEF Placed, TakingPlaces
  <2>5. \A j \in Sockets : /\ assumed[j] \subseteq assumed'[j]
                           /\ at[j] # "closed" => at'[j] # "closed"
    BY <1>1, <2>3, <2>4
  <2>6. n \in assumed'[k] /\ at'[k] # "closed"
    BY <1>1, <2>3
  <2> QED
    BY <2>2, <2>3, <2>5, <2>6 DEF AllAttended, Attended
<1>6. CASE Elsewhere
  BY <1>6 DEF Elsewhere, socketVars, AllAttended, Attended
<1> QED
  BY <1>2, <1>3, <1>4, <1>5, <1>6 DEF OfAKind

LEMMA AllRecordedIsKept ==
  ASSUME Shaped, Placed, AllRecorded, OfAKind
  PROVE  AllRecorded'
<1>1. at \in [Sockets -> Places] /\ assumed \in [Sockets -> SUBSET issued]
  BY DEF Shaped, OptionsOf
<1>2. ASSUME NEW k \in Sockets, MovingSteps(k) PROVE AllRecorded'
  <2>1. Seated' \subseteq Seated /\ lost' = lost /\ log' = log
    BY <1>2, MovingIs DEF Shaped, Moves, SeatsOnlyGo
  <2>2. \A j \in Sockets :
          at[j] \in {"displacing", "recording"} =>
            at'[j] \in {"displacing", "recording"} /\ assumed'[j] = assumed[j]
    BY <1>1, <1>2 DEF MovingSteps, ClosesTheDisplacedPath, OpensThePath, Presents,
       TheSessionEnded, ShowsTheLobby, AsksToRelinquish, Relinquishes, FindsItEnded, Returns
  <2> QED
    BY <2>1, <2>2 DEF AllRecorded
<1>3. ASSUME NEW k \in Sockets, FailingSteps(k) PROVE AllRecorded'
  <2>1. /\ at' = [at EXCEPT ![k] = "closed"] /\ assumed' = [assumed EXCEPT ![k] = {}]
        /\ log' = log /\ lost \subseteq lost'
        /\ \/ Seated' = Seated \ assumed[k]
           \/ Seated' = Seated /\ assumed[k] \subseteq lost'
    BY <1>3, FailingIs DEF Failing, Breaks
  <2> QED
    BY <1>1, <2>1 DEF AllRecorded
<1>4. ASSUME NEW k \in Sockets, RecordsTheTaking(k) PROVE AllRecorded'
  <2>1. /\ at[k] = "recording" /\ log' = TheTaking(k) /\ at' = [at EXCEPT ![k] = "opening"]
        /\ UNCHANGED <<assumed, lost>> /\ Seated' = Seated
    BY <1>4 DEF RecordsTheTaking, seatVars, Seated
  <2>2. assumed[k] # {}
    BY <2>1 DEF Placed, TakingPlaces
  <2>3. /\ \A s : Has(log, Started(s)) => Has(log', Started(s))
        /\ \A s \in assumed[k] : Has(log', Started(s))
    BY <2>1, <2>2, WritingTheTakingIs
  <2> QED
    BY <1>1, <2>1, <2>3 DEF AllRecorded
<1>5. ASSUME NEW k \in Sockets, AuditsTheEnd(k) PROVE AllRecorded'
  <2>1. /\ at[k] = "auditing" /\ log' = log \o Endings(ending[k])
        /\ at' = [at EXCEPT ![k] = "returning"]
        /\ UNCHANGED <<assumed, lost>> /\ Seated' = Seated
    BY <1>5 DEF AuditsTheEnd, seatVars, Seated
  <2>2. \A s : Has(log, Started(s)) => Has(log', Started(s))
    BY <2>1, WritingTheEndIs
  <2> QED
    BY <1>1, <2>1, <2>2 DEF AllRecorded
<1>6. ASSUME NEW k \in Sockets, NEW r \in Roles, NEW n \in Names, Assumes(k, r, n)
      PROVE  AllRecorded'
  <2>1. UserOf[k] \in Users /\ Take(UserOf[k], r, n)
    BY <1>6, SocketsAssumption DEF Assumes
  <2>2. Seated' = (Seated \ SeatsOf(UserOf[k])) \cup {n}
    BY <2>1, TakingIs DEF Shaped
  <2>3. /\ at[k] = "listening"
        /\ assumed' = [assumed EXCEPT ![k] = {n}]
        /\ at' = [at EXCEPT ![k] = "displacing"]
        /\ log' = log /\ lost' = lost
    BY <1>6 DEF Assumes
  <2>4. n \in assumed'[k] /\ at'[k] = "displacing"
    BY <1>1, <2>3
  <2>5. \A j \in Sockets :
          at[j] \in {"displacing", "recording"} => at'[j] = at[j] /\ assumed'[j] = assumed[j]
    BY <1>1, <2>3
  <2> QED
    BY <2>2, <2>3, <2>4, <2>5 DEF AllRecorded
<1>7. CASE Elsewhere
  BY <1>7 DEF Elsewhere, socketVars, AllRecorded
<1> QED
  BY <1>2, <1>3, <1>4, <1>5, <1>6, <1>7 DEF OfAKind

\* A seat whose taking could not be written is given up, whoever displaces whom meanwhile;
\* what is excepted is a seat whose transaction could not be begun or ended.
THEOREM SeatsAreGivenUp == Spec => []SeatsAreRecordedOrGivenUp
<1>1. Init => AllAttended /\ AllRecorded
  BY DEF Init, SeatsInit, Seated, AllAttended, AllRecorded
<1>2. AllAttended /\ AllRecorded => SeatsAreRecordedOrGivenUp
  BY LoggedIs DEF AllAttended, AllRecorded, SeatsAreRecordedOrGivenUp
<1>3. Shaped /\ Placed /\ Owned /\ AllAttended /\ AllRecorded /\ [Next]_vars
        => (AllAttended /\ AllRecorded)'
  BY StepsAreOfAKind, AllAttendedIsKept, AllRecordedIsKept
<1> QED
  BY <1>1, <1>2, <1>3, InHand, PTL DEF Spec

-----------------------------------------------------------------------------
(* What becomes of a media path.                                           *)

\* As AHeldSeatHasItsPath, and from the moment the session is the socket's.
PathsAreHeld ==
  \A k \in Sockets :
    at[k] \in {"presenting", "listening", "relinquishing"} /\ session[k] \subseteq Seated
      => session[k] \subseteq paths

LEMMA PathsAreHeldStill ==
  ASSUME Shaped, Placed, Owned, PathsAreHeld, OfAKind
  PROVE  PathsAreHeld'
<1>1. /\ at \in [Sockets -> Places]
      /\ session \in [Sockets -> SUBSET issued] /\ assumed \in [Sockets -> SUBSET issued]
  BY DEF Shaped, OptionsOf
<1>2. ASSUME NEW k \in Sockets, MovingSteps(k) PROVE PathsAreHeld'
  <2>1. Seated' \subseteq Seated
    BY <1>2, MovingIs DEF Shaped, SeatsOnlyGo
  <2>2. CASE ClosesTheDisplacedPath(k)
    <3>1. paths' = paths \ ending[k] /\ session' = session /\ ending[k] \cap Seated' = {}
      BY <2>1, <2>2 DEF ClosesTheDisplacedPath, Owned
    <3>2. at' = [at EXCEPT ![k] = "recording"]
      BY <2>2 DEF ClosesTheDisplacedPath
    <3> QED
      BY <1>1, <2>1, <3>1, <3>2 DEF PathsAreHeld
  <2>3. CASE OpensThePath(k)
    BY <1>1, <2>1, <2>3 DEF OpensThePath, PathsAreHeld
  <2>4. CASE Relinquishes(k) \/ FindsItEnded(k)
    <3>1. session[k] \cap Seated' = {}
      BY <2>4, LeavingIs, NothingIs
         DEF Relinquishes, FindsItEnded, Shaped, OptionsOf, AtMostOne
    <3>2. session' = [session EXCEPT ![k] = {}] /\ paths' = paths \ session[k]
      BY <2>4 DEF Relinquishes, FindsItEnded, LetsGo
    <3>3. \A j \in Sockets \ {k} : at'[j] = at[j]
      BY <1>1, <2>4 DEF Relinquishes, FindsItEnded
    <3> QED
      BY <1>1, <2>1, <3>1, <3>2, <3>3 DEF PathsAreHeld
  <2>5. CASE ShowsTheLobby(k)
    <3>1. session[k] = {} /\ paths' = paths /\ session' = session
      BY <2>5 DEF ShowsTheLobby, Placed
    <3> QED
      BY <1>1, <2>1, <2>5, <3>1 DEF ShowsTheLobby, PathsAreHeld
  <2>6. CASE Presents(k) \/ AsksToRelinquish(k)
    BY <1>1, <2>1, <2>6 DEF Presents, AsksToRelinquish, PathsAreHeld
  <2>7. CASE TheSessionEnded(k) \/ Returns(k)
    BY <1>1, <2>1, <2>7 DEF TheSessionEnded, Returns, PathsAreHeld
  <2> QED
    BY <1>2, <2>2, <2>3, <2>4, <2>5, <2>6, <2>7 DEF MovingSteps
<1>3. ASSUME NEW k \in Sockets, FailingSteps(k) PROVE PathsAreHeld'
  <2>1. /\ at' = [at EXCEPT ![k] = "closed"] /\ session' = session /\ paths' = paths
        /\ Seated' \subseteq Seated
    BY <1>3, FailingIs DEF Failing, Breaks, SeatsOnlyGo
  <2> QED
    BY <1>1, <2>1 DEF PathsAreHeld
<1>4. ASSUME NEW k \in Sockets, RecordsTheTaking(k) PROVE PathsAreHeld'
  <2>1. at' = [at EXCEPT ![k] = "opening"] /\ session' = session /\ paths' = paths
           /\ Seated' = Seated
    BY <1>4 DEF RecordsTheTaking, seatVars, Seated
  <2> QED
    BY <1>1, <2>1 DEF PathsAreHeld
<1>5. ASSUME NEW k \in Sockets, AuditsTheEnd(k) PROVE PathsAreHeld'
  <2>1. at' = [at EXCEPT ![k] = "returning"] /\ session' = session /\ paths' = paths
           /\ Seated' = Seated
    BY <1>5 DEF AuditsTheEnd, seatVars, Seated
  <2> QED
    BY <1>1, <2>1 DEF PathsAreHeld
<1>6. ASSUME NEW k \in Sockets, NEW r \in Roles, NEW n \in Names, Assumes(k, r, n)
      PROVE  PathsAreHeld'
  <2>1. UserOf[k] \in Users /\ Take(UserOf[k], r, n)
    BY <1>6, SocketsAssumption DEF Assumes
  <2>2. n \notin issued /\ Seated' = (Seated \ SeatsOf(UserOf[k])) \cup {n}
    BY <2>1, TakingIs DEF Shaped
  <2>3. at' = [at EXCEPT ![k] = "displacing"] /\ session' = session /\ paths' = paths
    BY <1>6 DEF Assumes
  <2>4. \A j \in Sockets : n \notin session[j]
    BY <2>2, FreshIsNobodys
  <2> QED
    BY <1>1, <2>2, <2>3, <2>4 DEF PathsAreHeld
<1>7. CASE Elsewhere
  BY <1>7 DEF Elsewhere, socketVars, PathsAreHeld
<1> QED
  BY <1>2, <1>3, <1>4, <1>5, <1>6, <1>7 DEF OfAKind

\* A socket at rest on a seat that is still its own has its media path: no closing of
\* another's ever takes it.
THEOREM HeldSeatsHaveTheirPaths == Spec => []AHeldSeatHasItsPath
<1>1. Init => PathsAreHeld
  BY DEF Init, PathsAreHeld
<1>2. PathsAreHeld => AHeldSeatHasItsPath
  BY DEF PathsAreHeld, AHeldSeatHasItsPath
<1>3. Shaped /\ Placed /\ Owned /\ PathsAreHeld /\ [Next]_vars => PathsAreHeld'
  BY StepsAreOfAKind, PathsAreHeldStill
<1> QED
  BY <1>1, <1>2, <1>3, InHand, PTL DEF Spec
-----------------------------------------------------------------------------
(* What the log tells the end of began.                                    *)

\* As AnEndIsOfWhatBegan, and of what is still to be ended.
EndsBegan ==
  \A s \in issued :
    s \in Seated \/ Has(log, Ended(s)) \/ (\E k \in Sockets : s \in ending[k]) => Began(s)

\* What began has begun for good, but for a taking that is undone.
LEMMA BeganStays ==
  ASSUME Shaped, Placed, OfAKind, NEW s \in issued, Began(s),
         \A k \in Sockets : FailingSteps(k) /\ s \in assumed[k] => s \notin Seated \/ s \in Seated'
  PROVE  Began(s)'
<1> USE LoggedIs DEF Began
<1>1. at \in [Sockets -> Places] /\ assumed \in [Sockets -> SUBSET issued]
  BY DEF Shaped, OptionsOf
<1>2. ASSUME NEW k \in Sockets, MovingSteps(k) PROVE Began(s)'
  <2>1. lost' = lost /\ log' = log
    BY <1>2, MovingIs DEF Shaped, Moves
  <2>2. \A j \in Sockets :
          at[j] \in {"displacing", "recording"} =>
            at'[j] \in {"displacing", "recording"} /\ assumed'[j] = assumed[j]
    BY <1>1, <1>2 DEF MovingSteps, ClosesTheDisplacedPath, OpensThePath, Presents,
       TheSessionEnded, ShowsTheLobby, AsksToRelinquish, Relinquishes, FindsItEnded, Returns
  <2>3. \A entry : Logged(entry) => Logged(entry)'
    BY <2>1 DEF Logged
  <2> QED
    BY <2>1, <2>2, <2>3
<1>3. ASSUME NEW k \in Sockets, FailingSteps(k) PROVE Began(s)'
  <2>1. /\ at' = [at EXCEPT ![k] = "closed"] /\ assumed' = [assumed EXCEPT ![k] = {}]
        /\ log' = log /\ lost \subseteq lost'
        /\ \/ Seated' = Seated \ assumed[k] /\ assumed[k] \ Seated \subseteq lost'
           \/ Seated' = Seated /\ assumed[k] \subseteq lost'
    BY <1>3, FailingIs DEF Failing, Breaks
  <2>2. \A entry : Logged(entry) => Logged(entry)'
    BY <2>1 DEF Logged
  <2>3. CASE s \in assumed[k]
    BY <1>3, <2>1, <2>3
  <2>4. CASE s \notin assumed[k]
    BY <1>1, <2>1, <2>2, <2>4
  <2> QED
    BY <2>3, <2>4
<1>4. ASSUME NEW k \in Sockets, RecordsTheTaking(k) PROVE Began(s)'
  <2>1. /\ at[k] = "recording" /\ log' = TheTaking(k) /\ at' = [at EXCEPT ![k] = "opening"]
        /\ UNCHANGED <<assumed, lost>>
    BY <1>4 DEF RecordsTheTaking
  <2>2. assumed[k] # {}
    BY <2>1 DEF Placed, TakingPlaces
  <2>3. /\ \A t : Has(log, Started(t)) => Has(log', Started(t))
        /\ \A t \in assumed[k] : Has(log', Started(t))
    BY <2>1, <2>2, WritingTheTakingIs
  <2>4. Logged(Started(s))' <=> Has(log', Started(s))
    BY DEF Logged, Has
  <2> QED
    BY <1>1, <2>1, <2>3, <2>4
<1>5. ASSUME NEW k \in Sockets, AuditsTheEnd(k) PROVE Began(s)'
  <2>1. /\ at[k] = "auditing" /\ log' = log \o Endings(ending[k])
        /\ at' = [at EXCEPT ![k] = "returning"]
        /\ UNCHANGED <<assumed, lost>>
    BY <1>5 DEF AuditsTheEnd
  <2>2. \A t : Has(log, Started(t)) => Has(log', Started(t))
    BY <2>1, WritingTheEndIs
  <2>3. Logged(Started(s))' <=> Has(log', Started(s))
    BY DEF Logged, Has
  <2> QED
    BY <1>1, <2>1, <2>2, <2>3
<1>6. ASSUME NEW k \in Sockets, NEW r \in Roles, NEW n \in Names, Assumes(k, r, n)
      PROVE  Began(s)'
  <2>1. /\ at[k] = "listening"
        /\ assumed' = [assumed EXCEPT ![k] = {n}]
        /\ at' = [at EXCEPT ![k] = "displacing"]
        /\ log' = log /\ lost' = lost
    BY <1>6 DEF Assumes
  <2>2. \A j \in Sockets :
          at[j] \in {"displacing", "recording"} => at'[j] = at[j] /\ assumed'[j] = assumed[j]
    BY <1>1, <2>1
  <2> QED
    BY <2>1, <2>2 DEF Logged
<1>7. CASE Elsewhere
  BY <1>7 DEF Elsewhere, socketVars, Logged
<1> QED
  BY <1>2, <1>3, <1>4, <1>5, <1>6, <1>7 DEF OfAKind

LEMMA EndsBeganIsKept ==
  ASSUME Shaped, Placed, Owned, Written, EndsBegan, OfAKind
  PROVE  EndsBegan'
<1>1. /\ at \in [Sockets -> Places] /\ ending \in [Sockets -> SUBSET issued]
      /\ session \in [Sockets -> SUBSET issued] /\ assumed \in [Sockets -> SUBSET issued]
  BY DEF Shaped, OptionsOf
<1> DEFINE Ends(s) == s \in Seated \/ Has(log, Ended(s)) \/ (\E k \in Sockets : s \in ending[k])
\* Whatever is ended or to be ended after the step was so before it, and has not been undone.
<1>2. ASSUME NEW s \in issued, Ends(s),
             \A k \in Sockets : FailingSteps(k) /\ s \in assumed[k] => s \notin Seated \/ s \in Seated'
      PROVE  Began(s)'
  BY <1>2, BeganStays DEF EndsBegan
<1>3. ASSUME NEW k \in Sockets, MovingSteps(k) PROVE EndsBegan'
  <2>1. /\ SeatsOnlyGo /\ log' = log
    BY <1>3, MovingIs DEF Shaped, Moves
  <2>2. \A j \in Sockets : \A s \in ending'[j] : s \in ending[j] \/ s \in Seated
    <3>1. CASE Relinquishes(k)
      <4>1. session[k] \subseteq Seated /\ ending' = [ending EXCEPT ![k] = session[k]]
        BY <3>1 DEF Relinquishes, Leave, Shaped, OptionsOf, AtMostOne
      <4> QED
        BY <1>1, <4>1
    <3>2. CASE ~Relinquishes(k)
      BY <1>1, <1>3, <3>2 DEF MovingSteps, ClosesTheDisplacedPath, OpensThePath, Presents,
         TheSessionEnded, ShowsTheLobby, AsksToRelinquish, FindsItEnded, Returns
    <3> QED
      BY <3>1, <3>2
  <2>3. \A j \in Sockets : ~FailingSteps(j) \/ Seated' = Seated \/ Relinquishes(k)
    BY <1>3, MovingIs DEF Shaped
  <2>4. ASSUME NEW s \in issued, Ends(s), NEW j \in Sockets, FailingSteps(j), s \in assumed[j],
               s \in Seated, s \notin Seated'
        PROVE  FALSE
    <3>1. Relinquishes(k)
      BY <2>3, <2>4
    <3>2. Failing(j)
      BY <2>4, FailingIs
    <3>3. at' = [at EXCEPT ![k] = "auditing"] /\ at' = [at EXCEPT ![j] = "closed"]
      BY <3>1, <3>2 DEF Relinquishes, Failing, Breaks
    <3>4. at[k] = "relinquishing"
      BY <3>1 DEF Relinquishes
    <3> QED
      BY <1>1, <3>3, <3>4
  <2> QED
    BY <1>2, <2>1, <2>2, <2>4 DEF EndsBegan, SeatsOnlyGo
<1>4. ASSUME NEW k \in Sockets, FailingSteps(k) PROVE EndsBegan'
  <2>1. /\ SeatsOnlyGo /\ log' = log
        /\ ending' = [ending EXCEPT ![k] = {}] /\ at' = [at EXCEPT ![k] = "closed"]
        /\ Seated' \in {Seated, Seated \ assumed[k]}
    BY <1>4, FailingIs DEF Failing, Breaks
  <2>2. ASSUME NEW s \in issued, s \in Seated, s \notin Seated'
        PROVE  ~Has(log', Ended(s)) /\ \A j \in Sockets : s \notin ending'[j]
    BY <1>1, <2>1, <2>2 DEF Written, Owned
  <2> QED
    BY <1>1, <1>2, <2>1, <2>2 DEF EndsBegan, SeatsOnlyGo
<1>5. ASSUME NEW k \in Sockets, RecordsTheTaking(k) \/ AuditsTheEnd(k) PROVE EndsBegan'
  <2>1. /\ Seated' = Seated /\ issued' = issued
        /\ \A j \in Sockets : ending'[j] \subseteq ending[j]
    BY <1>1, <1>5 DEF RecordsTheTaking, AuditsTheEnd, seatVars, Seated
  <2>2. \A s : Has(log', Ended(s)) => Has(log, Ended(s)) \/ s \in ending[k]
    <3>1. CASE RecordsTheTaking(k)
      <4>1. at[k] = "recording" /\ log' = TheTaking(k)
        BY <3>1 DEF RecordsTheTaking
      <4>2. assumed[k] # {}
        BY <4>1 DEF Placed, TakingPlaces
      <4> QED
        BY <4>1, <4>2, WritingTheTakingIs, EntriesAreNotMistaken
    <3>2. CASE AuditsTheEnd(k)
      BY <3>2, WritingTheEndIs, EntriesAreNotMistaken DEF AuditsTheEnd
    <3> QED
      BY <1>5, <3>1, <3>2
  <2> QED
    BY <1>2, <2>1, <2>2 DEF EndsBegan
<1>6. ASSUME NEW k \in Sockets, NEW r \in Roles, NEW n \in Names, Assumes(k, r, n)
      PROVE  EndsBegan'
  <2>1. UserOf[k] \in Users /\ Take(UserOf[k], r, n)
    BY <1>6, SocketsAssumption DEF Assumes
  <2>2. /\ n \notin issued /\ issued' = issued \cup {n}
        /\ Seated' = (Seated \ SeatsOf(UserOf[k])) \cup {n}
    BY <2>1, TakingIs DEF Shaped
  <2>3. /\ assumed' = [assumed EXCEPT ![k] = {n}]
        /\ ending' = [ending EXCEPT ![k] = SeatsOf(UserOf[k])]
        /\ at' = [at EXCEPT ![k] = "displacing"] /\ log' = log /\ at[k] = "listening"
        /\ lost' = lost
    BY <1>6 DEF Assumes
  <2>4. Began(n)'
    BY <1>1, <2>3 DEF Began
  <2>5. SeatsOf(UserOf[k]) \subseteq Seated
    BY DEF SeatsOf
  <2>6. ASSUME NEW s \in issued, Ends(s)' PROVE Ends(s)
    BY <1>1, <2>2, <2>3, <2>5, <2>6
  <2>7. ASSUME NEW s \in issued, Ends(s) PROVE Began(s)'
    <3>1. Began(s)
      BY <2>7 DEF EndsBegan
    <3>2. \A j \in Sockets : at[j] \in {"displacing", "recording"} =>
            at'[j] = at[j] /\ assumed'[j] = assumed[j]
      BY <1>1, <2>3
    <3> QED
      BY <2>3, <3>1, <3>2 DEF Began, Logged
  <2> QED
    BY <2>2, <2>4, <2>6, <2>7 DEF EndsBegan
<1>7. CASE Elsewhere
  BY <1>7 DEF Elsewhere, SeatsOnlyGo, socketVars, EndsBegan, Began, Logged
<1> QED
  BY <1>3, <1>4, <1>5, <1>6, <1>7 DEF OfAKind

\* No end is told of a session the log never hears began, unless the store failed to take
\* its start.
THEOREM EndsAreOfWhatBegan == Spec => []AnEndIsOfWhatBegan
<1>1. Init => EndsBegan
  BY DEF Init, SeatsInit, EndsBegan
<1>2. Shaped /\ Placed /\ Owned /\ Written /\ EndsBegan /\ [Next]_vars => EndsBegan'
  BY StepsAreOfAKind, EndsBeganIsKept
<1>3. Shaped /\ EndsBegan => AnEndIsOfWhatBegan
  <2>1. \A s : Ended(s).of = s
    BY DEF Ended
  <2> QED
    BY <2>1, LoggedIs DEF Shaped, EndsBegan, AnEndIsOfWhatBegan
<1> QED
  BY <1>1, <1>2, <1>3, InHand, PTL DEF Spec

-----------------------------------------------------------------------------
(* What becomes of a path that nobody holds.                               *)

\* No path is open for a session that is still being taken.
NotYetOpened == \A k \in Sockets : assumed[k] \cap paths = {}

LEMMA NotYetOpenedIsKept ==
  ASSUME Shaped, Placed, Owned, NotYetOpened, OfAKind
  PROVE  NotYetOpened'
<1>1. assumed \in [Sockets -> SUBSET issued] /\ paths \subseteq issued
  BY DEF Shaped, OptionsOf
<1>2. ASSUME NEW k \in Sockets, MovingSteps(k) PROVE NotYetOpened'
  <2>1. CASE OpensThePath(k)
    <3>1. paths' = paths \cup assumed[k] /\ assumed' = [assumed EXCEPT ![k] = {}]
      BY <2>1 DEF OpensThePath
    <3> QED
      BY <1>1, <3>1 DEF NotYetOpened, Owned
  <2>2. CASE ~OpensThePath(k)
    <3>1. paths' \subseteq paths /\ assumed' = assumed
      BY <1>2, <2>2 DEF MovingSteps, ClosesTheDisplacedPath, Presents, TheSessionEnded,
         ShowsTheLobby, AsksToRelinquish, Relinquishes, FindsItEnded, LetsGo, Returns
    <3> QED
      BY <3>1 DEF NotYetOpened
  <2> QED
    BY <2>1, <2>2
<1>3. ASSUME NEW k \in Sockets, FailingSteps(k) PROVE NotYetOpened'
  <2>1. paths' = paths /\ assumed' = [assumed EXCEPT ![k] = {}]
    BY <1>3, FailingIs DEF Failing, Breaks
  <2> QED
    BY <1>1, <2>1 DEF NotYetOpened
<1>4. ASSUME NEW k \in Sockets, RecordsTheTaking(k) \/ AuditsTheEnd(k) PROVE NotYetOpened'
  BY <1>4 DEF RecordsTheTaking, AuditsTheEnd, NotYetOpened
<1>5. ASSUME NEW k \in Sockets, NEW r \in Roles, NEW n \in Names, Assumes(k, r, n)
      PROVE  NotYetOpened'
  <2>1. n \notin issued /\ assumed' = [assumed EXCEPT ![k] = {n}] /\ paths' = paths
    BY <1>5 DEF Assumes, Take
  <2> QED
    BY <1>1, <2>1 DEF NotYetOpened
<1>6. CASE Elsewhere
  BY <1>6 DEF Elsewhere, socketVars, NotYetOpened
<1> QED
  BY <1>2, <1>3, <1>4, <1>5, <1>6 DEF OfAKind

\* What nothing but the closing itself takes from a displacement.
StillToClose(s, k) == at[k] = "displacing" /\ s \in ending[k]

LEMMA OnlyALatePathStays ==
  ASSUME Shaped, Placed, Owned, NotYetOpened, OfAKind,
         NEW s \in Names, IsLeftOpen(s)', ~IsLeftOpen(s)
  PROVE  \E k \in Sockets : at[k] = "opening" /\ s \in assumed[k] \ Seated
<1>1. /\ at \in [Sockets -> Places] /\ assumed \in [Sockets -> SUBSET issued]
      /\ ending \in [Sockets -> SUBSET issued] /\ session \in [Sockets -> SUBSET issued]
  BY DEF Shaped, OptionsOf
<1>2. s \in paths' /\ s \notin Seated' /\ \A k \in Sockets : ~StillToClose(s, k)'
  BY DEF IsLeftOpen, StillToClose
\* A path that was open already, of a session that was over, was about to be closed.
<1>3. s \in paths /\ s \notin Seated => \E j \in Sockets : StillToClose(s, j)
  BY DEF IsLeftOpen, StillToClose
<1>4. ASSUME NEW k \in Sockets, MovingSteps(k)
      PROVE  at[k] = "opening" /\ s \in assumed[k] \ Seated
  <2>1. SeatsAreSound
    BY DEF Shaped
  <2>2. CASE ClosesTheDisplacedPath(k)
    <3>1. /\ paths' = paths \ ending[k] /\ ending' = ending /\ Seated' = Seated
          /\ at' = [at EXCEPT ![k] = "recording"]
      BY <2>2 DEF ClosesTheDisplacedPath, seatVars, Seated
    <3>2. PICK j \in Sockets : StillToClose(s, j)
      BY <1>2, <1>3, <3>1
    <3>3. j # k
      BY <1>2, <3>1, <3>2 DEF StillToClose
    <3>4. StillToClose(s, j)'
      BY <1>1, <3>1, <3>2, <3>3 DEF StillToClose
    <3> QED
      BY <1>2, <3>4
  <2>3. CASE OpensThePath(k)
    <3>1. /\ paths' = paths \cup assumed[k] /\ at[k] = "opening" /\ Seated' = Seated
          /\ at' = [at EXCEPT ![k] = "presenting"] /\ ending' = [ending EXCEPT ![k] = {}]
      BY <2>3 DEF OpensThePath, seatVars, Seated
    <3>2. s \notin paths
      BY <1>1, <1>2, <1>3, <3>1 DEF StillToClose
    <3> QED
      BY <1>2, <3>1, <3>2
  <2>4. CASE Relinquishes(k) \/ FindsItEnded(k)
    <3>1. /\ paths' = paths \ session[k] /\ at[k] = "relinquishing"
          /\ \A j \in Sockets \ {k} : at'[j] = at[j] /\ ending'[j] = ending[j]
      BY <1>1, <2>4 DEF Relinquishes, FindsItEnded, LetsGo
    <3>2. Seated \ session[k] \subseteq Seated'
      BY <1>4, <2>1, MovingIs
    <3>3. \E j \in Sockets \ {k} : StillToClose(s, j)
      BY <1>2, <1>3, <3>1, <3>2 DEF StillToClose
    <3> QED
      BY <1>2, <3>1, <3>3 DEF StillToClose
  <2>5. CASE \/ Presents(k) \/ TheSessionEnded(k) \/ ShowsTheLobby(k) \/ AsksToRelinquish(k)
             \/ Returns(k)
    <3>1. /\ paths' = paths /\ ending' = ending /\ at[k] # "displacing"
          /\ \A j \in Sockets \ {k} : at'[j] = at[j]
      BY <1>1, <2>5
         DEF Presents, TheSessionEnded, ShowsTheLobby, AsksToRelinquish, Returns
    <3>2. Seated' = Seated
      BY <1>4, <2>1, <2>5, MovingIs
         DEF Presents, TheSessionEnded, ShowsTheLobby, AsksToRelinquish, Returns, Relinquishes
    <3> QED
      BY <1>2, <1>3, <3>1, <3>2 DEF StillToClose
  <2> QED
    BY <1>4, <2>2, <2>3, <2>4, <2>5 DEF MovingSteps
<1>5. ASSUME NEW k \in Sockets, FailingSteps(k) PROVE FALSE
  <2>1. /\ paths' = paths /\ ending' = [ending EXCEPT ![k] = {}]
        /\ at' = [at EXCEPT ![k] = "closed"] /\ Seated' \in {Seated, Seated \ assumed[k]}
    BY <1>5, FailingIs DEF Failing, Breaks
  <2>2. at[k] # "displacing"
    BY <1>5 DEF FailingSteps, ClosesAtRest, Fails, CannotRead, CannotWriteTheTaking,
       CannotReachTheStore, CannotNoteTheAct, CannotAuditTheEnd
  <2>3. s \notin Seated
    BY <1>2, <2>1 DEF NotYetOpened
  <2> QED
    BY <1>1, <1>2, <1>3, <2>1, <2>2, <2>3 DEF StillToClose
<1>6. ASSUME NEW k \in Sockets, RecordsTheTaking(k) \/ AuditsTheEnd(k) PROVE FALSE
  <2>1. /\ paths' = paths /\ Seated' = Seated /\ at[k] # "displacing"
        /\ \A j \in Sockets \ {k} : at'[j] = at[j] /\ ending'[j] = ending[j]
    BY <1>1, <1>6 DEF RecordsTheTaking, AuditsTheEnd, seatVars, Seated
  <2> QED
    BY <1>2, <1>3, <2>1 DEF StillToClose
<1>7. ASSUME NEW k \in Sockets, NEW r \in Roles, NEW n \in Names, Assumes(k, r, n) PROVE FALSE
  <2>1. UserOf[k] \in Users /\ Take(UserOf[k], r, n)
    BY <1>7, SocketsAssumption DEF Assumes
  <2>2. Seated' = (Seated \ SeatsOf(UserOf[k])) \cup {n}
    BY <2>1, TakingIs DEF Shaped
  <2>3. /\ paths' = paths /\ ending' = [ending EXCEPT ![k] = SeatsOf(UserOf[k])]
        /\ at' = [at EXCEPT ![k] = "displacing"] /\ at[k] = "listening"
    BY <1>7 DEF Assumes
  <2>4. s \notin Seated
    BY <1>1, <1>2, <2>2, <2>3 DEF StillToClose
  <2> QED
    BY <1>1, <1>2, <1>3, <2>3, <2>4 DEF StillToClose
<1>8. CASE Elsewhere
  BY <1>2, <1>3, <1>8 DEF Elsewhere, socketVars, StillToClose
<1> QED
  BY <1>4, <1>5, <1>6, <1>7, <1>8 DEF OfAKind

\* A path stays open after its session only where it is opened when the session has been
\* displaced already, by the socket that was still taking it: however else a session ends, the
\* path that was open for it is closed.
THEOREM OnlyLatePathsAreLeftOpen == Spec => OnlyALatePathIsLeftOpen
<1> DEFINE Late == \A s \in Names :
                     IsLeftOpen(s)' /\ ~IsLeftOpen(s) =>
                       \E k \in Sockets : at[k] = "opening" /\ s \in assumed[k] \ Seated
<1>1. Init => NotYetOpened
  BY DEF Init, NotYetOpened
<1>2. Shaped /\ Placed /\ Owned /\ NotYetOpened /\ [Next]_vars => NotYetOpened'
  BY StepsAreOfAKind, NotYetOpenedIsKept
<1>3. Shaped /\ Placed /\ Owned /\ NotYetOpened /\ [Next]_vars => [Late]_vars
  BY StepsAreOfAKind, OnlyALatePathStays
<1> QED
  BY <1>1, <1>2, <1>3, InHand, PTL DEF Spec, OnlyALatePathIsLeftOpen

-----------------------------------------------------------------------------
(* What a client is owed.                                                  *)

\* No end is owed where nobody listens.
NothingIsOwedTheClosed == \A k \in Sockets : at[k] = "closed" => untold[k] = {}

LEMMA NothingIsOwedTheClosedIsKept ==
  ASSUME Shaped, Placed, NothingIsOwedTheClosed, OfAKind
  PROVE  NothingIsOwedTheClosed'
<1>1. at \in [Sockets -> Places] /\ untold \in [Sockets -> SUBSET issued]
  BY DEF Shaped, OptionsOf
<1>2. ASSUME NEW k \in Sockets, MovingSteps(k) PROVE NothingIsOwedTheClosed'
  <2>1. \A j \in Sockets : at'[j] = "closed" => j # k /\ at[j] = "closed"
    BY <1>1, <1>2 DEF MovingSteps, ClosesTheDisplacedPath, OpensThePath, Presents,
       TheSessionEnded, ShowsTheLobby, AsksToRelinquish, Relinquishes, FindsItEnded, Returns
  <2>2. \A j \in Sockets \ {k} : untold'[j] = untold[j]
    BY <1>1, <1>2, MovingIs DEF Moves, Shaped
  <2> QED
    BY <2>1, <2>2 DEF NothingIsOwedTheClosed
<1>3. ASSUME NEW k \in Sockets, FailingSteps(k) PROVE NothingIsOwedTheClosed'
  BY <1>1, <1>3, FailingIs DEF Failing, Breaks, NothingIsOwedTheClosed
<1>4. ASSUME NEW k \in Sockets, RecordsTheTaking(k) \/ AuditsTheEnd(k)
      PROVE  NothingIsOwedTheClosed'
  BY <1>1, <1>4 DEF RecordsTheTaking, AuditsTheEnd, NothingIsOwedTheClosed
<1>5. ASSUME NEW k \in Sockets, NEW r \in Roles, NEW n \in Names, Assumes(k, r, n)
      PROVE  NothingIsOwedTheClosed'
  BY <1>1, <1>5 DEF Assumes, NothingIsOwedTheClosed
<1>6. CASE Elsewhere
  BY <1>6 DEF Elsewhere, socketVars, NothingIsOwedTheClosed
<1> QED
  BY <1>2, <1>3, <1>4, <1>5, <1>6 DEF OfAKind

\* A client comes to be owed the end of a session its socket cannot ask about by one step
\* only: a relinquish that finds it ended.
THEOREM OnlyRelinquishesForget == Spec => OnlyARelinquishForgets
<1> DEFINE Forgot == \A k \in Sockets :
                       OwesWhatIsForgotten(k)' /\ ~OwesWhatIsForgotten(k) =>
                         at[k] = "relinquishing" /\ session[k] \cap Seated = {}
<1>1. Init => NothingIsOwedTheClosed
  BY DEF Init, NothingIsOwedTheClosed
<1>2. Shaped /\ Placed /\ NothingIsOwedTheClosed /\ [Next]_vars => NothingIsOwedTheClosed'
  BY StepsAreOfAKind, NothingIsOwedTheClosedIsKept
<1>3. Shaped /\ Placed /\ NothingIsOwedTheClosed /\ [Next]_vars => [Forgot]_vars
  <2> SUFFICES ASSUME Shaped, Placed, NothingIsOwedTheClosed, OfAKind, NEW k \in Sockets,
                      OwesWhatIsForgotten(k)', ~OwesWhatIsForgotten(k)
               PROVE  at[k] = "relinquishing" /\ session[k] \cap Seated = {}
    BY StepsAreOfAKind
  <2>1. /\ at \in [Sockets -> Places] /\ untold \in [Sockets -> SUBSET issued]
        /\ session \in [Sockets -> SUBSET issued]
    BY DEF Shaped, OptionsOf
  <2>2. at'[k] = "listening" /\ ~(untold'[k] \subseteq session'[k])
    BY DEF OwesWhatIsForgotten
  <2>3. \/ at'[k] # at[k]
        \/ untold'[k] # untold[k]
        \/ session'[k] # session[k]
    BY <2>2 DEF OwesWhatIsForgotten
  <2>4. ASSUME NEW j \in Sockets, MovingSteps(j)
        PROVE  at[k] = "relinquishing" /\ session[k] \cap Seated = {}
    <3>1. j = k
      BY <2>1, <2>3, <2>4, MovingIs DEF Moves, Shaped
    <3>2. CASE FindsItEnded(k)
      BY <3>2 DEF FindsItEnded
    <3>3. CASE Presents(k)
      BY <2>1, <2>2, <3>3 DEF Presents
    <3>4. CASE ShowsTheLobby(k)
      BY <2>1, <2>2, <3>4 DEF ShowsTheLobby
    <3>5. CASE Returns(k)
      BY <2>1, <2>2, <3>5 DEF Returns, NothingIsOwedTheClosed
    <3>6. CASE \/ ClosesTheDisplacedPath(k) \/ OpensThePath(k) \/ TheSessionEnded(k)
               \/ AsksToRelinquish(k) \/ Relinquishes(k)
      BY <2>1, <2>2, <3>6 DEF ClosesTheDisplacedPath, OpensThePath, TheSessionEnded,
         AsksToRelinquish, Relinquishes
    <3> QED
      BY <2>4, <3>1, <3>2, <3>3, <3>4, <3>5, <3>6 DEF MovingSteps
  <2>5. ASSUME NEW j \in Sockets, FailingSteps(j) PROVE FALSE
    BY <2>1, <2>2, <2>3, <2>5, FailingIs DEF Failing, Breaks
  <2>6. ASSUME NEW j \in Sockets, RecordsTheTaking(j) \/ AuditsTheEnd(j) PROVE FALSE
    BY <2>1, <2>2, <2>3, <2>6 DEF RecordsTheTaking, AuditsTheEnd
  <2>7. ASSUME NEW j \in Sockets, NEW r \in Roles, NEW n \in Names, Assumes(j, r, n)
        PROVE  FALSE
    BY <2>1, <2>2, <2>3, <2>7 DEF Assumes
  <2>8. CASE Elsewhere
    BY <2>3, <2>8 DEF Elsewhere, socketVars
  <2> QED
    BY <2>4, <2>5, <2>6, <2>7, <2>8 DEF OfAKind
<1> QED
  BY <1>1, <1>2, <1>3, InPlace, PTL DEF Spec, OnlyARelinquishForgets

-----------------------------------------------------------------------------
(* The promise, and that the sockets keep to it.                           *)

SittingIn(r) == {s \in Seated : seats[s].role = r}

\* As many sit in a role as it has room for.
RolesAreNotOverfull ==
  /\ IsFiniteSet(issued)
  /\ \A r \in Roles : \A limit \in MaxOccupants[r] : Cardinality(SittingIn(r)) <= limit

\* What is owed is owed of a session that is over, and a user is owed one account at most.
AccountsAreTrue ==
  /\ \A o \in owed : o.session \in issued \ Seated
  /\ \A o, p \in owed : o.occupant = p.occupant => o = p

LEMMA FewerIsNotOverfull ==
  ASSUME SeatsAreSound, RolesAreNotOverfull, IsFiniteSet(issued'), NEW r \in Roles,
         SittingIn(r)' \subseteq SittingIn(r)
  PROVE  \A limit \in MaxOccupants[r] : Cardinality(SittingIn(r)') <= limit
<1>1. IsFiniteSet(SittingIn(r))
  BY FS_Subset DEF SittingIn, SeatsAreSound, RolesAreNotOverfull
<1>2. IsFiniteSet(SittingIn(r)') /\ Cardinality(SittingIn(r)') <= Cardinality(SittingIn(r))
  BY <1>1, FS_Subset
<1>3. Cardinality(SittingIn(r)) \in Nat /\ Cardinality(SittingIn(r)') \in Nat
  BY <1>1, <1>2, FS_CardinalityType
<1>4. \A limit \in MaxOccupants[r] : limit \in Nat /\ Cardinality(SittingIn(r)) <= limit
  BY SeatsAssumption DEF RolesAreNotOverfull
<1> QED
  BY <1>2, <1>3, <1>4

\* The one who sits down is left out of the count, and rightly, since the seat they had is
\* taken away in the same act.
LEMMA TakingIsNotOverfull ==
  ASSUME SeatsAreSound, RolesAreNotOverfull,
         NEW u \in Users, NEW r \in Roles, NEW n \in Names, Take(u, r, n)
  PROVE  RolesAreNotOverfull'
<1>1. /\ n \notin issued /\ issued' = issued \cup {n}
      /\ Seated' = (Seated \ SeatsOf(u)) \cup {n}
      /\ \A s \in Seated' \ {n} : seats'[s] = seats[s]
  BY TakingIs
<1>2. seats'[n].role = r
  BY DEF Take, Seated
<1>3. IsFiniteSet(issued')
  BY <1>1, FS_AddElement DEF RolesAreNotOverfull
<1>4. ASSUME NEW q \in Roles, q # r
      PROVE  \A limit \in MaxOccupants[q] : Cardinality(SittingIn(q)') <= limit
  <2>1. SittingIn(q)' \subseteq SittingIn(q)
    BY <1>1, <1>2, <1>4 DEF SittingIn
  <2> QED
    BY <1>3, <2>1, FewerIsNotOverfull
<1>5. \A limit \in MaxOccupants[r] : Cardinality(SittingIn(r)') <= limit
  <2> DEFINE others == TakenByOthers(u, r)
  <2>1. SittingIn(r)' \subseteq others \cup {n}
    BY <1>1 DEF SittingIn, TakenByOthers, SeatsOf
  <2>2. IsFiniteSet(others)
    BY FS_Subset DEF TakenByOthers, SeatsAreSound, RolesAreNotOverfull
  <2>3. \A limit \in MaxOccupants[r] : limit \in Nat /\ Cardinality(others) < limit
    BY SeatsAssumption DEF Take
  <2> HIDE DEF others
  <2>4. /\ IsFiniteSet(others \cup {n}) /\ Cardinality(others) \in Nat
        /\ Cardinality(others \cup {n}) \in {Cardinality(others), Cardinality(others) + 1}
    BY <2>2, FS_AddElement, FS_CardinalityType
  <2>5. /\ IsFiniteSet(SittingIn(r)')
        /\ Cardinality(SittingIn(r)') <= Cardinality(others \cup {n})
    BY <2>1, <2>4, FS_Subset
  <2>6. Cardinality(SittingIn(r)') \in Nat
    BY <2>5, FS_CardinalityType
  <2> QED
    BY <2>3, <2>4, <2>5, <2>6
<1> QED
  BY <1>3, <1>4, <1>5 DEF RolesAreNotOverfull

LEMMA TakingIsAccountedFor ==
  ASSUME SeatsAreSound, AccountsAreTrue,
         NEW u \in Users, NEW r \in Roles, NEW n \in Names, Take(u, r, n)
  PROVE  AccountsAreTrue'
<1>1. /\ n \notin issued /\ issued' = issued \cup {n}
      /\ Seated' = (Seated \ SeatsOf(u)) \cup {n}
  BY TakingIs
<1>2. \A o \in owed' :
        \/ o \in owed /\ o.occupant # u
        \/ \E s \in SeatsOf(u) : o = [session |-> s, occupant |-> u]
  BY DEF Take
<1>3. SeatsOf(u) \subseteq issued /\ AtMostOne(SeatsOf(u))
  BY SeatsOfIsOne
<1>4. \A o \in owed' : o.session \in issued' \ Seated'
  BY <1>1, <1>2, <1>3 DEF AccountsAreTrue
<1>5. \A o, p \in owed' : o.occupant = p.occupant => o = p
  <2> SUFFICES ASSUME NEW o \in owed', NEW p \in owed', o.occupant = p.occupant PROVE o = p
    OBVIOUS
  <2>1. CASE o.occupant # u
    BY <1>2, <2>1 DEF AccountsAreTrue
  <2>2. CASE o.occupant = u
    <3>1. PICK s \in SeatsOf(u) : o = [session |-> s, occupant |-> u]
      BY <1>2, <2>2
    <3>2. PICK t \in SeatsOf(u) : p = [session |-> t, occupant |-> u]
      BY <1>2, <2>2
    <3> QED
      BY <1>3, <3>1, <3>2 DEF AtMostOne
  <2> QED
    BY <2>1, <2>2
<1> QED
  BY <1>4, <1>5 DEF AccountsAreTrue

\* Where seats only go, no role fills.
LEMMA GoingIsNotOverfull ==
  ASSUME SeatsAreSound, RolesAreNotOverfull, SeatsOnlyGo
  PROVE  RolesAreNotOverfull'
<1>1. issued' = issued
  BY DEF SeatsOnlyGo
<1>2. \A r \in Roles : SittingIn(r)' \subseteq SittingIn(r)
  BY DEF SeatsOnlyGo, SittingIn
<1> QED
  BY <1>1, <1>2, FewerIsNotOverfull DEF RolesAreNotOverfull

\* What is kept of the seats.
Promise == SeatsAreSound /\ RolesAreNotOverfull /\ AccountsAreTrue

LEMMA PromisedAtFirst == SeatsInit => Promise
<1> SUFFICES ASSUME SeatsInit PROVE Promise
  OBVIOUS
<1>1. Seated = {} /\ issued = {} /\ owed = {} /\ seats \in [Seated -> Seat]
  BY DEF SeatsInit, Seated
<1>2. \A r \in Roles : SittingIn(r) = {}
  BY <1>1 DEF SittingIn
<1>3. \A r \in Roles : \A limit \in MaxOccupants[r] : 0 <= limit
  BY SeatsAssumption
<1> QED
  BY <1>1, <1>2, <1>3, FS_EmptySet DEF Promise, SeatsAreSound, RolesAreNotOverfull, AccountsAreTrue

LEMMA GoingKeepsThePromise ==
  ASSUME Promise, SeatsOnlyGo, owed' \subseteq owed
  PROVE  Promise'
<1>1. AccountsAreTrue'
  BY DEF Promise, AccountsAreTrue, SeatsOnlyGo
<1> QED
  BY <1>1, SeatsThatGoAreSound, GoingIsNotOverfull DEF Promise

LEMMA ThePromiseIsKept ==
  ASSUME Promise, [SeatsNext]_seatVars
  PROVE  Promise'
<1>1. ASSUME NEW u \in Users, NEW r \in Roles, NEW n \in Names, Take(u, r, n)
      PROVE  Promise'
  BY <1>1, TakingIsSound, TakingIsNotOverfull, TakingIsAccountedFor DEF Promise
<1>2. ASSUME NEW s \in Seated, Leave(s) PROVE Promise'
  BY <1>2, LeavingIs, GoingKeepsThePromise DEF Promise
<1>3. ASSUME NEW kept \in SUBSET owed, Settle(kept) PROVE Promise'
  BY <1>3, SettlingIs, GoingKeepsThePromise DEF Settle, Promise
<1>4. CASE UNCHANGED seatVars
  BY <1>4, NothingIs, GoingKeepsThePromise DEF seatVars, Promise
<1> QED
  BY <1>1, <1>2, <1>3, <1>4 DEF SeatsNext

\* What Seats promises to whoever composes it: a user sits in one place, under a name minted
\* once, no role is over its limit, and every account owed is of a session that is over.
THEOREM SeatsKeepTheirPromise == SeatsSpec => []Promise
BY PromisedAtFirst, ThePromiseIsKept, PTL DEF SeatsSpec

\* Every step of a conversation is a step of Seats or leaves the seats alone.
LEMMA ConversationsKeepToTheSeats ==
  ASSUME NEW k \in Sockets, Carries(k) \/ Fails(k)
  PROVE  [SeatsNext]_seatVars
<1>1. CASE TheSessionEnded(k)
  <2>1. PICK s \in session[k] : Settle({o \in owed : o.session # s})
    BY <1>1 DEF TheSessionEnded, TakesTheAccount
  <2> QED
    BY <2>1 DEF SeatsNext
<1>2. CASE Relinquishes(k)
  <2>1. PICK s \in session[k] : Leave(s)
    BY <1>2 DEF Relinquishes
  <2> QED
    BY <2>1 DEF SeatsNext, Leave
<1>3. CASE CannotWriteTheTaking(k)
  <2>1. TakesItBack(k)
    BY <1>3 DEF CannotWriteTheTaking
  <2> QED
    BY <2>1 DEF TakesItBack, SeatsNext, Leave
<1>4. CASE ~(TheSessionEnded(k) \/ Relinquishes(k) \/ CannotWriteTheTaking(k))
  <2>1. UNCHANGED seatVars
    BY <1>4 DEF Carries, ClosesTheDisplacedPath, RecordsTheTaking, OpensThePath, Presents,
       ShowsTheLobby, FindsItEnded, AuditsTheEnd, Fails, CannotRead, CannotReachTheStore,
       CannotNoteTheAct, CannotAuditTheEnd
  <2> QED
    BY <2>1
<1> QED
  BY <1>1, <1>2, <1>3, <1>4

LEMMA StepsKeepToTheSeats ==
  ASSUME [Next]_vars
  PROVE  [SeatsNext]_seatVars
<1>1. ASSUME NEW k \in Sockets, NEW r \in Roles, NEW n \in Names, Assumes(k, r, n)
      PROVE  SeatsNext
  BY <1>1, SocketsAssumption DEF Assumes, SeatsNext
<1>2. ASSUME NEW k \in Sockets, AsksToRelinquish(k) \/ Goes(k) \/ Returns(k)
      PROVE  UNCHANGED seatVars
  BY <1>2 DEF AsksToRelinquish, Goes, Returns
<1>3. ASSUME Forgets PROVE SeatsNext
  BY <1>3 DEF Forgets, SeatsNext
<1>4. UNCHANGED vars => UNCHANGED seatVars
  BY DEF vars
<1> QED
  BY <1>1, <1>2, <1>3, <1>4, ConversationsKeepToTheSeats DEF Next

\* Whatever the sockets do among themselves and whatever the store fails to do, what becomes
\* of the seats is what the State Authority promised.
THEOREM SocketsKeepToTheSeats == Spec => SeatsSpec
<1>1. Init => SeatsInit
  BY DEF Init
<1> QED
  BY <1>1, StepsKeepToTheSeats, PTL DEF Spec, SeatsSpec
=============================================================================

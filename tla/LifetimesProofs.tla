--------------------------- MODULE LifetimesProofs ---------------------------
(***************************************************************************)
(* Proofs about Lifetimes, for every population of sockets, users, roles   *)
(* and names.  The sockets act as in Signalling, or close, or are lost     *)
(* with the process, so what SignallingProofs shows of a step is used.     *)
(***************************************************************************)
EXTENDS Lifetimes, SignallingProofs

-----------------------------------------------------------------------------
(* The sockets.                                                            *)

LEMMA LifeStepsAreOfAKind ==
  ASSUME Shaped, [LifeNext]_allVars
  PROVE  OfAKind \/ Restarts
<1>1. ASSUME UNCHANGED vars PROVE OfAKind
  BY <1>1, StepsAreOfAKind
<1>2. UNCHANGED allVars => OfAKind
  BY <1>1 DEF allVars
<1>3. ASSUME NEW k \in Sockets, GoesOn(k) PROVE OfAKind
  BY <1>1, <1>3 DEF GoesOn, NotesTheAssume, IsRefused, RecordsTheDisplaced,
     NotesAndRelinquishes, NotesAndFindsItEnded, RecordsTheEnd, CarriesOn,
     TheTickFindsItGone, OfAKind, MovingSteps, FailingSteps, ClosesAtRest
<1>4. ASSUME NEW k \in Sockets,
             \/ IsPermittedToAssume(k)
             \/ \E r \in Roles, n \in Names : AssumesARole(k, r, n)
             \/ IsPermittedToRelinquish(k)
             \/ FailsAndCloses(k)
             \/ ClientGoes(k)
             \/ ClientReturns(k)
             \/ IsEnded(k)
             \/ TheWindowRunsOut(k)
      PROVE  OfAKind
  BY <1>1, <1>4 DEF IsPermittedToAssume, AssumesARole, IsPermittedToRelinquish,
     FailsAndCloses, ClientGoes, Goes, ClientReturns, IsEnded, TheWindowRunsOut,
     OfAKind, MovingSteps, FailingSteps, ClosesAtRest
<1>5. SweepReads \/ SweepEnds \/ SweepFails => OfAKind
  BY <1>1 DEF SweepReads, SweepEnds, SweepFails
<1> QED
  BY <1>2, <1>3, <1>4, <1>5 DEF LifeNext

\* A restart leaves no seat, and nothing in hand.
LEMMA RestartingKeepsTheShape ==
  ASSUME Shaped, Restarts
  PROVE  Shaped' /\ Placed'
<1>1. /\ at' = [k \in Sockets |-> "closed"]
      /\ session' = [k \in Sockets |-> {}] /\ assumed' = [k \in Sockets |-> {}]
      /\ ending' = [k \in Sockets |-> {}] /\ untold' = [k \in Sockets |-> {}]
      /\ seats' = <<>> /\ paths' = {} /\ lost' = issued
      /\ UNCHANGED <<issued, gone, log>>
  BY DEF Restarts
<1>2. SeatsAreSound'
  BY <1>1 DEF SeatsAreSound, Shaped, Seated
<1>3. \A f : f = [k \in Sockets |-> {}] => OptionsOf(f, issued)
  BY NoneIsAnOption DEF OptionsOf
<1>4. Shaped'
  BY <1>1, <1>2, <1>3 DEF Shaped, Places, OptionsOf, Has
<1>5. Placed'
  BY <1>1 DEF Placed, TakingPlaces
<1> QED
  BY <1>4, <1>5

LEMMA LifeInPlace == LifeSpec => [](Shaped /\ Placed)
<1>1. LifeInit => Shaped /\ Placed
  BY ShapedAtFirst DEF LifeInit, Init, Placed, TakingPlaces
<1>2. Shaped /\ Placed /\ [LifeNext]_allVars => (Shaped /\ Placed)'
  BY LifeStepsAreOfAKind, RestartingKeepsTheShape, ShapeIsKept, PlacedIsKept
<1> QED
  BY <1>1, <1>2, PTL DEF LifeSpec

-----------------------------------------------------------------------------
(* The type.                                                               *)

\* The steps a socket's client or its sign-in causes.
IsCaused(k) ==
  \/ IsPermittedToAssume(k)
  \/ IsPermittedToRelinquish(k)
  \/ FailsAndCloses(k)
  \/ ClientGoes(k)
  \/ ClientReturns(k)
  \/ IsEnded(k)
  \/ TheWindowRunsOut(k)

LEMMA LifeTypeIsKept ==
  ASSUME Shaped, Placed, LifeTypeOK, [LifeNext]_allVars
  PROVE  LifeTypeOK'
<1>1. at \in [Sockets -> Places] /\ asking \in [Sockets -> {"nothing", "permitted", "noted"}]
  BY DEF Shaped, LifeTypeOK
<1>2. ASSUME UNCHANGED <<at, issued, asking, from, sweep>>,
             idle' \subseteq standing', standing' \subseteq standing, returned' \subseteq Sockets
      PROVE  LifeTypeOK'
  BY <1>2 DEF LifeTypeOK
<1>3. ASSUME NEW k \in Sockets, GoesOn(k) PROVE LifeTypeOK'
  <2>1. issued' = issued
    <3>1. CASE NotesAndRelinquishes(k)
      BY <3>1 DEF NotesAndRelinquishes, Relinquishes, Leave
    <3>2. CASE CarriesOn(k)
      BY <3>2 DEF CarriesOn, ClosesTheDisplacedPath, OpensThePath, Presents, TheSessionEnded,
         ShowsTheLobby, TakesTheAccount, Settle, seatVars
    <3>3. CASE NotesTheAssume(k) \/ IsRefused(k) \/ RecordsTheDisplaced(k)
               \/ NotesAndFindsItEnded(k) \/ RecordsTheEnd(k) \/ TheTickFindsItGone(k)
      BY <3>3 DEF NotesTheAssume, IsRefused, RecordsTheDisplaced, RecordsTheTaking,
         NotesAndFindsItEnded, FindsItEnded, RecordsTheEnd, AuditsTheEnd, TheTickFindsItGone,
         vars, seatVars
    <3> QED
      BY <1>3, <3>1, <3>2, <3>3 DEF GoesOn
  <2>2. /\ UNCHANGED <<standing, from, sweep>> /\ idle' \subseteq idle
        /\ asking' \in [Sockets -> {"nothing", "permitted", "noted"}]
    BY <1>1, <1>3 DEF GoesOn, NotesTheAssume, NotesTheAct, IsRefused, RecordsTheDisplaced,
       NotesAndRelinquishes, NotesAndFindsItEnded, RecordsTheEnd, CarriesOn,
       TheTickFindsItGone, TheDisplacedStartAgain, TheClockStartsFor, lifeVars
  <2>3. returned' \subseteq Sockets
    <3>1. CASE NotesAndRelinquishes(k)
      BY <3>1 DEF NotesAndRelinquishes, SignInsOf, LifeTypeOK, Shaped, OptionsOf
    <3>2. CASE ~NotesAndRelinquishes(k)
      <4>1. returned' = returned
        BY <1>3, <3>2 DEF GoesOn, NotesTheAssume, IsRefused, RecordsTheDisplaced,
           NotesAndFindsItEnded, RecordsTheEnd, CarriesOn, TheTickFindsItGone, lifeVars
      <4> QED
        BY <4>1 DEF LifeTypeOK
    <3> QED
      BY <3>1, <3>2
  <2>4. \A j \in Sockets : asking'[j] # "nothing" => at'[j] = "listening"
    <3>1. \A j \in Sockets \ {k} : at'[j] = at[j] /\ asking'[j] = asking[j]
      BY <1>1, <1>3 DEF GoesOn, NotesTheAssume, IsRefused, RecordsTheDisplaced, RecordsTheTaking,
         NotesAndRelinquishes, Relinquishes, NotesAndFindsItEnded, FindsItEnded, RecordsTheEnd,
         AuditsTheEnd, CarriesOn, ClosesTheDisplacedPath, OpensThePath, Presents,
         TheSessionEnded, ShowsTheLobby, TheTickFindsItGone, Breaks, lifeVars, vars, socketVars
    <3>2. asking'[k] # "nothing" => at'[k] = "listening"
      BY <1>1, <1>3 DEF GoesOn, NotesTheAssume, IsRefused, RecordsTheDisplaced, RecordsTheTaking,
         NotesAndRelinquishes, Relinquishes, NotesAndFindsItEnded, FindsItEnded, RecordsTheEnd,
         AuditsTheEnd, CarriesOn, TheTickFindsItGone, lifeVars, vars, socketVars, LifeTypeOK
    <3> QED
      BY <3>1, <3>2 DEF LifeTypeOK
  <2> QED
    BY <2>1, <2>2, <2>3, <2>4 DEF LifeTypeOK
<1>4. ASSUME NEW k \in Sockets, NEW r \in Roles, NEW n \in Names, AssumesARole(k, r, n)
      PROVE  LifeTypeOK'
  <2>1. /\ UNCHANGED <<standing, idle, sweep>>
        /\ asking' = [asking EXCEPT ![k] = "nothing"]
        /\ from' = [s \in DOMAIN from \cup {n} |-> IF s = n THEN k ELSE from[s]]
        /\ returned' = (returned \cup SignInsOf(ending'[k])) \ {k}
        /\ Assumes(k, r, n)
    BY <1>4 DEF AssumesARole
  <2>2. /\ issued' = issued \cup {n} /\ at' = [at EXCEPT ![k] = "displacing"]
        /\ ending'[k] = SeatsOf(UserOf[k])
    BY <2>1 DEF Assumes, Take, Shaped, OptionsOf
  <2>3. SeatsOf(UserOf[k]) \subseteq issued
    BY SeatsOfIsOne DEF Shaped
  <2>4. from' \in [issued' -> Sockets]
    BY <2>1, <2>2 DEF LifeTypeOK
  <2>5. SignInsOf(ending'[k]) \subseteq Sockets
    BY <2>2, <2>3 DEF SignInsOf, LifeTypeOK
  <2> QED
    BY <1>1, <2>1, <2>2, <2>4, <2>5 DEF LifeTypeOK
<1>5. ASSUME NEW k \in Sockets, IsCaused(k) PROVE LifeTypeOK'
  <2>1. CASE IsPermittedToAssume(k)
    BY <1>1, <2>1 DEF IsPermittedToAssume, LifeTypeOK, vars, seatVars, socketVars
  <2>2. CASE IsPermittedToRelinquish(k)
    BY <1>1, <2>2 DEF IsPermittedToRelinquish, AsksToRelinquish, LifeTypeOK, lifeVars, seatVars
  <2>3. CASE FailsAndCloses(k)
    <3>1. /\ UNCHANGED issued /\ at' = [at EXCEPT ![k] = "closed"]
      BY <2>3, FailingIs DEF FailsAndCloses, FailingSteps, Failing, Breaks, SeatsOnlyGo
    <3> QED
      BY <1>1, <2>3, <3>1 DEF FailsAndCloses, LifeTypeOK
  <2>4. CASE ClientGoes(k)
    BY <1>1, <2>4 DEF ClientGoes, Goes, Breaks, LifeTypeOK, lifeVars, seatVars
  <2>5. CASE ClientReturns(k)
    BY <1>1, <2>5 DEF ClientReturns, Returns, TheClockStartsFor, LifeTypeOK, seatVars
  <2>6. CASE IsEnded(k)
    BY <1>2, <2>6 DEF IsEnded, Ends, LifeTypeOK, vars, seatVars, socketVars
  <2>7. CASE TheWindowRunsOut(k)
    BY <1>2, <2>7 DEF TheWindowRunsOut, LifeTypeOK, vars, seatVars, socketVars
  <2> QED
    BY <1>5, <2>1, <2>2, <2>3, <2>4, <2>5, <2>6, <2>7 DEF IsCaused
<1>6. CASE SweepReads
  BY <1>6 DEF SweepReads, HoldingASession, SignInsOf, LifeTypeOK, Shaped, SeatsAreSound,
     vars, seatVars, socketVars
<1>7. CASE SweepEnds \/ SweepFails
  BY <1>7 DEF SweepEnds, SweepFails, Ends, Resting, LifeTypeOK, vars, seatVars, socketVars
<1>8. CASE Restarts
  BY <1>1, <1>8 DEF Restarts, Resting, LifeTypeOK
<1>9. CASE UNCHANGED allVars
  BY <1>2, <1>9 DEF LifeTypeOK, allVars, lifeVars, vars, seatVars, socketVars
<1> QED
  BY <1>3, <1>4, <1>5, <1>6, <1>7, <1>8, <1>9 DEF LifeNext, IsCaused

\* The sign-ins, the sweep and what an assume has come to keep their shape.
THEOREM LifeTypeCorrect == LifeSpec => []LifeTypeOK
<1>1. LifeInit => LifeTypeOK
  BY DEF LifeInit, Init, SeatsInit, Resting, LifeTypeOK
<1>2. Shaped /\ Placed /\ LifeTypeOK /\ [LifeNext]_allVars => LifeTypeOK'
  BY LifeTypeIsKept
<1> QED
  BY <1>1, <1>2, LifeInPlace, PTL DEF LifeSpec

-----------------------------------------------------------------------------
(* The seated are spared.                                                  *)

\* The steps that seat nobody, note no assume and let no window run out.
Quiet ==
  /\ Seated' \subseteq Seated
  /\ idle' \subseteq idle
  /\ \A k \in Sockets : asking'[k] = "noted" => asking[k] = "noted"
  /\ UNCHANGED from

LEMMA StepsAreQuiet ==
  ASSUME Shaped, Placed, LifeTypeOK, [LifeNext]_allVars
  PROVE  \/ Quiet /\ UNCHANGED sweep
         \/ \E k \in Sockets : NotesTheAssume(k)
         \/ \E k \in Sockets, r \in Roles, n \in Names : AssumesARole(k, r, n)
         \/ \E k \in Sockets : TheWindowRunsOut(k)
         \/ SweepReads
         \/ Quiet /\ sweep' = Resting
<1>1. UNCHANGED vars => Seated' \subseteq Seated
  BY DEF vars, seatVars, Seated
<1>2. asking \in [Sockets -> {"nothing", "permitted", "noted"}]
  BY DEF LifeTypeOK
<1>3. ASSUME NEW k \in Sockets, MovingSteps(k) \/ FailingSteps(k) PROVE Seated' \subseteq Seated
  BY <1>3, MovingIs, FailingIs DEF SeatsOnlyGo, Shaped
<1>4. ASSUME NEW k \in Sockets, RecordsTheTaking(k) \/ AuditsTheEnd(k)
      PROVE  Seated' \subseteq Seated
  BY <1>4 DEF RecordsTheTaking, AuditsTheEnd, seatVars, Seated
<1>5. ASSUME NEW k \in Sockets, GoesOn(k), ~NotesTheAssume(k) PROVE Quiet /\ UNCHANGED sweep
  <2>1. Seated' \subseteq Seated
    BY <1>1, <1>3, <1>4, <1>5 DEF GoesOn, IsRefused, RecordsTheDisplaced, NotesAndRelinquishes,
       NotesAndFindsItEnded, RecordsTheEnd, CarriesOn, TheTickFindsItGone, MovingSteps,
       FailingSteps, ClosesAtRest
  <2>2. /\ UNCHANGED <<from, sweep>> /\ idle' \subseteq idle
        /\ \A j \in Sockets : asking'[j] = "noted" => asking[j] = "noted"
    BY <1>2, <1>5 DEF GoesOn, IsRefused, RecordsTheDisplaced, NotesAndRelinquishes,
       NotesAndFindsItEnded, RecordsTheEnd, CarriesOn, TheTickFindsItGone,
       TheDisplacedStartAgain, TheClockStartsFor, lifeVars
  <2> QED
    BY <2>1, <2>2 DEF Quiet
<1>6. ASSUME NEW k \in Sockets, IsCaused(k), ~TheWindowRunsOut(k) PROVE Quiet /\ UNCHANGED sweep
  <2>1. Seated' \subseteq Seated
    BY <1>1, <1>3, <1>6 DEF IsCaused, IsPermittedToAssume, IsPermittedToRelinquish,
       FailsAndCloses, ClientGoes, Goes, ClientReturns, IsEnded, MovingSteps, FailingSteps,
       ClosesAtRest
  <2>2. /\ UNCHANGED <<from, sweep>> /\ idle' \subseteq idle
        /\ \A j \in Sockets : asking'[j] = "noted" => asking[j] = "noted"
    BY <1>2, <1>6 DEF IsCaused, IsPermittedToAssume, IsPermittedToRelinquish,
       FailsAndCloses, ClientGoes, ClientReturns, IsEnded, Ends, TheClockStartsFor, lifeVars
  <2> QED
    BY <2>1, <2>2 DEF Quiet
<1>7. ASSUME SweepEnds \/ SweepFails PROVE Quiet /\ sweep' = Resting
  BY <1>1, <1>7 DEF SweepEnds, SweepFails, Ends, Quiet
<1>8. ASSUME Restarts PROVE Quiet /\ sweep' = Resting
  BY <1>8 DEF Restarts, Quiet, Seated
<1>9. ASSUME UNCHANGED allVars PROVE Quiet /\ UNCHANGED sweep
  BY <1>1, <1>9 DEF allVars, lifeVars, Quiet
<1> QED
  BY <1>5, <1>6, <1>7, <1>8, <1>9 DEF LifeNext, IsCaused

\* Whoever has noted an assume is not idle, and whoever was seated since the sweep read who
\* is seated had noted it.
Spared ==
  /\ \A k \in Sockets : asking[k] = "noted" => k \notin idle
  /\ sweep.at = "ending" => \A s \in Seated : from[s] \in sweep.spared \/ from[s] \notin idle

LEMMA SparedIsKept ==
  ASSUME Shaped, Placed, LifeTypeOK, Spared, [LifeNext]_allVars
  PROVE  Spared'
<1>1. CASE Quiet /\ (UNCHANGED sweep \/ sweep' = Resting)
  BY <1>1 DEF Quiet, Spared, Resting
<1>2. ASSUME NEW k \in Sockets, NotesTheAssume(k) PROVE Spared'
  <2>1. /\ idle' = idle \ {k} /\ asking' = [asking EXCEPT ![k] = "noted"]
        /\ UNCHANGED <<from, sweep>> /\ Seated' = Seated
    BY <1>2 DEF NotesTheAssume, NotesTheAct, TheClockStartsFor, vars, seatVars, Seated
  <2> QED
    BY <2>1 DEF Spared, LifeTypeOK
<1>3. ASSUME NEW k \in Sockets, NEW r \in Roles, NEW n \in Names, AssumesARole(k, r, n)
      PROVE  Spared'
  <2>1. /\ asking[k] = "noted" /\ UNCHANGED <<idle, sweep>>
        /\ asking' = [asking EXCEPT ![k] = "nothing"]
        /\ from' = [s \in DOMAIN from \cup {n} |-> IF s = n THEN k ELSE from[s]]
        /\ UserOf[k] \in Users /\ Take(UserOf[k], r, n)
    BY <1>3, SocketsAssumption DEF AssumesARole, Assumes
  <2>2. Seated' = (Seated \ SeatsOf(UserOf[k])) \cup {n}
    BY <2>1, TakingIs DEF Shaped
  <2>3. \A s \in Seated' : (s = n /\ from'[s] = k) \/ (s \in Seated /\ from'[s] = from[s])
    BY <2>1, <2>2 DEF LifeTypeOK, Shaped, SeatsAreSound
  <2>4. \A j \in Sockets : asking'[j] = "noted" => asking[j] = "noted"
    BY <2>1 DEF LifeTypeOK
  <2>5. k \notin idle
    BY <2>1 DEF Spared
  <2> QED
    BY <2>1, <2>3, <2>4, <2>5 DEF Spared
<1>4. ASSUME NEW k \in Sockets, TheWindowRunsOut(k) PROVE Spared'
  BY <1>4 DEF TheWindowRunsOut, Resting, Spared
<1>5. CASE SweepReads
  <2>1. /\ sweep'.spared = HoldingASession /\ UNCHANGED <<idle, asking, from>> /\ Seated' = Seated
    BY <1>5 DEF SweepReads, vars, seatVars, Seated
  <2> QED
    BY <2>1 DEF HoldingASession, SignInsOf, Spared
<1> QED
  BY <1>1, <1>2, <1>3, <1>4, <1>5, StepsAreQuiet

\* What the sweep ends is idle, and is not what it spares.
LEMMA SweptIs ==
  ASSUME LifeTypeOK, [LifeNext]_allVars
  PROVE  Swept \subseteq idle \ sweep.spared
<1>1. SUFFICES ASSUME sweep.at = "ending", sweep' = Resting
               PROVE  standing \ standing' \subseteq idle \ sweep.spared
  BY DEF Swept
<1>2. sweep' # sweep
  BY <1>1 DEF Resting
<1>3. SweepEnds \/ SweepFails \/ Restarts
  BY <1>1, <1>2 DEF LifeNext, GoesOn, NotesTheAssume, IsRefused, RecordsTheDisplaced,
     NotesAndRelinquishes, NotesAndFindsItEnded, RecordsTheEnd, CarriesOn, TheTickFindsItGone,
     IsPermittedToAssume, AssumesARole, IsPermittedToRelinquish, FailsAndCloses, ClientGoes,
     ClientReturns, IsEnded, TheWindowRunsOut, SweepReads, allVars, lifeVars
<1> QED
  BY <1>3 DEF SweepEnds, SweepFails, Restarts, Ends

\* The sweep never ends a sign-in that holds a session, though it reads who does in one
\* step and ends the idle in another.
THEOREM SeatedAreSpared == LifeSpec => TheSeatedAreSpared
<1>1. LifeInit => Spared
  BY DEF LifeInit, Resting, Spared
<1>2. Shaped /\ Placed /\ LifeTypeOK /\ Spared /\ [LifeNext]_allVars => Spared'
  BY SparedIsKept
<1>3. LifeTypeOK /\ Spared /\ [LifeNext]_allVars => [Swept \cap HoldingASession = {}]_allVars
  <2> SUFFICES ASSUME LifeTypeOK, Spared, [LifeNext]_allVars
               PROVE  Swept \cap HoldingASession = {}
    OBVIOUS
  <2>1. Swept # {} => sweep.at = "ending"
    BY DEF Swept
  <2> QED
    BY <2>1, SweptIs DEF Spared, HoldingASession, SignInsOf
<1> QED
  BY <1>1, <1>2, <1>3, LifeInPlace, LifeTypeCorrect, PTL DEF LifeSpec, TheSeatedAreSpared

-----------------------------------------------------------------------------
(* The clock starts again.                                                 *)

\* The ends that are still to be written, or that the store did not take.
Unwritten == lost \cup UNION {ending[j] : j \in Sockets}

\* A path is opened once the end of the session that was displaced is written, and its
\* clock with it.
Opened == \A k \in Sockets : at[k] = "opening" => SignInsOf(ending[k]) \cap idle = {}

\* A sign-in that is idle although its session ended has an end that is not written.
Clocked ==
  /\ returned \subseteq SignInsOf(issued)
  /\ \A k \in returned \cap idle : \E s \in Unwritten : from[s] = k

\* The steps after which nothing more is idle and no end is written that was not.
Patient ==
  /\ idle' \subseteq idle /\ returned' \subseteq returned
  /\ Unwritten \subseteq Unwritten'
  /\ UNCHANGED <<from, issued>>
  /\ \A j \in Sockets : at'[j] = "opening" => at[j] = "opening" /\ ending'[j] = ending[j]

LEMMA BreakingIsPatient ==
  ASSUME Shaped, NEW k \in Sockets, NEW unaccounted, Breaks(k, unaccounted),
         ending[k] \subseteq unaccounted
  PROVE  /\ Unwritten \subseteq Unwritten'
         /\ \A j \in Sockets : at'[j] = "opening" => at[j] = "opening" /\ ending'[j] = ending[j]
<1>1. /\ at' = [at EXCEPT ![k] = "closed"] /\ lost' = lost \cup unaccounted
      /\ ending' = [ending EXCEPT ![k] = {}]
  BY DEF Breaks
<1> QED
  BY <1>1 DEF Unwritten, Shaped, OptionsOf

LEMMA StayingIsPatient ==
  ASSUME Shaped, NEW k \in Sockets, UNCHANGED <<lost, ending>>,
         \E p \in Places : p # "opening" /\ at' = [at EXCEPT ![k] = p]
  PROVE  /\ Unwritten \subseteq Unwritten'
         /\ \A j \in Sockets : at'[j] = "opening" => at[j] = "opening" /\ ending'[j] = ending[j]
BY DEF Unwritten, Shaped

LEMMA RestingIsPatient ==
  ASSUME UNCHANGED vars, idle' \subseteq idle, returned' \subseteq returned, UNCHANGED from
  PROVE  Patient
BY DEF Patient, Unwritten, vars, seatVars, socketVars

LEMMA MostIsPatient ==
  ASSUME Shaped, Placed, LifeTypeOK, [LifeNext]_allVars
  PROVE  \/ Patient
         \/ \E k \in Sockets : RecordsTheDisplaced(k)
         \/ \E k \in Sockets : CarriesOn(k) /\ OpensThePath(k)
         \/ \E k \in Sockets : RecordsTheEnd(k)
         \/ \E k \in Sockets : NotesAndRelinquishes(k)
         \/ \E k \in Sockets, r \in Roles, n \in Names : AssumesARole(k, r, n)
         \/ \E k \in Sockets : TheWindowRunsOut(k)
         \/ Restarts
<1>1. ASSUME NEW k \in Sockets, CarriesOn(k), ~OpensThePath(k) PROVE Patient
  <2>1. issued' = issued
    BY <1>1 DEF CarriesOn, ClosesTheDisplacedPath, Presents, TheSessionEnded, ShowsTheLobby,
       TakesTheAccount, Settle, seatVars
  <2>2. /\ UNCHANGED <<lost, ending>>
        /\ \E p \in Places : p # "opening" /\ at' = [at EXCEPT ![k] = p]
    BY <1>1 DEF CarriesOn, ClosesTheDisplacedPath, Presents, TheSessionEnded, ShowsTheLobby, Places
  <2> QED
    BY <1>1, <2>1, <2>2, StayingIsPatient DEF CarriesOn, lifeVars, Patient
<1>2. ASSUME NEW k \in Sockets, NotesAndFindsItEnded(k) PROVE Patient
  <2>1. /\ UNCHANGED <<lost, ending, issued, from, returned>>
        /\ \E p \in Places : p # "opening" /\ at' = [at EXCEPT ![k] = p]
        /\ idle' \subseteq idle
    BY <1>2 DEF NotesAndFindsItEnded, FindsItEnded, TheClockStartsFor, Places, seatVars
  <2> QED
    BY <2>1, StayingIsPatient DEF Patient
<1>3. ASSUME NEW k \in Sockets, IsPermittedToRelinquish(k) \/ ClientReturns(k) PROVE Patient
  <2>1. /\ UNCHANGED <<lost, ending, issued, from, returned>>
        /\ \E p \in Places : p # "opening" /\ at' = [at EXCEPT ![k] = p]
        /\ idle' \subseteq idle
    BY <1>3 DEF IsPermittedToRelinquish, AsksToRelinquish, ClientReturns, Returns,
       TheClockStartsFor, Places, seatVars, lifeVars
  <2> QED
    BY <2>1, StayingIsPatient DEF Patient
<1>4. ASSUME NEW k \in Sockets, TheTickFindsItGone(k) \/ ClientGoes(k) \/ FailsAndCloses(k)
      PROVE  Patient
  <2>1. FailingSteps(k)
    BY <1>4 DEF TheTickFindsItGone, ClientGoes, Goes, FailsAndCloses, FailingSteps, ClosesAtRest
  <2>2. issued' = issued
    BY <2>1, FailingIs DEF SeatsOnlyGo
  <2>3. \/ Breaks(k, ending[k] \cup (assumed[k] \ Seated))
        \/ Breaks(k, ending[k] \cup assumed[k])
    BY <2>1, FailingIs DEF Failing
  <2>4. UNCHANGED <<idle, from, returned>>
    BY <1>4 DEF TheTickFindsItGone, ClientGoes, FailsAndCloses, lifeVars
  <2> QED
    BY <2>2, <2>3, <2>4, BreakingIsPatient DEF Patient
<1>5. ASSUME NEW k \in Sockets,
             NotesTheAssume(k) \/ IsRefused(k) \/ IsPermittedToAssume(k) \/ IsEnded(k)
      PROVE  Patient
  BY <1>5, RestingIsPatient DEF NotesTheAssume, NotesTheAct, TheClockStartsFor, IsRefused,
     IsPermittedToAssume, IsEnded, Ends
<1>6. ASSUME SweepReads \/ SweepEnds \/ SweepFails \/ UNCHANGED allVars PROVE Patient
  BY <1>6, RestingIsPatient DEF SweepReads, SweepEnds, SweepFails, Ends, allVars, lifeVars
<1> QED
  BY <1>1, <1>2, <1>3, <1>4, <1>5, <1>6 DEF LifeNext, GoesOn

LEMMA OpenedIsKept ==
  ASSUME Shaped, Placed, LifeTypeOK, Opened, [LifeNext]_allVars
  PROVE  Opened'
<1>1. at \in [Sockets -> Places] /\ ending \in [Sockets -> SUBSET issued]
  BY DEF Shaped, OptionsOf
<1>2. ASSUME idle' \subseteq idle, UNCHANGED from,
             \A j \in Sockets : at'[j] = "opening" => at[j] = "opening" /\ ending'[j] = ending[j]
      PROVE  Opened'
  BY <1>2 DEF Opened, SignInsOf
<1>3. CASE Patient
  BY <1>2, <1>3 DEF Patient
<1>4. ASSUME NEW k \in Sockets, RecordsTheDisplaced(k) PROVE Opened'
  <2>1. /\ idle' = idle \ SignInsOf(ending[k]) /\ UNCHANGED <<from, ending>>
        /\ at' = [at EXCEPT ![k] = "opening"]
    BY <1>4 DEF RecordsTheDisplaced, RecordsTheTaking, TheDisplacedStartAgain, TheClockStartsFor
  <2> QED
    BY <1>1, <2>1 DEF Opened, SignInsOf
<1>5. ASSUME NEW k \in Sockets, CarriesOn(k) /\ OpensThePath(k) PROVE Opened'
  BY <1>1, <1>2, <1>5 DEF CarriesOn, OpensThePath, lifeVars
<1>6. ASSUME NEW k \in Sockets, RecordsTheEnd(k) PROVE Opened'
  BY <1>1, <1>2, <1>6 DEF RecordsTheEnd, AuditsTheEnd, TheDisplacedStartAgain, TheClockStartsFor
<1>7. ASSUME NEW k \in Sockets, NotesAndRelinquishes(k) PROVE Opened'
  BY <1>1, <1>2, <1>7 DEF NotesAndRelinquishes, Relinquishes, TheClockStartsFor
<1>8. ASSUME NEW k \in Sockets, NEW r \in Roles, NEW n \in Names, AssumesARole(k, r, n)
      PROVE  Opened'
  <2>1. /\ idle' = idle /\ at' = [at EXCEPT ![k] = "displacing"]
        /\ ending' = [ending EXCEPT ![k] = SeatsOf(UserOf[k])]
        /\ from' = [s \in DOMAIN from \cup {n} |-> IF s = n THEN k ELSE from[s]]
        /\ n \notin issued
    BY <1>8 DEF AssumesARole, Assumes, Take
  <2>2. \A s \in issued : from'[s] = from[s]
    BY <2>1 DEF LifeTypeOK
  <2>3. \A j \in Sockets : at'[j] = "opening" =>
          at[j] = "opening" /\ ending'[j] = ending[j] /\ ending[j] \subseteq issued
    BY <1>1, <2>1
  <2> QED
    BY <2>1, <2>2, <2>3 DEF Opened, SignInsOf
<1>9. ASSUME NEW k \in Sockets, TheWindowRunsOut(k) PROVE Opened'
  BY <1>9 DEF TheWindowRunsOut, vars, socketVars, Opened
<1>10. CASE Restarts
  BY <1>10 DEF Restarts, Opened
<1> QED
  BY <1>3, <1>4, <1>5, <1>6, <1>7, <1>8, <1>9, <1>10, MostIsPatient

LEMMA ClockedIsKept ==
  ASSUME Shaped, Placed, LifeTypeOK, Opened, Clocked, [LifeNext]_allVars
  PROVE  Clocked'
<1>1. /\ ending \in [Sockets -> SUBSET issued] /\ session \in [Sockets -> SUBSET issued]
      /\ lost \subseteq issued
  BY DEF Shaped, OptionsOf
<1>2. CASE Patient
  BY <1>2 DEF Patient, Clocked, SignInsOf
\* What is no longer to be written is no longer idle.
<1>3. ASSUME NEW k \in Sockets, UNCHANGED <<lost, from, issued, returned>>,
             ending' = [ending EXCEPT ![k] = {}], idle' \subseteq idle,
             SignInsOf(ending[k]) \cap idle' = {}
      PROVE  Clocked'
  <2>1. \A s \in Unwritten : s \in Unwritten' \/ s \in ending[k]
    BY <1>1, <1>3 DEF Unwritten
  <2>2. \A s \in ending[k] : from[s] \notin idle'
    BY <1>3 DEF SignInsOf
  <2> QED
    BY <1>3, <2>1, <2>2 DEF Clocked, SignInsOf
<1>4. ASSUME NEW k \in Sockets, RecordsTheDisplaced(k) PROVE Clocked'
  <2>1. /\ UNCHANGED <<lost, ending, from, issued, returned>> /\ idle' \subseteq idle
    BY <1>4 DEF RecordsTheDisplaced, RecordsTheTaking, TheDisplacedStartAgain,
       TheClockStartsFor, seatVars
  <2> QED
    BY <2>1 DEF Clocked, Unwritten, SignInsOf
<1>5. ASSUME NEW k \in Sockets, CarriesOn(k) /\ OpensThePath(k) PROVE Clocked'
  <2>1. /\ UNCHANGED <<lost, from, issued, returned, idle>> /\ at[k] = "opening"
        /\ ending' = [ending EXCEPT ![k] = {}]
    BY <1>5 DEF CarriesOn, OpensThePath, lifeVars, seatVars
  <2> QED
    BY <1>3, <2>1 DEF Opened
<1>6. ASSUME NEW k \in Sockets, RecordsTheEnd(k) PROVE Clocked'
  BY <1>3, <1>6 DEF RecordsTheEnd, AuditsTheEnd, TheDisplacedStartAgain, TheClockStartsFor,
     seatVars
<1>7. ASSUME NEW k \in Sockets, NotesAndRelinquishes(k) PROVE Clocked'
  <2>1. /\ idle' \subseteq idle /\ returned' = returned \cup SignInsOf(session[k])
        /\ UNCHANGED <<from, lost, issued>>
        /\ ending' = [ending EXCEPT ![k] = session[k]] /\ ending[k] = {}
    BY <1>7 DEF NotesAndRelinquishes, Relinquishes, Leave, TheClockStartsFor, Placed,
       TakingPlaces
  <2>2. Unwritten \subseteq Unwritten' /\ session[k] \subseteq Unwritten'
    BY <1>1, <2>1 DEF Unwritten
  <2> QED
    BY <1>1, <2>1, <2>2 DEF Clocked, SignInsOf
<1>8. ASSUME NEW k \in Sockets, NEW r \in Roles, NEW n \in Names, AssumesARole(k, r, n)
      PROVE  Clocked'
  <2>1. /\ idle' = idle /\ lost' = lost /\ at[k] = "listening"
        /\ ending' = [ending EXCEPT ![k] = SeatsOf(UserOf[k])]
        /\ from' = [s \in DOMAIN from \cup {n} |-> IF s = n THEN k ELSE from[s]]
        /\ n \notin issued /\ issued' = issued \cup {n}
        /\ returned' = (returned \cup SignInsOf(ending'[k])) \ {k}
    BY <1>8 DEF AssumesARole, Assumes, Take
  <2>2. \A s \in issued : from'[s] = from[s]
    BY <2>1 DEF LifeTypeOK
  <2>3. ending[k] = {}
    BY <2>1 DEF Placed, TakingPlaces
  <2>4. ending'[k] \subseteq issued
    BY <1>1, <2>1, SeatsOfIsOne DEF Shaped
  <2>5. /\ Unwritten \subseteq Unwritten' /\ ending'[k] \subseteq Unwritten'
        /\ Unwritten \subseteq issued
    BY <1>1, <2>1, <2>3 DEF Unwritten
  <2>6. returned' \subseteq SignInsOf(issued)'
    <3>1. SignInsOf(issued) \subseteq SignInsOf(issued)'
      BY <2>1, <2>2 DEF SignInsOf
    <3>2. SignInsOf(ending'[k]) \subseteq SignInsOf(issued)
      BY <2>4 DEF SignInsOf
    <3> QED
      BY <2>1, <3>1, <3>2 DEF Clocked
  <2>7. ASSUME NEW j \in returned' \cap idle' PROVE \E s \in Unwritten' : from'[s] = j
    <3>1. CASE j \in SignInsOf(ending'[k])
      BY <2>2, <2>4, <2>5, <3>1 DEF SignInsOf
    <3>2. CASE j \in returned
      <4>1. PICK s \in Unwritten : from[s] = j
        BY <2>1, <2>7, <3>2 DEF Clocked
      <4> QED
        BY <2>2, <2>5, <4>1
    <3> QED
      BY <2>1, <2>7, <3>1, <3>2
  <2> QED
    BY <2>6, <2>7 DEF Clocked
<1>9. ASSUME NEW k \in Sockets, TheWindowRunsOut(k) PROVE Clocked'
  BY <1>9 DEF TheWindowRunsOut, vars, seatVars, socketVars, Clocked, Unwritten, SignInsOf
<1>10. CASE Restarts
  <2>1. /\ lost' = issued /\ UNCHANGED <<issued, from, returned>>
    BY <1>10 DEF Restarts
  <2> QED
    BY <2>1 DEF Clocked, Unwritten, SignInsOf
<1> QED
  BY <1>2, <1>4, <1>5, <1>6, <1>7, <1>8, <1>9, <1>10, MostIsPatient

\* A sign-in whose session ended after its window had run out is not ended by the next
\* sweep, but for an end that is not written yet or that the store failed to take.
THEOREM ReturnedStartAgain == LifeSpec => TheReturnedStartAgain
<1>1. LifeInit => Opened /\ Clocked
  BY DEF LifeInit, Init, Opened, Clocked
<1>2. Shaped /\ Placed /\ LifeTypeOK /\ Opened /\ Clocked /\ [LifeNext]_allVars
        => (Opened /\ Clocked)'
  BY OpenedIsKept, ClockedIsKept
<1>3. LifeTypeOK /\ Clocked /\ [LifeNext]_allVars
        => [\A k \in Swept \cap returned :
              \E s \in lost \cup UNION {ending[j] : j \in Sockets} : from[s] = k]_allVars
  BY SweptIs DEF Clocked, Unwritten
<1> QED
  BY <1>1, <1>2, <1>3, LifeInPlace, LifeTypeCorrect, PTL DEF LifeSpec, TheReturnedStartAgain

-----------------------------------------------------------------------------
(* The sockets, through restarts.                                          *)

\* What Signalling keeps, all at once.
Conversed ==
  /\ Owned /\ Written /\ Accounted /\ EndsBegan
  /\ AllAttended /\ AllRecorded
  /\ PathsAreHeld /\ NotYetOpened

\* A restart leaves nothing in hand and no seat, and the log as it was: whatever was still to
\* be written is not written afterwards, and a name that was given is not given again.
LEMMA RestartingKeepsWhatIsConversed ==
  ASSUME Shaped, Conversed, Restarts
  PROVE  Conversed'
<1>1. /\ at' = [k \in Sockets |-> "closed"]
      /\ session' = [k \in Sockets |-> {}] /\ assumed' = [k \in Sockets |-> {}]
      /\ ending' = [k \in Sockets |-> {}]
      /\ seats' = <<>> /\ paths' = {} /\ lost' = issued
      /\ UNCHANGED <<issued, log>>
  BY DEF Restarts
<1>2. Seated' = {}
  BY <1>1 DEF Seated
<1>3. Owned'
  BY <1>1, <1>2 DEF Owned, TakingPlaces
<1>4. Written'
  <2>1. Distinct(log')
    BY <1>1 DEF Conversed, Written
  <2> QED
    BY <1>1, <1>2, <2>1 DEF Written
<1>5. Accounted' /\ EndsBegan'
  BY <1>1 DEF Accounted, EndsBegan, Began
<1>6. AllAttended' /\ AllRecorded'
  BY <1>2 DEF AllAttended, AllRecorded
<1>7. PathsAreHeld' /\ NotYetOpened'
  BY <1>1 DEF PathsAreHeld, NotYetOpened
<1> QED
  BY <1>3, <1>4, <1>5, <1>6, <1>7 DEF Conversed

LEMMA ConversedIsKept ==
  ASSUME Shaped, Placed, Conversed, [LifeNext]_allVars
  PROVE  Conversed'
<1>1. CASE OfAKind
  BY <1>1, OwnedIsKept, WrittenIsKept, AccountedIsKept, EndsBeganIsKept, AllAttendedIsKept,
     AllRecordedIsKept, PathsAreHeldStill, NotYetOpenedIsKept DEF Conversed
<1> QED
  BY <1>1, LifeStepsAreOfAKind, RestartingKeepsWhatIsConversed

LEMMA StillConversed == LifeSpec => [](Shaped /\ Placed /\ Conversed)
<1>1. LifeInit => Conversed
  <2> SUFFICES ASSUME Init PROVE Conversed
    BY DEF LifeInit
  <2>1. log = <<>> /\ DOMAIN <<>> = {}
    BY DEF Init
  <2>2. Distinct(log)
    BY <2>1 DEF Distinct
  <2> QED
    BY <2>2 DEF Init, SeatsInit, Seated, Conversed, Owned, Written, Accounted, EndsBegan,
       AllAttended, AllRecorded, PathsAreHeld, NotYetOpened, TakingPlaces
<1> QED
  BY <1>1, ConversedIsKept, LifeInPlace, PTL DEF LifeSpec

\* However often the process is lost between two steps of a conversation, and whatever sign-ins
\* come to, an end is written once and of what began, a seat is recorded or given up, and a
\* held seat has its path.
THEOREM SocketsSurviveRestarts ==
  LifeSpec => [](/\ EndsAreRecordedOnce /\ EveryEndIsRecorded /\ AnEndIsOfWhatBegan
                 /\ SeatsAreRecordedOrGivenUp /\ AHeldSeatHasItsPath)
<1>1. ASSUME Shaped, Conversed
      PROVE  /\ EndsAreRecordedOnce /\ EveryEndIsRecorded /\ AnEndIsOfWhatBegan
             /\ SeatsAreRecordedOrGivenUp /\ AHeldSeatHasItsPath
  <2>1. EndsAreRecordedOnce
    BY <1>1, LoggedIs DEF Conversed, Written, Distinct, EndsAreRecordedOnce
  <2>2. EveryEndIsRecorded
    BY <1>1, LoggedIs DEF Conversed, Accounted, EveryEndIsRecorded
  <2>3. AnEndIsOfWhatBegan
    <3>1. \A s : Ended(s).of = s
      BY DEF Ended
    <3> QED
      BY <1>1, <3>1, LoggedIs DEF Shaped, Conversed, EndsBegan, AnEndIsOfWhatBegan
  <2>4. SeatsAreRecordedOrGivenUp
    BY <1>1, LoggedIs DEF Conversed, AllAttended, AllRecorded, SeatsAreRecordedOrGivenUp
  <2>5. AHeldSeatHasItsPath
    BY <1>1 DEF Conversed, PathsAreHeld, AHeldSeatHasItsPath
  <2> QED
    BY <2>1, <2>2, <2>3, <2>4, <2>5
<1> QED
  BY <1>1, StillConversed, PTL

\* A restart leaves no path open either, so one is left open as it was without restarts: by
\* a socket that opens it when the session it was taking is displaced.
THEOREM OnlyLatePathsSurvive == LifeSpec => OnlyALatePathIsLeftOpen
<1> DEFINE Late == \A s \in Names :
                     IsLeftOpen(s)' /\ ~IsLeftOpen(s) =>
                       \E k \in Sockets : at[k] = "opening" /\ s \in assumed[k] \ Seated
<1>1. Shaped /\ Placed /\ Conversed /\ [LifeNext]_allVars => [Late]_vars
  <2> SUFFICES ASSUME Shaped, Placed, Conversed, [LifeNext]_allVars PROVE Late
    OBVIOUS
  <2>1. CASE OfAKind
    BY <2>1, OnlyALatePathStays DEF Conversed
  <2>2. CASE Restarts
    BY <2>2 DEF Restarts, IsLeftOpen
  <2> QED
    BY <2>1, <2>2, LifeStepsAreOfAKind
<1> QED
  BY <1>1, StillConversed, PTL DEF LifeSpec, OnlyALatePathIsLeftOpen

-----------------------------------------------------------------------------
(* The seats, through restarts.                                            *)

\* All that a restart does to the seats: they are empty, nothing is owed, and the names that
\* were given stay given.
SeatsAreLost == seats' = <<>> /\ owed' = {} /\ UNCHANGED issued

LEMMA LifeStepsKeepToTheSeats ==
  ASSUME [LifeNext]_allVars
  PROVE  [SeatsNext]_seatVars \/ SeatsAreLost
<1>1. UNCHANGED vars => UNCHANGED seatVars
  BY DEF vars
<1>2. UNCHANGED allVars => UNCHANGED seatVars
  BY <1>1 DEF allVars
<1>3. ASSUME NEW k \in Sockets, GoesOn(k) PROVE [SeatsNext]_seatVars
  <2>1. UNCHANGED vars \/ UNCHANGED seatVars \/ Carries(k)
    BY <1>3 DEF GoesOn, NotesTheAssume, IsRefused, RecordsTheDisplaced, NotesAndRelinquishes,
       NotesAndFindsItEnded, RecordsTheEnd, CarriesOn, TheTickFindsItGone, Carries
  <2> QED
    BY <1>1, <2>1, ConversationsKeepToTheSeats
<1>4. ASSUME NEW k \in Sockets, IsCaused(k) PROVE [SeatsNext]_seatVars
  <2>1. UNCHANGED vars \/ UNCHANGED seatVars \/ Fails(k)
    BY <1>4 DEF IsCaused, IsPermittedToAssume, IsPermittedToRelinquish, AsksToRelinquish,
       FailsAndCloses, ClientGoes, Goes, ClientReturns, Returns, IsEnded, TheWindowRunsOut
  <2> QED
    BY <1>1, <2>1, ConversationsKeepToTheSeats
<1>5. ASSUME NEW k \in Sockets, NEW r \in Roles, NEW n \in Names, AssumesARole(k, r, n)
      PROVE  SeatsNext
  BY <1>5, SocketsAssumption DEF AssumesARole, Assumes, SeatsNext
<1>6. SweepReads \/ SweepEnds \/ SweepFails => UNCHANGED seatVars
  BY <1>1 DEF SweepReads, SweepEnds, SweepFails
<1>7. Restarts => SeatsAreLost
  BY DEF Restarts, SeatsAreLost
<1> QED
  BY <1>2, <1>3, <1>4, <1>5, <1>6, <1>7 DEF LifeNext, IsCaused

\* What becomes of the seats is what the State Authority promised, but for the restarts, and
\* so the promise holds before and after every one of them.
THEOREM TheSeatsSurviveRestarts ==
  LifeSpec => SeatsInit /\ [][SeatsNext \/ SeatsAreLost]_seatVars /\ []Promise
<1>1. LifeInit => SeatsInit
  BY DEF LifeInit, Init
<1>2. [LifeNext]_allVars => [SeatsNext \/ SeatsAreLost]_seatVars
  BY LifeStepsKeepToTheSeats
<1>3. Promise /\ [SeatsNext \/ SeatsAreLost]_seatVars => Promise'
  <2> SUFFICES ASSUME Promise, SeatsAreLost PROVE Promise'
    BY ThePromiseIsKept
  <2>1. SeatsOnlyGo /\ owed' \subseteq owed
    BY DEF Promise, SeatsAreSound, SeatsAreLost, SeatsOnlyGo, Seated
  <2> QED
    BY <2>1, GoingKeepsThePromise
<1> QED
  BY <1>1, <1>2, <1>3, PromisedAtFirst, PTL DEF LifeSpec
=============================================================================

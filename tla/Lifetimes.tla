------------------------------ MODULE Lifetimes ------------------------------
(***************************************************************************)
(* How long a sign-in lasts: the sockets of Signalling, each opened with a *)
(* sign-in of its own (src/src/configuration/sign_ins.rs), the sweep that  *)
(* ends the ones nobody has used for a day (src/src/lifetimes.rs), and the *)
(* process that all but the store is lost with (src/src/main.rs).          *)
(*                                                                         *)
(* A sign-in is named by its socket.  Time is what the sweep makes of it:  *)
(* a sign-in is idle once its window has run out and until its clock is    *)
(* started again.  A window is a day, so it never runs out while a socket  *)
(* or the sweep is waiting for the store.                                  *)
(*                                                                         *)
(* The sockets act as in Signalling, where an assume is cut once more: it  *)
(* is permitted, noted, and only then taken.                               *)
(***************************************************************************)
EXTENDS Signalling

VARIABLES
  standing,  \* the sign-ins that the store holds
  idle,      \* those of them whose window has run out
  asking,    \* how far each socket has come with an assume it was asked for
  from,      \* Session.sign_in, of every session ever minted
  sweep,     \* what the sweep has read: nothing yet, or the sign-ins it is to spare
  returned   \* history: the sign-ins whose session ended since their window last ran out

lifeVars == <<standing, idle, asking, from, sweep, returned>>
allVars == <<vars, lifeVars>>

Resting == [at |-> "resting", spared |-> {}]

LifeInit ==
  /\ Init
  /\ standing = Sockets
  /\ idle = {}
  /\ asking = [k \in Sockets |-> "nothing"]
  /\ from = <<>>
  /\ sweep = Resting
  /\ returned = {}

SignInsOf(S) == {from[s] : s \in S}

\* sign_ins_holding_a_session.
HoldingASession == SignInsOf(Seated)

\* note_a_deliberate_act and the_clock_starts_now, which one write does: of a sign-in that
\* is gone, nothing.
TheClockStartsFor(S) == idle' = idle \ S

\* Slip: the clock of a sign-in that was displaced is left where it stood.
TheClockIsLeft(S) == UNCHANGED idle

\* The clock of a sign-in whose session was displaced.
TheDisplacedStartAgain(S) == TheClockStartsFor(SignInsOf(S))

-----------------------------------------------------------------------------
(* The socket, and the sign-in behind it.                                  *)

\* An assume is permitted: the store holds the sign-in.
IsPermittedToAssume(k) ==
  /\ at[k] = "listening" /\ asking[k] = "nothing"
  /\ k \in standing
  /\ asking' = [asking EXCEPT ![k] = "permitted"]
  /\ UNCHANGED <<vars, standing, idle, from, sweep, returned>>

\* Slip: an assume is taken as it comes.
TheActGoesUnnoted(k) == UNCHANGED idle

NotesTheAct(k) == TheClockStartsFor({k})

NotesTheAssume(k) ==
  /\ asking[k] = "permitted"
  /\ NotesTheAct(k)
  /\ asking' = [asking EXCEPT ![k] = "noted"]
  /\ UNCHANGED <<vars, standing, from, sweep, returned>>

\* Whatever became of the sign-in since, the seat is taken in its name.
AssumesARole(k, r, n) ==
  /\ asking[k] = "noted"
  /\ Assumes(k, r, n)
  /\ asking' = [asking EXCEPT ![k] = "nothing"]
  /\ from' = [s \in DOMAIN from \cup {n} |-> IF s = n THEN k ELSE from[s]]
  /\ returned' = (returned \cup SignInsOf(ending'[k])) \ {k}
  /\ UNCHANGED <<standing, idle, sweep>>

\* Not eligible, or the seat is occupied.
IsRefused(k) ==
  /\ asking[k] = "noted"
  /\ asking' = [asking EXCEPT ![k] = "nothing"]
  /\ UNCHANGED <<vars, standing, idle, from, sweep, returned>>

RecordsTheDisplaced(k) ==
  /\ RecordsTheTaking(k)
  /\ TheDisplacedStartAgain(ending[k])
  /\ UNCHANGED <<standing, asking, from, sweep, returned>>

\* The requirement of a relinquish is a session, and a session is asked for of a sign-in.
IsPermittedToRelinquish(k) ==
  /\ asking[k] = "nothing"
  /\ k \in standing
  /\ AsksToRelinquish(k)
  /\ UNCHANGED lifeVars

\* The act is noted, and then the session is let go of.
NotesAndRelinquishes(k) ==
  /\ Relinquishes(k)
  /\ TheClockStartsFor({k})
  /\ returned' = returned \cup SignInsOf(session[k])
  /\ UNCHANGED <<standing, asking, from, sweep>>

NotesAndFindsItEnded(k) ==
  /\ FindsItEnded(k)
  /\ TheClockStartsFor({k})
  /\ UNCHANGED <<standing, asking, from, sweep, returned>>

RecordsTheEnd(k) ==
  /\ AuditsTheEnd(k)
  /\ TheDisplacedStartAgain(ending[k])
  /\ UNCHANGED <<standing, asking, from, sweep, returned>>

\* The rest of what a conversation does, which says nothing about sign-ins.
CarriesOn(k) ==
  /\ asking[k] = "nothing"
  /\ \/ ClosesTheDisplacedPath(k)
     \/ OpensThePath(k)
     \/ Presents(k)
     \/ TheSessionEnded(k)
     \/ ShowsTheLobby(k)
  /\ UNCHANGED lifeVars

\* What was asked for is forgotten with the socket that the store failed.
FailsAndCloses(k) ==
  /\ Fails(k)
  /\ asking' = [asking EXCEPT ![k] = "nothing"]
  /\ UNCHANGED <<standing, idle, from, sweep, returned>>

\* Slip: the tick is a matter of the lobby, and a session goes on without it.
StandsInTheLobby(k) == session[k] = {}

StandsAnywhere(k) == TRUE

\* pushed_lobby, of a sign-in that has ended: at both tiers.
TheTickFindsItGone(k) ==
  /\ at[k] = "listening" /\ asking[k] = "nothing"
  /\ k \notin standing
  /\ StandsAnywhere(k)
  /\ Breaks(k, {})
  /\ UNCHANGED <<seatVars, log, paths, lifeVars>>

ClientGoes(k) ==
  /\ asking[k] = "nothing"
  /\ Goes(k)
  /\ UNCHANGED lifeVars

\* The upgrade is a request like any other: permitted, and noted.
ClientReturns(k) ==
  /\ k \in standing
  /\ Returns(k)
  /\ TheClockStartsFor({k})
  /\ UNCHANGED <<standing, asking, from, sweep, returned>>

-----------------------------------------------------------------------------
(* The ends of a sign-in.                                                  *)

\* The row goes, and its stamp with it.
Ends(S) == standing' = standing \ S /\ idle' = idle \ S

\* Signed out from another tab, or locked, reset or deleted by an administrator.
IsEnded(k) ==
  /\ k \in standing
  /\ Ends({k})
  /\ UNCHANGED <<vars, asking, from, sweep, returned>>

\* A day without a deliberate act, on console or off.
TheWindowRunsOut(k) ==
  /\ k \in standing \ idle
  /\ sweep = Resting
  /\ \A j \in Sockets : at[j] \in {"listening", "closed"} /\ asking[j] = "nothing"
  /\ idle' = idle \cup {k}
  /\ returned' = returned \ {k}
  /\ UNCHANGED <<vars, standing, asking, from, sweep>>

\* The sign-ins that hold a session are read first, under the lock.
SweepReads ==
  /\ sweep = Resting
  /\ sweep' = [at |-> "ending", spared |-> HoldingASession]
  /\ UNCHANGED <<vars, standing, idle, asking, from, returned>>

\* end_sign_ins_idle_for.
SweepEnds ==
  /\ sweep.at = "ending"
  /\ Ends(idle \ sweep.spared)
  /\ sweep' = Resting
  /\ UNCHANGED <<vars, asking, from, returned>>

\* The window could not be swept.
SweepFails ==
  /\ Failures # {}
  /\ sweep.at = "ending"
  /\ sweep' = Resting
  /\ UNCHANGED <<vars, standing, idle, asking, from, returned>>

\* A restart ends every session, and what the store holds is what is left.
Restarts ==
  /\ at' = [k \in Sockets |-> "closed"]
  /\ LET nothing == [k \in Sockets |-> {}]
     IN  session' = nothing /\ assumed' = nothing /\ ending' = nothing /\ untold' = nothing
  /\ seats' = <<>> /\ owed' = {}
  /\ paths' = {}
  /\ lost' = issued
  /\ asking' = [k \in Sockets |-> "nothing"]
  /\ sweep' = Resting
  /\ UNCHANGED <<issued, gone, log, standing, idle, from, returned>>

-----------------------------------------------------------------------------
\* What a socket goes on to do of its own accord.
GoesOn(k) ==
  \/ NotesTheAssume(k)
  \/ IsRefused(k)
  \/ RecordsTheDisplaced(k)
  \/ NotesAndRelinquishes(k)
  \/ NotesAndFindsItEnded(k)
  \/ RecordsTheEnd(k)
  \/ CarriesOn(k)
  \/ TheTickFindsItGone(k)

LifeNext ==
  \/ \E k \in Sockets :
       \/ GoesOn(k)
       \/ IsPermittedToAssume(k)
       \/ \E r \in Roles, n \in Names : AssumesARole(k, r, n)
       \/ IsPermittedToRelinquish(k)
       \/ FailsAndCloses(k)
       \/ ClientGoes(k)
       \/ ClientReturns(k)
       \/ IsEnded(k)
       \/ TheWindowRunsOut(k)
  \/ SweepReads
  \/ SweepEnds
  \/ SweepFails
  \/ Restarts

\* A conversation is a task that is scheduled, and its ticks are its own.  Nothing obliges
\* the sweep to run, a client to ask, or a window to run out.
LifeSpec ==
  LifeInit /\ [][LifeNext]_allVars /\ \A k \in Sockets : WF_allVars(GoesOn(k))

-----------------------------------------------------------------------------
\* Every variable has its shape, and only who is listening is permitted anything.
LifeTypeOK ==
  /\ idle \subseteq standing /\ standing \subseteq Sockets
  /\ asking \in [Sockets -> {"nothing", "permitted", "noted"}]
  /\ \A k \in Sockets : asking[k] # "nothing" => at[k] = "listening"
  /\ from \in [issued -> Sockets]
  /\ sweep \in [at : {"resting", "ending"}, spared : SUBSET Sockets]
  /\ returned \subseteq Sockets

Swept == IF sweep.at = "ending" /\ sweep' = Resting THEN standing \ standing' ELSE {}

\* "The clock runs only in the lobby": the sweep never ends a sign-in that holds a session,
\* though it reads who does in one step and ends the idle in another, and a seat may be
\* taken between the two by somebody who comes back at the end of their day.
TheSeatedAreSpared == [][Swept \cap HoldingASession = {}]_allVars

\* "A session ending is the moment it starts running again": a sign-in whose session ended
\* after its window had run out is not ended by the next sweep, whether it gave the session
\* up or another machine took it.  What is excepted is an ending that is not written yet,
\* and one the store failed to take.
TheReturnedStartAgain ==
  [][\A k \in Swept \cap returned :
       \E s \in lost \cup UNION {ending[j] : j \in Sockets} : from[s] = k]_allVars

\* A socket whose sign-in has ended closes, whatever it was doing and at whichever tier
\* ("within a tick, rather than whenever the client next says something").
TheSignedOutAreClosed ==
  \A k \in Sockets : (k \notin standing) ~> (at[k] = "closed")
=============================================================================

------------------------------ MODULE Signalling ------------------------------
(***************************************************************************)
(* The sockets (src/src/transport/signalling.rs): one Conversation per     *)
(* client, each a task of its own, meeting at the State Authority's seats, *)
(* the audit log and the media plane.                                      *)
(*                                                                         *)
(* A conversation reads nothing from its socket while it answers, but it   *)
(* gives way at every await on the store, so an assume and a relinquish    *)
(* are cut there, and the other sockets act in between.  `at` says where a *)
(* conversation stands.  The seats are the State Authority's promise.      *)
(*                                                                         *)
(* What a client has on its screen is not kept here, but what it is owed:  *)
(* the end of the session it was last presented, said with its reason.     *)
(* pushed_lobby, which hands a moved lobby to a socket with no session     *)
(* and so has the client put a stale presence away, says neither that a    *)
(* session ended nor why, and changes nothing here.                        *)
(***************************************************************************)
EXTENDS Seats, Sequences

CONSTANTS
  Sockets,
  UserOf,      \* UserOf[k]: the user whose sign-in opened socket k
  Failures,    \* what the store may fail to do: "read", "begin", "write", "commit"
  MayGo        \* bound: the sockets whose client may go, and may come back

ASSUME SocketsAssumption ==
  /\ UserOf \in [Sockets -> Users]
  /\ Failures \subseteq {"read", "begin", "write", "commit"}
  /\ MayGo \subseteq Sockets

VARIABLES
  at,         \* where each conversation stands
  session,    \* Conversation.session, an Option
  assumed,    \* a local of assume: the session just minted
  ending,     \* a local of both: the session whose ending is to be recorded
  untold,     \* the session the client was presented and not told the end of: SessionEnded
  gone,       \* the sessions whose channel the State Authority was told is gone
  lost,       \* history: the endings, and the takings, the store failed to take
  log,        \* the audit log's session entries, in the order they were committed
  paths       \* the sessions the media plane was told to hold a path open for

socketVars == <<at, session, assumed, ending, untold>>
vars == <<seatVars, socketVars, gone, lost, log, paths>>

Places == {"listening", "displacing", "recording", "opening", "presenting",
           "relinquishing", "auditing", "returning", "closed"}

Entry == [event : {"started", "ended"}, of : Names]

Started(s) == [event |-> "started", of |-> s]
Ended(s) == [event |-> "ended", of |-> s]

Logged(entry) == \E i \in DOMAIN log : log[i] = entry

\* The entries of the sessions in S, a set of at most one.
Endings(S) == IF S = {} THEN <<>> ELSE <<Ended(CHOOSE s \in S : TRUE)>>

Init ==
  /\ SeatsInit
  /\ at = [k \in Sockets |-> "listening"]
  /\ session = [k \in Sockets |-> {}]
  /\ assumed = [k \in Sockets |-> {}]
  /\ ending = [k \in Sockets |-> {}]
  /\ untold = [k \in Sockets |-> {}]
  /\ gone = {}
  /\ lost = {}
  /\ log = <<>>
  /\ paths = {}

-----------------------------------------------------------------------------
(* The end of a conversation.                                              *)

\* The loop breaks and the_channel_went says so of the session the conversation
\* still holds.  The client is gone and owed nothing any more, and what the store did not take
\* is not accounted for.
Breaks(k, unaccounted) ==
  /\ at' = [at EXCEPT ![k] = "closed"]
  /\ gone' = gone \cup (session[k] \cap Seated)
  /\ untold' = [untold EXCEPT ![k] = {}]
  /\ lost' = lost \cup unaccounted
  /\ assumed' = [assumed EXCEPT ![k] = {}]
  /\ ending' = [ending EXCEPT ![k] = {}]
  /\ UNCHANGED session

\* The tab is closed, the channel is lost, or the sign-in behind it has ended: noticed
\* between two turns of the loop.
Goes(k) ==
  /\ k \in MayGo
  /\ at[k] = "listening"
  /\ Breaks(k, {})
  /\ UNCHANGED <<seatVars, log, paths>>

\* A turn that only reads finds the store unwell, and the socket is told it is closing.
CannotRead(k) ==
  /\ "read" \in Failures
  /\ at[k] \in {"listening", "presenting", "returning"}
  /\ Breaks(k, {})
  /\ UNCHANGED <<seatVars, log, paths>>

-----------------------------------------------------------------------------
(* Assuming a role.                                                        *)

\* Eligibility and the limit were read; the seat is taken before anything is written,
\* because the limit can only be enforced by taking it.
Assumes(k, r, n) ==
  /\ at[k] = "listening"
  /\ Take(UserOf[k], r, n)
  /\ assumed' = [assumed EXCEPT ![k] = {n}]
  /\ ending' = [ending EXCEPT ![k] = SeatsOf(UserOf[k])]
  /\ at' = [at EXCEPT ![k] = "displacing"]
  /\ UNCHANGED <<session, untold, gone, lost, log, paths>>

\* Slip: the path is left for the socket that was displaced to close.
LeavesTheDisplacedPath(k) ==
  /\ at[k] = "displacing"
  /\ at' = [at EXCEPT ![k] = "recording"]
  /\ UNCHANGED <<seatVars, session, assumed, ending, untold, gone, lost, log, paths>>

ClosesTheDisplacedPath(k) ==
  /\ at[k] = "displacing"
  /\ paths' = paths \ ending[k]
  /\ at' = [at EXCEPT ![k] = "recording"]
  /\ UNCHANGED <<seatVars, session, assumed, ending, untold, gone, lost, log>>

\* Slip: the ending that the taking caused is not recorded with it.
TheTakingAlone(k) == log \o <<Started(CHOOSE n \in assumed[k] : TRUE)>>

\* Slip: the ending is recorded, and not what caused it.
TheDisplacementAlone(k) == log \o Endings(ending[k])

\* One transaction: the displaced session's end, then the new one's start.
TheTaking(k) == log \o Endings(ending[k]) \o <<Started(CHOOSE n \in assumed[k] : TRUE)>>

RecordsTheTaking(k) ==
  /\ at[k] = "recording"
  /\ log' = TheTaking(k)
  /\ at' = [at EXCEPT ![k] = "opening"]
  /\ UNCHANGED <<seatVars, session, assumed, ending, untold, gone, lost, paths>>

\* Slip: the seat is left standing when the taking could not be written.
LeavesItTaken(k) == UNCHANGED seatVars

\* ended_by_its_own_holder, which finds nothing where the seat was taken away again.
TakesItBack(k) ==
  IF assumed[k] \subseteq Seated THEN Leave(CHOOSE n \in assumed[k] : TRUE)
  ELSE UNCHANGED seatVars

\* The entry could not be written: rolled back, and the seat is given up.
CannotWriteTheTaking(k) ==
  /\ "write" \in Failures
  /\ at[k] = "recording"
  /\ TakesItBack(k)
  /\ Breaks(k, ending[k] \cup (assumed[k] \ Seated))
  /\ UNCHANGED <<log, paths>>

\* The transaction could not be opened, or not committed, or not rolled back: the
\* error leaves by `?`, past the undoing.
CannotReachTheStore(k) ==
  /\ {"begin", "commit"} \cap Failures # {}
  /\ at[k] = "recording"
  /\ Breaks(k, ending[k] \cup assumed[k])
  /\ UNCHANGED <<seatVars, log, paths>>

\* Slip: the displaced path is closed once the new one is open, by the wrong name.
OpensAndClosesIt(k) ==
  /\ at[k] = "opening"
  /\ paths' = paths \ assumed[k]
  /\ session' = [session EXCEPT ![k] = assumed[k]]
  /\ assumed' = [assumed EXCEPT ![k] = {}]
  /\ ending' = [ending EXCEPT ![k] = {}]
  /\ at' = [at EXCEPT ![k] = "presenting"]
  /\ UNCHANGED <<seatVars, untold, gone, lost, log>>

OpensThePath(k) ==
  /\ at[k] = "opening"
  /\ paths' = paths \cup assumed[k]
  /\ session' = [session EXCEPT ![k] = assumed[k]]
  /\ assumed' = [assumed EXCEPT ![k] = {}]
  /\ ending' = [ending EXCEPT ![k] = {}]
  /\ at' = [at EXCEPT ![k] = "presenting"]
  /\ UNCHANGED <<seatVars, untold, gone, lost, log>>

-----------------------------------------------------------------------------
(* The presence document, asked for by every act and by every tick.        *)

\* The session is there, and the client is presented it.
Presents(k) ==
  /\ at[k] = "presenting"
  /\ session[k] \subseteq Seated
  /\ untold' = [untold EXCEPT ![k] = session[k]]
  /\ at' = [at EXCEPT ![k] = "listening"]
  /\ UNCHANGED <<seatVars, session, assumed, ending, gone, lost, log, paths>>

\* why_it_ended: the tombstone is taken.
TakesTheAccount(s) == Settle({o \in owed : o.session # s})

\* Slip: the tick waits for a document to have moved before it looks for its session.
WaitsForTheDocument(k) ==
  /\ at[k] = "presenting"
  /\ \E s \in session[k] : s \notin Seated /\ TakesTheAccount(s)
  /\ session' = [session EXCEPT ![k] = {}]
  /\ at' = [at EXCEPT ![k] = "returning"]
  /\ UNCHANGED <<assumed, ending, untold, gone, lost, log, paths>>

\* the_session_ended: somebody else ended it, and the client is owed the lobby.
TheSessionEnded(k) ==
  /\ at[k] \in {"listening", "presenting"}
  /\ \E s \in session[k] : s \notin Seated /\ TakesTheAccount(s)
  /\ session' = [session EXCEPT ![k] = {}]
  /\ at' = [at EXCEPT ![k] = "returning"]
  /\ UNCHANGED <<assumed, ending, untold, gone, lost, log, paths>>

\* back_to_the_lobby, once the lobby has been read: that it ended and why, and the lobby.
ShowsTheLobby(k) ==
  /\ at[k] = "returning"
  /\ untold' = [untold EXCEPT ![k] = {}]
  /\ at' = [at EXCEPT ![k] = "listening"]
  /\ UNCHANGED <<seatVars, session, assumed, ending, gone, lost, log, paths>>

-----------------------------------------------------------------------------
(* Giving a role up.                                                       *)

\* The session is checked to be held, and the deliberate act is noted in the store.
AsksToRelinquish(k) ==
  /\ at[k] = "listening"
  /\ session[k] # {} /\ session[k] \subseteq Seated
  /\ at' = [at EXCEPT ![k] = "relinquishing"]
  /\ UNCHANGED <<seatVars, session, assumed, ending, untold, gone, lost, log, paths>>

\* The deliberate act could not be noted, so nothing is relinquished: the socket closes
\* with its session still held.
CannotNoteTheAct(k) ==
  /\ {"begin", "write", "commit"} \cap Failures # {}
  /\ at[k] = "relinquishing"
  /\ Breaks(k, {})
  /\ UNCHANGED <<seatVars, log, paths>>

\* The session is let go of before anything else is asked.
LetsGo(k) ==
  /\ session' = [session EXCEPT ![k] = {}]
  /\ paths' = paths \ session[k]

Relinquishes(k) ==
  /\ at[k] = "relinquishing"
  /\ \E s \in session[k] : Leave(s)
  /\ LetsGo(k)
  /\ ending' = [ending EXCEPT ![k] = session[k]]
  /\ at' = [at EXCEPT ![k] = "auditing"]
  /\ UNCHANGED <<assumed, untold, gone, lost, log>>

\* Slip: an ending somebody else has recorded is recorded again.
AuditsItAgain(k) ==
  /\ at[k] = "relinquishing"
  /\ session[k] \cap Seated = {}
  /\ LetsGo(k)
  /\ ending' = [ending EXCEPT ![k] = session[k]]
  /\ at' = [at EXCEPT ![k] = "auditing"]
  /\ UNCHANGED <<seatVars, assumed, untold, gone, lost, log>>

\* It ended somewhere else since it was asked.  pushed_presence finds no session on
\* this socket and answers nothing, and neither it nor pushed_lobby, at any later tick, says
\* that one ended.
FindsItEnded(k) ==
  /\ at[k] = "relinquishing"
  /\ session[k] \cap Seated = {}
  /\ LetsGo(k)
  /\ at' = [at EXCEPT ![k] = "listening"]
  /\ UNCHANGED <<seatVars, assumed, ending, untold, gone, lost, log>>

AuditsTheEnd(k) ==
  /\ at[k] = "auditing"
  /\ log' = log \o Endings(ending[k])
  /\ ending' = [ending EXCEPT ![k] = {}]
  /\ at' = [at EXCEPT ![k] = "returning"]
  /\ UNCHANGED <<seatVars, session, assumed, untold, gone, lost, paths>>

\* The session has ended whether or not the log can be written.
CannotAuditTheEnd(k) ==
  /\ {"begin", "write", "commit"} \cap Failures # {}
  /\ at[k] = "auditing"
  /\ Breaks(k, ending[k])
  /\ UNCHANGED <<seatVars, log, paths>>

-----------------------------------------------------------------------------

\* A client whose socket went opens another and stands in the lobby.
Returns(k) ==
  /\ k \in MayGo
  /\ at[k] = "closed"
  /\ at' = [at EXCEPT ![k] = "listening"]
  /\ session' = [session EXCEPT ![k] = {}]
  /\ UNCHANGED <<seatVars, assumed, ending, untold, gone, lost, log, paths>>

\* Tombstones are forgotten after TOMBSTONES_ARE_KEPT_FOR.
Forgets ==
  /\ \E kept \in SUBSET owed : kept # owed /\ Settle(kept)
  /\ UNCHANGED <<socketVars, gone, lost, log, paths>>

\* What a conversation does of its own accord once it has begun an answer, and the
\* tick that finds a session gone.
Carries(k) ==
  \/ ClosesTheDisplacedPath(k)
  \/ RecordsTheTaking(k)
  \/ OpensThePath(k)
  \/ Presents(k)
  \/ TheSessionEnded(k)
  \/ ShowsTheLobby(k)
  \/ Relinquishes(k)
  \/ FindsItEnded(k)
  \/ AuditsTheEnd(k)

Fails(k) ==
  \/ CannotRead(k)
  \/ CannotWriteTheTaking(k)
  \/ CannotReachTheStore(k)
  \/ CannotNoteTheAct(k)
  \/ CannotAuditTheEnd(k)

Next ==
  \/ \E k \in Sockets : Carries(k)
  \/ \E k \in Sockets : Fails(k)
  \/ \E k \in Sockets, r \in Roles, n \in Names : Assumes(k, r, n)
  \/ \E k \in Sockets : AsksToRelinquish(k)
  \/ \E k \in Sockets : Goes(k)
  \/ \E k \in Sockets : Returns(k)
  \/ Forgets

Spec == Init /\ [][Next]_vars

\* Every conversation is a task that is scheduled, and every session ticks five times a
\* second (PRESENCE_TICK), so what a conversation has begun it carries on with, unless the
\* store fails it.  Nothing obliges the store to fail, a client to ask or a tab to close.
FairSpec == Spec /\ \A k \in Sockets : WF_vars(Carries(k))

-----------------------------------------------------------------------------
(* What the sockets promise.                                               *)

\* Every variable has the shape the code gives it, and no more than one session is
\* held, owed an end of or in flight on a socket.
TypeOK ==
  /\ at \in [Sockets -> Places]
  /\ \A f \in {session, assumed, ending, untold} :
       /\ f \in [Sockets -> SUBSET issued]
       /\ \A k \in Sockets : Cardinality(f[k]) <= 1
  /\ Seated \subseteq issued
  /\ \A i \in DOMAIN log : log[i] \in Entry /\ log[i].of \in issued
  /\ gone \cup lost \cup paths \subseteq issued

Attended(s) ==
  s \in gone \/ \E k \in Sockets : at[k] # "closed" /\ s \in session[k] \cup assumed[k]

\* Nobody's seat is nobody's: a live session has a socket on it, or one still taking
\* it, or its channel is known to be gone.  "A role occupied by a session nobody is on
\* is a position nobody can take and nobody can free" (signalling.rs:1368-1372).
SeatsAreAttended == \A s \in Seated : Attended(s)

\* The same where it was the writing that failed, whoever displaces whom meanwhile: "a seat
\* is not taken unless the taking was recorded", and one that was not is given up.  What
\* is excepted is a seat whose transaction could not be begun or ended.
SeatsAreRecordedOrGivenUp ==
  \A s \in Seated \ lost :
    /\ Attended(s)
    /\ \/ Logged(Started(s))
       \/ \E k \in Sockets : at[k] \in {"displacing", "recording"} /\ s \in assumed[k]

\* An ending is written by whoever took it from the State Authority and by nobody
\* else, however a displacement and a relinquish interleave, and never of a seat
\* that is still held (signalling.rs:1336-1343 and 1428-1441).
EndsAreRecordedOnce ==
  /\ \A i, j \in DOMAIN log : log[i] = log[j] => i = j
  /\ \A s \in Seated : ~Logged(Ended(s))

\* An ending goes unrecorded only where the store failed to take it: of a session the
\* log says was started, the log comes to say that it ended.
EveryEndIsRecorded ==
  \A s \in issued \ (Seated \cup lost) :
    Logged(Started(s)) =>
      Logged(Ended(s)) \/ \E k \in Sockets : s \in ending[k]

\* A socket at rest on a seat that is still its own has its media path: no closing of
\* another's ever takes it (signalling.rs:1329-1334 and 1385-1399).
AHeldSeatHasItsPath ==
  \A k \in Sockets :
    at[k] \in {"listening", "relinquishing"} /\ session[k] \subseteq Seated
      => session[k] \subseteq paths

\* A client that was presented a session somebody else has ended is told that it ended, on
\* its socket's next tick, unless it has assumed again or closed (signalling.rs:1972-1981,
\* 2030).
TheDisplacedAreTold ==
  \A k \in Sockets, s \in Names :
    (at[k] = "listening" /\ untold[k] = {s} /\ session[k] = {s} /\ s \notin Seated)
      ~> (untold[k] # {s})

\* "Nothing can name any more": with every socket at rest, the media plane holds a
\* path open for live sessions only (signalling.rs:1329-1331 and 1385-1388).
NoPathIsLeftOpen ==
  (\A k \in Sockets : at[k] \in {"listening", "closed"}) =>
    \A s \in paths : s \in Seated \/ \E k \in Sockets : s \in session[k]

\* "Whoever ended it recorded why, and the socket is told on its next tick": a socket
\* that owes its client the end of a session still has the session to ask about, for
\* why_it_ended is asked of nothing else (signalling.rs:1428-1432 and 1972-1981).  A lobby
\* that has moved since, pushed to a socket without a session, gives no account of it.
TheNextTickTells ==
  \A k \in Sockets : at[k] = "listening" => untold[k] \subseteq session[k]

\* That it began is in the log, or is on its way there, or the store did not take it.
Began(s) ==
  \/ Logged(Started(s))
  \/ s \in lost
  \/ \E k \in Sockets : at[k] \in {"displacing", "recording"} /\ s \in assumed[k]

\* What the log tells ended it had told the start of, or is about to: whoever displaces
\* a session may be quicker to the store than the socket that took it, and the end then
\* comes before the start; but no end is told of a session the log never hears began, unless
\* the store failed to take its start (signalling.rs:1336-1376).
AnEndIsOfWhatBegan ==
  \A s \in Names : Logged(Ended(s)) => Began(s)

\* The path of a session that is over, which no displacement is about to close.
IsLeftOpen(s) ==
  /\ s \in paths \ Seated
  /\ \A k \in Sockets : ~(at[k] = "displacing" /\ s \in ending[k])

\* The one way to a path that stays open after its session: it is opened when the session has
\* been displaced already, by the socket that was still taking it.  However else a session
\* ends, the path that was open for it is closed (signalling.rs:1329-1334 and 1385-1399).
OnlyALatePathIsLeftOpen ==
  [][\A s \in Names :
       IsLeftOpen(s)' /\ ~IsLeftOpen(s) =>
         \E k \in Sockets : at[k] = "opening" /\ s \in assumed[k] \ Seated]_vars

\* A client at rest that is owed the end of a session its socket can ask nothing about.
OwesWhatIsForgotten(k) == at[k] = "listening" /\ ~(untold[k] \subseteq session[k])

\* The one way to a client that is owed the end of a session its socket cannot ask about: a
\* relinquish that finds it ended (signalling.rs:1428-1432).
OnlyARelinquishForgets ==
  [][\A k \in Sockets :
       OwesWhatIsForgotten(k)' /\ ~OwesWhatIsForgotten(k) =>
         at[k] = "relinquishing" /\ session[k] \cap Seated = {}]_vars
=============================================================================

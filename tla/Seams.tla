-------------------------------- MODULE Seams --------------------------------
(***************************************************************************)
(* What is passed between the State Authority and the media plane.         *)
(*                                                                         *)
(* Down: who hears whom is taken under the State Authority's mutex by      *)
(* whichever socket asks first once it has moved, and is handed to the     *)
(* media plane outside it, one talker at a time                            *)
(* (src/src/transport/signalling.rs).                                      *)
(*                                                                         *)
(* Up: the media plane puts on a queue what its end of each media path has *)
(* come to, and the death of its worker (src/src/media_plane/worker.rs);   *)
(* one task reads the queue, and the process stops once nothing is carried *)
(* (src/src/supervision.rs, src/src/main.rs).                              *)
(*                                                                         *)
(* A session goes by the name of the socket that assumed it, and a socket  *)
(* assumes at most once.  Who hears a talker is worked out in              *)
(* StateAuthority and executed in MediaPlane; here an audience is a value. *)
(* Left out: the beacons, which are handed down alike, the client's own    *)
(* reading of its path, and the observer, whose reports are only logged.   *)
(***************************************************************************)
EXTENDS Naturals, Sequences, Functions

CONSTANTS
  Names,       \* the sockets, and the sessions they assume
  Audiences,   \* what may be worked out for a talker
  Nobody,      \* the audience without a listener
  MaxReports   \* bound: the reports that may wait when a transport moves

ASSUME AudiencesAssumption == Nobody \in Audiences

ASSUME ReportsAssumption == MaxReports \in Nat

VARIABLES
  sessions,      \* Live.sessions, by name
  last_routing,  \* Live.last_routing, an Option
  at,            \* where the task of each socket stands
  hand,          \* what each socket has yet to hand down: audiences by talker
  told,          \* the audience the media plane was last told, by talker
  alone,         \* history: no answer was in hand when the last one was taken
  paths,         \* where the media path of each session stands
  down,          \* Seen.up and Seen.down: the ends of each path that are not connected
  said,          \* Seen.said, an Option
  reports,       \* Reports, the queue
  worker,
  permit,        \* whether the Notify of Watching holds a permit
  process        \* where serve, in main.rs, stands

routed  == <<last_routing, at, hand, told, alone>>
carried == <<paths, down, said>>
main    == <<permit, process>>
vars    == <<sessions, routed, carried, reports, worker, main>>

-----------------------------------------------------------------------------
(* The shapes.                                                             *)

Rungs == {"connected", "lost"}

\* `audience` is who hears the session while its signalling channel carries emission.
Session == [gone : BOOLEAN, audience : Audiences, seen_by_the_server : Rungs]

Live == DOMAIN sessions

Ends == {"up", "down"} \X {"ice", "dtls"}

\* A report is about one session, or names none and is about every one.
Report == [of : {{}} \cup {{s} : s \in Names}, is : Rungs]
ThePath(s, rung) == [of |-> {s}, is |-> rung]
NothingIsCarried == [of |-> {}, is |-> "lost"]
IsAbout(report, s) == report.of \in {{}, {s}}

Init ==
  /\ sessions = [s \in {} |-> {}]
  /\ last_routing = {}
  /\ at = [s \in Names |-> "talking"]
  /\ hand = [s \in Names |-> <<>>]
  /\ told = [s \in Names |-> Nobody]
  /\ alone = TRUE
  /\ paths = [s \in Names |-> "none"]
  /\ down = [s \in Names |-> Ends]
  /\ said = [s \in Names |-> {}]
  /\ reports = <<>>
  /\ worker = "alive"
  /\ permit = FALSE
  /\ process = "starting"

Running == process # "stopped"

\* Sockets are opened once the transport listens, and have a grace when it is stopped.
Serving == process \in {"serving", "waiting", "stopping"}

\* The task of the socket has carried down all it took.
Free(s) == Serving /\ hand[s] = <<>>

-----------------------------------------------------------------------------
(* Live state moves.                                                       *)

Minted == [gone |-> FALSE, audience |-> Nobody, seen_by_the_server |-> "lost"]

\* A session just taken has no path yet, and no second one is taken on this socket.
Assumes(s) ==
  /\ Free(s)
  /\ at[s] = "talking"
  /\ paths[s] = "none"
  /\ sessions' = [t \in Live \cup {s} |-> IF t = s THEN Minted ELSE sessions[t]]
  /\ paths' = [paths EXCEPT ![s] = "asked"]
  /\ UNCHANGED <<routed, down, said, reports, worker, main>>

\* A session is relinquished, or displaced from another machine.
Ended(s) ==
  /\ Serving
  /\ sessions' = Restrict(sessions, Live \ {s})
  /\ UNCHANGED <<routed, carried, reports, worker, main>>

\* An act at any console, or a silence, moves who hears this one.
Moves(s, audience) ==
  /\ Serving
  /\ sessions' = [sessions EXCEPT ![s].audience = audience]
  /\ UNCHANGED <<routed, carried, reports, worker, main>>

-----------------------------------------------------------------------------
(* The routing goes down.                                                  *)

WhoHears(talker) == IF sessions[talker].gone THEN Nobody ELSE sessions[talker].audience

Routing == [talker \in Live |-> WhoHears(talker)]

\* It is taken rather than read: whoever asks next is told that nothing moved.
TakesTheRouting(s) ==
  IF last_routing = {Routing} THEN UNCHANGED <<last_routing, hand, alone>>
  ELSE /\ last_routing' = {Routing}
       /\ hand' = [hand EXCEPT ![s] = Routing]
       /\ alone' = (\A t \in Names : hand[t] = <<>>)

\* Every turn of a socket's loop ends so.
Turns(s) ==
  /\ Free(s)
  /\ at[s] = "talking"
  /\ TakesTheRouting(s)
  /\ UNCHANGED <<sessions, at, told, carried, reports, worker, main>>

\* One instruction of the many an answer comes to, in any order.
HandsDown(s, talker) ==
  /\ Serving
  /\ told' = [told EXCEPT ![talker] = hand[s][talker]]
  /\ hand' = [hand EXCEPT ![s] = Restrict(@, DOMAIN @ \ {talker})]
  /\ UNCHANGED <<sessions, last_routing, at, alone, carried, reports, worker, main>>

\* Slip: the routing is left for whoever asks next.
LeavesItToTheOthers(s) == {"left"}

\* The routing is to be taken one last time, except by a socket that stands in the lobby.
\* One that has not learnt yet that its session is over takes it too.
AfterTheLoop(s) ==
  (IF paths[s] = "none" THEN {} ELSE {"leaving"}) \cup (IF s \in Live THEN {} ELSE {"left"})

\* The socket has gone, and the session behind it, where it stands, has lost its channel.
TheChannelIsGone(s) ==
  /\ Free(s)
  /\ at[s] = "talking"
  /\ \E next \in AfterTheLoop(s) : at' = [at EXCEPT ![s] = next]
  /\ sessions' = [t \in Live |-> [sessions[t] EXCEPT !.gone = @ \/ t = s]]
  /\ UNCHANGED <<last_routing, hand, told, alone, carried, reports, worker, main>>

LeavesTheAir(s) ==
  /\ Serving
  /\ at[s] = "leaving"
  /\ at' = [at EXCEPT ![s] = "left"]
  /\ TakesTheRouting(s)
  /\ UNCHANGED <<sessions, told, carried, reports, worker, main>>

-----------------------------------------------------------------------------
(* The reports come up.                                                    *)

Reported(report) == reports' = Append(reports, report)

\* The transports are built and what is seen of them is said; or they cannot be built, or
\* not be described to the client, and the path is said to be lost.
OpensThePath(s) ==
  /\ Running
  /\ Len(reports) < MaxReports
  /\ paths[s] = "asked"
  /\ \/ /\ worker = "alive"
        /\ paths' = [paths EXCEPT ![s] = "open"]
        /\ said' = [said EXCEPT ![s] = {"lost"}]
     \/ /\ paths' = [paths EXCEPT ![s] = "unbuilt"]
        /\ UNCHANGED said
  /\ Reported(ThePath(s, "lost"))
  /\ UNCHANGED <<sessions, routed, down, worker, main>>

\* The path of a session that is over is dropped, and what was seen on it with it.
ClosesThePath(s) ==
  /\ Running
  /\ paths[s] \in {"open", "unbuilt"}
  /\ s \notin Live
  /\ paths' = [paths EXCEPT ![s] = "closed"]
  /\ UNCHANGED <<sessions, routed, down, said, reports, worker, main>>

\* Slip: the downlink is left out.
MergedOnTheUplink(ends) ==
  IF ends \cap ({"up"} \X {"ice", "dtls"}) = {} THEN "connected" ELSE "lost"

\* The worst of the four readings.
Merged(ends) == IF ends = {} THEN "connected" ELSE "lost"

\* A callback of one end of one transport: it reports where the merged answer moved.
AnEndMoves(s, end) ==
  LET ends == IF end \in down[s] THEN down[s] \ {end} ELSE down[s] \cup {end}
      now  == Merged(ends)
  IN  /\ Running
      /\ worker = "alive"
      /\ paths[s] = "open"
      /\ Len(reports) < MaxReports
      /\ down' = [down EXCEPT ![s] = ends]
      /\ said' = [said EXCEPT ![s] = {now}]
      /\ IF said[s] = {now} THEN UNCHANGED reports ELSE Reported(ThePath(s, now))
      /\ UNCHANGED <<sessions, routed, paths, worker, main>>

\* The worker takes every transport with it, and its callback fires once.
TheWorkerDies ==
  /\ Running
  /\ worker = "alive"
  /\ worker' = "dead"
  /\ Reported(NothingIsCarried)
  /\ UNCHANGED <<sessions, routed, carried, main>>

Seen(report) ==
  [s \in Live |-> IF IsAbout(report, s) THEN [sessions[s] EXCEPT !.seen_by_the_server = report.is]
                  ELSE sessions[s]]

\* Slip: whoever waits is woken, and one who comes to wait later is not.
WakesWhoeverWaits(report) == permit \/ (report = NothingIsCarried /\ process = "waiting")

\* The permit is left for one who has not come to wait yet.
LeavesAPermit(report) == permit \/ report = NothingIsCarried

\* Live state moves before the process is asked to stop.
Watches ==
  /\ Running
  /\ reports # <<>>
  /\ sessions' = Seen(Head(reports))
  /\ permit' = LeavesAPermit(Head(reports))
  /\ reports' = Tail(reports)
  /\ UNCHANGED <<routed, carried, worker, process>>

-----------------------------------------------------------------------------
(* The process.                                                            *)

\* The transport starts, or refuses to.
Starts ==
  /\ process = "starting"
  /\ process' \in {"serving", "stopped"}
  /\ UNCHANGED <<sessions, routed, carried, reports, worker, permit>>

\* It serves already by the time anything waits for the signal to stop.
WaitsToBeStopped ==
  /\ process = "serving"
  /\ process' = "waiting"
  /\ UNCHANGED <<sessions, routed, carried, reports, worker, permit>>

IsStopped ==
  /\ process = "waiting"
  /\ process' = "stopping"
  /\ UNCHANGED <<sessions, routed, carried, reports, worker, permit>>

NothingIsCarriedAnyMore ==
  /\ process = "waiting"
  /\ permit
  /\ permit' = FALSE
  /\ process' = "stopping"
  /\ UNCHANGED <<sessions, routed, carried, reports, worker>>

\* The sockets are given their grace and no more; then the watch is stopped, the worker
\* dropped and the store closed.
Stops ==
  /\ process = "stopping"
  /\ process' = "stopped"
  /\ UNCHANGED <<sessions, routed, carried, reports, worker, permit>>

Next ==
  \/ \E s \in Live : Ended(s) \/ \E audience \in Audiences : Moves(s, audience)
  \/ \E s \in Names :
       \/ Assumes(s)
       \/ Turns(s)
       \/ \E talker \in DOMAIN hand[s] : HandsDown(s, talker)
       \/ TheChannelIsGone(s)
       \/ LeavesTheAir(s)
       \/ OpensThePath(s)
       \/ ClosesThePath(s)
       \/ \E end \in Ends : AnEndMoves(s, end)
  \/ TheWorkerDies
  \/ Watches
  \/ Starts
  \/ WaitsToBeStopped
  \/ IsStopped
  \/ NothingIsCarriedAnyMore
  \/ Stops

\* The runtime goes on polling the watch and the composition root; a graceful shutdown
\* is bounded by its grace.
Fairness ==
  /\ WF_vars(Watches)
  /\ WF_vars(Starts)
  /\ WF_vars(WaitsToBeStopped)
  /\ WF_vars(NothingIsCarriedAnyMore)
  /\ WF_vars(Stops)

Spec == Init /\ [][Next]_vars /\ Fairness

-----------------------------------------------------------------------------
(* What the seams promise.                                                 *)

\* An answer, or what is left of one.
IsAnswer(answer) ==
  DOMAIN answer \subseteq Names /\ answer \in [DOMAIN answer -> Audiences]

SessionsOK == Live \subseteq Names /\ sessions \in [Live -> Session]

RoutedOK ==
  /\ \A routing \in last_routing : IsAnswer(routing)
  /\ at \in [Names -> {"talking", "leaving", "left"}]
  /\ hand \in [Names -> {hand[s] : s \in Names}]
  /\ \A s \in Names : IsAnswer(hand[s])
  /\ told \in [Names -> Audiences]
  /\ alone \in BOOLEAN

CarriedOK ==
  /\ paths \in [Names -> {"none", "asked", "open", "unbuilt", "closed"}]
  /\ down \in [Names -> SUBSET Ends]
  /\ said \in [Names -> SUBSET Rungs]

ReportedOK ==
  /\ reports \in Seq(Report)
  /\ worker \in {"alive", "dead"}
  /\ permit \in BOOLEAN
  /\ process \in {"starting", "serving", "waiting", "stopping", "stopped"}

\* Every variable has the shape the code gives it.
TypeOK == SessionsOK /\ RoutedOK /\ CarriedOK /\ ReportedOK

Carrying(s) == worker = "alive" /\ paths[s] = "open"

\* The reports about a session that wait.
About(s) == {i \in DOMAIN reports : IsAbout(reports[i], s)}

\* A session whose socket has gone is heard by nobody once its last turn is over and
\* nothing about it is in hand, whichever sockets carried the answers down.  It is so where
\* no answer was in hand when the last was taken: two answers in hand at once may be told
\* in either order (signalling.rs:1082-1100 and 1715, state.rs:1970).
AGoneSocketIsOffTheAir ==
  \A s \in Live :
    at[s] = "left" /\ alone /\ (\A t \in Names : s \notin DOMAIN hand[t]) => told[s] = Nobody

\* What has come to be known of the server's end of a live session's path, or what the last
\* report about it that waits will make known, is the worst its transports are in, and lost
\* where it has none: across four callbacks, a path that cannot be built and a worker that
\* dies (worker.rs:1325-1390, supervision.rs:89-125).
TheServersEndIsKnown ==
  \A s \in Live :
    LET is == IF Carrying(s) /\ down[s] = {} THEN "connected" ELSE "lost"
    IN  /\ About(s) = {} => sessions[s].seen_by_the_server = is
        /\ \A i \in About(s) : (\A j \in About(s) : j <= i) => reports[i].is = is

\* A deployment that carries nothing comes down, at whatever moment of its start or of its
\* service the worker dies (supervision.rs:110-120, main.rs:190-217).
NothingIsServedUncarried == (worker = "dead") ~> (process = "stopped")
=============================================================================

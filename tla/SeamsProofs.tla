----------------------------- MODULE SeamsProofs -----------------------------
(***************************************************************************)
(* What is passed over the seams, for any number of sockets: every         *)
(* variable keeps its shape, a socket that has gone is off the air, and    *)
(* the server's end of every media path is known.                          *)
(***************************************************************************)
EXTENDS Seams, SequenceTheorems, TLAPS

\* A report is one of its kind.
LEMMA ReportType ==
  ASSUME NEW s \in Names, NEW rung \in Rungs
  PROVE  ThePath(s, rung) \in Report /\ NothingIsCarried \in Report
  BY DEF ThePath, NothingIsCarried, Report, Rungs

\* What is taken under the mutex is an answer.
LEMMA RoutingType ==
  ASSUME SessionsOK
  PROVE  IsAnswer(Routing) /\ DOMAIN Routing = Live
  BY AudiencesAssumption DEF SessionsOK, Routing, WhoHears, Session, IsAnswer

LEMMA HandType ==
  ASSUME RoutedOK, NEW s \in Names, NEW answer, IsAnswer(answer),
         hand' = [hand EXCEPT ![s] = answer]
  PROVE  /\ hand' \in [Names -> {hand'[t] : t \in Names}]
         /\ \A t \in Names : IsAnswer(hand'[t])
<1>1. hand' = [t \in Names |-> IF t = s THEN answer ELSE hand[t]]
  BY DEF RoutedOK
<1> QED
  BY <1>1 DEF RoutedOK

LEMMA TakenType ==
  ASSUME SessionsOK, RoutedOK, NEW s \in Names, TakesTheRouting(s)
  PROVE  /\ \A routing \in last_routing' : IsAnswer(routing)
         /\ hand' \in [Names -> {hand'[t] : t \in Names}]
         /\ \A t \in Names : IsAnswer(hand'[t])
         /\ alone' \in BOOLEAN
<1>1. CASE last_routing = {Routing}
  BY <1>1 DEF TakesTheRouting, RoutedOK
<1>2. CASE last_routing # {Routing}
  BY <1>2, RoutingType, HandType DEF TakesTheRouting
<1> QED
  BY <1>1, <1>2

\* Every step keeps every shape.
LEMMA TypeStep ==
  ASSUME TypeOK, [Next]_vars
  PROVE  TypeOK'
<1> USE DEF routed, carried, main, TypeOK, Live
<1>1. ASSUME NEW s \in Live, Ended(s) PROVE TypeOK'
  BY <1>1 DEF Ended, SessionsOK, RoutedOK, CarriedOK, ReportedOK, Restrict
<1>2. ASSUME NEW s \in Live, NEW audience \in Audiences, Moves(s, audience) PROVE TypeOK'
  BY <1>2 DEF Moves, SessionsOK, RoutedOK, CarriedOK, ReportedOK, Session
<1>3. ASSUME NEW s \in Names, Assumes(s) PROVE TypeOK'
  <2>1. Minted \in Session
    BY AudiencesAssumption DEF Minted, Session, Rungs
  <2> QED
    BY <1>3, <2>1 DEF Assumes, SessionsOK, RoutedOK, CarriedOK, ReportedOK
<1>4. ASSUME NEW s \in Names, Turns(s) PROVE TypeOK'
  <2>1. RoutedOK'
    BY <1>4, TakenType DEF Turns, RoutedOK
  <2> QED
    BY <1>4, <2>1 DEF Turns, SessionsOK, CarriedOK, ReportedOK
<1>5. ASSUME NEW s \in Names, NEW talker \in DOMAIN hand[s], HandsDown(s, talker) PROVE TypeOK'
  <2>1. talker \in Names /\ hand[s][talker] \in Audiences
    BY DEF RoutedOK, IsAnswer
  <2>2. IsAnswer(Restrict(hand[s], DOMAIN hand[s] \ {talker}))
    BY DEF RoutedOK, IsAnswer, Restrict
  <2>3. RoutedOK'
    BY <1>5, <2>1, <2>2, HandType DEF HandsDown, RoutedOK
  <2> QED
    BY <1>5, <2>3 DEF HandsDown, SessionsOK, CarriedOK, ReportedOK
<1>6. ASSUME NEW s \in Names, TheChannelIsGone(s) PROVE TypeOK'
  <2>1. SessionsOK'
    BY <1>6 DEF TheChannelIsGone, SessionsOK, Session
  <2>2. RoutedOK'
    BY <1>6 DEF TheChannelIsGone, AfterTheLoop, RoutedOK
  <2> QED
    BY <1>6, <2>1, <2>2 DEF TheChannelIsGone, CarriedOK, ReportedOK
<1>7. ASSUME NEW s \in Names, LeavesTheAir(s) PROVE TypeOK'
  <2>1. RoutedOK'
    BY <1>7, TakenType DEF LeavesTheAir, RoutedOK
  <2> QED
    BY <1>7, <2>1 DEF LeavesTheAir, SessionsOK, CarriedOK, ReportedOK
<1>8. ASSUME NEW s \in Names, OpensThePath(s) PROVE TypeOK'
  <2>1. CarriedOK'
    BY <1>8 DEF OpensThePath, CarriedOK, Rungs
  <2>2. ReportedOK'
    BY <1>8, ReportType DEF OpensThePath, Reported, ReportedOK, Rungs
  <2> QED
    BY <1>8, <2>1, <2>2 DEF OpensThePath, SessionsOK, RoutedOK
<1>9. ASSUME NEW s \in Names, ClosesThePath(s) PROVE TypeOK'
  BY <1>9 DEF ClosesThePath, SessionsOK, RoutedOK, CarriedOK, ReportedOK
<1>10. ASSUME NEW s \in Names, NEW end \in Ends, AnEndMoves(s, end) PROVE TypeOK'
  <2>1. CarriedOK'
    BY <1>10 DEF AnEndMoves, Merged, CarriedOK, Rungs
  <2>2. ReportedOK'
    BY <1>10, ReportType DEF AnEndMoves, Merged, Reported, ReportedOK, Rungs
  <2> QED
    BY <1>10, <2>1, <2>2 DEF AnEndMoves, SessionsOK, RoutedOK
<1>11. CASE TheWorkerDies
  <2>1. NothingIsCarried \in Report
    BY DEF NothingIsCarried, Report, Rungs
  <2> QED
    BY <1>11, <2>1 DEF TheWorkerDies, Reported, SessionsOK, RoutedOK, CarriedOK, ReportedOK
<1>12. CASE Watches
  <2>1. Head(reports) \in Report /\ Tail(reports) \in Seq(Report)
    BY <1>12 DEF Watches, ReportedOK
  <2>2. SessionsOK'
    BY <1>12, <2>1 DEF Watches, Seen, SessionsOK, Session, Report
  <2>3. ReportedOK'
    BY <1>12, <2>1 DEF Watches, LeavesAPermit, ReportedOK
  <2> QED
    BY <1>12, <2>2, <2>3 DEF Watches, RoutedOK, CarriedOK
<1>13. CASE Starts \/ WaitsToBeStopped \/ IsStopped \/ NothingIsCarriedAnyMore \/ Stops
  BY <1>13 DEF Starts, WaitsToBeStopped, IsStopped, NothingIsCarriedAnyMore, Stops,
    SessionsOK, RoutedOK, CarriedOK, ReportedOK
<1>14. CASE UNCHANGED vars
  BY <1>14 DEF vars, SessionsOK, RoutedOK, CarriedOK, ReportedOK
<1> QED
  BY <1>1, <1>2, <1>3, <1>4, <1>5, <1>6, <1>7, <1>8, <1>9, <1>10, <1>11, <1>12, <1>13, <1>14
  DEF Next

\* Whatever the sockets and the transports do, every variable keeps its shape.
THEOREM SeamsTypeCorrect == Spec => []TypeOK
<1>1. ASSUME Init PROVE TypeOK
  <2>1. SessionsOK
    BY <1>1 DEF Init, SessionsOK, Live
  <2>2. IsAnswer(<<>>)
    BY DEF IsAnswer
  <2>3. RoutedOK
    BY <1>1, <2>2, AudiencesAssumption DEF Init, RoutedOK
  <2>4. CarriedOK
    BY <1>1 DEF Init, CarriedOK, Rungs
  <2>5. ReportedOK
    <3>1. <<>> \in Seq(Report)
      OBVIOUS
    <3> QED
      BY <1>1, <3>1 DEF Init, ReportedOK
  <2> QED
    BY <2>1, <2>3, <2>4, <2>5 DEF TypeOK
<1>2. TypeOK /\ [Next]_vars => TypeOK'
  BY TypeStep
<1> QED
  BY <1>1, <1>2, PTL DEF Spec

-----------------------------------------------------------------------------
(* The routing goes down.                                                  *)

\* A session is off the air from its socket's last turn: the last answer taken says so,
\* and where it was taken alone, it is in hand or it has been told.
Aired ==
  /\ \A r, q \in last_routing : r = q
  /\ \A s \in Live : at[s] # "talking" => sessions[s].gone
  /\ \A s \in Live : at[s] = "left" => \E r \in last_routing : s \in DOMAIN r /\ r[s] = Nobody
  /\ alone => \A r \in last_routing : \A s \in DOMAIN r :
       /\ \A k \in Names : s \in DOMAIN hand[k] => hand[k][s] = r[s]
       /\ (\A k \in Names : s \notin DOMAIN hand[k]) => told[s] = r[s]

\* Taking the routing keeps it so, for the socket that takes its last as well.
LEMMA TakenIsAired ==
  ASSUME TypeOK, Aired, NEW k \in Names, TakesTheRouting(k), UNCHANGED <<sessions, told>>,
         \A s \in Live : at'[s] # "talking" => at[s] # "talking",
         \A s \in Live : at'[s] = "left" => at[s] = "left" \/ s = k
  PROVE  Aired'
<1> USE DEF Live
<1>1. Live \subseteq Names /\ DOMAIN Routing = Live
  BY DEF TypeOK, SessionsOK, Routing
<1>2. \A s \in Live : sessions[s].gone => Routing[s] = Nobody
  BY DEF Routing, WhoHears
<1>3. CASE last_routing = {Routing}
  <2>1. UNCHANGED <<last_routing, hand, alone>>
    BY <1>3 DEF TakesTheRouting
  <2> QED
    BY <1>1, <1>2, <1>3, <2>1 DEF Aired
<1>4. CASE last_routing # {Routing}
  <2>1. /\ last_routing' = {Routing}
        /\ hand' = [hand EXCEPT ![k] = Routing]
        /\ alone' = (\A t \in Names : hand[t] = <<>>)
    BY <1>4 DEF TakesTheRouting
  <2>2. /\ hand'[k] = Routing
        /\ \A t \in Names \ {k} : hand'[t] = hand[t]
    BY <2>1 DEF TypeOK, RoutedOK
  <2>3. alone' => \A t \in Names \ {k} : DOMAIN hand'[t] = {}
    <3>1. DOMAIN <<>> = {}
      OBVIOUS
    <3> QED
      BY <2>1, <2>2, <3>1
  <2> QED
    BY <1>1, <1>2, <2>1, <2>2, <2>3 DEF Aired
<1> QED
  BY <1>3, <1>4

LEMMA AiredStep ==
  ASSUME TypeOK, Aired, [Next]_vars
  PROVE  Aired'
<1> USE DEF routed, carried, main, Live
<1>1. ASSUME NEW s \in Live, Ended(s) PROVE Aired'
  BY <1>1 DEF Ended, Aired, Restrict
<1>2. ASSUME NEW s \in Live, NEW audience \in Audiences, Moves(s, audience) PROVE Aired'
  <2>1. /\ DOMAIN sessions' = DOMAIN sessions
        /\ \A t \in Live : sessions'[t].gone = sessions[t].gone
    BY <1>2 DEF Moves, TypeOK, SessionsOK, Session
  <2> QED
    BY <1>2, <2>1 DEF Moves, Aired
<1>3. ASSUME NEW s \in Names, Assumes(s) PROVE Aired'
  BY <1>3 DEF Assumes, Aired
<1>4. ASSUME NEW s \in Names, Turns(s) PROVE Aired'
  BY <1>4, TakenIsAired DEF Turns
<1>5. ASSUME NEW s \in Names, NEW talker \in DOMAIN hand[s], HandsDown(s, talker) PROVE Aired'
  <2>1. talker \in Names
    BY DEF TypeOK, RoutedOK, IsAnswer
  <2>2. told' = [told EXCEPT ![talker] = hand[s][talker]]
    BY <1>5 DEF HandsDown
  <2>3. /\ hand'[s] = Restrict(hand[s], DOMAIN hand[s] \ {talker})
        /\ \A k \in Names \ {s} : hand'[k] = hand[k]
    BY <1>5 DEF HandsDown, TypeOK, RoutedOK
  <2>4. /\ DOMAIN hand'[s] = DOMAIN hand[s] \ {talker}
        /\ \A t \in DOMAIN hand'[s] : hand'[s][t] = hand[s][t]
    BY <2>3 DEF Restrict
  <2>5. /\ told'[talker] = hand[s][talker]
        /\ \A t \in Names \ {talker} : told'[t] = told[t]
    BY <2>1, <2>2 DEF TypeOK, RoutedOK
  <2>6. UNCHANGED <<sessions, last_routing, at, alone>>
    BY <1>5 DEF HandsDown
  <2>7. \A r \in last_routing : DOMAIN r \subseteq Names
    BY DEF TypeOK, RoutedOK, IsAnswer
  <2>8. ASSUME alone, NEW r \in last_routing, NEW t \in DOMAIN r
        PROVE  /\ \A k \in Names : t \in DOMAIN hand'[k] => hand'[k][t] = r[t]
               /\ (\A k \in Names : t \notin DOMAIN hand'[k]) => told'[t] = r[t]
    BY <2>3, <2>4, <2>5, <2>7, <2>8 DEF Aired
  <2> QED
    BY <2>6, <2>8 DEF Aired
<1>6. ASSUME NEW s \in Names, TheChannelIsGone(s) PROVE Aired'
  <2>1. /\ DOMAIN sessions' = DOMAIN sessions
        /\ \A t \in Live : sessions'[t].gone = (sessions[t].gone \/ t = s)
    BY <1>6 DEF TheChannelIsGone, TypeOK, SessionsOK, Session
  <2>2. \A t \in Names \ {s} : at'[t] = at[t]
    BY <1>6 DEF TheChannelIsGone, TypeOK, RoutedOK
  <2>3. s \in Live => at'[s] = "leaving"
    BY <1>6 DEF TheChannelIsGone, AfterTheLoop, TypeOK, RoutedOK
  <2>4. UNCHANGED <<last_routing, hand, told, alone>>
    BY <1>6 DEF TheChannelIsGone
  <2>5. Live \subseteq Names
    BY DEF TypeOK, SessionsOK
  <2>6. \A t \in Live : /\ at'[t] # "talking" => t = s \/ at[t] # "talking"
                        /\ at'[t] = "left" => at[t] = "left"
    BY <2>2, <2>3, <2>5
  <2>7. ASSUME NEW t \in Live, at'[t] # "talking" PROVE sessions'[t].gone
    <3>1. CASE t = s
      BY <2>1, <3>1
    <3>2. CASE t # s
      <4>1. at[t] # "talking"
        BY <2>6, <2>7, <3>2
      <4>2. sessions[t].gone
        BY <4>1 DEF Aired
      <4> QED
        BY <2>1, <4>2
    <3> QED
      BY <3>1, <3>2
  <2>8. \A t \in Live' : at'[t] # "talking" => sessions'[t].gone
    BY <2>1, <2>7
  <2>9. \A t \in Live' : at'[t] = "left" => \E r \in last_routing : t \in DOMAIN r /\ r[t] = Nobody
    BY <2>1, <2>6 DEF Aired
  <2> QED
    BY <2>4, <2>8, <2>9 DEF Aired
<1>7. ASSUME NEW s \in Names, LeavesTheAir(s) PROVE Aired'
  <2>1. at' = [at EXCEPT ![s] = "left"] /\ at[s] = "leaving" /\ TakesTheRouting(s)
        /\ UNCHANGED <<sessions, told>>
    BY <1>7 DEF LeavesTheAir
  <2>2. \A t \in Live : /\ at'[t] # "talking" => at[t] # "talking"
                        /\ at'[t] = "left" => at[t] = "left" \/ t = s
    BY <2>1 DEF TypeOK, RoutedOK, SessionsOK
  <2> QED
    BY <2>1, <2>2, TakenIsAired
<1>8. CASE \E s \in Names :
             OpensThePath(s) \/ ClosesThePath(s) \/ \E end \in Ends : AnEndMoves(s, end)
  <2>1. UNCHANGED <<sessions, last_routing, at, hand, told, alone>>
    BY <1>8 DEF OpensThePath, ClosesThePath, AnEndMoves
  <2> QED
    BY <2>1 DEF Aired
<1>9. CASE Watches
  <2>1. /\ DOMAIN sessions' = DOMAIN sessions
        /\ \A t \in Live : sessions'[t].gone = sessions[t].gone
    BY <1>9 DEF Watches, Seen, TypeOK, SessionsOK, Session
  <2> QED
    BY <1>9, <2>1 DEF Watches, Aired
<1>10. CASE \/ TheWorkerDies \/ Starts \/ WaitsToBeStopped \/ IsStopped
            \/ NothingIsCarriedAnyMore \/ Stops
  BY <1>10 DEF TheWorkerDies, Starts, WaitsToBeStopped, IsStopped, NothingIsCarriedAnyMore,
    Stops, Aired
<1>11. CASE UNCHANGED vars
  BY <1>11 DEF vars, Aired
<1> QED
  BY <1>1, <1>2, <1>3, <1>4, <1>5, <1>6, <1>7, <1>8, <1>9, <1>10, <1>11 DEF Next

\* A session whose socket has had its last turn is heard by nobody, once nothing about it
\* is in hand, where the last answer was taken with no other in hand.
THEOREM TheGoneAreOffTheAir == Spec => []AGoneSocketIsOffTheAir
<1>1. Init => Aired
  BY DEF Init, Aired, Live
<1>2. TypeOK /\ Aired /\ [Next]_vars => Aired'
  BY AiredStep
<1>3. Aired => AGoneSocketIsOffTheAir
  BY DEF Aired, AGoneSocketIsOffTheAir
<1> QED
  BY <1>1, <1>2, <1>3, SeamsTypeCorrect, PTL DEF Spec

-----------------------------------------------------------------------------
(* The reports come up.                                                    *)

\* What the server's end of a session's path is.
Is(s) == IF Carrying(s) /\ down[s] = {} THEN "connected" ELSE "lost"

\* What is known of it, or is about to be.
IsKnown(s) ==
  /\ About(s) = {} => sessions[s].seen_by_the_server = Is(s)
  /\ \A i \in About(s) : (\A j \in About(s) : j <= i) => reports[i].is = Is(s)

\* What was said last of an open path is the worst its ends are in; of one not asked for
\* nothing but its loss can be waiting.
Known ==
  /\ \A s \in Names : paths[s] = "none" =>
       s \notin Live /\ \A i \in About(s) : reports[i].is = "lost"
  /\ \A s \in Names : paths[s] \in {"none", "asked"} => down[s] = Ends
  /\ \A s \in Names : paths[s] = "open" => said[s] = {Merged(down[s])}
  /\ \A s \in Live : IsKnown(s)

\* A report that is put on the queue is the last about those it is about, and changes
\* nothing for the others.
LEMMA Appended ==
  ASSUME reports \in Seq(Report), NEW report \in Report, Reported(report), NEW s
  PROVE  /\ IsAbout(report, s) =>
              /\ About(s)' # {}
              /\ \A i \in About(s)' : (\A j \in About(s)' : j <= i) => reports'[i] = report
         /\ ~IsAbout(report, s) => About(s)' = About(s)
         /\ \A i \in About(s) : i \in DOMAIN reports /\ reports'[i] = reports[i]
         /\ \A i \in About(s)' : reports'[i] = report \/ i \in About(s)
<1>1. reports' = Append(reports, report)
  BY DEF Reported
<1>2. /\ Len(reports) \in Nat
      /\ DOMAIN reports = 1..Len(reports)
      /\ DOMAIN reports' = 1..(Len(reports) + 1)
      /\ reports'[Len(reports) + 1] = report
      /\ \A i \in 1..Len(reports) : reports'[i] = reports[i]
  BY <1>1
<1>3. About(s)' = {i \in DOMAIN reports' : IsAbout(reports'[i], s)}
  BY DEF About, IsAbout
<1>4. About(s) = {i \in DOMAIN reports : IsAbout(reports[i], s)}
  BY DEF About
<1>5. \A i \in About(s)' : i = Len(reports) + 1 \/ i \in About(s)
  BY <1>2, <1>3, <1>4
<1>6. \A i \in About(s) : i \in 1..Len(reports) /\ i \in About(s)'
  BY <1>2, <1>3, <1>4
<1>7. ASSUME IsAbout(report, s)
      PROVE  /\ About(s)' # {}
             /\ \A i \in About(s)' : (\A j \in About(s)' : j <= i) => reports'[i] = report
  <2>1. Len(reports) + 1 \in About(s)'
    BY <1>2, <1>3, <1>7
  <2>2. \A i \in About(s)' : i # Len(reports) + 1 => ~(Len(reports) + 1 <= i)
    BY <1>2, <1>5, <1>6
  <2> QED
    BY <1>2, <2>1, <2>2
<1>8. ASSUME ~IsAbout(report, s) PROVE About(s)' = About(s)
  <2>1. Len(reports) + 1 \notin About(s)'
    BY <1>2, <1>3, <1>8
  <2> QED
    BY <1>5, <1>6, <2>1
<1> QED
  BY <1>2, <1>5, <1>6, <1>7, <1>8

\* Whoever reads the queue leaves the others of its reports in their order.
LEMMA Read ==
  ASSUME reports \in Seq(Report), reports # <<>>, reports' = Tail(reports), NEW s
  PROVE  /\ \A i \in About(s)' : i \in Nat /\ i + 1 \in About(s) /\ reports'[i] = reports[i + 1]
         /\ \A i \in About(s) : i = 1 \/ (i \in Nat /\ i - 1 \in About(s)')
         /\ 1 \in About(s) <=> IsAbout(Head(reports), s)
         /\ Head(reports) = reports[1]
<1>1. /\ Len(reports) \in Nat \ {0}
      /\ DOMAIN reports = 1..Len(reports)
      /\ DOMAIN reports' = 1..(Len(reports) - 1)
      /\ \A i \in 1..(Len(reports) - 1) : reports'[i] = reports[i + 1]
      /\ Head(reports) = reports[1]
  OBVIOUS
<1>2. About(s)' = {i \in DOMAIN reports' : IsAbout(reports'[i], s)}
  BY DEF About, IsAbout
<1>3. About(s) = {i \in DOMAIN reports : IsAbout(reports[i], s)}
  BY DEF About
<1> QED
  BY <1>1, <1>2, <1>3

\* A report about a session is what is about to be known of it.
LEMMA KnownOnceReported ==
  ASSUME reports \in Seq(Report), NEW report \in Report, Reported(report), NEW s,
         IsAbout(report, s), report.is = Is(s)'
  PROVE  IsKnown(s)'
  BY Appended DEF IsKnown

\* A report about another session leaves this one known.
LEMMA KnownStill ==
  ASSUME reports \in Seq(Report), NEW report \in Report, Reported(report), NEW s,
         ~IsAbout(report, s), IsKnown(s), UNCHANGED sessions, Is(s)' = Is(s)
  PROVE  IsKnown(s)'
<1>1. /\ About(s)' = About(s)
      /\ \A i \in About(s) : reports'[i] = reports[i]
  BY Appended
<1> QED
  BY <1>1 DEF IsKnown

\* A report that is read is known, and one that waits still is about to be.
LEMMA KnownOnceRead ==
  ASSUME reports \in Seq(Report), Watches, NEW s \in Live, IsKnown(s), Is(s)' = Is(s)
  PROVE  IsKnown(s)'
<1> DEFINE first == Head(reports)
<1>1. reports # <<>> /\ reports' = Tail(reports) /\ sessions' = Seen(first)
  BY DEF Watches
<1>2. /\ \A i \in About(s)' : i \in Nat /\ i + 1 \in About(s) /\ reports'[i] = reports[i + 1]
      /\ \A i \in About(s) : i = 1 \/ (i \in Nat /\ i - 1 \in About(s)')
      /\ 1 \in About(s) <=> IsAbout(first, s)
      /\ first = reports[1]
  BY <1>1, Read
<1>3. sessions'[s].seen_by_the_server
        = IF IsAbout(first, s) THEN first.is ELSE sessions[s].seen_by_the_server
  BY <1>1 DEF Seen
<1>4. ASSUME About(s)' = {} PROVE sessions'[s].seen_by_the_server = Is(s)
  <2>1. \A i \in About(s) : i = 1
    BY <1>2, <1>4
  <2>2. CASE 1 \in About(s)
    <3>1. \A j \in About(s) : j <= 1
      BY <2>1
    <3> QED
      BY <1>2, <1>3, <2>2, <3>1 DEF IsKnown
  <2>3. CASE 1 \notin About(s)
    BY <1>2, <1>3, <2>1, <2>3 DEF IsKnown
  <2> QED
    BY <2>2, <2>3
<1>5. ASSUME NEW i \in About(s)', \A j \in About(s)' : j <= i PROVE reports'[i].is = Is(s)
  <2>1. i \in Nat /\ i + 1 \in About(s) /\ reports'[i] = reports[i + 1]
    BY <1>2
  <2>2. \A j \in About(s) : j <= i + 1
    BY <1>2, <1>5, <2>1
  <2> QED
    BY <2>1, <2>2 DEF IsKnown
<1> QED
  BY <1>4, <1>5 DEF IsKnown

\* Everything Known says of what has not been reported or read anew.
LEMMA KnownKept ==
  ASSUME Known, UNCHANGED <<paths, down, said, reports, worker>>,
         \A s \in Live' :
           s \in Live /\ sessions'[s].seen_by_the_server = sessions[s].seen_by_the_server
  PROVE  Known'
<1>1. \A s : About(s)' = About(s) /\ Is(s)' = Is(s)
  BY DEF About, IsAbout, Is, Carrying
<1>2. \A s \in Live' : IsKnown(s)'
  BY <1>1 DEF Known, IsKnown
<1> QED
  BY <1>1, <1>2 DEF Known

LEMMA KnownStep ==
  ASSUME TypeOK, TypeOK', Known, [Next]_vars
  PROVE  Known'
<1> USE DEF routed, carried, main, Live
<1> reports \in Seq(Report) /\ Live \subseteq Names
  BY DEF TypeOK, SessionsOK, ReportedOK
<1>1. ASSUME NEW s \in Live, Ended(s) PROVE Known'
  <2>1. /\ Live' = Live \ {s}
        /\ \A t \in Live' : sessions'[t] = sessions[t]
        /\ UNCHANGED <<paths, down, said, reports, worker>>
    BY <1>1 DEF Ended, Restrict
  <2> QED
    BY <2>1, KnownKept
<1>2. ASSUME NEW s \in Live, NEW audience \in Audiences, Moves(s, audience) PROVE Known'
  <2>1. \A t \in Live' :
          t \in Live /\ sessions'[t].seen_by_the_server = sessions[t].seen_by_the_server
    BY <1>2 DEF Moves, TypeOK, SessionsOK, Session
  <2> QED
    BY <1>2, <2>1, KnownKept DEF Moves
<1>3. ASSUME NEW s \in Names, Assumes(s) PROVE Known'
  <2>1. /\ Live' = Live \cup {s}
        /\ sessions'[s].seen_by_the_server = "lost"
        /\ \A t \in Live : t # s => sessions'[t] = sessions[t]
        /\ paths[s] = "none"
        /\ paths'[s] = "asked"
        /\ \A t \in Names \ {s} : paths'[t] = paths[t]
        /\ UNCHANGED <<down, said, reports, worker>>
    BY <1>3 DEF Assumes, Minted, TypeOK, CarriedOK
  <2>2. \A t \in Names : About(t)' = About(t)
    BY <2>1 DEF About, IsAbout
  <2>3. IsKnown(s)'
    <3>1. Is(s)' = "lost"
      BY <2>1 DEF Is, Carrying
    <3>2. \A i \in About(s) : reports[i].is = "lost"
      BY <2>1 DEF Known
    <3> QED
      BY <2>1, <2>2, <3>1, <3>2 DEF IsKnown
  <2>4. ASSUME NEW t \in Live, t # s PROVE IsKnown(t)'
    <3>1. Is(t)' = Is(t)
      BY <2>1, <2>4 DEF Is, Carrying
    <3> QED
      BY <2>1, <2>2, <2>4, <3>1 DEF IsKnown, Known
  <2> QED
    BY <2>1, <2>2, <2>3, <2>4 DEF Known
<1>4. ASSUME NEW s \in Names,
             \/ Turns(s) \/ TheChannelIsGone(s) \/ LeavesTheAir(s)
             \/ \E talker \in DOMAIN hand[s] : HandsDown(s, talker)
      PROVE  Known'
  <2>1. UNCHANGED <<paths, down, said, reports, worker>>
    BY <1>4 DEF Turns, TheChannelIsGone, LeavesTheAir, HandsDown
  <2>2. \A t \in Live' :
          t \in Live /\ sessions'[t].seen_by_the_server = sessions[t].seen_by_the_server
    <3>1. CASE TheChannelIsGone(s)
      BY <3>1 DEF TheChannelIsGone, TypeOK, SessionsOK, Session
    <3>2. CASE ~TheChannelIsGone(s)
      BY <1>4, <3>2 DEF Turns, LeavesTheAir, HandsDown
    <3> QED
      BY <3>1, <3>2
  <2> QED
    BY <2>1, <2>2, KnownKept
<1>5. ASSUME NEW s \in Names, OpensThePath(s) PROVE Known'
  <2> DEFINE report == ThePath(s, "lost")
  <2>1. /\ report \in Report /\ report.is = "lost" /\ IsAbout(report, s)
        /\ \A t : t # s => ~IsAbout(report, t)
    BY ReportType DEF ThePath, IsAbout, Report, Rungs
  <2>2. /\ paths[s] = "asked"
        /\ paths'[s] \in {"open", "unbuilt"}
        /\ paths'[s] = "open" => said'[s] = {"lost"}
        /\ \A t \in Names \ {s} : paths'[t] = paths[t] /\ said'[t] = said[t]
        /\ Reported(report)
        /\ UNCHANGED <<sessions, down, worker>>
    BY <1>5 DEF OpensThePath, TypeOK, CarriedOK
  <2>3. down[s] = Ends /\ Ends # {}
    <3>1. <<"up", "ice">> \in Ends
      BY DEF Ends
    <3> QED
      BY <2>2, <3>1 DEF Known
  <2>4. IsKnown(s)'
    BY <2>1, <2>2, <2>3, KnownOnceReported DEF Is, Carrying
  <2>5. ASSUME NEW t \in Names, t # s
        PROVE  /\ About(t)' = About(t) /\ Is(t)' = Is(t)
               /\ \A i \in About(t) : reports'[i] = reports[i]
    BY <2>1, <2>2, <2>5, Appended DEF Is, Carrying
  <2>6. \A t \in Live : t # s => IsKnown(t)'
    BY <2>1, <2>2, <2>5, KnownStill DEF Known
  <2> QED
    BY <2>2, <2>3, <2>4, <2>5, <2>6 DEF Known, Merged
<1>6. ASSUME NEW s \in Names, ClosesThePath(s) PROVE Known'
  <2>1. /\ paths'[s] = "closed" /\ s \notin Live
        /\ \A t \in Names \ {s} : paths'[t] = paths[t]
        /\ UNCHANGED <<sessions, down, said, reports, worker>>
    BY <1>6 DEF ClosesThePath, TypeOK, CarriedOK
  <2>2. ASSUME NEW t \in Live PROVE IsKnown(t)'
    BY <2>1 DEF Known, IsKnown, Is, Carrying, About, IsAbout
  <2> QED
    BY <2>1, <2>2 DEF Known, About, IsAbout
<1>7. ASSUME NEW s \in Names, NEW end \in Ends, AnEndMoves(s, end) PROVE Known'
  <2> DEFINE now == Merged(down'[s])
             report == ThePath(s, now)
  <2>1. /\ report \in Report /\ report.is = now /\ IsAbout(report, s)
        /\ \A t : t # s => ~IsAbout(report, t)
    BY ReportType DEF ThePath, IsAbout, Report, Rungs, Merged
  <2>2. /\ paths[s] = "open" /\ worker = "alive"
        /\ said'[s] = {now}
        /\ \A t \in Names \ {s} : down'[t] = down[t] /\ said'[t] = said[t]
        /\ (said[s] = {now} /\ UNCHANGED reports) \/ Reported(report)
        /\ UNCHANGED <<sessions, paths, worker>>
    BY <1>7 DEF AnEndMoves, TypeOK, CarriedOK
  <2>3. Is(s)' = now /\ Is(s) = Merged(down[s])
    BY <2>2 DEF Is, Carrying, Merged
  <2>4. \A t \in Names \ {s} : Is(t)' = Is(t)
    BY <2>2 DEF Is, Carrying
  <2>5. CASE said[s] = {now} /\ UNCHANGED reports
    <3>1. Is(s)' = Is(s)
      BY <2>2, <2>3, <2>5 DEF Known
    <3>2. \A t \in Names : About(t)' = About(t)
      BY <2>5 DEF About, IsAbout
    <3>3. \A t \in Live : IsKnown(t)'
      BY <2>2, <2>4, <2>5, <3>1, <3>2 DEF Known, IsKnown
    <3> QED
      BY <2>2, <2>5, <3>2, <3>3 DEF Known
  <2>6. CASE Reported(report)
    <3>1. IsKnown(s)'
      BY <2>1, <2>3, <2>6, KnownOnceReported
    <3>2. ASSUME NEW t \in Names, t # s
          PROVE  About(t)' = About(t) /\ \A i \in About(t) : reports'[i] = reports[i]
      BY <2>1, <2>6, <3>2, Appended
    <3>3. \A t \in Live : t # s => IsKnown(t)'
      BY <2>1, <2>2, <2>4, <2>6, KnownStill DEF Known
    <3> QED
      BY <2>2, <3>1, <3>2, <3>3 DEF Known
  <2> QED
    BY <2>2, <2>5, <2>6
<1>8. CASE TheWorkerDies
  <2>1. /\ NothingIsCarried \in Report /\ NothingIsCarried.is = "lost"
        /\ \A t : IsAbout(NothingIsCarried, t)
    BY DEF NothingIsCarried, IsAbout, Report, Rungs
  <2>2. /\ worker' = "dead" /\ Reported(NothingIsCarried)
        /\ UNCHANGED <<sessions, paths, down, said>>
    BY <1>8 DEF TheWorkerDies
  <2>3. \A t \in Live : IsKnown(t)'
    BY <2>1, <2>2, KnownOnceReported DEF Is, Carrying
  <2>4. \A t \in Names : \A i \in About(t)' :
          reports'[i] = NothingIsCarried \/ (i \in About(t) /\ reports'[i] = reports[i])
    BY <2>1, <2>2, Appended
  <2> QED
    BY <2>1, <2>2, <2>3, <2>4 DEF Known
<1>9. CASE Watches
  <2>1. /\ reports # <<>> /\ reports' = Tail(reports)
        /\ DOMAIN sessions' = DOMAIN sessions
        /\ UNCHANGED <<paths, down, said, worker>>
    BY <1>9 DEF Watches, Seen
  <2>2. \A t \in Live : IsKnown(t)'
    BY <1>9, <2>1, KnownOnceRead DEF Known, Is, Carrying
  <2>3. \A t \in Names : \A i \in About(t)' : i + 1 \in About(t) /\ reports'[i] = reports[i + 1]
    BY <2>1, Read
  <2> QED
    BY <2>1, <2>2, <2>3 DEF Known
<1>10. CASE Starts \/ WaitsToBeStopped \/ IsStopped \/ NothingIsCarriedAnyMore \/ Stops
  BY <1>10, KnownKept DEF Starts, WaitsToBeStopped, IsStopped, NothingIsCarriedAnyMore, Stops
<1>11. CASE UNCHANGED vars
  BY <1>11, KnownKept DEF vars
<1> QED
  BY <1>1, <1>2, <1>3, <1>4, <1>5, <1>6, <1>7, <1>8, <1>9, <1>10, <1>11 DEF Next

\* What comes to be known of the server's end of a live session's path is what the end is,
\* whichever transports, worker and reader come between.
THEOREM TheEndIsKnown == Spec => []TheServersEndIsKnown
<1>1. Init => Known
  BY DEF Init, Known, Live, About
<1>2. TypeOK /\ TypeOK' /\ Known /\ [Next]_vars => Known'
  BY KnownStep
<1>3. Known => TheServersEndIsKnown
  BY DEF Known, TheServersEndIsKnown, IsKnown, Is
<1> QED
  BY <1>1, <1>2, <1>3, SeamsTypeCorrect, PTL DEF Spec

-----------------------------------------------------------------------------
(* The death of the worker is not forgotten.                               *)

DeathIsWaiting == \E i \in DOMAIN reports : reports[i] = NothingIsCarried

\* That nothing is carried waits to be read, or is a permit that nobody has taken yet, or the
\* process is coming down; and neither the report nor the permit is there for anything else.
TheDeathIsRemembered ==
  /\ worker = "dead" => DeathIsWaiting \/ permit \/ process \in {"stopping", "stopped"}
  /\ DeathIsWaiting \/ permit => worker = "dead"

\* A report that is put on the queue is there with those that were.
LEMMA ReportedIs ==
  ASSUME reports \in Seq(Report), NEW report \in Report, Reported(report)
  PROVE  DeathIsWaiting' <=> DeathIsWaiting \/ report = NothingIsCarried
<1>1. /\ Len(reports) \in Nat
      /\ DOMAIN reports = 1..Len(reports)
      /\ DOMAIN reports' = 1..(Len(reports) + 1)
      /\ reports'[Len(reports) + 1] = report
      /\ \A i \in 1..Len(reports) : reports'[i] = reports[i]
  BY DEF Reported
<1>2. DeathIsWaiting' <=> \E i \in DOMAIN reports' : reports'[i] = NothingIsCarried
  BY DEF DeathIsWaiting, NothingIsCarried
<1> QED
  BY <1>1, <1>2 DEF DeathIsWaiting

\* One that is read is the first, and the others wait as they did.
LEMMA ReadIs ==
  ASSUME reports \in Seq(Report), reports # <<>>, reports' = Tail(reports)
  PROVE  DeathIsWaiting <=> DeathIsWaiting' \/ Head(reports) = NothingIsCarried
<1>1. /\ Len(reports) \in Nat \ {0}
      /\ DOMAIN reports = 1..Len(reports)
      /\ DOMAIN reports' = 1..(Len(reports) - 1)
      /\ \A i \in 1..(Len(reports) - 1) : reports'[i] = reports[i + 1]
      /\ Head(reports) = reports[1]
  OBVIOUS
<1>2. DeathIsWaiting' <=> \E i \in DOMAIN reports' : reports'[i] = NothingIsCarried
  BY DEF DeathIsWaiting, NothingIsCarried
<1>3. ASSUME DeathIsWaiting PROVE DeathIsWaiting' \/ Head(reports) = NothingIsCarried
  <2>1. PICK i \in DOMAIN reports : reports[i] = NothingIsCarried
    BY <1>3 DEF DeathIsWaiting
  <2>2. i = 1 \/ i - 1 \in 1..(Len(reports) - 1)
    BY <1>1, <2>1
  <2> QED
    BY <1>1, <1>2, <2>1, <2>2
<1>4. ASSUME DeathIsWaiting' \/ Head(reports) = NothingIsCarried PROVE DeathIsWaiting
  <2>1. CASE Head(reports) = NothingIsCarried
    BY <1>1, <2>1 DEF DeathIsWaiting
  <2>2. CASE DeathIsWaiting'
    <3>1. PICK i \in DOMAIN reports' : reports'[i] = NothingIsCarried
      BY <1>2, <2>2
    <3>2. i + 1 \in DOMAIN reports /\ reports[i + 1] = NothingIsCarried
      BY <1>1, <3>1
    <3> QED
      BY <3>2 DEF DeathIsWaiting
  <2> QED
    BY <1>4, <2>1, <2>2
<1> QED
  BY <1>3, <1>4

LEMMA TheDeathIsRememberedStill ==
  ASSUME TypeOK, TheDeathIsRemembered, [Next]_vars
  PROVE  TheDeathIsRemembered'
<1> USE DEF TheDeathIsRemembered, main
<1>1. reports \in Seq(Report)
  BY DEF TypeOK, ReportedOK
<1>2. ASSUME UNCHANGED <<reports, worker, main>> PROVE TheDeathIsRemembered'
  BY <1>2 DEF DeathIsWaiting
<1>3. ASSUME NEW s \in Names, OpensThePath(s) PROVE TheDeathIsRemembered'
  <2>1. ThePath(s, "lost") \in Report /\ ThePath(s, "lost") # NothingIsCarried
    BY DEF ThePath, NothingIsCarried, Report, Rungs
  <2>2. Reported(ThePath(s, "lost")) /\ UNCHANGED <<worker, main>>
    BY <1>3 DEF OpensThePath
  <2> QED
    BY <1>1, <2>1, <2>2, ReportedIs
<1>4. ASSUME NEW s \in Names, NEW end \in Ends, AnEndMoves(s, end) PROVE TheDeathIsRemembered'
  <2>1. \A rung \in Rungs : ThePath(s, rung) \in Report /\ ThePath(s, rung) # NothingIsCarried
    BY DEF ThePath, NothingIsCarried, Report
  <2>2. /\ UNCHANGED <<worker, main>>
        /\ UNCHANGED reports \/ \E rung \in Rungs : Reported(ThePath(s, rung))
    BY <1>4 DEF AnEndMoves, Merged, Rungs
  <2> QED
    BY <1>1, <1>2, <2>1, <2>2, ReportedIs
<1>5. CASE TheWorkerDies
  <2>1. NothingIsCarried \in Report
    BY DEF NothingIsCarried, Report, Rungs
  <2>2. Reported(NothingIsCarried) /\ worker' = "dead"
    BY <1>5 DEF TheWorkerDies
  <2> QED
    BY <1>1, <2>1, <2>2, ReportedIs
<1>6. CASE Watches
  <2>1. /\ reports # <<>> /\ reports' = Tail(reports) /\ UNCHANGED <<worker, process>>
        /\ permit' = LeavesAPermit(Head(reports))
    BY <1>6 DEF Watches
  <2>2. permit' <=> permit \/ Head(reports) = NothingIsCarried
    BY <2>1 DEF LeavesAPermit
  <2> QED
    BY <1>1, <2>1, <2>2, ReadIs
<1>7. CASE Starts \/ WaitsToBeStopped
  BY <1>7 DEF Starts, WaitsToBeStopped, DeathIsWaiting
<1>8. CASE IsStopped \/ NothingIsCarriedAnyMore \/ Stops
  BY <1>8 DEF IsStopped, NothingIsCarriedAnyMore, Stops, DeathIsWaiting
<1>9. ASSUME NEW s \in Names,
             \/ Assumes(s)
             \/ Turns(s)
             \/ \E talker \in DOMAIN hand[s] : HandsDown(s, talker)
             \/ TheChannelIsGone(s)
             \/ LeavesTheAir(s)
             \/ ClosesThePath(s)
      PROVE  UNCHANGED <<reports, worker, main>>
  BY <1>9 DEF Assumes, Turns, HandsDown, TheChannelIsGone, LeavesTheAir, ClosesThePath
<1>10. ASSUME NEW s \in Live, Ended(s) \/ \E audience \in Audiences : Moves(s, audience)
       PROVE  UNCHANGED <<reports, worker, main>>
  BY <1>10 DEF Ended, Moves
<1>11. UNCHANGED vars => UNCHANGED <<reports, worker, main>>
  BY DEF vars
<1> QED
  BY <1>2, <1>3, <1>4, <1>5, <1>6, <1>7, <1>8, <1>9, <1>10, <1>11 DEF Next

\* The death of the worker is never lost between the queue, the permit and the process,
\* whatever the process was doing when it came, and nothing else brings the process down
\* uncalled: what is left of NothingIsServedUncarried is that the tasks are scheduled.
THEOREM TheDeathIsNotForgotten == Spec => []TheDeathIsRemembered
<1>1. Init => TheDeathIsRemembered
  <2> SUFFICES ASSUME Init PROVE TheDeathIsRemembered
    OBVIOUS
  <2>1. reports = <<>> /\ DOMAIN <<>> = {} /\ worker = "alive" /\ ~permit
    BY DEF Init
  <2> QED
    BY <2>1 DEF TheDeathIsRemembered, DeathIsWaiting
<1> QED
  BY <1>1, TheDeathIsRememberedStill, SeamsTypeCorrect, PTL DEF Spec
=============================================================================

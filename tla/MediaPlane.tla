------------------------------ MODULE MediaPlane ------------------------------
(***************************************************************************)
(* The media plane (src/src/media_plane/worker.rs): one task that owns     *)
(* every path and carries out one instruction at a time, in the order they *)
(* were queued.  Each instruction is one action here.  Instructions from   *)
(* several callers reach the queue in any order, so any instruction may    *)
(* come next: about a session whose path is not open yet, or is gone.      *)
(*                                                                         *)
(* A talker and a loop's beacon are carried alike, so both are sources,    *)
(* and the two reconciliations of the code, these_hear and these_count,    *)
(* are one operator: what a path carries of some sources is brought in     *)
(* line with what is remembered of the instructions.                       *)
(*                                                                         *)
(* Left out: transports and their keys, the packets, the observer.         *)
(***************************************************************************)
EXTENDS Naturals, Functions

CONSTANTS
  Sessions,       \* names are minted once, so no session is opened twice
  Destinations,   \* the labels loops are handed down as
  Talkers,        \* bound: the sessions whose client publishes a microphone
  Listeners,      \* bound: the sessions that audiences name
  Counters,       \* bound: the sessions that count beacons
  Measured,       \* bound: the loops that run beacons
  MayFail,        \* bound: the <<session, source>> whose carriage may fail to be built
  MaxCarriages    \* bound: the carriages of one source a session is given in its life

Sources == Sessions \cup Destinations

ASSUME SourcesAssumption ==
  /\ Sessions \cap Destinations = {}
  /\ Talkers \subseteq Sessions
  /\ Listeners \subseteq Sessions
  /\ Counters \subseteq Sessions
  /\ Measured \subseteq Destinations
  /\ MayFail \subseteq Sessions \X Sources
  /\ MaxCarriages \in Nat \ {0}

VARIABLES
  paths,       \* Paths.paths: a function on the sessions that have one
  audiences,   \* Paths.audiences: the last audience of each talker, as loops by listener
  beacons,     \* Paths.beacons: the loops whose beacon runs
  counts,      \* Paths.counting: the loops each listener was last said to count
  stage        \* the client's half: what it was offered and whether it has answered

vars == <<paths, audiences, beacons, counts, stage>>

Stages == {"unopened", "offered", "answered", "unbuilt"}

\* A Consumer.  Its name is its source and a number no other carriage of that source
\* has had on the path, and `on` is Heard.on, or the loop of a beacon.
Carriage == [nth : 1..MaxCarriages, on : SUBSET Destinations, running : BOOLEAN]

Entry == [of : Sources, nth : 1..MaxCarriages, on : SUBSET Destinations]

\* `carries` is Path.hearing and Path.counting.  `told` is what the client holds once it
\* has read everything that was sent.  `made`, `answered` and `refused` are history: how
\* many carriages were built, which the client has said it built its end of, and which
\* could not be built at the last try.
PathOf(carries) ==
  [decodes  : BOOLEAN,
   speaks   : BOOLEAN,
   carries  : {carries},
   made     : [Sources -> 0..MaxCarriages],
   told     : SUBSET Entry,
   answered : SUBSET (Sources \X (1..MaxCarriages)),
   refused  : SUBSET Sources]

NewPath == [decodes |-> FALSE, speaks |-> FALSE, carries |-> <<>>,
            made |-> [x \in Sources |-> 0],
            told |-> {}, answered |-> {}, refused |-> {}]

\* A HashMap from S to T.
IsMap(f, S, T) == DOMAIN f \subseteq S /\ f \in [DOMAIN f -> T]

Audience == [Sessions -> SUBSET Destinations]

Open == DOMAIN paths

\* HashMap::insert and HashMap::remove.
With(f, x, v) == [y \in DOMAIN f \cup {x} |-> IF y = x THEN v ELSE f[y]]
Without(f, x) == Restrict(f, DOMAIN f \ {x})

Init ==
  /\ paths = <<>>
  /\ audiences = <<>>
  /\ beacons = {}
  /\ counts = <<>>
  /\ stage = [s \in Sessions |-> "unopened"]

-----------------------------------------------------------------------------
(* Reconciling.                                                            *)

\* What a listener should be carried, by source, as it is remembered: no loops at all
\* where the listener was not named.
Wanted(l, aud, cnt) ==
  [x \in Sources |->
     IF x \in Sessions
       THEN IF x \in DOMAIN aud THEN aud[x][l] ELSE {}
       ELSE IF l \in DOMAIN cnt THEN cnt[l] \cap {x} ELSE {}]

\* The sources there is something to carry of: a producer stands for each.
Sounding(at, loops) == {t \in DOMAIN at : at[t].speaks} \cup loops

\* A carriage is built paused.
Built(p, x, on) == [nth |-> p.made[x] + 1, on |-> on, running |-> FALSE]

\* Slip: a carriage is built again for its labels to move.
RelabelledByBuilding(p, x, on) == Built(p, x, on)

\* The stream itself does not change, so there is nothing to build.
Relabelled(p, x, on) == [p.carries[x] EXCEPT !.on = on]

\* Slip: the Consumer is dropped and the client is left holding its end.
StillToldOfAll(p, S) == p.told

\* What the client goes on holding when the carriages of S are let go of or said anew.
StillTold(p, S) == {e \in p.told : ~(e.of \in S /\ e.nth = p.carries[e.of].nth)}

\* stop_hearing, heard_on and one_more_talker, for every source in S at once: who is no
\* longer named is stopped, who is named on other loops is told so, and who is named and
\* not yet carried is carried, each with the message that says it.
Reconciled(p, S, wanted, sounding, failing) ==
  LET held    == S \cap DOMAIN p.carries
      dropped == {x \in held : wanted[x] = {}}
      moved   == {x \in held : wanted[x] \notin {{}, p.carries[x].on}}
      tried   == {x \in (S \ held) \cap sounding : p.decodes /\ wanted[x] # {}}
      built   == tried \ failing
      after   == [x \in (DOMAIN p.carries \ dropped) \cup built |->
                    CASE x \in built -> Built(p, x, wanted[x])
                      [] x \in moved -> Relabelled(p, x, wanted[x])
                      [] OTHER       -> p.carries[x]]
  IN  [p EXCEPT
         !.carries = after,
         !.made = [x \in Sources |-> p.made[x] + (IF x \in built THEN 1 ELSE 0)],
         !.told = StillTold(p, dropped \cup moved) \cup
                  {[of |-> x, nth |-> after[x].nth, on |-> after[x].on] :
                     x \in moved \cup built},
         !.refused = (p.refused \ S) \cup (tried \cap failing)]

\* Every path in `at` reconciled on the sources about[l], against what is remembered.
Carry(at, about, aud, cnt, loops, fails) ==
  [l \in DOMAIN at |->
     Reconciled(at[l], about[l], Wanted(l, aud, cnt), Sounding(at, loops),
                {x \in Sources : <<l, x>> \in fails})]

\* Slip: nothing is replayed to a listener who answers after the audience was handed down.
NothingWasSaid(l) == {}

\* The talkers a listener was already meant to hear.
AlreadySaid(l) == {t \in DOMAIN audiences : audiences[t][l] # {}}

Spare(l, x) ==
  l \in Open => x \in DOMAIN paths[l].carries \/ paths[l].made[x] < MaxCarriages

-----------------------------------------------------------------------------
(* The instructions.                                                       *)

\* A path is built for the session and described to its client, or is reported lost.
OpenAPathFor(s) ==
  /\ stage[s] = "unopened"
  /\ \/ /\ paths' = With(paths, s, NewPath)
        /\ stage' = [stage EXCEPT ![s] = "offered"]
     \/ /\ stage' = [stage EXCEPT ![s] = "unbuilt"]
        /\ UNCHANGED paths
  /\ UNCHANGED <<audiences, beacons, counts>>

CloseThePathOf(s) ==
  LET left == Without(paths, s)
  IN  /\ audiences' = Without(audiences, s)
      /\ counts' = Without(counts, s)
      /\ paths' = Carry(left, [l \in Open |-> {s}], audiences', counts', beacons, {})
      /\ UNCHANGED <<beacons, stage>>

\* The client says once what it can decode, and its message may come after the close.
\* Each talker it was meant to hear is reconciled with everybody, and the beacons with it
\* alone.
TheClientWillHear(s, fails) ==
  LET able == [l \in Open |-> [paths[l] EXCEPT !.decodes = @ \/ l = s]]
  IN  /\ stage[s] = "offered"
      /\ stage' = [stage EXCEPT ![s] = "answered"]
      /\ paths' = Carry(able,
                        [l \in Open |-> AlreadySaid(s) \cup
                           (IF l = s /\ s \in DOMAIN counts THEN Destinations ELSE {})],
                        audiences, counts, beacons, fails)
      /\ UNCHANGED <<audiences, beacons, counts>>

\* The client publishes its microphone once, after it has said what it can decode.  A
\* producer that cannot be taken is left as if it had not asked.
TheClientSpeaks(s, fails) ==
  /\ stage[s] = "answered"
  /\ s \in Open
  /\ ~paths[s].speaks
  /\ paths' = Carry([paths EXCEPT ![s].speaks = TRUE],
                    [l \in Open |-> DOMAIN audiences \cap {s}],
                    audiences, counts, beacons, fails)
  /\ UNCHANGED <<audiences, beacons, counts, stage>>

\* Slip: the answer is taken for the source and not for the carriage it names.
NamesTheSource(p, y, x, n) == y = x

Names(p, y, x, n) == y = x /\ p.carries[y].nth = n

Running(p, x, n) ==
  [y \in DOMAIN p.carries |-> [p.carries[y] EXCEPT !.running = @ \/ Names(p, y, x, n)]]

Resumed(p, x, n) == [p EXCEPT !.answered = @ \cup {<<x, n>>}, !.carries = Running(p, x, n)]

\* The client says it has built its end of the nth carriage of x, which may be gone.
TheClientHears(s, x, n) ==
  /\ s \in Open
  /\ n <= paths[s].made[x]
  /\ <<x, n>> \notin paths[s].answered
  /\ paths' = [paths EXCEPT ![s] = Resumed(@, x, n)]
  /\ UNCHANGED <<audiences, beacons, counts, stage>>

\* The whole audience of t, whatever was said before.
TheseShouldHear(t, audience, fails) ==
  /\ \A l \in Sessions : audience[l] # {} => Spare(l, t)
  /\ audiences' = With(audiences, t, audience)
  /\ paths' = Carry(paths, [l \in Open |-> {t}], audiences', counts, beacons, fails)
  /\ UNCHANGED <<beacons, counts, stage>>

\* Every loop there is: the beacons of the others stop, and nobody is left counting
\* one.  A beacon in `silent` could not be produced.
TheseLoopsRunBeacons(loops, silent, fails) ==
  LET gone == beacons \ loops
  IN  /\ beacons' = loops \ (silent \ beacons)
      /\ counts' = [l \in DOMAIN counts |-> counts[l] \ gone]
      /\ paths' = Carry(paths,
                        [l \in Open |-> IF l \in DOMAIN counts THEN Destinations ELSE gone],
                        audiences, counts', beacons', fails)
      /\ UNCHANGED <<audiences, stage>>

TheseBeaconsReach(l, on, fails) ==
  /\ \A d \in on : Spare(l, d)
  /\ counts' = With(counts, l, on)
  /\ paths' = Carry(paths, [m \in Open |-> IF m = l THEN Destinations ELSE {}],
                    audiences, counts', beacons, fails)
  /\ UNCHANGED <<audiences, beacons, stage>>

Audiences(t) ==
  {audience \in Audience : \A l \in Sessions : audience[l] # {} => l \in Listeners \ {t}}

Next ==
  \/ \E s \in Sessions :
       \/ OpenAPathFor(s)
       \/ CloseThePathOf(s)
       \/ \E x \in Sources, n \in 1..MaxCarriages : TheClientHears(s, x, n)
  \/ \E fails \in SUBSET MayFail :
       \/ \E s \in Sessions : TheClientWillHear(s, fails)
       \/ \E t \in Talkers :
            \/ TheClientSpeaks(t, fails)
            \/ \E audience \in Audiences(t) : TheseShouldHear(t, audience, fails)
       \/ \E loops \in SUBSET Measured : \E silent \in SUBSET (loops \ beacons) :
            TheseLoopsRunBeacons(loops, silent, fails)
       \/ \E l \in Counters, on \in SUBSET Measured : TheseBeaconsReach(l, on, fails)

Spec == Init /\ [][Next]_vars

-----------------------------------------------------------------------------
(* What makes the media plane correct.                                     *)

\* Every map holds what the code's types say, within the bounds of the instance.
TypeOK ==
  /\ \A l \in Open : /\ IsMap(paths[l].carries, Sources, Carriage)
                       /\ paths[l] \in PathOf(paths[l].carries)
  /\ Open \subseteq Sessions
  /\ IsMap(audiences, Sessions, Audience)
  /\ beacons \subseteq Destinations
  /\ IsMap(counts, Sessions, SUBSET Destinations)
  /\ stage \in [Sessions -> Stages]

Meant(l, x) == Wanted(l, audiences, counts)[x]

Carriable(l, x) == paths[l].decodes /\ x \in Sounding(paths, beacons) /\ Meant(l, x) # {}

\* What is carried is what was last instructed, on the loops it was last instructed on, to
\* whoever can hear it, whichever came first: the audience, the path, the answer of the
\* client, the talker's microphone or the loop's beacon.  Nothing else is carried, and
\* only what could not be built is missing (these_hear, these_count and their replays).
CarriesWhatIsInstructed ==
  \A l \in Open, x \in Sources :
    IF x \in DOMAIN paths[l].carries
      THEN Carriable(l, x) /\ paths[l].carries[x].on = Meant(l, x)
      ELSE Carriable(l, x) => x \in paths[l].refused

\* A client that reads everything it is sent holds exactly the carriages its path has, each
\* on the loops it is heard on: whatever closes or moves a carriage says so (stop_hearing,
\* heard_on, one_more_talker, stop_counting).
ToldWhatIsCarried ==
  \A l \in Open :
    paths[l].told = {[of |-> x, nth |-> paths[l].carries[x].nth, on |-> paths[l].carries[x].on] :
                       x \in DOMAIN paths[l].carries}

\* Audio runs on a carriage from when its client says that it built that very carriage, and
\* not on the strength of an answer about an earlier one of the same talker (resume).
RunsWhatWasAnswered ==
  \A l \in Open : \A x \in DOMAIN paths[l].carries :
    paths[l].carries[x].running <=> <<x, paths[l].carries[x].nth>> \in paths[l].answered

\* A talker who goes on being heard goes on over the same stream: no instruction, about
\* them or about anybody else, interrupts or rebuilds it (these_hear, heard_on).
NoStreamIsInterrupted ==
  [][\A l \in Open \cap DOMAIN paths' :
       \A x \in DOMAIN paths[l].carries \cap DOMAIN paths'[l].carries :
         /\ paths'[l].carries[x].nth = paths[l].carries[x].nth
         /\ paths[l].carries[x].running => paths'[l].carries[x].running]_paths
=============================================================================

# VoxLoop: the verification project

VoxLoop carries voice *loops* between people in operational roles. A server
process (Rust, `src/src`) keeps who is on the air in memory, keeps who may be in
a SQLite store, and drives a media worker that forwards packets; a console in
the browser (`src/web`) talks to it over one WebSocket. The modules here model
the server, from its code. Paths below are from the root of the repository's
tree, `src/`.

## The parts of the system

| part | code | state it keeps | operations |
|---|---|---|---|
| State Authority | `src/state.rs` | the live sessions (seat, subscriptions, mutes, arms, key, priority press, reach, ladder, beacons), tombstones, the last routing and the last beacons taken away | assume, relinquish, why it ended; subscribe, mute, arm, key, off console; presence; heartbeat, counts, channel gone; routing and beacons "if they moved" |
| Signalling | `src/transport/signalling.rs` | per socket: the session held, what was last sent, the channel the media plane says things on | one select loop per socket: messages, the lobby tick, the presence tick, the heartbeat, media negotiation |
| Media plane | `src/media_plane/` | a path per session, its audiences and carriages, a beacon per loop | a queue of instructions, carried out in order by one task |
| Supervision | `src/supervision.rs`, `src/main.rs` | the queue of reports, the permit to stop | turns what the worker reports into the server's end of each media path; stops the process where nothing is carried |
| Lifetimes | `src/lifetimes.rs`, `src/configuration/sign_ins.rs` | sign-ins and when each was last active | the sweep, sign-out, the clock a session's end starts |
| Configuration | `src/configuration/` | users, roles, loops, the grid of permissions, eligibility, personalisation, enrolment codes, the audit log | one transaction per operation |
| Identity, transport | `src/identity/`, `src/transport/` | bootstrap code, rate-limit buckets | sign-in, enrolment, bootstrap, administration |
| Authorisation | `src/authorisation.rs` | none | evaluates what a request requires against both sides |
| Web client | `web/src/lib/` | the console | its half of the ladder, reconnection, the keys |

The live side and the durable side meet only by passing values: a socket reads
Configuration, hands the answer to the State Authority, and hands what that
decides to the audit log and the media plane. The State Authority is behind one
mutex, and every method is one critical section. The sockets are tasks that give
way at every await on the store, so an operation of a socket is *not* atomic.
The media plane is a sink: it is told and never asked.

What is hard here follows from that: several machines of one user acting at once
across their awaits; a store that fails after the live side has moved; decisions
taken against a grid that an administrator edits meanwhile; answers taken under
the mutex and delivered outside it; a ladder of timeouts on a channel that comes
back; instructions about sessions that have ended. `PROJECT.json` lists each, at
its line, under "hazards", with the property that covers it or the reason that none
does.

What makes each part correct:

* **State Authority**: one seat per user and no role past its limit; a displaced
  console can be told why; the lists of a console agree; nobody is heard
  unattributed; a revocation cannot be undone by giving the permission back; a
  loop's health is evidence and not memory.
* **Signalling**: no seat without somebody on it; no seat without an entry in
  the log; each ending written once, by whoever caused it; every open media path
  can be closed by somebody; every console learns that its session is over.
* **Media plane**: what is carried is what was last instructed, to those able to
  hear it; nothing is carried to or from a session whose path has closed.
* **Seams**: a socket that has gone is heard by nobody; what is known of the
  server's end of a path is what it is, however late the reports are read; a
  process that carries nothing comes down.
* **Lifetimes**: the window is measured only in the lobby and only from
  deliberate acts; a socket does not outlive its sign-in.
* **Configuration**: an administrator is always left; a credential that ends
  takes what was opened with it; a code is spent once; nothing outlives the
  record it is about; staffing never exceeds permission; the log tells the grid;
  every loop has its beacon.

## The modules

| module | models | composes |
|---|---|---|
| `Seats` | the abstract promise: who sits where, under names minted once, and who is owed an account | |
| `StateAuthority` | `src/state.rs`, one action per method | refines `Seats` |
| `Signalling` | the conversations of `src/transport/signalling.rs`, cut at their awaits | `Seats` for the live side, the log, the paths |
| `MediaPlane` | the worker of `src/media_plane/worker.rs`, one action per instruction | |
| `Lifetimes` | sign-ins, the sweep of `src/lifetimes.rs`, restarts | extends `Signalling`: its sockets, with the sign-in behind each |
| `Grid` | roles, loops, cells, what a person had up, what the log tells, the beacons that follow (`src/configuration/grid.rs`, `roles.rs`, `loops.rs`, `src/transport/administration/`) | |
| `Accounts` | users, sign-ins, codes, eligibility, the bootstrap code; the pages, the public routes and the box (`src/configuration/users.rs`, `enrolment.rs`, `src/identity/bootstrap.rs`, `src/on_box.rs`) | |
| `Seams` | what passes between the two: the routing the sockets take and carry down, what the media plane reports (`src/media_plane/worker.rs`), the watch on it (`src/supervision.rs`) and the stop (`src/main.rs`) | joins `StateAuthority` and `MediaPlane`, an audience a value |
| `MCStateAuthority`, `MCSignalling`, `MCMediaPlane`, `MCSeams`, `MCLifetimes`, `MCGrid`, `MCAccounts` | small instances for TLC | |
| `StateAuthorityProofs`, `SeatsProofs` | theorems | `StateAuthority` |
| `SignallingProofs`, `LifetimesProofs`, `MediaPlaneProofs`, `SeamsProofs`, `GridProofs`, `AccountsProofs` | theorems | the module each is named after |

### StateAuthority

`sessions` is `Live.sessions` as a function on the names of the live sessions.
An `Option` is a set of at most one element; an `Instant` is an *age* which
`Tick` advances and which stops at the threshold it is compared with, so an age
at its bound means "that long or longer". Vectors whose order is never read are
sets. Where the code finds "the" session of a user with `position`, the model
takes any one of them, so that there is one at most is a property and no
assumption. `steady` is the one history field: how long the channel has stood
confirmed, which health is judged against.

A guard of the form `"arm" \in Requests` lets an instance restrict what its
clients ask, so that each run looks at one question; with every kind of request
in `Requests` the module is the whole State Authority. `Asked` adds that the
request arrives over a socket that still stands.

`Arm` is not guarded by the reach, because the method is not: the permission is
read from the store by the socket, and an await separates the two. What takes an
arm away is the next projection.

Left out: volumes, `last_active`, the client's reading of its media path, and the
numbering of the presence document. The server's reading is in `Seams`.

### Seats

Three actions: `Take` (which gives up the seat the user had), `Leave`, and
`Settle` (an account given or grown old). `StateAuthority` implements it under
the mapping at the end of that module: the seat of a session is its occupant and
role; a tombstone is an account owed until it is `KeptFor` old.

### Signalling

One `Conversation` per socket, with `at` saying between which awaits it stands:

    listening -> displacing -> recording -> opening -> presenting -> listening
    listening -> relinquishing -> auditing -> returning -> listening
    presenting or listening -> returning        (the session was found ended)
    any await -> closed -> listening            (the store failed, or the tab closed)

`untold` is what the client is owed: the end of the session it was last presented,
said with its reason (`SessionEnded`). It is not what is on the screen: `pushed_lobby`
hands a lobby that has moved to a socket with no session, and the page then puts its
presence away, but that push says neither that a session ended nor why, so it leaves
`untold` alone and is no action here. `Failures` says which steps of a transaction the store
may fail at. A failing `write` in `assume` is rolled back and undone; a failing
`begin` or `commit` leaves by `?`. The roll-back failing leaves what `begin`
failing leaves, and is the same action.

### MediaPlane

`paths`, `audiences`, `beacons` and `counts` are the maps of the worker's
`Paths`. The task takes one instruction at a time, so an instruction is one
action, awaits and all. Several sockets and pages put instructions on the queue,
so any may come next, about any session: one whose path is not open yet, or is
gone, or never could be built.

A talker and a loop's beacon are both *sources*, and `these_hear` and
`these_count` one operator, `Reconciled`: for the sources it is given, it lets go
of what is no longer wanted, moves the labels of what goes on, and builds what is
missing. `Carry` does it on every path. What an instruction adds is which sources
it reconciles, and what it remembers first.

A carriage has a name, its source and a number, so that an answer about one that
is gone can be told from an answer about its successor. Four fields are history:
`told`, what a client that has read everything holds; `made`, `answered`; and
`refused`, the sources whose carriage could not be built at the last try. The
code does not try again until something makes it reconcile that talker, and
`CarriesWhatIsInstructed` says no more than that.

The client's half is what `web/src/lib/audio.js` does: it says once what it can
decode, and publishes its microphone once, after that. A description the server
cannot read is as if it had not come. A carriage that would not start when the
client answered (`resume` only logs it) is left out. An audience is a set of
pairs: the code compares the labels as lists, so a mere change of their order
sends a message that changes nothing.

Left out: connecting transports (what their states come to is in `Seams`), the
observer, the packets of a beacon, the recording tap.

### Seams

Two queues nobody has under one lock. *Down*: `TakesTheRouting` is
`the_routing_if_it_moved`, one critical section; what it answers goes into the
`hand` of the socket that asked, and `HandsDown` is one instruction of the loop in
`hand_down_the_routing`, so that other sockets and other answers fall between.
`told` is what the media plane was told last of each talker, which is what
`MediaPlane` goes on from. Every turn of a socket's loop takes the routing, and the
end of its loop takes it once more (`TheChannelIsGone`, then `LeavesTheAir`); a
socket that stands in the lobby does not.

*Up*: `AnEndMoves` is one of the four callbacks of a session's two transports, of
which only whether that end is connected is kept, since `from_ice` and `from_dtls`
tell nothing else apart. `OpensThePath` says what a path is when it is built, or
that it cannot be. `TheWorkerDies` is the worker's last word. `reports` is the queue, read by `Watches`, one
report under one lock; `permit` is the `Notify`, which holds a permit for whoever
waits later; `process` is where `serve` stands.

A session goes by the name of the socket that took it, and a socket takes one in a
behaviour: nothing here depends on who sits where. Who hears whom is worked out in
`StateAuthority`; here an audience is a value that moves (`Moves`) at any act of
anybody. The beacons go down as the routing does and are left out.

### Lifetimes

The sockets of `Signalling`, each opened with a sign-in of its own. Every action
of a conversation is taken over with what it does to the sign-in (a deliberate
act starts its clock; so does the record of its session's end), and an assume is
cut once more than in `Signalling`, because the sign-in can end between its
parts:

    permitted (the store holds the sign-in) -> noted (its clock starts) -> taken

Time is what the sweep makes of it: `idle` are the sign-ins whose window has run
out. A window is a day and an await is not, so a window runs out only while no
socket and no sweep is at an await. The sweep is two actions, since the code
reads who holds a session under the lock and ends the idle in a transaction
later. `Restarts` loses all but the store. `from` is `Session.sign_in`, and is
kept for sessions that are over because their entries are written after their
end.

### Grid

A write, the rows it takes along and its audit entry are one transaction, and
one action. A write of a loop is followed, whatever became of it, by a read of
all loops in a transaction of its own and a hand-down after that; `handlers` says
how far each request has come, so that another administrator's write falls
between.

`cells` is a table: a pair with no row holds nothing, and the row's *presence* is
what makes a column complete. `told` is history: what somebody who has read every
entry of the log takes the store to hold, its order as the pairs of which the
first comes before the second. `disturbed` is history too: whether,
since some write of a loop began with no other under way, one has overlapped it
or could not read the loops. `Granted` bounds the permissions that are set;
`Permissions` stay four.

### Accounts

Three tables, `eligible` for the one role every user starts with, and the
bootstrap code in the process's memory. A password is known by the code it was
set with, so that "the password this sign-in was opened with" can be said.
Changing one's own password (`src/transport/password.rs`) leaves the other
sign-ins standing: it is left out, and `NoSignInOutlivesItsCredential` excepts it by
speaking of the password that was set with a code.

A request under SystemAdministration is *permitted* in one transaction and
*administers* in another that asks nothing of the caller again; two may be
between the two at once, whoever has been demoted meanwhile. What sign-in did the
asking is not kept: the second transaction does not read it. The command line is
another process and a single step. `Restarts` mints a bootstrap code where nobody
administers, as the start of the process does.

## What the runs check

| run | instance | states | question |
|---|---|---|---|
| `seats` | 3 users, 2 roles (limits 1 and 2), 4 names, 1 loop, the ladder 2/3 ticks, a beacon lost after 3, tombstones kept 2 | 48 thousand | do seats stay single, within limits and explained to whoever was displaced, is health measured, and is this `Seats`? |
| `console` | 2 users, 2 roles, 1 loop, 2 names, the ladder 1/2 ticks | 392 thousand | do the lists, the keys and the indicators agree through revocations and outages, and is what is shown as staffed reachable? |
| `sockets` | 2 sockets of one user and 1 of another, 1 seat, 3 names, the store may fail anywhere, one tab may close and return | 78 thousand | do the log, the paths and what the clients are told agree across the awaits, is a seat whose taking could not be written given up, and what alone leaves a path open? |
| `carriage` | 1 talker on 2 loops, 2 listeners, 1 beacon counted by one of them, 2 carriages of each source, one carriage may fail to be built | 93 thousand | is what is carried what was instructed, and are the clients told? |
| `grid` | 2 roles (one there from the start), 3 loops, 2 handlers, 2 permissions, 5 writes, reads may fail | 258 thousand | are cascades, staffing, the log, the order and the beacons right in every order of writes, and what alone leaves a complete column unreviewed? |
| `accounts` | 3 users, 2 sign-ins, 3 codes, 2 requests under way, 4 writes to users, restarts | 189 thousand | does what stands on a credential or a record end with it, and is an administrator left? |
| `lifetimes` | 2 sockets of one user, 1 seat, 2 names, the store may fail anywhere, tabs close and return, windows run out, restarts | 269 thousand | does the sweep spare whom it should, and do the signed out close? |
| `seams` | 2 sockets, audiences "nobody" and "some", 2 reports waiting | 232 thousand | are the gone off the air, is the server's end known, and does a process that carries nothing come down? |
| `unrecorded` | 2 sockets of one user, opening a transaction may fail | violation | is it given up where the transaction never opened? |
| `left_open` | 2 sockets of one user, nothing fails | violation | is every path closed by somebody? |
| `never_told` | 2 sockets of one user, nothing fails | violation | can a socket that owes its client an ending still ask for it? |
| `unreviewed` | 2 roles, 3 loops, 1 handler, nothing fails, 4 writes | violation | is a column everybody was ruled on enforced? |

Bounds, and why they are enough:

* `Names`: every assume mints one and none is minted twice, so their number is
  the number of assumes in a behaviour. Displacement needs two, a displacement
  of a displacement three; `seats` has four, so that both roles fill up and a
  refusal is followed by another attempt.
* `MaxCount`: the largest count a client reports. Only whether a count is zero
  and whether it moved are read, so 2 gives every case.
* `UnconfirmedAfter`, `DisconnectedAfter`, `LostAfter`, `KeptFor`: the shape of
  the ladder in ticks. `seats` has `LostAfter` above `UnconfirmedAfter`, so a
  receipt can be older than an outage and still count as recent.
* One loop in `seats` and `console`: nothing in the State Authority relates
  two loops except a talker's arms, on which the properties speak of each alone.
* `OneIsMeasured` (an action constraint of `seats`): either there is one session,
  and its console does anything, or every session is as it was taken and only its
  channel goes quiet. Health is a matter of one session; who sits where is not
  told by a console.
* `MaxReports`: two reports wait when a transport moves, so that one about a path
  and one about everything stand in the queue together, and the death of the worker
  comes on top of both. `EitherWay` (an action constraint of `seams`): what goes
  down and what comes up share the sessions and nothing else, and are looked at
  apart; no action that is asked to be fair is ever held back by it.
* `Requests`: each run leaves out the requests its question does not turn on.
  Between them the runs make all of them.
* `MayGo`: which tabs close and return.
* `MaxCarriages`: how often a source may be carried anew to one session. Two let
  an answer about the first meet the second. `Talkers`, `Listeners`, `Counters`,
  `Measured`: `Reconciled` treats the sources apart, and what couples sessions
  is that one audience names several and that a close touches every path; one
  talker, two listeners and one beacon have both. `MayFail`: a carriage to one
  listener fails while another's is built.
* `MaxWrites`: how many writes to records are made. Ids are minted once, so the
  interesting sequences are short: `grid` has five (create, rule, mark, lower or
  delete, create again: a loop deleted from the middle and one added after it is
  four), `accounts` four (an administrator made, promoted, and two demotions or
  deletions that cross). What is not a write of a record (signing in and out,
  redeeming, remembering) is bounded by its tokens and codes alone.
* Three loops: a gap in the positions needs two, and a loop after it a third.
  Two roles: a column completed by a second.
* Three users: two administrators that act on one another, and one that the box
  or the bootstrap code makes beside them. Two tokens: one that a write ends and
  one that it must spare.
* `lifetimes` has two names: a displacement and the one it displaces, between
  which the sweep may come. A third assume tells nothing new of one sign-in.
* `MintedInOrder` (an action constraint of `MCSignalling`) mints names in
  increasing order: names are interchangeable, and no fairness is asked of an
  assume, so nothing is lost. The other modules use symmetry
  instead, in runs that check no liveness: over users and names (and over roles,
  where none has a limit) in `MCStateAuthority`, over ids of each kind and handlers in `MCGrid` and
  `MCAccounts`.

Deadlock is checked in `accounts`, where a request can always be dropped and the
process restarted, and in no other run: names and writes run out, and a system in
which nobody does anything is a good one.

Fairness: `FairSpec` asks weak fairness of what each conversation does of its
own accord (`Carries`), which is what a scheduled task and a tick every 200 ms
give. It asks none of the store's failures, of clients or of tabs: a first form
that put the failures under the same fairness made `TheDisplacedAreTold` true
for the wrong reason, since the store then had to fail in the end.

`LifeSpec` asks the same of `GoesOn`, which is what a conversation does of its
own accord, the lobby's tick among it. Nothing obliges the sweep to run, a client
to ask, a tab to close or the store to answer. That a socket whose sign-in has
ended closes does not lean on the store failing: with fairness on `GoesOn` alone,
a conversation gets to `listening`, and there the tick finds the sign-in gone.

`Seams`' `Fairness` asks that the task that reads the reports goes on reading, that
the start of the process comes to an end one way or the other, that it gets to its
select and leaves it once the permit is there, and that a graceful stop is bounded by
its grace. It asks nothing of the worker, of the transports or of the sockets.

The type invariant of each module is proved (`TypeCorrect` and its like) and is in no
run: for every value of the constants it says more than an instance could.

## What the violations show

* `unrecorded`: the seat is taken before it is recorded. Where the transaction
  cannot be opened or committed, `?` leaves `assume` past the lines that would
  undo it; the comment beside those lines promises the undoing.
* `left_open`: between the taking and the opening of its path a session can be
  displaced, which closes a path that is not there; it is opened after.
* `never_told`: a relinquish that finds its session ended elsewhere has already
  forgotten which session it was, and no tick can ask: `SessionEnded` is never
  sent, nor the reason, and the tombstone waits to age out. The page is not stuck
  where the lobby has moved since it was last sent: the lobby tick sends it and the
  page puts the presence away. Where it has not, because the other machine has left
  the same role again, nothing is sent.
* `unreviewed`: the mark of a loop comes off where a *write to a cell* leaves
  nobody unruled; deleting the last unruled role leaves nobody unruled and takes
  nothing off.

## What is proved

Every invariant and every action property that a passing run checks is also proved,
and so is the refinement of `Seats`. What a run shows of a small instance a theorem
says for every set of users, roles, loops, names, sockets and handlers, every limit
and every threshold that meets the assumptions of the module.

Of `StateAuthority` (`LimitAssumption`, `LadderAssumption`, `ReachAssumption`):

* `TypeCorrect`: by one lemma per operation. An operation on one session keeps
  the type if what it leaves there is a session (`EditKeepsTheType`), so each
  lemma is about one record.
* `OneSession`: inductive with the type. The step that matters is `Assume`: all
  that a user holds is displaced, *because* it is at most one session
  (`AllThatIsHeldIsDisplaced`).
* `TombstonesAreTrue` and `DisplacementIsExplained`: from `OneSession`. `OwedIsKept` adds
  how long an explanation lasts: of all that others do, nothing spends it.
* `AwayAreCounted`: of the five reasons an occupant is not hearing a loop one applies
  first (`OneReasonEach`), so the occupants fall into five disjoint sets, whose sizes add
  up because the occupants are finitely many.
* `LimitIsKept`: needs that the live sessions are finitely many
  (`FinitelyManyAlways`), so that their cardinality can be counted, and
  `OneSession`, so that leaving the caller out of the count is sound.
* `Refinement`, that `StateAuthority` implements `Seats`: what is held is the
  sessions with only their occupant and role, and what is owed is the tombstones
  that are not too old. Two operations move a seat, and they are a seat taken and one
  left (`TakingIsPromised`, `LeavingIsPromised`); the others leave every seat where
  it is, and at most settle accounts as tombstones are spent or grow old
  (`SettlingIsPromised`). Taking needs `OneSession` again, so that the account
  left behind is of all that was held.
* `CoherentConsoles` and `MeasuredHealth`: the inductive invariant is
  `EverySession`, that every session taken alone is sound (`Sound`); the two
  facts go together because a heartbeat may restart every measurement exactly
  over the domain the lists give.
* `AudibleIsShown` and `StaffedIsReached` relate two computations over the same
  state, and no step is looked at. `PriorityIsShownOnTheAir` needs one more invariant,
  `PressesStand`: what ends a channel ends a press, and a press is made over a channel
  that stands.
* `RevocationDestroys`: only a projection moves a reach, and what it leaves armed is
  what the new reach allows.

Of `MediaPlane` (`SourcesAssumption`):

* `InstructedIsCarried` and `MediaPlane`'s `TypeCorrect`: the inductive invariant
  (`IInv`, also checked with TLC on the instance of `carriage`) adds to the two
  properties that a path is only open for a session that was given one, without
  which opening could replace a path in use, and that a source wanted and not
  carried still has a name left (`Room`), which is about the bound alone. The argument is one pair
  of a listener and a source at a time: a pair that an instruction reconciles is
  sound whatever it was (`ReconcilingASource`), and a pair it leaves must be sound
  under the memory it leaves behind (`Due`, `CarryingIsSound`). What remains of
  each instruction is why nothing it leaves out needed reconciling.
* `ClientsAreTold`, `RunsOnItsOwnAnswer` and `StreamsGoOn`: the inductive invariant is
  `Honesty`, of one path at a time. The client has been told exactly what is carried,
  audio runs on a carriage where that very number was answered, and no carriage and no
  answer names a number that was never given out; without the last, a carriage built
  after an old answer would start running. Reconciling any sources of an honest path
  leaves an honest path (`ReconcilingIsHonest`) that goes on with the streams it
  keeps (`Continues`), and every instruction is a reconciling of some.
* `SayingItAgainIsHarmless`: where a path is sound and nothing was refused on it there is
  nothing to reconcile (`NothingToReconcile`), and an instruction said again leaves the
  memory as it was. A routing that moved anywhere is handed down whole, so most
  instructions are of this kind.

Of `Signalling` (`SocketsAssumption`), on `SeatsAreSound`: nobody sits twice and every
seat bears a name that was given out.

* `TypeCorrect`: `Shaped` is the type with "at most one" in place of a cardinality.
  Every step is one of a few kinds (`OfAKind`): a conversation that moves on, one that
  fails, one that begins something, and what happens elsewhere; the lemmas below take
  a kind at a time.
* `EndsOnce`: on `Placed` (a conversation between two awaits has in hand what its place
  says) stands `Owned`: what a socket holds or takes is its user's, no ending is in two
  hands, what is to be ended has ended, and whoever takes a seat has left the one
  they had. On it stands `Written`: an entry that is in the log is in nobody's hands.
* `EndsAreWritten`: `Accounted`. A seat may be taken away *before* the log says that it
  was taken, so the property itself is not inductive: of such a seat it says that
  the ending is in hand as well as the taking.
* `SeatsAreGivenUp`: `AllAttended` and `AllRecorded`, together.
* `HeldSeatsHaveTheirPaths`: `PathsAreHeld`. What a displacement closes is the path of
  a session nobody holds any more, by `Owned`.
* `EndsAreOfWhatBegan`: `EndsBegan`, which says the same of an ending that is still in
  hand as of one that is written. The two entries may be committed in either order.
* `OnlyLatePathsAreLeftOpen` and `OnlyRelinquishesForget` say how far the defects of
  `left_open` and `never_told` go: each names the one step that does it and shows that no
  other does. They need that the path of a seat still being taken is not open yet
  (`NotYetOpened`), and that a socket that has closed is owed nothing (`NothingIsOwedTheClosed`).

Of `Seats` (`SeatsAssumption`) itself, `SeatsKeepTheirPromise`: whatever composes it may rely
on seats that are single, within limits and truly accounted for. `SocketsKeepToTheSeats`
shows that the composition in `Signalling` is one: every step of a conversation is
a step of the seats or leaves them alone. `Refinement` shows that the State Authority is such
seats too, which is what justifies composing the sockets with `Seats` in its place.

Of `Lifetimes`, which takes the steps of `Signalling` and cites the lemmas about them:

* `LifeTypeCorrect`, on `Shaped` and `Placed` of `Signalling`, which a restart keeps too: it
  puts every socket and every seat back where they began.
* `SeatedAreSpared`: `Spared`. Whoever has noted an assume is not idle, and whoever was
  seated since the sweep read who is had noted it; so the sweep's two transactions
  need not be one.
* `ReturnedStartAgain`: an idle sign-in whose session ended has an end that is not
  written (`Clocked`, `Unwritten`), and a path is opened only when the end of the
  session displaced is written and its clock started with it (`Opened`).
* `SocketsSurviveRestarts` and `OnlyLatePathsSurvive`: what is proved of `Signalling` holds with the
  sign-ins and the restarts added. The invariants are those of `Signalling`
  (`Conversed`), each kept by the steps it has there and by a restart: the log outlives
  the process and what the sockets had in hand does not, so the sessions of before are `lost`.
* `TheSeatsSurviveRestarts`: with `SeatsAreLost` as one more step of the seats, the
  promise holds throughout.

Of `Seams` (`AudiencesAssumption`, `ReportsAssumption`):

* `TheGoneAreOffTheAir`: `Aired`. From a socket's last turn the last routing taken has
  its session heard by nobody, whoever took it; and where that was taken with no other
  answer in hand, what it says of a session is in the one hand or has been told.
* `TheEndIsKnown`: `Known`. The property alone is not inductive: whether a
  callback reports is decided by `said`, so what was said of an open path is what its
  ends come to; and about a session that is still to be taken nothing but a loss can be
  waiting. The queue is taken an end at a time: what is put on is the last about those
  it is about (`Appended`), and what is read leaves the others in order (`Read`).
* `TheDeathIsNotForgotten`: from when the worker dies its report is in the queue, or the
  permit is there, or the process is coming down. It needs no strengthening, because a
  permit is taken only by the select that then stops, and is kept where none waits yet.

Of the configuration (`AccountsAssumption`, `GridAssumption`):

* `AccountsProofs`: the inductive invariant (`IInv`) is the type and `Good`: the
  three state properties together with `AllWasMinted`, that whatever is in a table
  or was redeemed had been given out, without which a new record could fall on
  one that is there or a redeemed code be issued again. The steps are taken in
  five groups, by who makes them (`StepsAreOfThese`). `AnAdministratorRemains` and
  `TheCodeMakesTheFirst` are of one step each from that invariant; in the first,
  what matters is that every write that could take the flag away asks in its *own*
  transaction, since what was permitted earlier is stale.
* `GridProofs`: `Shaped` is the type with the loops finitely many and their
  positions bounded, without which there is no "last position" to go after and
  `AtTheEnd` says nothing (`TheLastPositionIs`, by the well-founded minimum of the
  bounds). On it stand, each inductive in turn: `Kept`, which is
  `NothingOutlivesItsRecord` with `StaffingIsAbove`, that a marked cell holds emit
  or more in the table itself, reviewed or not; `Logged`, which adds that the log
  tells of no record that was never given out, so that a new one starts with
  nothing told of it; `InOrder`, which adds the same of the order; and what `BeaconsFollow` needs of handlers under way, that
  where nothing was disturbed the one that is handing down saw the loops as they
  are. `OnlyDeletedRolesLeaveMarks` says how far the defect of `unreviewed` goes: of all
  writes, the deletion of a role nobody had ruled on is the only one that completes
  a column and leaves it marked.

No assumption bounds a population, and TLC evaluates each of them in the runs of its
module.

Model-checked only: the three liveness properties, `TheDisplacedAreTold`,
`TheSignedOutAreClosed` and `NothingIsServedUncarried` (fairness is out of the prover's reach), and the four
counterexamples. Of the last of the three the safety half is proved
(`TheDeathIsNotForgotten`): what is left to fairness is that the tasks get their turns.

## What the models say that the code's words do not

These were met while modelling and have no run of their own, because the
disagreement is one of degree or is written down in the code as known.

* A sign-in's clock is started by the *record* of its session's end, and not by
  the end. A sweep between the two, a store that fails to take the record, or a
  restart (after which nobody holds a session and the sweep comes at once) ends a
  sign-in at the end of a long session, which `src/configuration/sign_ins.rs`
  calls "the exact failure the rule exists to prevent".
  `TheReturnedStartAgain` excepts the three by name.
* An end may stand in the log before its start: a displacing socket can be quicker to the
  store than the one still recording its taking. And it may stand without one, where the store
  did not take the start. `AnEndIsOfWhatBegan` is what remains true.
* A session outlives its sign-in: the socket closes, the seat stays until its
  user assumes again. `pushed_lobby` says so.
* Two handlers that overlap can hand down their lists of loops in the wrong order,
  and the older list stays; `every_loop_runs_a_beacon` says that there is "no
  running tally here to fall out of step". `BeaconsFollow` is what remains true.
* Two sockets can likewise hand down two routings in the wrong order. The one that
  matters: a socket is still handing down an answer in which a session is heard when
  that session's own socket goes, takes the routing a last time and hands it down; the
  older answer is told after it, the channel is gone, and the media plane goes on
  carrying the session until the routing moves again. The comment on
  `the_channel_went` says that the fan-out "closes now". `AGoneSocketIsOffTheAir`
  says so where no other answer was in hand; without `alone` TLC finds the above in
  eight steps.
* `the_routing_if_it_moved` says that a reach is as old as the last projection,
  which is every 200 ms; a session whose socket has gone is projected no more.
* Two administrators who lock each other leave a deployment that has
  administrators, none of whom can sign in. `is_the_last_administrator` counts the
  flag on purpose, and the box is the way back.

## The plan that is left

1. `Audio` and `Client`: the client's end of `MediaPlane` and of the media path
   ladder, whose handlers give way at the microphone and at every carriage they build.
2. A composition of `Grid` with `Signalling`: roles deleted under live sessions.
3. The refinement of `MediaPlane`'s instructions by what `Seams` tells it.

All compose modules that are there. What is proved of each of them is what such a
composition would assume of it.

## Not modelled

* The observer's reports of who is audible, which `src/supervision.rs` compares with
  a claim and logs.
* The rate limit (`src/transport/rate_limit.rs`): two token buckets over real
  time. It only refuses, and nothing modelled depends on a refusal.
* Names of records, and with them "taken" refusals; limits of occupancy in `Grid`;
  the deployment's settings; renames; volumes: data that no property here tells
  apart, behind a uniqueness constraint of the store.
* The console in the browser, beyond what the server sees of it.
* The choice of packets inside the media library, password hashing, the rendering
  of pages, certificates, secrets, telemetry and files: computation, or input and
  output around the parts above.
* Most of the lines of `src/` are tests and documentation comments beside the
  code; the map names code.

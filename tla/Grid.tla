--------------------------------- MODULE Grid ---------------------------------
(***************************************************************************)
(* The grid and the records it is between (src/src/configuration/grid.rs,  *)
(* roles.rs, loops.rs, personalisation.rs), written to through the audited *)
(* path of src/src/transport/administration/, and the beacons that follow  *)
(* the loops.                                                              *)
(*                                                                         *)
(* A write, its cascades and the entry that records it are one transaction *)
(* of the store, and transactions are serialised: each is one action.  A   *)
(* write of a loop goes on after it has committed: the loops are read in a *)
(* transaction of their own and handed to the media plane, and writes of   *)
(* other administrators come between these steps.                          *)
(*                                                                         *)
(* Left out: names and limits of occupancy, and with them the refusals     *)
(* they bring; the entries of refused writes.                              *)
(***************************************************************************)
EXTENDS Integers, SequencesExt

CONSTANTS
  RoleIds,       \* ids are minted once, whatever becomes of the record
  LoopIds,
  Handlers,      \* the administration handlers under way at once
  Seeded,        \* the roles a new store holds
  Granted,       \* bound: the permissions that administrators set
  MaxWrites,     \* bound: the writes that are made
  StoreMayFail   \* bound: whether a transaction may be refused

Permissions == 0..3
NoPermission == 0
Emit == 2

ASSUME GridAssumption ==
  /\ Seeded \subseteq RoleIds
  /\ Granted \subseteq Permissions
  /\ MaxWrites \in Nat
  /\ StoreMayFail \in BOOLEAN
  /\ \A r \in RoleIds, l \in LoopIds : r # l

VARIABLES
  roles,        \* the table of roles: the ids in it
  loops,        \* the table of loops: a function on the ids in it
  cells,        \* grid_cells: a function on the pairs that have a row
  remembered,   \* remembered_subscriptions of one person, as pairs
  minted,       \* history: the ids that have been given out
  told,         \* history: what a reader of the audit log takes the store to hold
  beacons,      \* the loops the media plane was last told to run beacons for
  handlers,     \* what each handler has still to do
  disturbed,    \* history: since one began alone, a follow-up failed or overlapped another
  writes        \* the writes that have been made

store == <<roles, loops, cells, remembered>>
vars == <<store, minted, told, beacons, handlers, disturbed, writes>>

Loop == [position : Nat, unreviewed : BOOLEAN]
Cell == [permission : Permissions, staffs : BOOLEAN]
Told == [cells : UNION {[S -> Cell] : S \in SUBSET (RoleIds \X LoopIds)},
         reviewed : SUBSET LoopIds, order : SUBSET (LoopIds \X LoopIds)]
Doing == [at : {"idle", "following", "handing"}, saw : SUBSET LoopIds]

Idle == [at |-> "idle", saw |-> {}]
Following == [at |-> "following", saw |-> {}]

\* A row written over the one with its key, and the rows of a set of keys deleted.
With(f, x, v) == [y \in DOMAIN f \cup {x} |-> IF y = x THEN v ELSE f[y]]
Without(f, S) == Restrict(f, DOMAIN f \ S)

Init ==
  /\ roles = Seeded
  /\ loops = <<>>
  /\ cells = <<>>
  /\ remembered = {}
  /\ minted = Seeded
  /\ told = [cells |-> <<>>, reviewed |-> {}, order |-> {}]
  /\ beacons = {}
  /\ handlers = [h \in Handlers |-> Idle]
  /\ disturbed = FALSE
  /\ writes = 0

-----------------------------------------------------------------------------
(* The reads.                                                              *)

\* What a table of cells says of a pair: no row is a cell that holds nothing.
CellIn(table, r, l) ==
  IF <<r, l>> \in DOMAIN table
    THEN table[<<r, l>>]
    ELSE [permission |-> NoPermission, staffs |-> FALSE]

\* What the pair is permitted: an unreviewed loop is enforced as none on every rung.
HeldBy(r, l) ==
  IF l \notin DOMAIN loops \/ loops[l].unreviewed
    THEN NoPermission
    ELSE CellIn(cells, r, l).permission

\* The pairs staffing state is computed from.
TheStaffingRoles ==
  {c \in DOMAIN cells : cells[c].staffs /\ ~loops[c[2]].unreviewed}

\* The base order, in which the loops are read.
ComesBefore(k, l) == loops[k].position < loops[l].position

-----------------------------------------------------------------------------
(* What the log tells.                                                     *)

\* Slip: the entry carries what was asked for rather than what the store holds.
TellsWhatWasAsked(r, l, table, rows) ==
  [told EXCEPT
     !.cells = With(@, <<r, l>>, [CellIn(table, r, l) EXCEPT !.staffs = CellIn(cells, r, l).staffs]),
     !.reviewed = IF rows[l].unreviewed THEN @ \ {l} ELSE @ \cup {l}]

\* The entry of a write to a cell carries the cell as it was read back, and whether it
\* is enforced: a pair that has no row is a cell like another.
TellsOfTheCell(r, l, table, rows) ==
  [told EXCEPT !.cells = With(@, <<r, l>>, CellIn(table, r, l)),
               !.reviewed = IF rows[l].unreviewed THEN @ \ {l} ELSE @ \cup {l}]

-----------------------------------------------------------------------------
(* Roles.                                                                  *)

Writes == /\ writes < MaxWrites
          /\ writes' = writes + 1

\* create: the write that has no record before it, audited.
Creates(id) ==
  /\ Writes
  /\ id \notin minted
  /\ minted' = minted \cup {id}

CreatesARole(r) ==
  /\ Creates(r)
  /\ roles' = roles \cup {r}
  /\ UNCHANGED <<loops, cells, remembered, told, beacons, handlers, disturbed>>

\* Slip: the rows about the record are left where they are.
RemovesTheRecordAlone(rs, ls) ==
  /\ roles' = roles \ rs
  /\ loops' = Without(loops, ls)
  /\ UNCHANGED <<cells, remembered>>

\* A deletion takes every row about the record with it.
RemovesWhatIsAbout(rs, ls) ==
  /\ roles' = roles \ rs
  /\ loops' = Without(loops, ls)
  /\ cells' = Without(cells, (rs \X LoopIds) \cup (RoleIds \X ls))
  /\ remembered' = remembered \ ((rs \X LoopIds) \cup (RoleIds \X ls))

\* delete_role: no loop is looked at, complete though its column may be now.
DeletesARole(r) ==
  /\ Writes
  /\ r \in roles
  /\ RemovesWhatIsAbout({r}, {})
  /\ told' = [told EXCEPT !.cells = Without(@, {r} \X LoopIds)]
  /\ UNCHANGED <<minted, beacons, handlers, disturbed>>

-----------------------------------------------------------------------------
(* Cells.                                                                  *)

\* Slip: the column is looked at as it was before the write.
RuledOnTheColumnBefore(l, table) ==
  IF \A r \in roles : <<r, l>> \in DOMAIN cells
    THEN [loops EXCEPT ![l].unreviewed = FALSE]
    ELSE loops

\* The table of loops, with the mark taken off a loop on which no role is unruled.
RuledOnACompleteColumn(l, table) ==
  IF \A r \in roles : <<r, l>> \in DOMAIN table
    THEN [loops EXCEPT ![l].unreviewed = FALSE]
    ELSE loops

\* Slip: a cell is lowered and goes on being marked.
LoweredAndStillMarked(cell, p) == [cell EXCEPT !.permission = p]

\* Lowering a cell below emit clears its staffing flag.
Lowered(cell, p) == [permission |-> p, staffs |-> cell.staffs /\ p >= Emit]

\* set_cell, of a pair whose records are there.
SetsACell(r, l, p) ==
  /\ Writes
  /\ r \in roles /\ l \in DOMAIN loops
  /\ cells' = With(cells, <<r, l>>, Lowered(CellIn(cells, r, l), p))
  /\ loops' = RuledOnACompleteColumn(l, cells')
  /\ told' = TellsOfTheCell(r, l, cells', loops')
  /\ UNCHANGED <<roles, remembered, minted, beacons, handlers, disturbed>>

\* Marking is refused below emit, and a pair with no row is not given one.
MarksTheCell(r, l, staffs) ==
  /\ staffs => CellIn(cells, r, l).permission >= Emit
  /\ cells' = IF <<r, l>> \in DOMAIN cells
                THEN [cells EXCEPT ![<<r, l>>].staffs = staffs]
                ELSE cells

SetsStaffing(r, l, staffs) ==
  /\ Writes
  /\ r \in roles /\ l \in DOMAIN loops
  /\ MarksTheCell(r, l, staffs)
  /\ told' = TellsOfTheCell(r, l, cells', loops)
  /\ UNCHANGED <<roles, loops, remembered, minted, beacons, handlers, disturbed>>

\* Every role nobody has ruled on is ruled none.
RulesOnTheRest(l) ==
  /\ cells' = [c \in DOMAIN cells \cup (roles \X {l}) |-> CellIn(cells, c[1], c[2])]
  /\ loops' = RuledOnACompleteColumn(l, cells')

DismissesUnreviewed(l) ==
  /\ Writes
  /\ l \in DOMAIN loops
  /\ RulesOnTheRest(l)
  /\ told' = [told EXCEPT !.reviewed = IF loops'[l].unreviewed THEN @ \ {l} ELSE @ \cup {l}]
  /\ UNCHANGED <<roles, remembered, minted, beacons, handlers, disturbed>>

-----------------------------------------------------------------------------
(* Loops, and the beacons that follow them.                                *)

\* The handler goes on to have the beacons follow, whatever became of its write.
GoesOnToFollow(h) ==
  /\ handlers[h] = Idle
  /\ handlers' = [handlers EXCEPT ![h] = Following]
  /\ disturbed' = \E k \in Handlers \ {h} : handlers[k] # Idle

\* Slip: a new loop is placed by how many there are.
AfterAsManyAsThereAre == Cardinality(DOMAIN loops)

\* A new loop goes after the last, and the first is at zero.
AtTheEnd == Max({loops[l].position : l \in DOMAIN loops} \cup {-1}) + 1

\* create_loop: at the end of the base order, and unreviewed.
CreatesALoop(h, l) ==
  /\ Creates(l)
  /\ loops' = With(loops, l, [position |-> AtTheEnd, unreviewed |-> TRUE])
  /\ told' = [told EXCEPT !.order = @ \cup ((DOMAIN loops) \X {l})]
  /\ GoesOnToFollow(h)
  /\ UNCHANGED <<roles, cells, remembered, beacons>>

\* delete_loop: the loops around it keep their positions.
DeletesALoop(h, l) ==
  /\ Writes
  /\ l \in DOMAIN loops
  /\ RemovesWhatIsAbout({}, {l})
  /\ told' = [cells |-> Without(told.cells, RoleIds \X {l}),
              reviewed |-> told.reviewed \ {l},
              order |-> told.order \ (({l} \X LoopIds) \cup (LoopIds \X {l}))]
  /\ GoesOnToFollow(h)
  /\ UNCHANGED <<minted, beacons>>

\* The write was refused, or named no loop, or its transaction failed.
CannotWriteALoop(h) ==
  /\ Writes
  /\ GoesOnToFollow(h)
  /\ UNCHANGED <<store, minted, told, beacons>>

\* every_loop_runs_a_beacon: the loops are read in a transaction that is then rolled back.
ReadsTheLoops(h) ==
  /\ handlers[h].at = "following"
  /\ handlers' = [handlers EXCEPT ![h] = [at |-> "handing", saw |-> DOMAIN loops]]
  /\ UNCHANGED <<store, minted, told, beacons, disturbed, writes>>

\* The loops cannot be read, and the beacons stay as they were.
CannotReadTheLoops(h) ==
  /\ StoreMayFail
  /\ handlers[h].at # "idle"
  /\ handlers' = [handlers EXCEPT ![h] = Idle]
  /\ disturbed' = TRUE
  /\ UNCHANGED <<store, minted, told, beacons, writes>>

\* Slip: only loops that are new are handed down.
AddsTheBeaconsOf(h) == beacons' = beacons \cup handlers[h].saw

\* The whole list replaces the last.
RunsTheBeaconsOf(h) == beacons' = handlers[h].saw

\* these_loops_run_beacons.
HandsThemDown(h) ==
  /\ handlers[h].at = "handing"
  /\ RunsTheBeaconsOf(h)
  /\ handlers' = [handlers EXCEPT ![h] = Idle]
  /\ UNCHANGED <<store, minted, told, disturbed, writes>>

\* names_every_loop_once.
NamesEveryLoopOnce(order) ==
  /\ Len(order) = Cardinality(DOMAIN loops)
  /\ Range(order) = DOMAIN loops

\* The pairs of which an order puts the first before the second.
InTheOrderOf(order) ==
  {<<order[p[1]], order[p[2]]>> :
     p \in {q \in (DOMAIN order) \X (DOMAIN order) : q[1] < q[2]}}

\* set_the_loop_order: every position is written again, from zero.
PutsInOrder(order) ==
  /\ NamesEveryLoopOnce(order)
  /\ loops' = [l \in DOMAIN loops |->
                 [loops[l] EXCEPT !.position = (CHOOSE i \in DOMAIN order : order[i] = l) - 1]]

SetsTheLoopOrder(order) ==
  /\ Writes
  /\ PutsInOrder(order)
  /\ told' = [told EXCEPT !.order = InTheOrderOf(order)]
  /\ UNCHANGED <<roles, cells, remembered, minted, beacons, handlers, disturbed>>

-----------------------------------------------------------------------------
(* What a person had up.                                                   *)

\* The row is written where both records are there.
KeepsTheRow(r, l) ==
  /\ r \in roles /\ l \in DOMAIN loops
  /\ remembered' = remembered \cup {<<r, l>>}

ForgetsTheRow(r, l) ==
  /\ <<r, l>> \in remembered
  /\ remembered' = remembered \ {<<r, l>>}

\* In a transaction of its own, after the subscribe it rides on: the records may have been
\* deleted meanwhile.
Remembers(r, l) ==
  /\ KeepsTheRow(r, l)
  /\ UNCHANGED <<roles, loops, cells, minted, told, beacons, handlers, disturbed, writes>>

Forgets(r, l) ==
  /\ ForgetsTheRow(r, l)
  /\ UNCHANGED <<roles, loops, cells, minted, told, beacons, handlers, disturbed, writes>>

-----------------------------------------------------------------------------
Next ==
  \/ \E r \in RoleIds : CreatesARole(r) \/ DeletesARole(r)
  \/ \E r \in RoleIds, l \in LoopIds :
       \/ \E p \in Granted : SetsACell(r, l, p)
       \/ \E staffs \in BOOLEAN : SetsStaffing(r, l, staffs)
       \/ Remembers(r, l)
       \/ Forgets(r, l)
  \/ \E l \in LoopIds : DismissesUnreviewed(l)
  \/ \E h \in Handlers :
       \/ \E l \in LoopIds : CreatesALoop(h, l) \/ DeletesALoop(h, l)
       \/ CannotWriteALoop(h)
       \/ ReadsTheLoops(h)
       \/ CannotReadTheLoops(h)
       \/ HandsThemDown(h)
  \/ \E order \in SetToSeqs(DOMAIN loops) : SetsTheLoopOrder(order)

Spec == Init /\ [][Next]_vars

-----------------------------------------------------------------------------
TypeOK ==
  /\ roles \in SUBSET RoleIds
  /\ DOMAIN loops \subseteq LoopIds
  /\ loops \in [DOMAIN loops -> Loop]
  /\ DOMAIN cells \subseteq RoleIds \X LoopIds
  /\ cells \in [DOMAIN cells -> Cell]
  /\ remembered \in SUBSET (RoleIds \X LoopIds)
  /\ minted \in SUBSET (RoleIds \cup LoopIds)
  /\ beacons \in SUBSET LoopIds
  /\ handlers \in [Handlers -> Doing]
  /\ disturbed \in BOOLEAN
  /\ writes \in 0..MaxWrites

\* Whatever the order of creations, deletions and writes, no row outlives a record it is
\* about: a cell left behind would staff or permit for a role nobody can see, and what a
\* person had up would come back on a loop that is gone ("Deleting a user, a role or a
\* loop takes the personalisation about it with it").
NothingOutlivesItsRecord ==
  DOMAIN cells \cup remembered \subseteq roles \X DOMAIN loops

\* The read that staffing is worked out from and the read that permits are two queries:
\* a role that is counted as staffing a loop may answer on it ("a role that cannot answer
\* cannot staff"), through every lowering, ruling and deletion.
StaffersMayAnswer ==
  \A c \in TheStaffingRoles : HeldBy(c[1], c[2]) >= Emit

\* The entries of the log, read in order, tell what every pair holds and which loops are
\* enforced: no write, not even the cell that rules on the last of a column or the
\* lowering that unmarks a staffing role, changes either without an entry that shows it.
LogTellsTheGrid ==
  /\ \A r \in roles, l \in DOMAIN loops :
       CellIn(told.cells, r, l) = CellIn(cells, r, l)
  /\ told.reviewed = {l \in DOMAIN loops : ~loops[l].unreviewed}

\* The positions of the table always say one order, and it is the order the administrators
\* were told: the last that was set, less what was deleted, with each new loop at the end.
TheOrderIsAsAdministered ==
  \A k, l \in DOMAIN loops :
    /\ <<k, l>> \in told.order <=> ComesBefore(k, l)
    /\ k # l => ComesBefore(k, l) \/ ComesBefore(l, k)

\* Where a write of a loop ran with no other beside it and its follow-up did not fail, a
\* beacon runs for every loop and for nothing else, whatever had gone wrong before.
BeaconsFollow ==
  ~disturbed /\ (\A h \in Handlers : handlers[h] = Idle) => beacons = DOMAIN loops

\* grid.rs, rule_on_a_complete_column: "what clears it is the state of the whole column
\* rather than the write that happened to complete it".  A loop no role is unruled on is
\* not left unreviewed.
CompleteColumnsAreRuledOn ==
  \A l \in DOMAIN loops :
    roles # {} /\ roles \X {l} \subseteq DOMAIN cells => ~loops[l].unreviewed

\* A loop that is left unreviewed though no role is unruled on it.
IsLeftUnreviewed(l) ==
  /\ l \in DOMAIN loops /\ loops[l].unreviewed
  /\ roles # {} /\ roles \X {l} \subseteq DOMAIN cells

\* The one way there is the deletion of a role that nobody had ruled on: whatever else completes
\* a column takes the mark off in the same write (grid.rs, rule_on_a_complete_column).
OnlyADeletedRoleLeavesAMark ==
  [][\A l \in LoopIds :
       IsLeftUnreviewed(l)' /\ ~IsLeftUnreviewed(l) =>
         \E r \in roles \ roles' : <<r, l>> \notin DOMAIN cells]_vars
=============================================================================

----------------------------- MODULE GridProofs -----------------------------
(***************************************************************************)
(* Proofs about Grid, for every population of roles, loops and handlers,   *)
(* whatever is granted and however many writes are made.                   *)
(***************************************************************************)
EXTENDS Grid, FiniteSetTheorems, WellFoundedInduction, TLAPS

-----------------------------------------------------------------------------
(* The end of the base order.                                              *)

\* No position is past some number: the positions of a table that is written to a row at
\* a time have an end.
Bounded(table) == \E n \in Nat : \A l \in DOMAIN table : table[l].position < n

Positions(table) == {table[l].position : l \in DOMAIN table} \cup {-1}

\* A bounded table has a last position, and the one after it is a number.
LEMMA TheLastPositionIs ==
  ASSUME NEW table, table \in [DOMAIN table -> Loop], Bounded(table)
  PROVE  \E m \in Positions(table) :
           /\ m + 1 \in Nat
           /\ \A p \in Positions(table) : p <= m
<1> DEFINE T == {n \in Nat : \A l \in DOMAIN table : table[l].position < n}
           R == OpToRel(<, Nat)
<1>1. T \subseteq Nat /\ T # {}
  BY DEF Bounded
<1>2. PICK n \in T : \A k \in T : ~(<<k, n>> \in R)
  <2>1. IsWellFoundedOn(R, Nat)
    BY NatLessThanWellFounded
  <2> HIDE DEF T, R
  <2> QED
    BY <1>1, <2>1, WFMin
<1>3. \A k \in T : ~(k < n)
  BY <1>1, <1>2 DEF OpToRel
<1> HIDE DEF R
<1>4. n \in Nat /\ \A l \in DOMAIN table : table[l].position \in Nat /\ table[l].position < n
  BY <1>2 DEF Loop
<1>5. CASE n = 0
  <2>1. \A l \in DOMAIN table : FALSE
    <3>1. \A k \in Nat : ~(k < 0)
      OBVIOUS
    <3> QED
      BY <1>4, <1>5, <3>1
  <2> QED
    BY <2>1 DEF Positions
<1>6. CASE n # 0
  <2>1. n - 1 \in Nat /\ n - 1 \notin T
    BY <1>3, <1>4, <1>6
  <2>2. PICK l \in DOMAIN table : ~(table[l].position < n - 1)
    BY <2>1
  <2>3. table[l].position = n - 1
    BY <1>4, <2>1, <2>2
  <2>4. n - 1 \in Positions(table)
    BY <2>3 DEF Positions
  <2>5. \A p \in Positions(table) : p <= n - 1
    BY <1>4, <2>1 DEF Positions
  <2> QED
    BY <2>1, <2>4, <2>5
<1> QED
  BY <1>5, <1>6

\* A new loop goes after every other, and at no negative place.
LEMMA TheEndIs ==
  ASSUME loops \in [DOMAIN loops -> Loop], Bounded(loops)
  PROVE  /\ AtTheEnd \in Nat
         /\ \A l \in DOMAIN loops : loops[l].position < AtTheEnd
<1>1. PICK m \in Positions(loops) : m + 1 \in Nat /\ \A p \in Positions(loops) : p <= m
  BY TheLastPositionIs
<1> DEFINE x == Max(Positions(loops))
<1>2. x \in Positions(loops) /\ \A p \in Positions(loops) : x >= p
  BY <1>1 DEF Max, Positions, Loop
<1>3. \A p \in Positions(loops) : p \in Int
  BY DEF Positions, Loop
<1>4. x = m
  BY <1>1, <1>2, <1>3
<1>5. AtTheEnd = m + 1
  BY <1>4 DEF AtTheEnd, Positions
<1>6. \A l \in DOMAIN loops : loops[l].position \in Int /\ loops[l].position <= m
  BY <1>1, <1>3 DEF Positions
<1>7. m \in Int
  BY <1>3
<1> QED
  BY <1>1, <1>5, <1>6, <1>7

-----------------------------------------------------------------------------
(* What the operations do to the tables, row by row.                       *)

\* The loops are finitely many, and their positions have an end.
Ends == IsFiniteSet(DOMAIN loops) /\ Bounded(loops)

LoopsOK ==
  /\ DOMAIN loops \subseteq LoopIds
  /\ loops \in [DOMAIN loops -> Loop]

CellsOK ==
  /\ DOMAIN cells \subseteq RoleIds \X LoopIds
  /\ cells \in [DOMAIN cells -> Cell]

RestOK ==
  /\ roles \in SUBSET RoleIds
  /\ remembered \in SUBSET (RoleIds \X LoopIds)
  /\ minted \in SUBSET (RoleIds \cup LoopIds)
  /\ beacons \in SUBSET LoopIds
  /\ handlers \in [Handlers -> Doing]
  /\ disturbed \in BOOLEAN
  /\ writes \in 0..MaxWrites

LEMMA TypeOKIsThese == TypeOK <=> LoopsOK /\ CellsOK /\ RestOK
BY DEF TypeOK, LoopsOK, CellsOK, RestOK

\* A pair is its two ids.
LEMMA PairsAre ==
  ASSUME NEW c \in RoleIds \X LoopIds
  PROVE  c[1] \in RoleIds /\ c[2] \in LoopIds /\ c = <<c[1], c[2]>>
OBVIOUS

\* A cell is read as one whether or not it has a row.
LEMMA CellInIsACell ==
  ASSUME CellsOK, NEW r \in RoleIds, NEW l \in LoopIds
  PROVE  CellIn(cells, r, l) \in Cell
BY DEF CellsOK, CellIn, Cell, Permissions, NoPermission

\* Ruling on a column moves nothing but the mark of that column.
Ruled(l) ==
  /\ DOMAIN loops' = DOMAIN loops
  /\ \A k \in DOMAIN loops : loops'[k].position = loops[k].position
  /\ \A k \in DOMAIN loops \ {l} : loops'[k] = loops[k]
  /\ loops' \in [DOMAIN loops' -> Loop]
  /\ loops'[l].unreviewed => loops[l].unreviewed

LEMMA RulingIs ==
  ASSUME LoopsOK, NEW l \in DOMAIN loops, NEW table, loops' = RuledOnACompleteColumn(l, table)
  PROVE  Ruled(l)
<1>1. CASE loops' = loops
  BY <1>1 DEF Ruled, LoopsOK, Loop
<1>2. CASE loops' = [loops EXCEPT ![l].unreviewed = FALSE]
  BY <1>2 DEF Ruled, LoopsOK, Loop
<1> QED
  BY <1>1, <1>2 DEF RuledOnACompleteColumn

LEMMA RulingKeepsTheLoops ==
  ASSUME LoopsOK, Ends, NEW l, Ruled(l)
  PROVE  LoopsOK' /\ Ends'
BY DEF LoopsOK, Ends, Bounded, Ruled

\* What is left when a role, or a loop, goes.
Removed(rs, ls) ==
  /\ roles' = roles \ rs
  /\ DOMAIN loops' = DOMAIN loops \ ls
  /\ \A k \in DOMAIN loops' : loops'[k] = loops[k]
  /\ loops' \in [DOMAIN loops' -> Loop]
  /\ DOMAIN cells' = DOMAIN cells \ ((rs \X LoopIds) \cup (RoleIds \X ls))
  /\ \A c \in DOMAIN cells' : cells'[c] = cells[c]
  /\ cells' \in [DOMAIN cells' -> Cell]
  /\ remembered' = remembered \ ((rs \X LoopIds) \cup (RoleIds \X ls))

LEMMA RemovingIs ==
  ASSUME LoopsOK, CellsOK, NEW rs, NEW ls, RemovesWhatIsAbout(rs, ls)
  PROVE  Removed(rs, ls)
<1> DEFINE S == (rs \X LoopIds) \cup (RoleIds \X ls)
<1>1. /\ roles' = roles \ rs /\ remembered' = remembered \ S
      /\ loops' = Without(loops, ls) /\ cells' = Without(cells, S)
  BY DEF RemovesWhatIsAbout
<1> HIDE DEF S
<1>2. /\ DOMAIN loops' = DOMAIN loops \ ls
      /\ \A k \in DOMAIN loops' : loops'[k] = loops[k]
      /\ loops' \in [DOMAIN loops' -> Loop]
  BY <1>1 DEF Without, Restrict, LoopsOK
<1>3. /\ DOMAIN cells' = DOMAIN cells \ S
      /\ \A c \in DOMAIN cells' : cells'[c] = cells[c]
      /\ cells' \in [DOMAIN cells' -> Cell]
  BY <1>1 DEF Without, Restrict, CellsOK
<1> QED
  BY <1>1, <1>2, <1>3 DEF Removed, S

LEMMA RemovingKeepsTheTables ==
  ASSUME LoopsOK, CellsOK, Ends, NEW rs, NEW ls, Removed(rs, ls)
  PROVE  LoopsOK' /\ CellsOK' /\ Ends'
<1>1. LoopsOK' /\ CellsOK'
  BY DEF LoopsOK, CellsOK, Removed
<1>2. IsFiniteSet(DOMAIN loops')
  BY FS_Subset DEF Ends, Removed
<1>3. Bounded(loops)'
  BY DEF Ends, Bounded, Removed
<1> QED
  BY <1>1, <1>2, <1>3 DEF Ends

\* What is in the table with a new loop.
Created(l) ==
  /\ DOMAIN loops' = DOMAIN loops \cup {l}
  /\ loops'[l].unreviewed
  /\ loops'[l].position = AtTheEnd
  /\ \A k \in DOMAIN loops \ {l} : loops'[k] = loops[k]

LEMMA CreatingIs ==
  ASSUME NEW l, loops' = With(loops, l, [position |-> AtTheEnd, unreviewed |-> TRUE])
  PROVE  Created(l)
BY DEF Created, With

LEMMA CreatingKeepsTheLoops ==
  ASSUME LoopsOK, Ends, NEW l \in LoopIds,
         loops' = With(loops, l, [position |-> AtTheEnd, unreviewed |-> TRUE])
  PROVE  LoopsOK' /\ Ends'
<1> DEFINE row == [position |-> AtTheEnd, unreviewed |-> TRUE]
           n == AtTheEnd
<1>1. n \in Nat /\ \A k \in DOMAIN loops : loops[k].position < n
  BY TheEndIs DEF LoopsOK, Ends
<1>2. row \in Loop
  BY <1>1 DEF Loop
<1>3. Created(l)
  BY CreatingIs
<1>4. LoopsOK'
  BY <1>2 DEF With, LoopsOK
<1>5. IsFiniteSet(DOMAIN loops')
  BY <1>3, FS_AddElement DEF Created, Ends
<1>6. \A k \in DOMAIN loops' : loops'[k].position < n + 1
  <2>1. \A k \in DOMAIN loops : loops[k].position \in Nat
    BY DEF LoopsOK, Loop
  <2>2. loops'[l].position = n
    BY <1>3 DEF Created
  <2> HIDE DEF n
  <2>3. loops'[l].position < n + 1
    BY <1>1, <2>2
  <2>4. ASSUME NEW k \in DOMAIN loops \ {l} PROVE loops'[k].position < n + 1
    <3>1. loops'[k] = loops[k]
      BY <1>3, <2>4 DEF Created
    <3>2. loops[k].position \in Nat /\ loops[k].position < n
      BY <1>1, <2>1, <2>4
    <3> QED
      BY <1>1, <3>1, <3>2
  <2> QED
    BY <1>3, <2>3, <2>4 DEF Created
<1>7. n + 1 \in Nat
  BY <1>1
<1>8. Bounded(loops)'
  BY <1>6, <1>7 DEF Bounded
<1> QED
  BY <1>4, <1>5, <1>8 DEF Ends

\* The loops in another order.
Ordered ==
  /\ DOMAIN loops' = DOMAIN loops
  /\ \A k \in DOMAIN loops : loops'[k].unreviewed = loops[k].unreviewed

LEMMA OrderingKeepsTheLoops ==
  ASSUME LoopsOK, Ends, NEW order \in SetToSeqs(DOMAIN loops), SetsTheLoopOrder(order)
  PROVE  LoopsOK' /\ Ends' /\ Ordered
<1> DEFINE n == Cardinality(DOMAIN loops)
           place(l) == CHOOSE i \in DOMAIN order : order[i] = l
<1>1. n \in Nat
  BY FS_CardinalityType DEF Ends
<1>2. DOMAIN order = 1..n
  BY DEF SetToSeqs
<1>3. \A l \in DOMAIN loops : \E i \in DOMAIN order : order[i] = l
  BY DEF SetsTheLoopOrder, PutsInOrder, NamesEveryLoopOnce, Range
<1>4. \A l \in DOMAIN loops : place(l) \in DOMAIN order
  BY <1>3
<1>5. loops' = [l \in DOMAIN loops |-> [loops[l] EXCEPT !.position = place(l) - 1]]
  BY DEF SetsTheLoopOrder, PutsInOrder
<1> HIDE DEF n, place
<1>6. \A l \in DOMAIN loops : place(l) - 1 \in Nat /\ place(l) - 1 < n
  BY <1>1, <1>2, <1>4
<1>7. LoopsOK'
  BY <1>5, <1>6 DEF LoopsOK, Loop
<1>8. Ordered
  BY <1>5 DEF Ordered, LoopsOK, Loop
<1>9. \A l \in DOMAIN loops' : loops'[l].position < n
  BY <1>5, <1>6 DEF LoopsOK, Loop
<1>10. Bounded(loops)'
  BY <1>1, <1>9 DEF Bounded
<1> QED
  BY <1>7, <1>8, <1>10 DEF Ends, Ordered

-----------------------------------------------------------------------------
(* The type invariant, which stands on the end of the order.               *)

Shaped == TypeOK /\ Ends

LEMMA ShapedIsThese == Shaped <=> LoopsOK /\ CellsOK /\ RestOK /\ Ends
BY TypeOKIsThese DEF Shaped

LEMMA ShapedIsTheseNext == Shaped' <=> LoopsOK' /\ CellsOK' /\ RestOK' /\ Ends'
BY DEF Shaped, TypeOK, LoopsOK, CellsOK, RestOK

LEMMA StandingLoops ==
  ASSUME LoopsOK, Ends, UNCHANGED loops
  PROVE  LoopsOK' /\ Ends'
BY DEF LoopsOK, Ends, Bounded

LEMMA StandingCells ==
  ASSUME CellsOK, UNCHANGED cells
  PROVE  CellsOK'
BY DEF CellsOK

LEMMA RoleStepsKeepTheShape ==
  ASSUME Shaped, NEW r \in RoleIds, CreatesARole(r) \/ DeletesARole(r)
  PROVE  Shaped'
<1>1. LoopsOK /\ CellsOK /\ RestOK /\ Ends
  BY ShapedIsThese
<1>2. CASE CreatesARole(r)
  <2>1. RestOK'
    BY <1>1, <1>2, GridAssumption DEF CreatesARole, Creates, Writes, RestOK
  <2> QED
    BY <1>1, <1>2, <2>1, StandingLoops, StandingCells, ShapedIsTheseNext DEF CreatesARole,
       Creates
<1>3. CASE DeletesARole(r)
  <2>1. Removed({r}, {})
    BY <1>1, <1>3, RemovingIs DEF DeletesARole
  <2>2. RestOK'
    BY <1>1, <1>3, <2>1, GridAssumption DEF DeletesARole, Writes, RestOK, Removed
  <2> QED
    BY <1>1, <2>1, <2>2, RemovingKeepsTheTables, ShapedIsTheseNext
<1> QED
  BY <1>2, <1>3

LEMMA CellStepsKeepTheShape ==
  ASSUME Shaped, NEW r \in RoleIds, NEW l \in LoopIds,
         \/ \E p \in Granted : SetsACell(r, l, p)
         \/ \E staffs \in BOOLEAN : SetsStaffing(r, l, staffs)
         \/ Remembers(r, l)
         \/ Forgets(r, l)
  PROVE  Shaped'
<1>1. LoopsOK /\ CellsOK /\ RestOK /\ Ends
  BY ShapedIsThese
<1>2. ASSUME NEW p \in Granted, SetsACell(r, l, p) PROVE Shaped'
  <2> DEFINE cell == Lowered(CellIn(cells, r, l), p)
  <2>1. cell \in Cell
    BY <1>1, CellInIsACell, GridAssumption DEF Lowered, Cell, Permissions, Emit
  <2>2. cells' = With(cells, <<r, l>>, cell) /\ l \in DOMAIN loops
    BY <1>2 DEF SetsACell
  <2> HIDE DEF cell
  <2>3. CellsOK'
    BY <1>1, <2>1, <2>2 DEF With, CellsOK
  <2>4. Ruled(l)
    BY <1>1, <1>2, RulingIs DEF SetsACell
  <2>5. LoopsOK' /\ Ends'
    BY <1>1, <2>4, RulingKeepsTheLoops
  <2>6. RestOK'
    BY <1>1, <1>2, GridAssumption DEF SetsACell, Writes, RestOK
  <2> QED
    BY <2>3, <2>5, <2>6, ShapedIsTheseNext
<1>3. ASSUME NEW staffs \in BOOLEAN, SetsStaffing(r, l, staffs) PROVE Shaped'
  <2>1. CellsOK'
    BY <1>1, <1>3 DEF SetsStaffing, MarksTheCell, CellsOK, Cell
  <2>2. RestOK'
    BY <1>1, <1>3, GridAssumption DEF SetsStaffing, MarksTheCell, Writes, RestOK
  <2> QED
    BY <1>1, <1>3, <2>1, <2>2, StandingLoops, ShapedIsTheseNext DEF SetsStaffing, MarksTheCell
<1>4. CASE Remembers(r, l) \/ Forgets(r, l)
  <2>1. RestOK' /\ UNCHANGED <<loops, cells>>
    BY <1>1, <1>4 DEF Remembers, KeepsTheRow, Forgets, ForgetsTheRow, RestOK
  <2> QED
    BY <1>1, <2>1, StandingLoops, StandingCells, ShapedIsTheseNext
<1> QED
  BY <1>2, <1>3, <1>4

LEMMA DismissingKeepsTheShape ==
  ASSUME Shaped, NEW l \in LoopIds, DismissesUnreviewed(l)
  PROVE  Shaped'
<1>1. LoopsOK /\ CellsOK /\ RestOK /\ Ends
  BY ShapedIsThese
<1>2. /\ cells' = [c \in DOMAIN cells \cup (roles \X {l}) |-> CellIn(cells, c[1], c[2])]
      /\ l \in DOMAIN loops
  BY DEF DismissesUnreviewed, RulesOnTheRest
<1>3. DOMAIN cells \cup (roles \X {l}) \subseteq RoleIds \X LoopIds
  BY <1>1 DEF CellsOK, RestOK
<1>4. \A c \in DOMAIN cells \cup (roles \X {l}) : CellIn(cells, c[1], c[2]) \in Cell
  BY <1>1, <1>3, PairsAre, CellInIsACell
<1>5. CellsOK'
  BY <1>2, <1>3, <1>4 DEF CellsOK
<1>6. Ruled(l)
  BY <1>1, <1>2, RulingIs DEF DismissesUnreviewed, RulesOnTheRest
<1>7. LoopsOK' /\ Ends'
  BY <1>1, <1>6, RulingKeepsTheLoops
<1>8. RestOK'
  BY <1>1, GridAssumption DEF DismissesUnreviewed, RulesOnTheRest, Writes, RestOK
<1> QED
  BY <1>5, <1>7, <1>8, ShapedIsTheseNext

LEMMA LoopStepsKeepTheShape ==
  ASSUME Shaped, NEW h \in Handlers,
         \/ \E l \in LoopIds : CreatesALoop(h, l) \/ DeletesALoop(h, l)
         \/ CannotWriteALoop(h)
         \/ ReadsTheLoops(h)
         \/ CannotReadTheLoops(h)
         \/ HandsThemDown(h)
  PROVE  Shaped'
<1>1. LoopsOK /\ CellsOK /\ RestOK /\ Ends
  BY ShapedIsThese
<1>2. Idle \in Doing /\ Following \in Doing
  BY DEF Idle, Following, Doing
<1>3. GoesOnToFollow(h) => handlers' \in [Handlers -> Doing] /\ disturbed' \in BOOLEAN
  BY <1>1, <1>2 DEF GoesOnToFollow, RestOK
<1>4. Writes => writes' \in 0..MaxWrites
  BY <1>1, GridAssumption DEF Writes, RestOK
<1>5. ASSUME NEW l \in LoopIds, CreatesALoop(h, l) PROVE Shaped'
  <2>1. LoopsOK' /\ Ends'
    BY <1>1, <1>5, CreatingKeepsTheLoops DEF CreatesALoop, Creates
  <2>2. RestOK'
    BY <1>1, <1>3, <1>4, <1>5 DEF CreatesALoop, Creates, RestOK
  <2> QED
    BY <1>1, <1>5, <2>1, <2>2, StandingCells, ShapedIsTheseNext DEF CreatesALoop, Creates
<1>6. ASSUME NEW l \in LoopIds, DeletesALoop(h, l) PROVE Shaped'
  <2>1. Removed({}, {l})
    BY <1>1, <1>6, RemovingIs DEF DeletesALoop
  <2>2. RestOK'
    BY <1>1, <1>3, <1>4, <1>6, <2>1 DEF DeletesALoop, RestOK, Removed
  <2> QED
    BY <1>1, <2>1, <2>2, RemovingKeepsTheTables, ShapedIsTheseNext
<1>7. CASE CannotWriteALoop(h)
  <2>1. RestOK' /\ UNCHANGED <<loops, cells>>
    BY <1>1, <1>3, <1>4, <1>7 DEF CannotWriteALoop, RestOK, store
  <2> QED
    BY <1>1, <2>1, StandingLoops, StandingCells, ShapedIsTheseNext
<1>8. CASE ReadsTheLoops(h)
  <2>1. [at |-> "handing", saw |-> DOMAIN loops] \in Doing
    BY <1>1 DEF LoopsOK, Doing
  <2>2. RestOK' /\ UNCHANGED <<loops, cells>>
    BY <1>1, <1>8, <2>1 DEF ReadsTheLoops, RestOK, store
  <2> QED
    BY <1>1, <2>2, StandingLoops, StandingCells, ShapedIsTheseNext
<1>9. CASE CannotReadTheLoops(h)
  <2>1. RestOK' /\ UNCHANGED <<loops, cells>>
    BY <1>1, <1>2, <1>9 DEF CannotReadTheLoops, RestOK, store
  <2> QED
    BY <1>1, <2>1, StandingLoops, StandingCells, ShapedIsTheseNext
<1>10. CASE HandsThemDown(h)
  <2>1. handlers[h].saw \in SUBSET LoopIds
    BY <1>1 DEF RestOK, Doing
  <2>2. RestOK' /\ UNCHANGED <<loops, cells>>
    BY <1>1, <1>2, <1>10, <2>1 DEF HandsThemDown, RunsTheBeaconsOf, RestOK, store
  <2> QED
    BY <1>1, <2>2, StandingLoops, StandingCells, ShapedIsTheseNext
<1> QED
  BY <1>5, <1>6, <1>7, <1>8, <1>9, <1>10

LEMMA OrderingKeepsTheShape ==
  ASSUME Shaped, NEW order \in SetToSeqs(DOMAIN loops), SetsTheLoopOrder(order)
  PROVE  Shaped'
<1>1. LoopsOK /\ CellsOK /\ RestOK /\ Ends
  BY ShapedIsThese
<1>2. LoopsOK' /\ Ends'
  BY <1>1, OrderingKeepsTheLoops
<1>3. RestOK' /\ UNCHANGED cells
  BY <1>1, GridAssumption DEF SetsTheLoopOrder, PutsInOrder, Writes, RestOK
<1> QED
  BY <1>1, <1>2, <1>3, StandingCells, ShapedIsTheseNext

LEMMA StepsKeepTheShape ==
  ASSUME Shaped, [Next]_vars
  PROVE  Shaped'
<1>1. CASE Next
  BY <1>1, RoleStepsKeepTheShape, CellStepsKeepTheShape, DismissingKeepsTheShape,
     LoopStepsKeepTheShape, OrderingKeepsTheShape DEF Next
<1>2. CASE UNCHANGED vars
  BY <1>2 DEF vars, store, Shaped, TypeOK, Ends, Bounded
<1> QED
  BY <1>1, <1>2

LEMMA StartsInShape == Init => Shaped
<1> SUFFICES ASSUME Init PROVE Shaped
  OBVIOUS
<1>1. loops = <<>> /\ cells = <<>> /\ DOMAIN loops = {} /\ DOMAIN cells = {}
  BY DEF Init
<1>2. TypeOK
  <2>1. loops \in [DOMAIN loops -> Loop] /\ cells \in [DOMAIN cells -> Cell]
    BY <1>1
  <2>2. LoopsOK /\ CellsOK
    BY <1>1, <2>1 DEF LoopsOK, CellsOK
  <2>3. Idle \in Doing
    BY DEF Idle, Doing
  <2>4. 0 \in 0..MaxWrites /\ Seeded \subseteq RoleIds
    BY GridAssumption
  <2>5. RestOK
    BY <2>3, <2>4 DEF Init, RestOK
  <2> QED
    BY <2>2, <2>5, TypeOKIsThese
<1>3. Bounded(loops)
  BY <1>1 DEF Bounded
<1>4. IsFiniteSet(DOMAIN loops)
  BY <1>1, FS_EmptySet
<1> QED
  BY <1>2, <1>3, <1>4 DEF Shaped, Ends

THEOREM AlwaysShaped == Spec => []Shaped
<1>1. Init => Shaped
  BY StartsInShape
<1>2. Shaped /\ [Next]_vars => Shaped'
  BY StepsKeepTheShape
<1> QED
  BY <1>1, <1>2, PTL DEF Spec

\* The tables hold what they are meant to hold, and the position a new loop is given is
\* always a number: however many loops were made, ordered and deleted, there is a last one.
THEOREM TypeCorrect == Spec => []TypeOK
BY AlwaysShaped, PTL DEF Shaped

-----------------------------------------------------------------------------
(* The records, and what may staff.                                        *)

\* A row that marks a role as staffing is of a role that may emit.  StaffersMayAnswer is
\* about what is read of the rows, and no step says why it is so without this.
StaffingIsAbove ==
  \A c \in DOMAIN cells : cells[c].staffs => cells[c].permission >= Emit

Kept == NothingOutlivesItsRecord /\ StaffingIsAbove

\* A table reads as what was written, and alike where it was not.
LEMMA ReadingWhatWasWritten ==
  ASSUME NEW table, NEW r, NEW l, NEW v
  PROVE  /\ CellIn(With(table, <<r, l>>, v), r, l) = v
         /\ \A q, k : <<q, k>> # <<r, l>> =>
              CellIn(With(table, <<r, l>>, v), q, k) = CellIn(table, q, k)
BY DEF CellIn, With

\* A cell that is lowered is not marked below emit.
LEMMA LoweringIs ==
  ASSUME NEW cell, NEW p
  PROVE  Lowered(cell, p).staffs => Lowered(cell, p).permission >= Emit
BY DEF Lowered

LEMMA RoleStepsKeepTheRecords ==
  ASSUME Shaped, Kept, NEW r \in RoleIds, CreatesARole(r) \/ DeletesARole(r)
  PROVE  Kept'
<1>1. LoopsOK /\ CellsOK /\ RestOK
  BY ShapedIsThese
<1>2. CASE CreatesARole(r)
  BY <1>2 DEF CreatesARole, Creates, Kept, NothingOutlivesItsRecord, StaffingIsAbove
<1>3. CASE DeletesARole(r)
  <2>1. Removed({r}, {})
    BY <1>1, <1>3, RemovingIs DEF DeletesARole
  <2>2. NothingOutlivesItsRecord'
    BY <1>1, <2>1 DEF Removed, Kept, NothingOutlivesItsRecord, LoopsOK, RestOK
  <2>3. StaffingIsAbove'
    BY <2>1 DEF Removed, Kept, StaffingIsAbove
  <2> QED
    BY <2>2, <2>3 DEF Kept
<1> QED
  BY <1>2, <1>3

LEMMA CellStepsKeepTheRecords ==
  ASSUME Shaped, Kept, NEW r \in RoleIds, NEW l \in LoopIds,
         \/ \E p \in Granted : SetsACell(r, l, p)
         \/ \E staffs \in BOOLEAN : SetsStaffing(r, l, staffs)
         \/ Remembers(r, l)
         \/ Forgets(r, l)
  PROVE  Kept'
<1>1. LoopsOK /\ CellsOK /\ RestOK
  BY ShapedIsThese
<1>2. ASSUME NEW p \in Granted, SetsACell(r, l, p) PROVE Kept'
  <2> DEFINE cell == Lowered(CellIn(cells, r, l), p)
  <2>1. cell.staffs => cell.permission >= Emit
    BY LoweringIs
  <2>2. /\ cells' = With(cells, <<r, l>>, cell)
        /\ r \in roles /\ l \in DOMAIN loops
        /\ UNCHANGED <<roles, remembered>>
    BY <1>2 DEF SetsACell
  <2>3. DOMAIN loops' = DOMAIN loops
    BY <1>1, <1>2, RulingIs DEF SetsACell, Ruled
  <2> HIDE DEF cell
  <2>4. NothingOutlivesItsRecord'
    BY <2>2, <2>3 DEF With, Kept, NothingOutlivesItsRecord
  <2>5. StaffingIsAbove'
    BY <2>1, <2>2 DEF With, Kept, StaffingIsAbove
  <2> QED
    BY <2>4, <2>5 DEF Kept
<1>3. ASSUME NEW staffs \in BOOLEAN, SetsStaffing(r, l, staffs) PROVE Kept'
  <2>1. /\ DOMAIN cells' = DOMAIN cells
        /\ UNCHANGED <<roles, loops, remembered>>
    BY <1>3 DEF SetsStaffing, MarksTheCell
  <2>2. NothingOutlivesItsRecord'
    BY <2>1 DEF Kept, NothingOutlivesItsRecord
  <2>3. StaffingIsAbove'
    BY <1>1, <1>3 DEF SetsStaffing, MarksTheCell, Kept, StaffingIsAbove, CellIn, CellsOK, Cell
  <2> QED
    BY <2>2, <2>3 DEF Kept
<1>4. CASE Remembers(r, l) \/ Forgets(r, l)
  BY <1>4 DEF Remembers, KeepsTheRow, Forgets, ForgetsTheRow, Kept, NothingOutlivesItsRecord,
     StaffingIsAbove
<1> QED
  BY <1>2, <1>3, <1>4

LEMMA DismissingKeepsTheRecords ==
  ASSUME Shaped, Kept, NEW l \in LoopIds, DismissesUnreviewed(l)
  PROVE  Kept'
<1>1. LoopsOK /\ CellsOK /\ RestOK
  BY ShapedIsThese
<1>2. /\ cells' = [c \in DOMAIN cells \cup (roles \X {l}) |-> CellIn(cells, c[1], c[2])]
      /\ l \in DOMAIN loops
      /\ UNCHANGED <<roles, remembered>>
  BY DEF DismissesUnreviewed, RulesOnTheRest
<1>3. DOMAIN loops' = DOMAIN loops
  BY <1>1, <1>2, RulingIs DEF DismissesUnreviewed, RulesOnTheRest, Ruled
<1>4. NothingOutlivesItsRecord'
  BY <1>2, <1>3 DEF Kept, NothingOutlivesItsRecord
<1>5. ASSUME NEW c \in DOMAIN cells', cells'[c].staffs PROVE cells'[c].permission >= Emit
  <2>1. c = <<c[1], c[2]>> /\ cells'[c] = CellIn(cells, c[1], c[2])
    BY <1>1, <1>2, PairsAre DEF CellsOK, RestOK
  <2>2. CASE c \in DOMAIN cells
    BY <1>5, <2>1, <2>2 DEF Kept, StaffingIsAbove, CellIn
  <2>3. CASE c \notin DOMAIN cells
    BY <1>5, <2>1, <2>3 DEF CellIn
  <2> QED
    BY <2>2, <2>3
<1> QED
  BY <1>4, <1>5 DEF Kept, StaffingIsAbove

LEMMA LoopStepsKeepTheRecords ==
  ASSUME Shaped, Kept, NEW h \in Handlers,
         \/ \E l \in LoopIds : CreatesALoop(h, l) \/ DeletesALoop(h, l)
         \/ CannotWriteALoop(h)
         \/ ReadsTheLoops(h)
         \/ CannotReadTheLoops(h)
         \/ HandsThemDown(h)
  PROVE  Kept'
<1>1. LoopsOK /\ CellsOK /\ RestOK
  BY ShapedIsThese
<1>2. ASSUME NEW l \in LoopIds, CreatesALoop(h, l) PROVE Kept'
  <2>1. Created(l) /\ UNCHANGED <<roles, cells, remembered>>
    BY <1>2, CreatingIs DEF CreatesALoop, Creates
  <2> QED
    BY <2>1 DEF Created, Kept, NothingOutlivesItsRecord, StaffingIsAbove
<1>3. ASSUME NEW l \in LoopIds, DeletesALoop(h, l) PROVE Kept'
  <2>1. Removed({}, {l})
    BY <1>1, <1>3, RemovingIs DEF DeletesALoop
  <2>2. NothingOutlivesItsRecord'
    BY <1>1, <2>1 DEF Removed, Kept, NothingOutlivesItsRecord, LoopsOK, RestOK
  <2>3. StaffingIsAbove'
    BY <2>1 DEF Removed, Kept, StaffingIsAbove
  <2> QED
    BY <2>2, <2>3 DEF Kept
<1>4. CASE UNCHANGED store
  BY <1>4 DEF store, Kept, NothingOutlivesItsRecord, StaffingIsAbove
<1> QED
  BY <1>2, <1>3, <1>4 DEF CannotWriteALoop, ReadsTheLoops, CannotReadTheLoops, HandsThemDown

LEMMA StepsKeepTheRecords ==
  ASSUME Shaped, Kept, [Next]_vars
  PROVE  Kept'
<1>1. ASSUME NEW order \in SetToSeqs(DOMAIN loops), SetsTheLoopOrder(order) PROVE Kept'
  <2>1. Ordered /\ UNCHANGED <<roles, cells, remembered>>
    BY <1>1, ShapedIsThese, OrderingKeepsTheLoops DEF SetsTheLoopOrder, PutsInOrder
  <2> QED
    BY <2>1 DEF Ordered, Kept, NothingOutlivesItsRecord, StaffingIsAbove
<1>2. CASE Next
  BY <1>1, <1>2, RoleStepsKeepTheRecords, CellStepsKeepTheRecords, DismissingKeepsTheRecords,
     LoopStepsKeepTheRecords DEF Next
<1>3. CASE UNCHANGED vars
  BY <1>3 DEF vars, store, Kept, NothingOutlivesItsRecord, StaffingIsAbove
<1> QED
  BY <1>2, <1>3

THEOREM AlwaysKept == Spec => [](Shaped /\ Kept)
<1>1. Init => Shaped /\ Kept
  BY StartsInShape DEF Init, Kept, NothingOutlivesItsRecord, StaffingIsAbove
<1>2. Shaped /\ Kept /\ [Next]_vars => (Shaped /\ Kept)'
  BY StepsKeepTheShape, StepsKeepTheRecords
<1> QED
  BY <1>1, <1>2, PTL DEF Spec

\* A row goes with either of the records it is about, and none is written for a record that
\* has gone.
THEOREM RecordsTakeTheirsAlong == Spec => []NothingOutlivesItsRecord
BY AlwaysKept, PTL DEF Kept

LEMMA StaffersMay ==
  ASSUME Shaped, Kept
  PROVE  StaffersMayAnswer
<1> SUFFICES ASSUME NEW c \in TheStaffingRoles PROVE HeldBy(c[1], c[2]) >= Emit
  BY DEF StaffersMayAnswer
<1>1. /\ c \in DOMAIN cells /\ c = <<c[1], c[2]>>
      /\ cells[c].staffs /\ ~loops[c[2]].unreviewed
  BY ShapedIsThese, PairsAre DEF TheStaffingRoles, CellsOK
<1>2. c[2] \in DOMAIN loops
  BY <1>1 DEF Kept, NothingOutlivesItsRecord
<1>3. CellIn(cells, c[1], c[2]) = cells[c]
  BY <1>1 DEF CellIn
<1> QED
  BY <1>1, <1>2, <1>3 DEF HeldBy, Kept, StaffingIsAbove

\* Whoever is counted as staffing a loop may answer on it.
THEOREM StaffingIsPermitted == Spec => []StaffersMayAnswer
<1>1. Shaped /\ Kept => StaffersMayAnswer
  BY StaffersMay
<1> QED
  BY <1>1, AlwaysKept, PTL

-----------------------------------------------------------------------------
(* The log.                                                                *)

\* What a reader holds is about records that were made, so that nothing is held of a record
\* before it is.
ToldOfMinted ==
  /\ told = [cells |-> told.cells, reviewed |-> told.reviewed, order |-> told.order]
  /\ DOMAIN told.cells \subseteq minted \X minted
  /\ roles \cup DOMAIN loops \subseteq minted

\* The two halves of LogTellsTheGrid, a pair and a loop at a time.
SameCells ==
  \A r \in roles, l \in DOMAIN loops : CellIn(told.cells, r, l) = CellIn(cells, r, l)

SameMarks ==
  /\ told.reviewed \subseteq DOMAIN loops
  /\ \A l \in DOMAIN loops : l \in told.reviewed <=> ~loops[l].unreviewed

Logged == ToldOfMinted /\ SameCells /\ SameMarks

LEMMA LoggedTellsTheGrid ==
  ASSUME Logged
  PROVE  LogTellsTheGrid
BY DEF Logged, SameCells, SameMarks, LogTellsTheGrid

\* No row, and none told of, for a record that was never made.
LEMMA NothingIsHeldOfTheNew ==
  ASSUME Shaped, Kept, Logged, NEW r, NEW l, r \notin minted \/ l \notin minted
  PROVE  CellIn(told.cells, r, l) = CellIn(cells, r, l)
<1>1. <<r, l>> \notin DOMAIN told.cells
  BY DEF Logged, ToldOfMinted
<1>2. <<r, l>> \notin DOMAIN cells
  BY DEF Kept, NothingOutlivesItsRecord, Logged, ToldOfMinted
<1> QED
  BY <1>1, <1>2 DEF CellIn

LEMMA RoleStepsAreLogged ==
  ASSUME Shaped, Kept, Logged, NEW r \in RoleIds, CreatesARole(r) \/ DeletesARole(r)
  PROVE  Logged'
<1>1. LoopsOK /\ CellsOK /\ RestOK
  BY ShapedIsThese
<1>2. CASE CreatesARole(r)
  <2>1. /\ roles' = roles \cup {r} /\ minted' = minted \cup {r} /\ r \notin minted
        /\ UNCHANGED <<loops, cells, told>>
    BY <1>2 DEF CreatesARole, Creates
  <2>2. \A l \in DOMAIN loops : CellIn(told.cells, r, l) = CellIn(cells, r, l)
    BY <2>1, NothingIsHeldOfTheNew
  <2>3. SameCells'
    BY <2>1, <2>2 DEF Logged, SameCells
  <2>4. ToldOfMinted' /\ SameMarks'
    BY <2>1 DEF Logged, ToldOfMinted, SameMarks
  <2> QED
    BY <2>3, <2>4 DEF Logged
<1>3. CASE DeletesARole(r)
  <2> DEFINE S == {r} \X LoopIds
             T == ({r} \X LoopIds) \cup (RoleIds \X {})
             was == told.cells
  <2>1. /\ told' = [told EXCEPT !.cells = Without(@, S)]
        /\ roles' = roles \ {r} /\ cells' = Without(cells, T)
        /\ UNCHANGED minted
    BY <1>3 DEF DeletesARole, RemovesWhatIsAbout
  <2>2. DOMAIN loops' = DOMAIN loops /\ \A l \in DOMAIN loops : loops'[l] = loops[l]
    <3>1. Removed({r}, {})
      BY <1>1, <1>3, RemovingIs DEF DeletesARole
    <3> QED
      BY <3>1 DEF Removed
  <2>3. /\ told'.cells = Without(was, S)
        /\ told'.reviewed = told.reviewed /\ told'.order = told.order
        /\ told' = [cells |-> told'.cells, reviewed |-> told'.reviewed, order |-> told'.order]
    BY <2>1 DEF Logged, ToldOfMinted
  <2>4. \A q \in roles \ {r}, l \in DOMAIN loops : <<q, l>> \notin S /\ <<q, l>> \notin T
    OBVIOUS
  <2> HIDE DEF S, T, was
  <2>5. DOMAIN told'.cells \subseteq DOMAIN was
    BY <2>3 DEF Without, Restrict
  <2>6. ToldOfMinted'
    BY <2>1, <2>2, <2>3, <2>5 DEF Logged, ToldOfMinted, was
  <2>7. \A q \in roles \ {r}, l \in DOMAIN loops :
          /\ CellIn(Without(was, S), q, l) = CellIn(was, q, l)
          /\ CellIn(Without(cells, T), q, l) = CellIn(cells, q, l)
    BY <2>4 DEF CellIn, Without, Restrict
  <2>8. SameCells'
    BY <2>1, <2>2, <2>3, <2>7 DEF Logged, SameCells, was
  <2>9. SameMarks'
    BY <2>2, <2>3 DEF Logged, SameMarks
  <2> QED
    BY <2>6, <2>8, <2>9 DEF Logged
<1> QED
  BY <1>2, <1>3

\* A write to a cell is told of as the store holds it after the write.
LEMMA TellingOfACellIsLogged ==
  ASSUME Shaped, Kept, Logged, NEW r \in roles, NEW l \in DOMAIN loops, Ruled(l),
         UNCHANGED <<roles, minted>>,
         told' = TellsOfTheCell(r, l, cells', loops'),
         \A q \in roles, k \in DOMAIN loops :
           <<q, k>> # <<r, l>> => CellIn(cells', q, k) = CellIn(cells, q, k)
  PROVE  Logged'
<1> DEFINE was == told.cells
           v == CellIn(cells', r, l)
<1>1. /\ told'.cells = With(was, <<r, l>>, v)
      /\ told'.reviewed = IF loops'[l].unreviewed THEN told.reviewed \ {l}
                                                  ELSE told.reviewed \cup {l}
      /\ told' = [cells |-> told'.cells, reviewed |-> told'.reviewed, order |-> told'.order]
  BY DEF TellsOfTheCell, Logged, ToldOfMinted
<1>2. DOMAIN loops' = DOMAIN loops /\ \A k \in DOMAIN loops \ {l} : loops'[k] = loops[k]
  BY DEF Ruled
<1>3. SameMarks'
  BY <1>1, <1>2 DEF Logged, SameMarks
<1> HIDE DEF was, v
<1>4. DOMAIN told'.cells = DOMAIN was \cup {<<r, l>>}
  BY <1>1 DEF With
<1>5. r \in minted /\ l \in minted
  BY DEF Logged, ToldOfMinted
<1>6. ToldOfMinted'
  BY <1>1, <1>2, <1>4, <1>5 DEF Logged, ToldOfMinted, was
<1>7. CellIn(told'.cells, r, l) = CellIn(cells', r, l)
  BY <1>1, ReadingWhatWasWritten DEF v
<1>8. \A q \in roles, k \in DOMAIN loops :
        <<q, k>> # <<r, l>> => CellIn(told'.cells, q, k) = CellIn(was, q, k)
  BY <1>1, ReadingWhatWasWritten
<1>9. SameCells'
  BY <1>2, <1>7, <1>8 DEF Logged, SameCells, was
<1> QED
  BY <1>3, <1>6, <1>9 DEF Logged

LEMMA CellStepsAreLogged ==
  ASSUME Shaped, Kept, Logged, NEW r \in RoleIds, NEW l \in LoopIds,
         \/ \E p \in Granted : SetsACell(r, l, p)
         \/ \E staffs \in BOOLEAN : SetsStaffing(r, l, staffs)
         \/ Remembers(r, l)
         \/ Forgets(r, l)
  PROVE  Logged'
<1>1. LoopsOK /\ CellsOK /\ RestOK
  BY ShapedIsThese
<1>2. ASSUME NEW p \in Granted, SetsACell(r, l, p) PROVE Logged'
  <2>1. /\ r \in roles /\ l \in DOMAIN loops
        /\ cells' = With(cells, <<r, l>>, Lowered(CellIn(cells, r, l), p))
        /\ told' = TellsOfTheCell(r, l, cells', loops')
        /\ UNCHANGED <<roles, minted>>
    BY <1>2 DEF SetsACell
  <2>2. Ruled(l)
    BY <1>1, <1>2, RulingIs DEF SetsACell
  <2>3. \A q \in roles, k \in DOMAIN loops :
          <<q, k>> # <<r, l>> => CellIn(cells', q, k) = CellIn(cells, q, k)
    BY <2>1, ReadingWhatWasWritten
  <2> QED
    BY <2>1, <2>2, <2>3, TellingOfACellIsLogged
<1>3. ASSUME NEW staffs \in BOOLEAN, SetsStaffing(r, l, staffs) PROVE Logged'
  <2>1. /\ r \in roles /\ l \in DOMAIN loops
        /\ told' = TellsOfTheCell(r, l, cells', loops')
        /\ UNCHANGED <<roles, loops, minted>>
    BY <1>3 DEF SetsStaffing, MarksTheCell, TellsOfTheCell
  <2>2. Ruled(l)
    BY <1>1, <2>1 DEF Ruled, LoopsOK
  <2>3. \A q \in roles, k \in DOMAIN loops :
          <<q, k>> # <<r, l>> => CellIn(cells', q, k) = CellIn(cells, q, k)
    BY <1>3 DEF SetsStaffing, MarksTheCell, CellIn
  <2> QED
    BY <2>1, <2>2, <2>3, TellingOfACellIsLogged
<1>4. CASE Remembers(r, l) \/ Forgets(r, l)
  <2>1. UNCHANGED <<roles, loops, cells, minted, told>>
    BY <1>4 DEF Remembers, KeepsTheRow, Forgets, ForgetsTheRow
  <2> QED
    BY <2>1 DEF Logged, ToldOfMinted, SameCells, SameMarks
<1> QED
  BY <1>2, <1>3, <1>4

\* A dismissal gives rows to pairs that had none, which read as they did.
LEMMA DismissingIsLogged ==
  ASSUME Shaped, Kept, Logged, NEW l \in LoopIds, DismissesUnreviewed(l)
  PROVE  Logged'
<1>1. LoopsOK /\ CellsOK /\ RestOK
  BY ShapedIsThese
<1>2. /\ cells' = [c \in DOMAIN cells \cup (roles \X {l}) |-> CellIn(cells, c[1], c[2])]
      /\ l \in DOMAIN loops
      /\ told' = [told EXCEPT !.reviewed = IF loops'[l].unreviewed THEN @ \ {l} ELSE @ \cup {l}]
      /\ UNCHANGED <<roles, minted>>
  BY DEF DismissesUnreviewed, RulesOnTheRest
<1>3. Ruled(l)
  BY <1>1, <1>2, RulingIs DEF DismissesUnreviewed, RulesOnTheRest
<1>4. /\ told'.cells = told.cells
      /\ told'.reviewed = IF loops'[l].unreviewed THEN told.reviewed \ {l}
                                                  ELSE told.reviewed \cup {l}
      /\ told' = [cells |-> told'.cells, reviewed |-> told'.reviewed, order |-> told'.order]
  BY <1>2 DEF Logged, ToldOfMinted
<1>5. SameMarks'
  <2>1. l \in DOMAIN loops
    BY <1>2
  <2> QED
    BY <1>3, <1>4, <2>1 DEF Logged, SameMarks, Ruled
<1>6. ToldOfMinted'
  BY <1>2, <1>3, <1>4 DEF Logged, ToldOfMinted, Ruled
<1>7. ASSUME NEW q \in roles, NEW k \in DOMAIN loops
      PROVE  CellIn(cells', q, k) = CellIn(cells, q, k)
  <2>1. CASE <<q, k>> \in DOMAIN cells'
    BY <1>2, <2>1 DEF CellIn
  <2>2. CASE <<q, k>> \notin DOMAIN cells'
    BY <1>2, <2>2 DEF CellIn
  <2> QED
    BY <2>1, <2>2
<1>8. SameCells'
  <2>1. roles' = roles
    BY <1>2
  <2> QED
    BY <1>3, <1>4, <1>7, <2>1 DEF Logged, SameCells, Ruled
<1> QED
  BY <1>5, <1>6, <1>8 DEF Logged

LEMMA LoopStepsAreLogged ==
  ASSUME Shaped, Kept, Logged, NEW h \in Handlers,
         \/ \E l \in LoopIds : CreatesALoop(h, l) \/ DeletesALoop(h, l)
         \/ CannotWriteALoop(h)
         \/ ReadsTheLoops(h)
         \/ CannotReadTheLoops(h)
         \/ HandsThemDown(h)
  PROVE  Logged'
<1>1. LoopsOK /\ CellsOK /\ RestOK
  BY ShapedIsThese
<1>2. ASSUME NEW l \in LoopIds, CreatesALoop(h, l) PROVE Logged'
  <2>1. /\ Created(l) /\ l \notin minted /\ minted' = minted \cup {l}
        /\ told' = [told EXCEPT !.order = @ \cup ((DOMAIN loops) \X {l})]
        /\ UNCHANGED <<roles, cells>>
    BY <1>2, CreatingIs DEF CreatesALoop, Creates
  <2>2. /\ told'.cells = told.cells /\ told'.reviewed = told.reviewed
        /\ told' = [cells |-> told'.cells, reviewed |-> told'.reviewed, order |-> told'.order]
    BY <2>1 DEF Logged, ToldOfMinted
  <2>3. l \notin DOMAIN loops
    BY <2>1 DEF Logged, ToldOfMinted
  <2>4. \A r \in roles : CellIn(told.cells, r, l) = CellIn(cells, r, l)
    BY <2>1, NothingIsHeldOfTheNew
  <2>5. SameCells'
    BY <2>1, <2>2, <2>4 DEF Logged, SameCells, Created
  <2>6. ToldOfMinted' /\ SameMarks'
    BY <2>1, <2>2, <2>3 DEF Logged, ToldOfMinted, SameMarks, Created
  <2> QED
    BY <2>5, <2>6 DEF Logged
<1>3. ASSUME NEW l \in LoopIds, DeletesALoop(h, l) PROVE Logged'
  <2> DEFINE S == RoleIds \X {l}
             T == ({} \X LoopIds) \cup (RoleIds \X {l})
             was == told.cells
  <2>1. /\ told' = [cells |-> Without(was, S), reviewed |-> told.reviewed \ {l},
                    order |-> told.order \ (({l} \X LoopIds) \cup (LoopIds \X {l}))]
        /\ cells' = Without(cells, T)
    BY <1>3 DEF DeletesALoop, RemovesWhatIsAbout
  <2>2. /\ DOMAIN loops' = DOMAIN loops \ {l} /\ \A k \in DOMAIN loops' : loops'[k] = loops[k]
        /\ roles' = roles /\ UNCHANGED minted
    <3>1. Removed({}, {l}) /\ UNCHANGED minted
      BY <1>1, <1>3, RemovingIs DEF DeletesALoop
    <3> QED
      BY <3>1 DEF Removed
  <2>3. told'.cells = Without(was, S) /\ told'.reviewed = told.reviewed \ {l}
    BY <2>1
  <2>4. told' = [cells |-> told'.cells, reviewed |-> told'.reviewed, order |-> told'.order]
    BY <2>1
  <2>5. \A q \in roles, k \in DOMAIN loops \ {l} : <<q, k>> \notin S /\ <<q, k>> \notin T
    OBVIOUS
  <2> HIDE DEF S, T, was
  <2>6. DOMAIN told'.cells \subseteq DOMAIN was
    BY <2>3 DEF Without, Restrict
  <2>7. ToldOfMinted'
    BY <2>2, <2>4, <2>6 DEF Logged, ToldOfMinted, was
  <2>8. \A q \in roles, k \in DOMAIN loops \ {l} :
          /\ CellIn(Without(was, S), q, k) = CellIn(was, q, k)
          /\ CellIn(Without(cells, T), q, k) = CellIn(cells, q, k)
    BY <2>5 DEF CellIn, Without, Restrict
  <2>9. SameCells'
    BY <2>1, <2>2, <2>3, <2>8 DEF Logged, SameCells, was
  <2>10. SameMarks'
    BY <2>2, <2>3 DEF Logged, SameMarks
  <2> QED
    BY <2>7, <2>9, <2>10 DEF Logged
<1>4. CASE UNCHANGED <<store, minted, told>>
  BY <1>4 DEF store, Logged, ToldOfMinted, SameCells, SameMarks
<1> QED
  BY <1>2, <1>3, <1>4 DEF CannotWriteALoop, ReadsTheLoops, CannotReadTheLoops, HandsThemDown

LEMMA StepsAreLogged ==
  ASSUME Shaped, Kept, Logged, [Next]_vars
  PROVE  Logged'
<1>1. ASSUME NEW order \in SetToSeqs(DOMAIN loops), SetsTheLoopOrder(order) PROVE Logged'
  <2>1. /\ Ordered /\ told' = [told EXCEPT !.order = InTheOrderOf(order)]
        /\ UNCHANGED <<roles, cells, minted>>
    BY <1>1, ShapedIsThese, OrderingKeepsTheLoops DEF SetsTheLoopOrder, PutsInOrder
  <2>2. /\ told'.cells = told.cells /\ told'.reviewed = told.reviewed
        /\ told' = [cells |-> told'.cells, reviewed |-> told'.reviewed, order |-> told'.order]
    BY <2>1 DEF Logged, ToldOfMinted
  <2> QED
    BY <2>1, <2>2 DEF Ordered, Logged, ToldOfMinted, SameCells, SameMarks
<1>2. CASE Next
  BY <1>1, <1>2, RoleStepsAreLogged, CellStepsAreLogged, DismissingIsLogged,
     LoopStepsAreLogged DEF Next
<1>3. CASE UNCHANGED vars
  BY <1>3 DEF vars, store, Logged, ToldOfMinted, SameCells, SameMarks
<1> QED
  BY <1>2, <1>3

THEOREM AlwaysLogged == Spec => [](Shaped /\ Logged)
<1>1. Init => Logged
  BY DEF Init, Logged, ToldOfMinted, SameCells, SameMarks
<1>2. Shaped /\ Kept /\ Logged /\ [Next]_vars => Logged'
  BY StepsAreLogged
<1> QED
  BY <1>1, <1>2, AlwaysKept, PTL DEF Spec

\* Whoever reads the log from its beginning knows what every pair holds, and which loops
\* are enforced, at every moment and for any number of writes.
THEOREM TheLogTells == Spec => []LogTellsTheGrid
<1>1. Logged => LogTellsTheGrid
  BY LoggedTellsTheGrid
<1> QED
  BY <1>1, AlwaysLogged, PTL

-----------------------------------------------------------------------------
(* The order.                                                              *)

\* What a reader takes for the order is of loops that are there, so that a new one comes
\* before none of them.
InOrder ==
  /\ told.order \subseteq (DOMAIN loops) \X (DOMAIN loops)
  /\ TheOrderIsAsAdministered

\* What is left where it was stays in order.
InPlace ==
  /\ DOMAIN loops' = DOMAIN loops
  /\ \A k \in DOMAIN loops : loops'[k].position = loops[k].position
  /\ told'.order = told.order

LEMMA StayingInPlace ==
  ASSUME InOrder, InPlace
  PROVE  InOrder'
BY DEF InOrder, InPlace, TheOrderIsAsAdministered, ComesBefore

\* A write about a role leaves every loop in its place.
LEMMA RoleStepsAreInPlace ==
  ASSUME Shaped, Logged, NEW r \in RoleIds, CreatesARole(r) \/ DeletesARole(r)
  PROVE  InPlace
<1>1. CASE CreatesARole(r)
  BY <1>1 DEF CreatesARole, Creates, InPlace
<1>2. CASE DeletesARole(r)
  <2>1. Removed({r}, {}) /\ told' = [told EXCEPT !.cells = Without(@, {r} \X LoopIds)]
    BY <1>2, ShapedIsThese, RemovingIs DEF DeletesARole
  <2>2. told'.order = told.order
    BY <2>1 DEF Logged, ToldOfMinted
  <2> QED
    BY <2>1, <2>2 DEF Removed, InPlace
<1> QED
  BY <1>1, <1>2

\* So does a write about a cell, which moves a mark at most.
LEMMA CellStepsAreInPlace ==
  ASSUME Shaped, Logged, NEW l \in LoopIds,
         \/ \E r \in RoleIds, p \in Granted : SetsACell(r, l, p)
         \/ \E r \in RoleIds, staffs \in BOOLEAN : SetsStaffing(r, l, staffs)
         \/ DismissesUnreviewed(l)
  PROVE  InPlace
<1>1. ASSUME NEW r \in RoleIds, NEW p \in Granted, SetsACell(r, l, p) PROVE InPlace
  <2>1. Ruled(l)
    BY <1>1, ShapedIsThese, RulingIs DEF SetsACell
  <2>2. told'.order = told.order
    BY <1>1 DEF SetsACell, TellsOfTheCell, Logged, ToldOfMinted
  <2> QED
    BY <2>1, <2>2 DEF Ruled, InPlace
<1>2. ASSUME NEW r \in RoleIds, NEW staffs \in BOOLEAN, SetsStaffing(r, l, staffs)
      PROVE  InPlace
  BY <1>2 DEF SetsStaffing, MarksTheCell, TellsOfTheCell, Logged, ToldOfMinted, InPlace
<1>3. CASE DismissesUnreviewed(l)
  <2>1. Ruled(l)
    BY <1>3, ShapedIsThese, RulingIs DEF DismissesUnreviewed, RulesOnTheRest
  <2>2. told'.order = told.order
    BY <1>3 DEF DismissesUnreviewed, RulesOnTheRest, Logged, ToldOfMinted
  <2> QED
    BY <2>1, <2>2 DEF Ruled, InPlace
<1> QED
  BY <1>1, <1>2, <1>3

\* A new loop comes after every other.
LEMMA CreatingKeepsTheOrder ==
  ASSUME Shaped, Logged, InOrder, NEW h \in Handlers, NEW l \in LoopIds, CreatesALoop(h, l)
  PROVE  InOrder'
<1> DEFINE n == AtTheEnd
           new == (DOMAIN loops) \X {l}
<1>1. /\ Created(l) /\ l \notin DOMAIN loops
      /\ told'.order = told.order \cup new
  BY CreatingIs DEF CreatesALoop, Creates, Logged, ToldOfMinted
<1>2. \A k \in DOMAIN loops : loops[k].position \in Nat
  BY ShapedIsThese DEF LoopsOK, Loop
<1>3. n \in Nat /\ \A k \in DOMAIN loops : loops[k].position < n
  BY ShapedIsThese, TheEndIs DEF LoopsOK, Ends
<1>4. /\ DOMAIN loops' = DOMAIN loops \cup {l}
      /\ loops'[l].position = n
      /\ \A k \in DOMAIN loops : loops'[k].position = loops[k].position
  BY <1>1 DEF Created
<1> HIDE DEF n
<1>5. \A k \in DOMAIN loops : ComesBefore(k, l)' /\ ~ComesBefore(l, k)'
  BY <1>2, <1>3, <1>4 DEF ComesBefore
<1>6. ~ComesBefore(l, l)'
  BY <1>3, <1>4 DEF ComesBefore
<1>7. \A j, k \in DOMAIN loops : ComesBefore(j, k)' <=> ComesBefore(j, k)
  BY <1>4 DEF ComesBefore
<1>8. \A k \in DOMAIN loops' :
        <<k, l>> \in told'.order <=> k \in DOMAIN loops
  BY <1>1, <1>4 DEF InOrder
<1>9. \A k \in DOMAIN loops : <<l, k>> \notin told'.order
  BY <1>1 DEF InOrder
<1>10. \A j, k \in DOMAIN loops : <<j, k>> \in told'.order <=> <<j, k>> \in told.order
  BY <1>1
<1>11. told'.order \subseteq (DOMAIN loops') \X (DOMAIN loops')
  BY <1>1, <1>4 DEF InOrder
<1> HIDE DEF new
<1>12. TheOrderIsAsAdministered'
  <2> SUFFICES ASSUME NEW j \in DOMAIN loops', NEW k \in DOMAIN loops'
               PROVE  /\ <<j, k>> \in told'.order <=> ComesBefore(j, k)'
                      /\ j # k => ComesBefore(j, k)' \/ ComesBefore(k, j)'
    BY DEF TheOrderIsAsAdministered
  <2>1. CASE j \in DOMAIN loops /\ k \in DOMAIN loops
    BY <2>1, <1>7, <1>10 DEF InOrder, TheOrderIsAsAdministered
  <2>2. CASE j \in DOMAIN loops /\ k = l
    BY <2>2, <1>5, <1>8
  <2>3. CASE j = l /\ k \in DOMAIN loops
    BY <2>3, <1>5, <1>9
  <2>4. CASE j = l /\ k = l
    BY <2>4, <1>1, <1>6, <1>8
  <2> QED
    BY <1>4, <2>1, <2>2, <2>3, <2>4
<1> QED
  BY <1>11, <1>12 DEF InOrder

\* A loop that goes takes its pairs along, and the others stand as they did.
LEMMA DeletingKeepsTheOrder ==
  ASSUME Shaped, InOrder, NEW h \in Handlers, NEW l \in LoopIds, DeletesALoop(h, l)
  PROVE  InOrder'
<1> DEFINE gone == ({l} \X LoopIds) \cup (LoopIds \X {l})
<1>1. told'.order = told.order \ gone
  BY DEF DeletesALoop
<1>2. /\ DOMAIN loops' = DOMAIN loops \ {l}
      /\ \A k \in DOMAIN loops' : loops'[k] = loops[k]
  <2>1. Removed({}, {l})
    BY ShapedIsThese, RemovingIs DEF DeletesALoop
  <2> QED
    BY <2>1 DEF Removed
<1>3. told'.order \subseteq (DOMAIN loops') \X (DOMAIN loops')
  BY <1>1, <1>2, ShapedIsThese DEF InOrder, LoopsOK
<1>4. \A j, k \in DOMAIN loops' : <<j, k>> \in told'.order <=> <<j, k>> \in told.order
  BY <1>1, <1>2
<1> HIDE DEF gone
<1>5. TheOrderIsAsAdministered'
  BY <1>2, <1>4 DEF InOrder, TheOrderIsAsAdministered, ComesBefore
<1> QED
  BY <1>3, <1>5 DEF InOrder

\* The positions written are the places in the order asked for, and no place is shared.
LEMMA OrderingKeepsTheOrder ==
  ASSUME Shaped, Logged, NEW order \in SetToSeqs(DOMAIN loops), SetsTheLoopOrder(order)
  PROVE  InOrder'
<1> DEFINE place(l) == CHOOSE i \in DOMAIN order : order[i] = l
           n == Cardinality(DOMAIN loops)
           pairs == {q \in (DOMAIN order) \X (DOMAIN order) : q[1] < q[2]}
<1>1. n \in Nat
  BY ShapedIsThese, FS_CardinalityType DEF Ends
<1>2. /\ DOMAIN order = 1..n /\ \A i \in DOMAIN order : order[i] \in DOMAIN loops
      /\ \A i, j \in DOMAIN order : order[i] = order[j] => i = j
  BY DEF SetToSeqs
<1>3. \A l \in DOMAIN loops : place(l) \in DOMAIN order /\ order[place(l)] = l
  <2>1. \A l \in DOMAIN loops : \E i \in DOMAIN order : order[i] = l
    BY DEF SetsTheLoopOrder, PutsInOrder, NamesEveryLoopOnce, Range
  <2> QED
    BY <2>1
<1>4. loops' = [l \in DOMAIN loops |-> [loops[l] EXCEPT !.position = place(l) - 1]]
  BY DEF SetsTheLoopOrder, PutsInOrder
<1>5. told'.order = InTheOrderOf(order)
  BY DEF SetsTheLoopOrder, PutsInOrder, Logged, ToldOfMinted
<1> HIDE DEF place, n
<1>6. /\ DOMAIN loops' = DOMAIN loops
      /\ \A l \in DOMAIN loops : loops'[l].position = place(l) - 1
  BY <1>4, ShapedIsThese DEF LoopsOK, Loop
<1>7. \A l \in DOMAIN loops : place(l) \in Int
  BY <1>1, <1>2, <1>3
<1>8. \A j, k \in DOMAIN loops : ComesBefore(j, k)' <=> place(j) < place(k)
  BY <1>6, <1>7 DEF ComesBefore
<1>9. told'.order = {<<order[p[1]], order[p[2]]>> : p \in pairs}
  BY <1>5 DEF InTheOrderOf
<1>10. \A q \in pairs : q[1] \in DOMAIN order /\ q[2] \in DOMAIN order /\ q[1] < q[2]
  OBVIOUS
<1>11. \A i, j \in DOMAIN order : i < j => <<i, j>> \in pairs
  OBVIOUS
<1> HIDE DEF pairs
<1>12. ASSUME NEW j \in DOMAIN loops, NEW k \in DOMAIN loops
       PROVE  <<j, k>> \in told'.order <=> place(j) < place(k)
  <2>1. ASSUME <<j, k>> \in told'.order PROVE place(j) < place(k)
    <3>1. PICK q \in pairs : j = order[q[1]] /\ k = order[q[2]]
      BY <1>9, <2>1
    <3>2. place(j) = q[1] /\ place(k) = q[2]
      BY <1>2, <1>3, <1>10, <3>1
    <3> QED
      BY <1>10, <3>2
  <2>2. ASSUME place(j) < place(k) PROVE <<j, k>> \in told'.order
    <3>1. <<place(j), place(k)>> \in pairs
      BY <1>3, <1>11, <2>2
    <3> QED
      BY <1>3, <1>9, <3>1
  <2> QED
    BY <2>1, <2>2
<1>13. \A j, k \in DOMAIN loops : j # k => place(j) < place(k) \/ place(k) < place(j)
  BY <1>3, <1>7
<1>14. told'.order \subseteq (DOMAIN loops') \X (DOMAIN loops')
  BY <1>2, <1>6, <1>9, <1>10
<1>15. TheOrderIsAsAdministered'
  BY <1>6, <1>8, <1>12, <1>13 DEF TheOrderIsAsAdministered
<1> QED
  BY <1>14, <1>15 DEF InOrder

LEMMA StepsKeepTheOrder ==
  ASSUME Shaped, Logged, InOrder, [Next]_vars
  PROVE  InOrder'
<1>1. CASE UNCHANGED <<loops, told>>
  BY <1>1, StayingInPlace DEF InPlace
<1>2. ASSUME NEW r \in RoleIds, CreatesARole(r) \/ DeletesARole(r) PROVE InOrder'
  BY <1>2, RoleStepsAreInPlace, StayingInPlace
<1>3. ASSUME NEW l \in LoopIds,
             \/ \E r \in RoleIds, p \in Granted : SetsACell(r, l, p)
             \/ \E r \in RoleIds, staffs \in BOOLEAN : SetsStaffing(r, l, staffs)
             \/ DismissesUnreviewed(l)
      PROVE  InOrder'
  BY <1>3, CellStepsAreInPlace, StayingInPlace
<1>4. ASSUME NEW r \in RoleIds, NEW l \in LoopIds, Remembers(r, l) \/ Forgets(r, l)
      PROVE  InOrder'
  BY <1>1, <1>4 DEF Remembers, KeepsTheRow, Forgets, ForgetsTheRow
<1>5. ASSUME NEW h \in Handlers, NEW l \in LoopIds, CreatesALoop(h, l) \/ DeletesALoop(h, l)
      PROVE  InOrder'
  BY <1>5, CreatingKeepsTheOrder, DeletingKeepsTheOrder
<1>6. ASSUME NEW h \in Handlers,
             \/ CannotWriteALoop(h) \/ ReadsTheLoops(h)
             \/ CannotReadTheLoops(h) \/ HandsThemDown(h)
      PROVE  InOrder'
  BY <1>1, <1>6 DEF CannotWriteALoop, ReadsTheLoops, CannotReadTheLoops, HandsThemDown, store
<1>7. ASSUME NEW order \in SetToSeqs(DOMAIN loops), SetsTheLoopOrder(order) PROVE InOrder'
  BY <1>7, OrderingKeepsTheOrder
<1>8. CASE UNCHANGED vars
  BY <1>1, <1>8 DEF vars, store
<1> QED
  BY <1>2, <1>3, <1>4, <1>5, <1>6, <1>7, <1>8 DEF Next

\* The positions of the table are at every moment the order the administrators were told,
\* and no two loops share one, whatever was deleted and created in between.
THEOREM TheOrderIsKept == Spec => []TheOrderIsAsAdministered
<1>1. Init => InOrder
  BY DEF Init, InOrder, TheOrderIsAsAdministered
<1>2. Shaped /\ Logged /\ InOrder /\ [Next]_vars => InOrder'
  BY StepsKeepTheOrder
<1>3. InOrder => TheOrderIsAsAdministered
  BY DEF InOrder
<1> QED
  BY <1>1, <1>2, <1>3, AlwaysLogged, PTL DEF Spec

-----------------------------------------------------------------------------
(* The beacons.                                                            *)

\* Where nothing disturbs it, one follow-up at most is under way, and what it has read is
\* what there is.
Followed ==
  ~disturbed =>
    /\ \A h, k \in Handlers : handlers[h] # Idle /\ handlers[k] # Idle => h = k
    /\ \A h \in Handlers : handlers[h].at = "handing" => handlers[h].saw = DOMAIN loops
    /\ (\A h \in Handlers : handlers[h] = Idle) => beacons = DOMAIN loops

\* A handler that goes on alone is the only one, and has read nothing yet.
LEMMA GoingOnIsFollowed ==
  ASSUME Shaped, NEW h \in Handlers, GoesOnToFollow(h)
  PROVE  Followed'
<1>1. handlers \in [Handlers -> Doing]
  BY ShapedIsThese DEF RestOK
<1>2. /\ handlers'[h] = Following
      /\ \A k \in Handlers \ {h} : handlers'[k] = handlers[k]
      /\ disturbed' = \E k \in Handlers \ {h} : handlers[k] # Idle
  BY <1>1 DEF GoesOnToFollow
<1>3. CASE disturbed'
  BY <1>3 DEF Followed
<1>4. CASE ~disturbed'
  <2>1. \A k \in Handlers \ {h} : handlers'[k] = Idle
    BY <1>2, <1>4
  <2>2. Following # Idle /\ Following.at # "handing" /\ Idle.at # "handing"
    BY DEF Following, Idle
  <2> QED
    BY <1>2, <2>1, <2>2 DEF Followed
<1> QED
  BY <1>3, <1>4

LEMMA FollowingUpIsFollowed ==
  ASSUME Shaped, Followed, NEW h \in Handlers,
         ReadsTheLoops(h) \/ CannotReadTheLoops(h) \/ HandsThemDown(h)
  PROVE  Followed'
<1>1. handlers \in [Handlers -> Doing]
  BY ShapedIsThese DEF RestOK
<1>2. UNCHANGED loops
  BY DEF ReadsTheLoops, CannotReadTheLoops, HandsThemDown, store
<1>3. CASE ReadsTheLoops(h)
  <2>1. /\ handlers[h] # Idle
        /\ handlers'[h] = [at |-> "handing", saw |-> DOMAIN loops]
        /\ handlers'[h] # Idle
        /\ \A k \in Handlers \ {h} : handlers'[k] = handlers[k]
        /\ UNCHANGED <<beacons, disturbed>>
    BY <1>1, <1>3 DEF ReadsTheLoops, Idle
  <2> QED
    BY <1>2, <2>1 DEF Followed
<1>4. CASE CannotReadTheLoops(h)
  BY <1>4 DEF CannotReadTheLoops, Followed
<1>5. CASE HandsThemDown(h)
  <2>1. /\ handlers[h] # Idle /\ handlers[h].at = "handing"
        /\ handlers'[h] = Idle
        /\ \A k \in Handlers \ {h} : handlers'[k] = handlers[k]
        /\ beacons' = handlers[h].saw
        /\ UNCHANGED disturbed
    BY <1>1, <1>5 DEF HandsThemDown, RunsTheBeaconsOf, Idle
  <2>2. Idle.at # "handing"
    BY DEF Idle
  <2> QED
    BY <1>2, <2>1, <2>2 DEF Followed
<1> QED
  BY <1>3, <1>4, <1>5

LEMMA StepsAreFollowed ==
  ASSUME Shaped, Followed, [Next]_vars
  PROVE  Followed'
<1>1. CASE UNCHANGED <<handlers, beacons, disturbed>> /\ DOMAIN loops' = DOMAIN loops
  BY <1>1 DEF Followed
<1>2. ASSUME NEW h \in Handlers, GoesOnToFollow(h) PROVE Followed'
  BY <1>2, GoingOnIsFollowed
<1>3. ASSUME NEW h \in Handlers,
             ReadsTheLoops(h) \/ CannotReadTheLoops(h) \/ HandsThemDown(h)
      PROVE  Followed'
  BY <1>3, FollowingUpIsFollowed
<1>4. LoopsOK /\ CellsOK /\ Ends
  BY ShapedIsThese
<1>5. ASSUME NEW r \in RoleIds, CreatesARole(r) \/ DeletesARole(r) PROVE Followed'
  <2>1. CASE CreatesARole(r)
    BY <1>1, <2>1 DEF CreatesARole, Creates
  <2>2. CASE DeletesARole(r)
    <3>1. Removed({r}, {})
      BY <1>4, <2>2, RemovingIs DEF DeletesARole
    <3> QED
      BY <1>1, <2>2, <3>1 DEF DeletesARole, Removed
  <2> QED
    BY <1>5, <2>1, <2>2
<1>6. ASSUME NEW r \in RoleIds, NEW l \in LoopIds,
             \/ \E p \in Granted : SetsACell(r, l, p)
             \/ \E staffs \in BOOLEAN : SetsStaffing(r, l, staffs)
             \/ Remembers(r, l)
             \/ Forgets(r, l)
      PROVE  Followed'
  <2>1. ASSUME NEW p \in Granted, SetsACell(r, l, p) PROVE Followed'
    <3>1. Ruled(l)
      BY <1>4, <2>1, RulingIs DEF SetsACell
    <3> QED
      BY <1>1, <2>1, <3>1 DEF SetsACell, Ruled
  <2> QED
    BY <1>1, <1>6, <2>1 DEF SetsStaffing, MarksTheCell, Remembers, KeepsTheRow, Forgets,
       ForgetsTheRow
<1>7. ASSUME NEW l \in LoopIds, DismissesUnreviewed(l) PROVE Followed'
  <2>1. Ruled(l)
    BY <1>4, <1>7, RulingIs DEF DismissesUnreviewed, RulesOnTheRest
  <2> QED
    BY <1>1, <1>7, <2>1 DEF DismissesUnreviewed, RulesOnTheRest, Ruled
<1>8. ASSUME NEW order \in SetToSeqs(DOMAIN loops), SetsTheLoopOrder(order) PROVE Followed'
  <2>1. Ordered
    BY <1>4, <1>8, OrderingKeepsTheLoops
  <2> QED
    BY <1>1, <1>8, <2>1 DEF SetsTheLoopOrder, PutsInOrder, Ordered
<1>9. CASE Next
  <2>1. ASSUME NEW h \in Handlers,
               \/ \E l \in LoopIds : CreatesALoop(h, l) \/ DeletesALoop(h, l)
               \/ CannotWriteALoop(h)
        PROVE  Followed'
    BY <1>2, <2>1 DEF CreatesALoop, Creates, DeletesALoop, CannotWriteALoop
  <2> QED
    BY <1>3, <1>5, <1>6, <1>7, <1>8, <1>9, <2>1 DEF Next
<1>10. CASE UNCHANGED vars
  BY <1>1, <1>10 DEF vars, store
<1> QED
  BY <1>9, <1>10

\* A write of a loop that nothing disturbs leaves a beacon for every loop, however the
\* writes and the failures before it left them.
THEOREM BeaconsAreFollowed == Spec => []BeaconsFollow
<1>1. Init => Followed
  BY DEF Init, Followed, Idle
<1>2. Shaped /\ Followed /\ [Next]_vars => Followed'
  BY StepsAreFollowed
<1>3. Followed => BeaconsFollow
  BY DEF Followed, BeaconsFollow
<1> QED
  BY <1>1, <1>2, <1>3, AlwaysShaped, PTL DEF Spec

-----------------------------------------------------------------------------
(* What leaves a mark on a complete column.                                *)

\* A step after which more is ruled on leaves the mark on no column that it completes.
LEMMA RulingLeavesNoMark ==
  ASSUME LoopsOK, NEW m \in DOMAIN loops, loops' = RuledOnACompleteColumn(m, cells'),
         UNCHANGED roles, \A l \in LoopIds \ {m} : \A r \in roles :
                            <<r, l>> \in DOMAIN cells' => <<r, l>> \in DOMAIN cells,
         NEW l \in LoopIds, IsLeftUnreviewed(l)'
  PROVE  IsLeftUnreviewed(l)
<1>1. Ruled(m)
  BY RulingIs
<1>2. CASE l = m
  <2>1. \A r \in roles : <<r, m>> \in DOMAIN cells'
    BY <1>2 DEF IsLeftUnreviewed
  <2>2. loops' = [loops EXCEPT ![m].unreviewed = FALSE]
    BY <2>1 DEF RuledOnACompleteColumn
  <2>3. loops'[m].unreviewed = FALSE
    BY <2>2 DEF LoopsOK, Loop
  <2> QED
    BY <1>2, <2>3 DEF IsLeftUnreviewed
<1>3. CASE l # m
  <2>1. l \in DOMAIN loops /\ loops'[l] = loops[l]
    BY <1>1, <1>3 DEF IsLeftUnreviewed, Ruled
  <2> QED
    BY <1>3, <2>1 DEF IsLeftUnreviewed
<1> QED
  BY <1>2, <1>3

LEMMA RoleStepsLeaveAMark ==
  ASSUME Shaped, Kept, NEW q \in RoleIds, CreatesARole(q) \/ DeletesARole(q),
         NEW l \in LoopIds, IsLeftUnreviewed(l)', ~IsLeftUnreviewed(l)
  PROVE  \E r \in roles \ roles' : <<r, l>> \notin DOMAIN cells
<1>1. LoopsOK /\ CellsOK /\ RestOK
  BY ShapedIsThese
<1>2. CASE CreatesARole(q)
  <2>1. roles' = roles \cup {q} /\ UNCHANGED <<loops, cells>>
    BY <1>2 DEF CreatesARole
  <2>2. <<q, l>> \in DOMAIN cells
    BY <2>1 DEF IsLeftUnreviewed
  <2>3. q \in roles
    BY <2>2 DEF Kept, NothingOutlivesItsRecord
  <2>4. roles' = roles
    BY <2>1, <2>3
  <2> QED
    BY <2>1, <2>4 DEF IsLeftUnreviewed
<1>3. CASE DeletesARole(q)
  <2>1. Removed({q}, {}) /\ q \in roles
    BY <1>1, <1>3, RemovingIs DEF DeletesARole
  <2>2. l \in DOMAIN loops /\ loops'[l] = loops[l] /\ roles' = roles \ {q}
    BY <2>1 DEF Removed, IsLeftUnreviewed
  <2>3. \A r \in roles \ {q} : <<r, l>> \in DOMAIN cells
    BY <2>1, <2>2 DEF Removed, IsLeftUnreviewed
  <2>4. <<q, l>> \notin DOMAIN cells
    BY <2>1, <2>2, <2>3 DEF IsLeftUnreviewed
  <2> QED
    BY <2>1, <2>2, <2>4
<1> QED
  BY <1>2, <1>3

LEMMA OtherStepsLeaveNone ==
  ASSUME Shaped, Kept, Logged, Next, \A q \in RoleIds : ~CreatesARole(q) /\ ~DeletesARole(q),
         NEW l \in LoopIds, IsLeftUnreviewed(l)'
  PROVE  IsLeftUnreviewed(l)
<1>1. LoopsOK /\ CellsOK /\ RestOK /\ Ends
  BY ShapedIsThese
<1>2. ASSUME NEW r \in RoleIds, NEW k \in LoopIds, NEW p \in Granted, SetsACell(r, k, p)
      PROVE  IsLeftUnreviewed(l)
  <2>1. /\ k \in DOMAIN loops /\ loops' = RuledOnACompleteColumn(k, cells') /\ roles' = roles
        /\ cells' = With(cells, <<r, k>>, Lowered(CellIn(cells, r, k), p))
    BY <1>2 DEF SetsACell
  <2>2. DOMAIN cells' = DOMAIN cells \cup {<<r, k>>}
    BY <2>1 DEF With
  <2> QED
    BY <1>1, <2>1, <2>2, RulingLeavesNoMark
<1>3. ASSUME NEW r \in RoleIds, NEW k \in LoopIds, NEW staffs \in BOOLEAN,
             SetsStaffing(r, k, staffs) \/ Remembers(r, k) \/ Forgets(r, k)
      PROVE  IsLeftUnreviewed(l)
  BY <1>3 DEF SetsStaffing, MarksTheCell, Remembers, Forgets, IsLeftUnreviewed
<1>4. ASSUME NEW k \in LoopIds, DismissesUnreviewed(k) PROVE IsLeftUnreviewed(l)
  <2>1. /\ k \in DOMAIN loops /\ loops' = RuledOnACompleteColumn(k, cells') /\ roles' = roles
        /\ DOMAIN cells' = DOMAIN cells \cup (roles \X {k})
    BY <1>4 DEF DismissesUnreviewed, RulesOnTheRest
  <2>2. \A j \in LoopIds \ {k} : \A r \in roles :
          <<r, j>> \in DOMAIN cells' => <<r, j>> \in DOMAIN cells
    BY <2>1
  <2> QED
    BY <1>1, <2>1, <2>2, RulingLeavesNoMark
<1>5. ASSUME NEW h \in Handlers, NEW k \in LoopIds, CreatesALoop(h, k) PROVE IsLeftUnreviewed(l)
  <2>1. Created(k) /\ k \notin minted /\ UNCHANGED <<roles, cells>>
    BY <1>5, CreatingIs DEF CreatesALoop, Creates
  <2>2. PICK r \in roles : <<r, l>> \in DOMAIN cells
    BY <2>1 DEF IsLeftUnreviewed
  <2>3. l \in DOMAIN loops /\ l # k
    BY <2>1, <2>2 DEF Kept, NothingOutlivesItsRecord, Logged, ToldOfMinted
  <2> QED
    BY <2>1, <2>3 DEF Created, IsLeftUnreviewed
<1>6. ASSUME NEW h \in Handlers, NEW k \in LoopIds, DeletesALoop(h, k) PROVE IsLeftUnreviewed(l)
  <2>1. Removed({}, {k})
    BY <1>1, <1>6, RemovingIs DEF DeletesALoop
  <2>2. /\ l \in DOMAIN loops /\ loops'[l] = loops[l] /\ roles' = roles
        /\ DOMAIN cells' \subseteq DOMAIN cells
    BY <2>1 DEF Removed, IsLeftUnreviewed
  <2> QED
    BY <2>2 DEF IsLeftUnreviewed
<1>7. ASSUME NEW h \in Handlers,
             \/ CannotWriteALoop(h) \/ ReadsTheLoops(h) \/ CannotReadTheLoops(h)
             \/ HandsThemDown(h)
      PROVE  IsLeftUnreviewed(l)
  BY <1>7 DEF CannotWriteALoop, ReadsTheLoops, CannotReadTheLoops, HandsThemDown, store,
     IsLeftUnreviewed
<1>8. ASSUME NEW order \in SetToSeqs(DOMAIN loops), SetsTheLoopOrder(order)
      PROVE  IsLeftUnreviewed(l)
  <2>1. Ordered /\ UNCHANGED <<roles, cells>>
    BY <1>1, <1>8, OrderingKeepsTheLoops DEF SetsTheLoopOrder
  <2> QED
    BY <2>1 DEF Ordered, IsLeftUnreviewed
<1> QED
  BY <1>2, <1>3, <1>4, <1>5, <1>6, <1>7, <1>8 DEF Next

\* A loop is left unreviewed on a complete column by one step only, the deletion of a role
\* that nobody had ruled on: whatever else completes a column takes its mark off.
THEOREM OnlyDeletedRolesLeaveMarks == Spec => OnlyADeletedRoleLeavesAMark
<1> DEFINE Marked == \A l \in LoopIds :
                       IsLeftUnreviewed(l)' /\ ~IsLeftUnreviewed(l) =>
                         \E r \in roles \ roles' : <<r, l>> \notin DOMAIN cells
<1>1. Shaped /\ Kept /\ Logged /\ [Next]_vars => [Marked]_vars
  <2> SUFFICES ASSUME Shaped, Kept, Logged, Next, NEW l \in LoopIds,
                      IsLeftUnreviewed(l)', ~IsLeftUnreviewed(l)
               PROVE  \E r \in roles \ roles' : <<r, l>> \notin DOMAIN cells
    OBVIOUS
  <2> QED
    BY RoleStepsLeaveAMark, OtherStepsLeaveNone
<1> QED
  BY <1>1, AlwaysKept, AlwaysLogged, PTL DEF Spec, OnlyADeletedRoleLeavesAMark
=============================================================================

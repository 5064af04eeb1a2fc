--------------------------- MODULE AccountsProofs ---------------------------
(***************************************************************************)
(* Proofs about Accounts, for every population of users, tokens, codes and *)
(* handlers and every number of writes.                                    *)
(***************************************************************************)
EXTENDS Accounts, TLAPS

-----------------------------------------------------------------------------
(* Tables.                                                                 *)

\* A row of the right kind keeps the kind of the table.
LEMMA WithKeepsTheType ==
  ASSUME NEW f, NEW x, NEW v, NEW R, f \in [DOMAIN f -> R], v \in R
  PROVE  With(f, x, v) \in [DOMAIN With(f, x, v) -> R]
BY DEF With

\* Deleting rows keeps it too.
LEMMA WithoutKeepsTheType ==
  ASSUME NEW f, NEW S, NEW R, f \in [DOMAIN f -> R]
  PROVE  Without(f, S) \in [DOMAIN Without(f, S) -> R]
BY DEF Without, Restrict

-----------------------------------------------------------------------------
(* The invariant.                                                          *)

\* An id, a token or a code that is in a table was given out, and so was what a redeemed
\* code was: without it a new record could fall on one that is there.
AllWasMinted ==
  DOMAIN users \cup DOMAIN signIns \cup DOMAIN codes \cup redeemed \subseteq minted

-----------------------------------------------------------------------------
(* What the operations do to the tables, row by row.                       *)

\* What is left in signIns when everything of u's is ended.
Ended(u) ==
  /\ DOMAIN signIns' = {t \in DOMAIN signIns : signIns[t].user # u}
  /\ \A t \in DOMAIN signIns' : signIns'[t] = signIns[t]
  /\ signIns' \in [DOMAIN signIns' -> SignIn]

LEMMA EndingIs ==
  ASSUME TypeOK, NEW u, EndsEverySignInOf(u)
  PROVE  Ended(u)
<1> DEFINE S == {t \in DOMAIN signIns : signIns[t].user = u}
<1>1. signIns' = Without(signIns, S)
  BY DEF EndsEverySignInOf
<1>2. signIns \in [DOMAIN signIns -> SignIn]
  BY DEF TypeOK
<1> HIDE DEF S
<1>3. DOMAIN signIns' = DOMAIN signIns \ S
  BY <1>1 DEF Without, Restrict
<1>4. \A t \in DOMAIN signIns' : signIns'[t] = signIns[t]
  BY <1>1, <1>3 DEF Without, Restrict
<1>5. signIns' \in [DOMAIN signIns' -> SignIn]
  BY <1>1, <1>2, WithoutKeepsTheType
<1> QED
  BY <1>3, <1>4, <1>5 DEF Ended, S

\* What is in users and eligible with a new record.
Created(u, record) ==
  /\ DOMAIN users' = DOMAIN users \cup {u}
  /\ users'[u] = record
  /\ \A v \in DOMAIN users \ {u} : users'[v] = users[v]
  /\ users' \in [DOMAIN users' -> User]
  /\ eligible' = eligible \cup {u}

LEMMA CreatingIs ==
  ASSUME TypeOK, NEW u, NEW record \in User, CreatesAUser(u, record)
  PROVE  Created(u, record)
<1>1. users' = With(users, u, record) /\ eligible' = eligible \cup {u}
  BY DEF CreatesAUser
<1>2. users \in [DOMAIN users -> User]
  BY DEF TypeOK
<1>3. users' \in [DOMAIN users' -> User]
  BY <1>1, <1>2, WithKeepsTheType
<1> QED
  BY <1>1, <1>3 DEF Created, With

\* What is left when the record of u goes.
Removed(u) ==
  /\ DOMAIN users' = DOMAIN users \ {u}
  /\ \A v \in DOMAIN users' : users'[v] = users[v]
  /\ users' \in [DOMAIN users' -> User]
  /\ Ended(u)
  /\ DOMAIN codes' = {c \in DOMAIN codes : codes[c].user # u}
  /\ \A c \in DOMAIN codes' : codes'[c] = codes[c]
  /\ codes' \in [DOMAIN codes' -> Enrolment]
  /\ eligible' = eligible \ {u}

LEMMA RemovingIs ==
  ASSUME TypeOK, NEW u, DeletesARecord(u)
  PROVE  Removed(u)
<1> DEFINE S == {c \in DOMAIN codes : codes[c].user = u}
<1>1. users' = Without(users, {u}) /\ codes' = Without(codes, S) /\ eligible' = eligible \ {u}
  BY DEF DeletesARecord
<1>2. users \in [DOMAIN users -> User] /\ codes \in [DOMAIN codes -> Enrolment]
  BY DEF TypeOK
<1>3. Ended(u)
  BY EndingIs DEF DeletesARecord
<1> HIDE DEF S
<1>4. /\ DOMAIN users' = DOMAIN users \ {u}
      /\ \A v \in DOMAIN users' : users'[v] = users[v]
  BY <1>1 DEF Without, Restrict
<1>5. DOMAIN codes' = DOMAIN codes \ S
  BY <1>1 DEF Without, Restrict
<1>6. \A c \in DOMAIN codes' : codes'[c] = codes[c]
  BY <1>1, <1>5 DEF Without, Restrict
<1>7. users' \in [DOMAIN users' -> User] /\ codes' \in [DOMAIN codes' -> Enrolment]
  BY <1>1, <1>2, WithoutKeepsTheType
<1> QED
  BY <1>1, <1>3, <1>4, <1>5, <1>6, <1>7 DEF Removed, S

\* What is in codes once c is issued to u: some of the codes of others, and c.
Issued(u, c) ==
  /\ DOMAIN codes' \subseteq DOMAIN codes \cup {c}
  /\ c \in DOMAIN codes' /\ codes'[c] = [user |-> u, good |-> TRUE]
  /\ \A d \in DOMAIN codes' \ {c} : codes'[d] = codes[d] /\ codes[d].user # u
  /\ codes' \in [DOMAIN codes' -> Enrolment]

LEMMA IssuingIs ==
  ASSUME TypeOK, NEW u \in UserIds, NEW c \in Codes, IssuesACodeTo(u, c)
  PROVE  Issued(u, c)
<1> DEFINE S == {d \in DOMAIN codes : codes[d].good /\ codes[d].user # u}
           kept == Restrict(codes, S)
           row == [user |-> u, good |-> TRUE]
<1>1. codes' = With(kept, c, row)
  BY DEF IssuesACodeTo
<1>2. /\ DOMAIN kept = S
      /\ \A d \in S : kept[d] = codes[d] /\ codes[d].user # u
      /\ S \subseteq DOMAIN codes
  BY DEF Restrict
<1>3. kept \in [DOMAIN kept -> Enrolment] /\ row \in Enrolment
  BY <1>2 DEF TypeOK, Restrict, Enrolment
<1> HIDE DEF S, kept
<1>4. codes' \in [DOMAIN codes' -> Enrolment]
  BY <1>1, <1>3, WithKeepsTheType
<1>5. /\ DOMAIN codes' = DOMAIN kept \cup {c}
      /\ codes'[c] = row
      /\ \A d \in DOMAIN kept \ {c} : codes'[d] = kept[d]
  BY <1>1 DEF With
<1> QED
  BY <1>2, <1>4, <1>5 DEF Issued

-----------------------------------------------------------------------------
(* The steps, by who takes them.                                           *)

OfThePages ==
  \E h \in Handlers, u \in UserIds :
    \/ \E b \in BOOLEAN :
         CreatesAnAccount(h, u, b) \/ SetsTheFlag(h, u, b) \/ SetsTheLock(h, u, b)
    \/ ForcesAReset(h, u)
    \/ DeletesAUser(h, u)
    \/ \E c \in Codes : IssuesACode(h, u, c)
    \/ GrantsEligibility(h, u)
    \/ RevokesEligibility(h, u)

OfAnybody ==
  \/ \E u \in UserIds, t \in Tokens : SignsIn(u, t)
  \/ \E t \in Tokens : SignsOut(t)
  \/ \E c \in Codes : RedeemsACode(c) \/ Expires(c)

OfTheFirst ==
  \E h \in Handlers, u \in UserIds : MakesTheFirstAdministrator(h, u)

OfTheBox ==
  \E u \in UserIds, c \in Codes :
    OpensTheWayIn(u, c) \/ CreatesAnAdministrator(u, c) \/ ResetsAPassword(u, c)

\* The steps that leave every table as it was.
LooksOn ==
  \/ \E h \in Handlers :
       \/ \E t \in Tokens : IsPermitted(h, t)
       \/ WritesNothing(h)
       \/ PresentsTheBootstrapCode(h)
       \/ SpendsItForNothing(h)
  \/ Restarts

LEMMA StepsAreOfThese ==
  Next => OfThePages \/ OfAnybody \/ OfTheFirst \/ OfTheBox \/ LooksOn
BY DEF Next, MakesAnAdministrator, OfThePages, OfAnybody, OfTheFirst, OfTheBox, LooksOn

-----------------------------------------------------------------------------
(* The type invariant, a group of operations at a time.                    *)

\* The parts of TypeOK that a request, and no table, is about.
RequestsOK ==
  /\ bootstrap \in {"none", "minted", "spent"}
  /\ handlers \in [Handlers -> {"idle", "administering", "bootstrapping"}]
  /\ writes \in 0..MaxWrites

TablesOK ==
  /\ DOMAIN users \subseteq UserIds /\ users \in [DOMAIN users -> User]
  /\ DOMAIN signIns \subseteq Tokens /\ signIns \in [DOMAIN signIns -> SignIn]
  /\ DOMAIN codes \subseteq Codes /\ codes \in [DOMAIN codes -> Enrolment]
  /\ eligible \in SUBSET UserIds
  /\ minted \in SUBSET (UserIds \cup Tokens \cup Codes)
  /\ redeemed \in SUBSET Codes

LEMMA TypeOKIsBoth == TypeOK <=> RequestsOK /\ TablesOK
BY DEF TypeOK, RequestsOK, TablesOK

\* A write of an administrator takes one of the writes there are, and ends the request.
LEMMA AdministeringKeepsRequests ==
  ASSUME RequestsOK, NEW h \in Handlers, Administers(h)
  PROVE  RequestsOK'
BY AccountsAssumption DEF RequestsOK, Administers

LEMMA OnTheBoxKeepsRequests ==
  ASSUME RequestsOK, OnTheBox
  PROVE  RequestsOK'
BY AccountsAssumption DEF RequestsOK, OnTheBox, memory

LEMMA PagesKeepTheType ==
  ASSUME TypeOK, OfThePages
  PROVE  TypeOK'
<1> SUFFICES ASSUME NEW h \in Handlers, NEW u \in UserIds,
               \/ \E b \in BOOLEAN :
                    CreatesAnAccount(h, u, b) \/ SetsTheFlag(h, u, b) \/ SetsTheLock(h, u, b)
               \/ ForcesAReset(h, u)
               \/ DeletesAUser(h, u)
               \/ \E c \in Codes : IssuesACode(h, u, c)
               \/ GrantsEligibility(h, u)
               \/ RevokesEligibility(h, u)
             PROVE  TypeOK'
  BY DEF OfThePages
<1>1. Administers(h)
  BY DEF CreatesAnAccount, SetsTheFlag, SetsSystemAdministration, SetsTheLock,
         SetsTheAccountLock, ForcesAReset, DeletesAUser,
         IssuesACode, GrantsEligibility, MakesEligible, RevokesEligibility, MakesIneligible
<1>2. RequestsOK'
  BY <1>1, TypeOKIsBoth, AdministeringKeepsRequests
<1>3. TablesOK /\ redeemed' = redeemed
  BY <1>1, TypeOKIsBoth DEF Administers
<1>4. ASSUME NEW b \in BOOLEAN, CreatesAnAccount(h, u, b) PROVE TypeOK'
  <2> DEFINE record == [admin |-> b, locked |-> FALSE, password |-> {}]
  <2>1. record \in User
    BY DEF User, Password
  <2>2. CreatesAUser(u, record) /\ minted' = minted \cup {u} /\ UNCHANGED <<signIns, codes>>
    BY <1>4 DEF CreatesAnAccount, Mints
  <2> HIDE DEF record
  <2>3. Created(u, record)
    BY <2>1, <2>2, CreatingIs
  <2>4. TablesOK'
    BY <1>3, <2>2, <2>3 DEF TablesOK, Created
  <2> QED
    BY <1>2, <2>4 DEF TypeOK, RequestsOK, TablesOK
<1>5. ASSUME NEW b \in BOOLEAN, SetsTheFlag(h, u, b) PROVE TypeOK'
  <2>1. TablesOK'
    BY <1>3, <1>5 DEF TablesOK, SetsTheFlag, SetsSystemAdministration, User
  <2> QED
    BY <1>2, <2>1 DEF TypeOK, RequestsOK, TablesOK
<1>6. ASSUME NEW b \in BOOLEAN, SetsTheLock(h, u, b) PROVE TypeOK'
  <2>1. users' \in [DOMAIN users' -> User] /\ DOMAIN users' = DOMAIN users
    BY <1>3, <1>6 DEF TablesOK, SetsTheLock, SetsTheAccountLock, User
  <2>2. Ended(u) \/ UNCHANGED signIns
    BY <1>6, EndingIs DEF SetsTheLock, SetsTheAccountLock
  <2>3. TablesOK'
    BY <1>3, <1>6, <2>1, <2>2 DEF TablesOK, SetsTheLock, SetsTheAccountLock, Ended
  <2> QED
    BY <1>2, <2>3 DEF TypeOK, RequestsOK, TablesOK
<1>7. CASE ForcesAReset(h, u)
  <2>1. users' \in [DOMAIN users' -> User] /\ DOMAIN users' = DOMAIN users
    BY <1>3, <1>7 DEF TablesOK, ForcesAReset, ClearsThePassword, User, Password
  <2>2. Ended(u)
    BY <1>7, EndingIs DEF ForcesAReset, ClearsThePassword
  <2>3. TablesOK'
    BY <1>3, <1>7, <2>1, <2>2 DEF TablesOK, ForcesAReset, Ended
  <2> QED
    BY <1>2, <2>3 DEF TypeOK, RequestsOK, TablesOK
<1>8. CASE DeletesAUser(h, u)
  <2>1. Removed(u) /\ UNCHANGED minted
    BY <1>8, RemovingIs DEF DeletesAUser
  <2>2. TablesOK'
    BY <1>3, <2>1 DEF TablesOK, Removed, Ended
  <2> QED
    BY <1>2, <2>2 DEF TypeOK, RequestsOK, TablesOK
<1>9. ASSUME NEW c \in Codes, IssuesACode(h, u, c) PROVE TypeOK'
  <2>1. Issued(u, c)
    BY <1>9, IssuingIs DEF IssuesACode
  <2>2. TablesOK'
    BY <1>3, <1>9, <2>1 DEF TablesOK, Issued, IssuesACode, Mints
  <2> QED
    BY <1>2, <2>2 DEF TypeOK, RequestsOK, TablesOK
<1>10. CASE GrantsEligibility(h, u) \/ RevokesEligibility(h, u)
  <2>1. TablesOK'
    BY <1>3, <1>10 DEF TablesOK, GrantsEligibility, MakesEligible, RevokesEligibility,
       MakesIneligible
  <2> QED
    BY <1>2, <2>1 DEF TypeOK, RequestsOK, TablesOK
<1> QED
  BY <1>4, <1>5, <1>6, <1>7, <1>8, <1>9, <1>10

LEMMA AnybodyKeepsTheType ==
  ASSUME TypeOK, OfAnybody
  PROVE  TypeOK'
<1>1. RequestsOK'
  BY DEF OfAnybody, SignsIn, HasAStoredPassword, SignsOut, EndsASignIn, RedeemsACode, Expires,
         memory, TypeOK, RequestsOK
<1>2. TablesOK
  BY TypeOKIsBoth
<1>3. ASSUME NEW u \in UserIds, NEW t \in Tokens, SignsIn(u, t) PROVE TypeOK'
  <2> DEFINE record == [user |-> u, password |-> users[u].password]
  <2>1. record \in SignIn
    BY <1>2, <1>3 DEF TablesOK, SignsIn, HasAStoredPassword, SignIn, User
  <2>2. signIns' = With(signIns, t, record)
    BY <1>3 DEF SignsIn, HasAStoredPassword
  <2> HIDE DEF record
  <2>3. signIns' \in [DOMAIN signIns' -> SignIn]
    BY <1>2, <2>1, <2>2, WithKeepsTheType DEF TablesOK
  <2>4. DOMAIN signIns' \subseteq Tokens
    BY <1>2, <2>2 DEF With, TablesOK
  <2>5. TablesOK'
    BY <1>2, <1>3, <2>3, <2>4 DEF TablesOK, SignsIn, HasAStoredPassword, Mints
  <2> QED
    BY <1>1, <2>5 DEF TypeOK, RequestsOK, TablesOK
<1>4. ASSUME NEW t \in Tokens, SignsOut(t) PROVE TypeOK'
  <2>1. signIns' \in [DOMAIN signIns' -> SignIn] /\ DOMAIN signIns' \subseteq DOMAIN signIns
    BY <1>2, <1>4 DEF SignsOut, EndsASignIn, Without, Restrict, TablesOK
  <2>2. TablesOK'
    BY <1>2, <1>4, <2>1 DEF TablesOK, SignsOut, EndsASignIn
  <2> QED
    BY <1>1, <2>2 DEF TypeOK, RequestsOK, TablesOK
<1>5. ASSUME NEW c \in Codes, RedeemsACode(c) PROVE TypeOK'
  <2>1. Ended(codes[c].user)
    BY <1>5, EndingIs DEF RedeemsACode
  <2>2. codes' \in [DOMAIN codes' -> Enrolment] /\ DOMAIN codes' \subseteq DOMAIN codes
    BY <1>2, <1>5 DEF RedeemsACode, SpendsTheCode, Without, Restrict, TablesOK
  <2>3. users' \in [DOMAIN users' -> User] /\ DOMAIN users' = DOMAIN users
    BY <1>2, <1>5 DEF RedeemsACode, InPlaceOfTheLast, TablesOK, User, Password
  <2>4. redeemed' = redeemed \cup {c} /\ UNCHANGED <<eligible, minted>>
    BY <1>5 DEF RedeemsACode
  <2>5. TablesOK'
    BY <1>2, <2>1, <2>2, <2>3, <2>4 DEF TablesOK, Ended
  <2> QED
    BY <1>1, <2>5 DEF TypeOK, RequestsOK, TablesOK
<1>6. ASSUME NEW c \in Codes, Expires(c) PROVE TypeOK'
  <2>1. TablesOK'
    BY <1>2, <1>6 DEF TablesOK, Expires, Enrolment
  <2> QED
    BY <1>1, <2>1 DEF TypeOK, RequestsOK, TablesOK
<1> QED
  BY <1>3, <1>4, <1>5, <1>6 DEF OfAnybody

LEMMA TheBoxKeepsTheType ==
  ASSUME TypeOK, OfTheBox
  PROVE  TypeOK'
<1> SUFFICES ASSUME NEW u \in UserIds, NEW c \in Codes,
               OpensTheWayIn(u, c) \/ CreatesAnAdministrator(u, c) \/ ResetsAPassword(u, c)
             PROVE  TypeOK'
  BY DEF OfTheBox
<1>1. OnTheBox
  BY DEF OpensTheWayIn, CreatesAnAdministrator, ResetsAPassword
<1>2. RequestsOK' /\ redeemed' = redeemed /\ TablesOK
  BY <1>1, TypeOKIsBoth, OnTheBoxKeepsRequests DEF OnTheBox
<1>3. Issued(u, c)
  BY IssuingIs DEF OpensTheWayIn, CreatesAnAdministrator, ResetsAPassword
<1>4. minted' \in SUBSET (UserIds \cup Tokens \cup Codes)
  BY <1>2 DEF OpensTheWayIn, CreatesAnAdministrator, ResetsAPassword, Mints, TablesOK
<1>5. CASE OpensTheWayIn(u, c)
  <2>1. users' \in [DOMAIN users' -> User] /\ DOMAIN users' = DOMAIN users
    BY <1>2, <1>5 DEF OpensTheWayIn, TablesOK, User
  <2>2. TablesOK'
    BY <1>2, <1>3, <1>4, <1>5, <2>1 DEF TablesOK, Issued, OpensTheWayIn
  <2> QED
    BY <1>2, <2>2 DEF TypeOK, RequestsOK, TablesOK
<1>6. CASE CreatesAnAdministrator(u, c)
  <2> DEFINE record == [admin |-> TRUE, locked |-> FALSE, password |-> {}]
  <2>1. record \in User
    BY DEF User, Password
  <2>2. CreatesAUser(u, record) /\ UNCHANGED signIns
    BY <1>6 DEF CreatesAnAdministrator
  <2> HIDE DEF record
  <2>3. Created(u, record)
    BY <2>1, <2>2, CreatingIs
  <2>4. TablesOK'
    BY <1>2, <1>3, <1>4, <2>2, <2>3 DEF TablesOK, Issued, Created
  <2> QED
    BY <1>2, <2>4 DEF TypeOK, RequestsOK, TablesOK
<1>7. CASE ResetsAPassword(u, c)
  <2>1. users' \in [DOMAIN users' -> User] /\ DOMAIN users' = DOMAIN users
    BY <1>2, <1>7 DEF ResetsAPassword, ClearsThePassword, TablesOK, User, Password
  <2>2. Ended(u)
    BY <1>7, EndingIs DEF ResetsAPassword, ClearsThePassword
  <2>3. TablesOK'
    BY <1>2, <1>3, <1>4, <1>7, <2>1, <2>2 DEF TablesOK, Issued, Ended, ResetsAPassword
  <2> QED
    BY <1>2, <2>3 DEF TypeOK, RequestsOK, TablesOK
<1> QED
  BY <1>5, <1>6, <1>7

LEMMA TheFirstKeepsTheType ==
  ASSUME TypeOK, OfTheFirst
  PROVE  TypeOK'
<1> SUFFICES ASSUME NEW h \in Handlers, NEW u \in UserIds, MakesTheFirstAdministrator(h, u)
             PROVE  TypeOK'
  BY DEF OfTheFirst
<1> DEFINE record == [admin |-> TRUE, locked |-> FALSE, password |-> {TheBootstrapCode}]
<1>1. record \in User
  BY DEF User, Password
<1>2. CreatesAUser(u, record) /\ UNCHANGED <<signIns, codes, redeemed, writes>>
  BY DEF MakesTheFirstAdministrator
<1>3. RequestsOK' /\ minted' = minted \cup {u}
  BY DEF MakesTheFirstAdministrator, Redeems, TypeOK, RequestsOK, Mints
<1> HIDE DEF record
<1>4. Created(u, record)
  BY <1>1, <1>2, CreatingIs
<1>5. TablesOK'
  BY <1>2, <1>3, <1>4 DEF TypeOK, TablesOK, Created
<1> QED
  BY <1>3, <1>5 DEF TypeOK, RequestsOK, TablesOK

LEMMA LookingOnKeepsTheType ==
  ASSUME TypeOK, LooksOn
  PROVE  TypeOK' /\ UNCHANGED <<users, signIns, codes, eligible, minted, redeemed>>
<1>1. UNCHANGED <<users, signIns, codes, eligible, minted, redeemed, writes>>
  BY DEF LooksOn, IsPermitted, WritesNothing, PresentsTheBootstrapCode,
         SpendsItForNothing, Restarts, MintsUnlessAdministered, tables
<1>2. /\ bootstrap' \in {"none", "minted", "spent"}
      /\ handlers' \in [Handlers -> {"idle", "administering", "bootstrapping"}]
  BY DEF LooksOn, IsPermitted, WritesNothing, PresentsTheBootstrapCode,
         SpendsItForNothing, Redeems, Restarts, MintsUnlessAdministered, TypeOK
<1> QED
  BY <1>1, <1>2 DEF TypeOK

LEMMA StepsKeepTheType ==
  ASSUME TypeOK, [Next]_vars
  PROVE  TypeOK'
<1>1. CASE Next
  BY <1>1, StepsAreOfThese, PagesKeepTheType, AnybodyKeepsTheType, TheFirstKeepsTheType,
     TheBoxKeepsTheType, LookingOnKeepsTheType
<1>2. CASE UNCHANGED vars
  BY <1>2 DEF vars, tables, memory, TypeOK
<1> QED
  BY <1>1, <1>2

LEMMA StartsInType == Init => TypeOK
BY AccountsAssumption DEF Init, TypeOK

\* The tables, the requests and the process hold what they are meant to hold: a row is
\* added, changed and removed as a whole, by whichever of the three writes it.
THEOREM TypeCorrect == Spec => []TypeOK
<1>1. Init => TypeOK
  BY StartsInType
<1>2. TypeOK /\ [Next]_vars => TypeOK'
  BY StepsKeepTheType
<1> QED
  BY <1>1, <1>2, PTL DEF Spec

-----------------------------------------------------------------------------
(* The safety invariants, a change of the tables at a time.                *)

\* What is to be kept, besides the type.
Good ==
  /\ AllWasMinted
  /\ NoSignInOutlivesItsCredential
  /\ OneCodeEnrolsOnce
  /\ NothingOutlivesItsUser

IInv == TypeOK /\ Good

\* NothingOutlivesItsUser, a row at a time.
LEMMA NothingOutlivesIs ==
  NothingOutlivesItsUser <=>
    /\ \A c \in DOMAIN codes : codes[c].user \in DOMAIN users
    /\ eligible \subseteq DOMAIN users
BY DEF NothingOutlivesItsUser

LEMMA NothingOutlivesIsNext ==
  NothingOutlivesItsUser' <=>
    /\ \A c \in DOMAIN codes' : codes'[c].user \in DOMAIN users'
    /\ eligible' \subseteq DOMAIN users'
BY DEF NothingOutlivesItsUser

\* Users are edited, and every one of them whose password or lock moved has been signed out.
Edited(u) ==
  /\ DOMAIN users' = DOMAIN users
  /\ \A v \in DOMAIN users \ {u} : users'[v] = users[v]
  /\ Ended(u) \/ (/\ UNCHANGED signIns
                  /\ u \in DOMAIN users
                  /\ users'[u].password = users[u].password
                  /\ users'[u].locked => users[u].locked)

LEMMA EditingKeepsSignIns ==
  ASSUME NoSignInOutlivesItsCredential, NEW u, Edited(u)
  PROVE  NoSignInOutlivesItsCredential'
BY DEF NoSignInOutlivesItsCredential, Edited, Ended

\* A record is made under an id nobody has had.
LEMMA CreatingKeepsSignIns ==
  ASSUME Good, NEW u, NEW record, u \notin minted, Created(u, record), UNCHANGED signIns
  PROVE  NoSignInOutlivesItsCredential'
BY DEF Good, AllWasMinted, NoSignInOutlivesItsCredential, Created

LEMMA RemovingKeepsSignIns ==
  ASSUME Good, NEW u, Removed(u)
  PROVE  NoSignInOutlivesItsCredential'
BY DEF Good, NoSignInOutlivesItsCredential, Removed, Ended

\* A code nobody has had, in place of the user's last.
LEMMA IssuingKeepsCodes ==
  ASSUME Good, NEW u, NEW c, c \notin minted, Issued(u, c), UNCHANGED redeemed
  PROVE  OneCodeEnrolsOnce'
<1>1. \A d, e \in DOMAIN codes' : codes'[d].user = codes'[e].user => d = e
  BY DEF Good, OneCodeEnrolsOnce, Issued
<1>2. redeemed' \cap DOMAIN codes' = {}
  BY DEF Good, AllWasMinted, OneCodeEnrolsOnce, Issued
<1> QED
  BY <1>1, <1>2 DEF OneCodeEnrolsOnce

LEMMA PagesKeepItGood ==
  ASSUME TypeOK, Good, OfThePages
  PROVE  Good'
<1> SUFFICES ASSUME NEW h \in Handlers, NEW u \in UserIds,
               \/ \E b \in BOOLEAN :
                    CreatesAnAccount(h, u, b) \/ SetsTheFlag(h, u, b) \/ SetsTheLock(h, u, b)
               \/ ForcesAReset(h, u)
               \/ DeletesAUser(h, u)
               \/ \E c \in Codes : IssuesACode(h, u, c)
               \/ GrantsEligibility(h, u)
               \/ RevokesEligibility(h, u)
             PROVE  Good'
  BY DEF OfThePages
<1>1. redeemed' = redeemed
  BY DEF CreatesAnAccount, SetsTheFlag, SetsSystemAdministration, SetsTheLock,
         SetsTheAccountLock, ForcesAReset, DeletesAUser,
         IssuesACode, GrantsEligibility, MakesEligible, RevokesEligibility, MakesIneligible,
         Administers
<1>2. ASSUME NEW b \in BOOLEAN, CreatesAnAccount(h, u, b) PROVE Good'
  <2> DEFINE record == [admin |-> b, locked |-> FALSE, password |-> {}]
  <2>1. record \in User
    BY DEF User, Password
  <2>2. /\ CreatesAUser(u, record)
        /\ UNCHANGED <<signIns, codes>>
        /\ u \notin minted /\ minted' = minted \cup {u}
    BY <1>2 DEF CreatesAnAccount, Mints
  <2> HIDE DEF record
  <2>3. Created(u, record)
    BY <2>1, <2>2, CreatingIs
  <2>4. AllWasMinted'
    BY <1>1, <2>2, <2>3 DEF Good, AllWasMinted, Created
  <2>5. NoSignInOutlivesItsCredential'
    BY <2>2, <2>3, CreatingKeepsSignIns
  <2>6. OneCodeEnrolsOnce'
    BY <1>1, <2>2 DEF Good, OneCodeEnrolsOnce
  <2>7. NothingOutlivesItsUser'
    BY <2>2, <2>3, NothingOutlivesIs, NothingOutlivesIsNext DEF Good, Created
  <2> QED
    BY <2>4, <2>5, <2>6, <2>7 DEF Good
<1>3. ASSUME NEW b \in BOOLEAN, SetsTheFlag(h, u, b) \/ SetsTheLock(h, u, b) PROVE Good'
  <2>1. Edited(u) /\ UNCHANGED <<codes, eligible, minted>>
    <3>1. CASE SetsTheFlag(h, u, b)
      BY <3>1 DEF SetsTheFlag, SetsSystemAdministration, Edited, TypeOK, User
    <3>2. CASE SetsTheLock(h, u, b)
      <4>1. b => Ended(u)
        BY <3>2, EndingIs DEF SetsTheLock, SetsTheAccountLock
      <4>2. ~b => UNCHANGED signIns
        BY <3>2 DEF SetsTheLock, SetsTheAccountLock
      <4> QED
        BY <3>2, <4>1, <4>2 DEF SetsTheLock, SetsTheAccountLock, Edited, TypeOK, User
    <3> QED
      BY <1>3, <3>1, <3>2
  <2>2. NoSignInOutlivesItsCredential'
    BY <2>1, EditingKeepsSignIns DEF Good
  <2>3. AllWasMinted' /\ OneCodeEnrolsOnce'
    BY <1>1, <2>1 DEF Good, AllWasMinted, OneCodeEnrolsOnce, Edited, Ended
  <2>4. NothingOutlivesItsUser'
    BY <2>1, NothingOutlivesIs, NothingOutlivesIsNext DEF Good, Edited
  <2> QED
    BY <2>2, <2>3, <2>4 DEF Good
<1>4. CASE ForcesAReset(h, u)
  <2>1. Edited(u) /\ UNCHANGED <<codes, eligible, minted>>
    BY <1>4, EndingIs DEF ForcesAReset, ClearsThePassword, Edited, TypeOK
  <2>2. NoSignInOutlivesItsCredential'
    BY <2>1, EditingKeepsSignIns DEF Good
  <2>3. AllWasMinted' /\ OneCodeEnrolsOnce'
    BY <1>1, <2>1 DEF Good, AllWasMinted, OneCodeEnrolsOnce, Edited, Ended
  <2>4. NothingOutlivesItsUser'
    BY <2>1, NothingOutlivesIs, NothingOutlivesIsNext DEF Good, Edited
  <2> QED
    BY <2>2, <2>3, <2>4 DEF Good
<1>5. CASE DeletesAUser(h, u)
  <2>1. Removed(u) /\ UNCHANGED minted
    BY <1>5, RemovingIs DEF DeletesAUser
  <2>2. AllWasMinted' /\ OneCodeEnrolsOnce'
    BY <1>1, <2>1 DEF Good, AllWasMinted, OneCodeEnrolsOnce, Removed, Ended
  <2>3. NoSignInOutlivesItsCredential'
    BY <2>1, RemovingKeepsSignIns
  <2>4. NothingOutlivesItsUser'
    BY <2>1, NothingOutlivesIs, NothingOutlivesIsNext DEF Good, Removed
  <2> QED
    BY <2>2, <2>3, <2>4 DEF Good
<1>6. ASSUME NEW c \in Codes, IssuesACode(h, u, c) PROVE Good'
  <2>1. Issued(u, c)
    BY <1>6, IssuingIs DEF IssuesACode
  <2>2. /\ u \in DOMAIN users /\ c \notin minted /\ minted' = minted \cup {c}
        /\ UNCHANGED <<users, signIns, eligible>>
    BY <1>6 DEF IssuesACode, Mints
  <2>3. AllWasMinted'
    BY <1>1, <2>1, <2>2 DEF Good, AllWasMinted, Issued
  <2>4. NoSignInOutlivesItsCredential'
    BY <2>2 DEF Good, NoSignInOutlivesItsCredential
  <2>5. OneCodeEnrolsOnce'
    BY <1>1, <2>1, <2>2, IssuingKeepsCodes
  <2>6. NothingOutlivesItsUser'
    BY <2>1, <2>2, NothingOutlivesIs, NothingOutlivesIsNext DEF Good, Issued
  <2> QED
    BY <2>3, <2>4, <2>5, <2>6 DEF Good
<1>7. CASE GrantsEligibility(h, u) \/ RevokesEligibility(h, u)
  <2>1. UNCHANGED <<users, signIns, codes, minted>>
    BY <1>7 DEF GrantsEligibility, MakesEligible, RevokesEligibility, MakesIneligible
  <2>2. AllWasMinted' /\ NoSignInOutlivesItsCredential' /\ OneCodeEnrolsOnce'
    BY <1>1, <2>1 DEF Good, AllWasMinted, NoSignInOutlivesItsCredential, OneCodeEnrolsOnce
  <2>3. eligible' \subseteq DOMAIN users
    BY <1>7, NothingOutlivesIs DEF Good, GrantsEligibility, MakesEligible, RevokesEligibility,
       MakesIneligible
  <2>4. NothingOutlivesItsUser'
    BY <2>1, <2>3, NothingOutlivesIs, NothingOutlivesIsNext DEF Good
  <2> QED
    BY <2>2, <2>4 DEF Good
<1> QED
  BY <1>2, <1>3, <1>4, <1>5, <1>6, <1>7

LEMMA AnybodyKeepsItGood ==
  ASSUME TypeOK, Good, OfAnybody
  PROVE  Good'
<1>1. ASSUME NEW u \in UserIds, NEW t \in Tokens, SignsIn(u, t) PROVE Good'
  <2> DEFINE record == [user |-> u, password |-> users[u].password]
  <2>1. /\ signIns' = With(signIns, t, record)
        /\ u \in DOMAIN users /\ ~users[u].locked
        /\ t \notin minted /\ minted' = minted \cup {t}
        /\ UNCHANGED <<users, codes, eligible, redeemed>>
    BY <1>1 DEF SignsIn, HasAStoredPassword, Mints
  <2>2. /\ DOMAIN signIns' = DOMAIN signIns \cup {t}
        /\ signIns'[t].user = u /\ signIns'[t].password = users[u].password
        /\ \A k \in DOMAIN signIns \ {t} : signIns'[k] = signIns[k]
    BY <2>1 DEF With
  <2>3. AllWasMinted' /\ NoSignInOutlivesItsCredential' /\ OneCodeEnrolsOnce'
    BY <2>1, <2>2 DEF Good, AllWasMinted, NoSignInOutlivesItsCredential, OneCodeEnrolsOnce
  <2>4. NothingOutlivesItsUser'
    BY <2>1, NothingOutlivesIs, NothingOutlivesIsNext DEF Good
  <2> QED
    BY <2>3, <2>4 DEF Good
<1>2. ASSUME NEW t \in Tokens, SignsOut(t) PROVE Good'
  <2>1. /\ DOMAIN signIns' = DOMAIN signIns \ {t}
        /\ \A k \in DOMAIN signIns' : signIns'[k] = signIns[k]
    BY <1>2 DEF SignsOut, EndsASignIn, Without, Restrict
  <2>2. UNCHANGED <<users, codes, eligible, minted, redeemed>>
    BY <1>2 DEF SignsOut, EndsASignIn
  <2>3. AllWasMinted' /\ NoSignInOutlivesItsCredential' /\ OneCodeEnrolsOnce'
    BY <2>1, <2>2 DEF Good, AllWasMinted, NoSignInOutlivesItsCredential, OneCodeEnrolsOnce
  <2>4. NothingOutlivesItsUser'
    BY <2>2, NothingOutlivesIs, NothingOutlivesIsNext DEF Good
  <2> QED
    BY <2>3, <2>4 DEF Good
<1>3. ASSUME NEW c \in Codes, RedeemsACode(c) PROVE Good'
  <2> DEFINE u == codes[c].user
  <2>1. /\ c \in DOMAIN codes
        /\ redeemed' = redeemed \cup {c}
        /\ UNCHANGED <<eligible, minted>>
    BY <1>3 DEF RedeemsACode
  <2>2. Ended(u)
    BY <1>3, EndingIs DEF RedeemsACode
  <2>3. Edited(u)
    BY <1>3, <2>2 DEF RedeemsACode, Edited, TypeOK
  <2>4. /\ DOMAIN codes' = DOMAIN codes \ {c}
        /\ \A d \in DOMAIN codes' : codes'[d] = codes[d]
    BY <1>3 DEF RedeemsACode, SpendsTheCode, Without, Restrict
  <2> HIDE DEF u
  <2>5. AllWasMinted' /\ OneCodeEnrolsOnce'
    BY <2>1, <2>2, <2>3, <2>4 DEF Good, AllWasMinted, OneCodeEnrolsOnce, Ended, Edited
  <2>6. NoSignInOutlivesItsCredential'
    BY <2>3, EditingKeepsSignIns DEF Good
  <2>7. NothingOutlivesItsUser'
    BY <2>1, <2>3, <2>4, NothingOutlivesIs, NothingOutlivesIsNext DEF Good, Edited
  <2> QED
    BY <2>5, <2>6, <2>7 DEF Good
<1>4. ASSUME NEW c \in Codes, Expires(c) PROVE Good'
  <2>1. /\ DOMAIN codes' = DOMAIN codes
        /\ \A d \in DOMAIN codes : codes'[d].user = codes[d].user
    BY <1>4 DEF Expires, TypeOK, Enrolment
  <2>2. UNCHANGED <<users, signIns, eligible, minted, redeemed>>
    BY <1>4 DEF Expires
  <2>3. AllWasMinted' /\ NoSignInOutlivesItsCredential' /\ OneCodeEnrolsOnce'
    BY <2>1, <2>2 DEF Good, AllWasMinted, NoSignInOutlivesItsCredential, OneCodeEnrolsOnce
  <2>4. NothingOutlivesItsUser'
    BY <2>1, <2>2, NothingOutlivesIs, NothingOutlivesIsNext DEF Good
  <2> QED
    BY <2>3, <2>4 DEF Good
<1> QED
  BY <1>1, <1>2, <1>3, <1>4 DEF OfAnybody

LEMMA TheFirstKeepsItGood ==
  ASSUME TypeOK, Good, OfTheFirst
  PROVE  Good'
<1> SUFFICES ASSUME NEW h \in Handlers, NEW u \in UserIds, MakesTheFirstAdministrator(h, u)
             PROVE  Good'
  BY DEF OfTheFirst
<1> DEFINE record == [admin |-> TRUE, locked |-> FALSE, password |-> {TheBootstrapCode}]
<1>1. record \in User
  BY DEF User, Password
<1>2. /\ CreatesAUser(u, record)
      /\ UNCHANGED <<signIns, codes, redeemed>>
      /\ u \notin minted /\ minted' = minted \cup {u}
  BY DEF MakesTheFirstAdministrator, Mints
<1> HIDE DEF record
<1>3. Created(u, record)
  BY <1>1, <1>2, CreatingIs
<1>4. AllWasMinted' /\ OneCodeEnrolsOnce'
  BY <1>2, <1>3 DEF Good, AllWasMinted, OneCodeEnrolsOnce, Created
<1>5. NoSignInOutlivesItsCredential'
  BY <1>2, <1>3, CreatingKeepsSignIns
<1>6. NothingOutlivesItsUser'
  BY <1>2, <1>3, NothingOutlivesIs, NothingOutlivesIsNext DEF Good, Created
<1> QED
  BY <1>4, <1>5, <1>6 DEF Good

LEMMA TheBoxKeepsItGood ==
  ASSUME TypeOK, Good, OfTheBox
  PROVE  Good'
<1> SUFFICES ASSUME NEW u \in UserIds, NEW c \in Codes,
               OpensTheWayIn(u, c) \/ CreatesAnAdministrator(u, c) \/ ResetsAPassword(u, c)
             PROVE  Good'
  BY DEF OfTheBox
<1>1. Issued(u, c) /\ redeemed' = redeemed /\ c \notin minted
  BY IssuingIs DEF OpensTheWayIn, CreatesAnAdministrator, ResetsAPassword, OnTheBox, Mints
<1>2. OneCodeEnrolsOnce'
  BY <1>1, IssuingKeepsCodes
<1>3. CASE OpensTheWayIn(u, c) \/ ResetsAPassword(u, c)
  <2>1. Edited(u)
    <3>1. CASE OpensTheWayIn(u, c)
      BY <3>1 DEF OpensTheWayIn, Edited, TypeOK, User
    <3>2. CASE ResetsAPassword(u, c)
      BY <3>2, EndingIs DEF ResetsAPassword, ClearsThePassword, Edited, TypeOK
    <3> QED
      BY <1>3, <3>1, <3>2
  <2>2. /\ u \in DOMAIN users /\ minted' = minted \cup {c} /\ UNCHANGED eligible
    BY <1>3 DEF OpensTheWayIn, ResetsAPassword, Mints
  <2>3. AllWasMinted'
    BY <1>1, <2>1, <2>2 DEF Good, AllWasMinted, Edited, Ended, Issued
  <2>4. NoSignInOutlivesItsCredential'
    BY <2>1, EditingKeepsSignIns DEF Good
  <2>5. NothingOutlivesItsUser'
    BY <1>1, <2>1, <2>2, NothingOutlivesIs, NothingOutlivesIsNext DEF Good, Edited, Issued
  <2> QED
    BY <1>2, <2>3, <2>4, <2>5 DEF Good
<1>4. CASE CreatesAnAdministrator(u, c)
  <2> DEFINE record == [admin |-> TRUE, locked |-> FALSE, password |-> {}]
  <2>1. record \in User
    BY DEF User, Password
  <2>2. /\ CreatesAUser(u, record) /\ UNCHANGED signIns
        /\ u \notin minted /\ minted' = minted \cup {u, c}
    BY <1>4 DEF CreatesAnAdministrator, Mints
  <2> HIDE DEF record
  <2>3. Created(u, record)
    BY <2>1, <2>2, CreatingIs
  <2>4. AllWasMinted'
    BY <1>1, <2>2, <2>3 DEF Good, AllWasMinted, Created, Issued
  <2>5. NoSignInOutlivesItsCredential'
    BY <2>2, <2>3, CreatingKeepsSignIns
  <2>6. NothingOutlivesItsUser'
    BY <1>1, <2>3, NothingOutlivesIs, NothingOutlivesIsNext DEF Good, Created, Issued
  <2> QED
    BY <1>2, <2>4, <2>5, <2>6 DEF Good
<1> QED
  BY <1>3, <1>4

LEMMA NothingMovesNothing ==
  ASSUME Good, UNCHANGED <<users, signIns, codes, eligible, minted, redeemed>>
  PROVE  Good'
BY DEF Good, AllWasMinted, NoSignInOutlivesItsCredential, OneCodeEnrolsOnce,
       NothingOutlivesItsUser

LEMMA StepsKeepItGood ==
  ASSUME IInv, [Next]_vars
  PROVE  IInv'
<1>1. TypeOK'
  BY StepsKeepTheType DEF IInv
<1>2. CASE Next
  <2>1. CASE LooksOn
    <3>1. UNCHANGED <<users, signIns, codes, eligible, minted, redeemed>>
      BY <2>1, LookingOnKeepsTheType DEF IInv
    <3>2. Good'
      BY <3>1, NothingMovesNothing DEF IInv
    <3> QED
      BY <1>1, <3>2 DEF IInv
  <2>2. CASE OfThePages \/ OfAnybody \/ OfTheFirst \/ OfTheBox
    BY <1>1, <2>2, PagesKeepItGood, AnybodyKeepsItGood, TheFirstKeepsItGood, TheBoxKeepsItGood
    DEF IInv
  <2> QED
    BY <1>1, <1>2, <2>1, <2>2, StepsAreOfThese DEF IInv
<1>3. CASE UNCHANGED vars
  BY <1>1, <1>3, NothingMovesNothing DEF IInv, vars, tables
<1> QED
  BY <1>2, <1>3

LEMMA StartsGood == Init => IInv
BY StartsInType DEF Init, IInv, Good, AllWasMinted, NoSignInOutlivesItsCredential,
   OneCodeEnrolsOnce, NothingOutlivesItsUser

THEOREM AlwaysGood == Spec => []IInv
<1>1. Init => IInv
  BY StartsGood
<1>2. IInv /\ [Next]_vars => IInv'
  BY StepsKeepItGood
<1> QED
  BY <1>1, <1>2, PTL DEF Spec

\* Nobody is signed in behind a lock, without a record, or with a password that a reset or a
\* code has since done away with; a change of one's own password ends no sign-in.
THEOREM CredentialsHold == Spec => []NoSignInOutlivesItsCredential
BY AlwaysGood, PTL DEF IInv, Good

\* A code is in one pair of hands, and opens a way in once.
THEOREM CodesAreSpent == Spec => []OneCodeEnrolsOnce
BY AlwaysGood, PTL DEF IInv, Good

\* What is about a user goes with the user.
THEOREM UsersTakeTheirsAlong == Spec => []NothingOutlivesItsUser
BY AlwaysGood, PTL DEF IInv, Good

-----------------------------------------------------------------------------
(* The administrators.                                                     *)

\* A record that is there before a step and after it and is not the one the step is about
\* goes on administering, or not, as it did.
Remains == Administrators # {} => Administrators' # {}

LEMMA StepsLeaveAnAdministrator ==
  ASSUME IInv, Next
  PROVE  Remains
<1>1. TypeOK /\ DOMAIN users \subseteq minted
  BY DEF IInv, Good, AllWasMinted
<1>2. CASE OfThePages
  <2> SUFFICES ASSUME NEW h \in Handlers, NEW u \in UserIds,
                 \/ \E b \in BOOLEAN :
                      CreatesAnAccount(h, u, b) \/ SetsTheFlag(h, u, b) \/ SetsTheLock(h, u, b)
                 \/ ForcesAReset(h, u)
                 \/ DeletesAUser(h, u)
                 \/ \E c \in Codes : IssuesACode(h, u, c)
                 \/ GrantsEligibility(h, u)
                 \/ RevokesEligibility(h, u)
               PROVE  Remains
    BY <1>2 DEF OfThePages
  <2>1. ASSUME NEW b \in BOOLEAN, CreatesAnAccount(h, u, b) PROVE Remains
    <3>1. u \notin DOMAIN users
      BY <1>1, <2>1 DEF CreatesAnAccount, Mints
    <3>2. \A v \in DOMAIN users : v \in DOMAIN users' /\ users'[v] = users[v]
      BY <2>1, <3>1 DEF CreatesAnAccount, CreatesAUser, With
    <3> QED
      BY <3>2 DEF Remains, Administrators
  <2>2. ASSUME NEW b \in BOOLEAN, SetsTheFlag(h, u, b) PROVE Remains
    <3>1. \A v \in DOMAIN users \ {u} : v \in DOMAIN users' /\ users'[v] = users[v]
      BY <2>2 DEF SetsTheFlag, SetsSystemAdministration
    <3>2. CASE b
      BY <1>1, <2>2, <3>2 DEF SetsTheFlag, SetsSystemAdministration, Remains, Administrators,
         TypeOK, User
    <3>3. CASE ~b
      BY <2>2, <3>1, <3>3 DEF SetsTheFlag, SetsSystemAdministration, IsTheLastAdministrator,
         Remains, Administrators
    <3> QED
      BY <3>2, <3>3
  <2>3. ASSUME NEW b \in BOOLEAN, SetsTheLock(h, u, b) PROVE Remains
    <3>1. \A v \in DOMAIN users : v \in DOMAIN users' /\ users'[v].admin = users[v].admin
      BY <1>1, <2>3 DEF SetsTheLock, SetsTheAccountLock, TypeOK, User
    <3> QED
      BY <3>1 DEF Remains, Administrators
  <2>4. CASE ForcesAReset(h, u)
    <3>1. \A v \in DOMAIN users : v \in DOMAIN users' /\ users'[v].admin = users[v].admin
      BY <1>1, <2>4 DEF ForcesAReset, ClearsThePassword, TypeOK, User
    <3> QED
      BY <3>1 DEF Remains, Administrators
  <2>5. CASE DeletesAUser(h, u)
    <3>1. \A v \in DOMAIN users \ {u} : v \in DOMAIN users' /\ users'[v] = users[v]
      BY <2>5 DEF DeletesAUser, DeletesARecord, Without, Restrict
    <3> QED
      BY <2>5, <3>1 DEF DeletesAUser, IsTheLastAdministrator, Remains, Administrators
  <2>6. CASE (\E c \in Codes : IssuesACode(h, u, c)) \/ GrantsEligibility(h, u)
               \/ RevokesEligibility(h, u)
    BY <2>6 DEF IssuesACode, GrantsEligibility, MakesEligible, RevokesEligibility,
       MakesIneligible, Remains, Administrators
  <2> QED
    BY <2>1, <2>2, <2>3, <2>4, <2>5, <2>6
<1>3. CASE OfAnybody
  <2>1. ASSUME NEW c \in Codes, RedeemsACode(c) PROVE Remains
    <3>1. \A v \in DOMAIN users : v \in DOMAIN users' /\ users'[v].admin = users[v].admin
      BY <1>1, <2>1 DEF RedeemsACode, TypeOK, User
    <3> QED
      BY <3>1 DEF Remains, Administrators
  <2>2. CASE UNCHANGED users
    BY <2>2 DEF Remains, Administrators
  <2> QED
    BY <1>3, <2>1, <2>2 DEF OfAnybody, SignsIn, HasAStoredPassword, SignsOut, EndsASignIn,
       Expires
<1>4. CASE OfTheFirst
  BY <1>4 DEF OfTheFirst, MakesTheFirstAdministrator, Redeems, NobodyAdministers, Remains
<1>5. CASE OfTheBox
  <2> SUFFICES ASSUME NEW u \in UserIds, NEW c \in Codes,
                 OpensTheWayIn(u, c) \/ CreatesAnAdministrator(u, c) \/ ResetsAPassword(u, c)
               PROVE  Remains
    BY <1>5 DEF OfTheBox
  <2>1. CASE OpensTheWayIn(u, c)
    BY <1>1, <2>1 DEF OpensTheWayIn, Remains, Administrators, TypeOK, User
  <2>2. CASE CreatesAnAdministrator(u, c)
    <3>1. u \notin DOMAIN users
      BY <1>1, <2>2 DEF CreatesAnAdministrator, Mints
    <3>2. \A v \in DOMAIN users : v \in DOMAIN users' /\ users'[v] = users[v]
      BY <2>2, <3>1 DEF CreatesAnAdministrator, CreatesAUser, With
    <3> QED
      BY <3>2 DEF Remains, Administrators
  <2>3. CASE ResetsAPassword(u, c)
    <3>1. \A v \in DOMAIN users : v \in DOMAIN users' /\ users'[v].admin = users[v].admin
      BY <1>1, <2>3 DEF ResetsAPassword, ClearsThePassword, TypeOK, User
    <3> QED
      BY <3>1 DEF Remains, Administrators
  <2> QED
    BY <2>1, <2>2, <2>3
<1>6. CASE LooksOn
  BY <1>1, <1>6, LookingOnKeepsTheType DEF Remains, Administrators
<1> QED
  BY <1>2, <1>3, <1>4, <1>5, <1>6, StepsAreOfThese

\* However many administrators act on one another at once, and whatever the box does
\* meanwhile, one of them is left: each write asks about the last administrator in the
\* transaction that makes it.
THEOREM OneAdministratorIsLeft == Spec => AnAdministratorRemains
<1>1. IInv /\ [Next]_vars => [Administrators # {} => Administrators' # {}]_vars
  <2>1. CASE ~(Next /\ IInv)
    BY <2>1
  <2>2. CASE Next /\ IInv
    BY <2>2, StepsLeaveAnAdministrator DEF Remains
  <2> QED
    BY <2>1, <2>2
<1> QED
  BY <1>1, AlwaysGood, PTL DEF Spec, AnAdministratorRemains

\* Of the records a step makes, the one the bootstrap code opened is made of a deployment
\* that nobody administers.
MakesTheFirst ==
  \A u \in DOMAIN users' \ DOMAIN users :
    users'[u].password = {TheBootstrapCode} => Administrators = {}

LEMMA StepsMakeTheFirst ==
  ASSUME IInv, Next
  PROVE  MakesTheFirst
<1>1. CASE DOMAIN users' \subseteq DOMAIN users
  BY <1>1 DEF MakesTheFirst
<1>2. ASSUME NEW h \in Handlers, NEW u \in UserIds, NEW b \in BOOLEAN, CreatesAnAccount(h, u, b)
      PROVE  MakesTheFirst
  <2>1. DOMAIN users' \ DOMAIN users \subseteq {u} /\ users'[u].password = {}
    BY <1>2 DEF CreatesAnAccount, CreatesAUser, With
  <2> QED
    BY <2>1 DEF MakesTheFirst
<1>3. ASSUME NEW u \in UserIds, NEW c \in Codes, CreatesAnAdministrator(u, c)
      PROVE  MakesTheFirst
  <2>1. DOMAIN users' \ DOMAIN users \subseteq {u} /\ users'[u].password = {}
    BY <1>3 DEF CreatesAnAdministrator, CreatesAUser, With
  <2> QED
    BY <2>1 DEF MakesTheFirst
<1>4. CASE OfTheFirst
  BY <1>4 DEF OfTheFirst, MakesTheFirstAdministrator, Redeems, NobodyAdministers, MakesTheFirst
<1>5. CASE OfThePages
  <2>1. \/ \E h \in Handlers, u \in UserIds, b \in BOOLEAN : CreatesAnAccount(h, u, b)
        \/ DOMAIN users' \subseteq DOMAIN users
    BY <1>5 DEF OfThePages, SetsTheFlag, SetsSystemAdministration, SetsTheLock,
       SetsTheAccountLock, ForcesAReset, ClearsThePassword,
       DeletesAUser, DeletesARecord, Without, Restrict, IssuesACode, GrantsEligibility,
       MakesEligible,
       RevokesEligibility, MakesIneligible
  <2> QED
    BY <1>1, <1>2, <2>1
<1>6. CASE OfTheBox
  <2>1. \/ \E u \in UserIds, c \in Codes : CreatesAnAdministrator(u, c)
        \/ DOMAIN users' \subseteq DOMAIN users
    BY <1>6 DEF OfTheBox, OpensTheWayIn, ResetsAPassword, ClearsThePassword
  <2> QED
    BY <1>1, <1>3, <2>1
<1>7. CASE OfAnybody
  <2>1. DOMAIN users' \subseteq DOMAIN users
    BY <1>7 DEF OfAnybody, SignsIn, HasAStoredPassword, SignsOut, EndsASignIn, RedeemsACode,
       Expires
  <2> QED
    BY <1>1, <2>1
<1>8. CASE LooksOn
  BY <1>1, <1>8, LookingOnKeepsTheType DEF IInv
<1> QED
  BY <1>4, <1>5, <1>6, <1>7, <1>8, StepsAreOfThese

\* The bootstrap code makes a first administrator and no other, though it is presented
\* before the store is asked who there is.
THEOREM TheCodeMakesNoSecond == Spec => TheCodeMakesTheFirst
<1>1. IInv /\ [Next]_vars => [MakesTheFirst]_vars
  <2>1. CASE ~(Next /\ IInv)
    BY <2>1
  <2>2. CASE Next /\ IInv
    BY <2>2, StepsMakeTheFirst
  <2> QED
    BY <2>1, <2>2
<1> QED
  BY <1>1, AlwaysGood, PTL DEF Spec, TheCodeMakesTheFirst, MakesTheFirst

=============================================================================

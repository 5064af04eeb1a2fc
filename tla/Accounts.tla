------------------------------- MODULE Accounts -------------------------------
(***************************************************************************)
(* The people a deployment knows and what lets them in: user records,      *)
(* sign-ins, enrolment codes and eligibility                               *)
(* (src/src/configuration/users.rs, sign_ins.rs, enrolment.rs,             *)
(* eligibility.rs), the bootstrap code (src/src/identity/bootstrap.rs),    *)
(* and the three ways they are written to: the administration pages, the   *)
(* public routes, and the command line on the box, which is another        *)
(* process with the same store.                                            *)
(*                                                                         *)
(* A route under SystemAdministration is permitted in one transaction and  *)
(* writes in another, and anything may happen between the two: handlers    *)
(* says how far each request has come.                                     *)
(*                                                                         *)
(* Left out: names, and with them the refusals they bring; roles but one;  *)
(* a change of one's own password, which ends no sign-in.                  *)
(***************************************************************************)
EXTENDS Naturals, FiniteSets, Functions

CONSTANTS
  UserIds,          \* ids are minted once, whatever becomes of the record
  Tokens,           \* and so are the tokens of sign-ins
  Codes,            \* and enrolment codes
  TheBootstrapCode, \* what the password of the first administrator was set with
  Handlers,         \* the requests under way at once
  MaxWrites         \* bound: the writes made to user records

ASSUME AccountsAssumption ==
  /\ TheBootstrapCode \notin Codes
  /\ MaxWrites \in Nat

VARIABLES
  users,      \* the table of users: a function on the ids in it
  signIns,    \* the table of sign-ins: a function on the tokens in it
  codes,      \* enrolment_codes: a function on the codes in it
  eligible,   \* the users eligible for Observer
  bootstrap,  \* the code this start of the process minted, in memory
  handlers,   \* how far each request has come
  minted,     \* history: the ids, tokens and codes that have been given out
  redeemed,   \* history: the enrolment codes that have been redeemed
  writes      \* the writes that have been made

tables == <<users, signIns, codes, eligible>>
memory == <<bootstrap, handlers>>
vars == <<tables, memory, minted, redeemed, writes>>

\* A password is known here by the code it was set with, and a user has one or none.
Password == {{}} \cup {{c} : c \in Codes \cup {TheBootstrapCode}}

User == [admin : BOOLEAN, locked : BOOLEAN, password : Password]
SignIn == [user : UserIds, password : Password]
Enrolment == [user : UserIds, good : BOOLEAN]

With(f, x, v) == [y \in DOMAIN f \cup {x} |-> IF y = x THEN v ELSE f[y]]
Without(f, S) == Restrict(f, DOMAIN f \ S)

\* The store as its migrations leave it, and a process that found nobody in it.
Init ==
  /\ users = <<>>
  /\ signIns = <<>>
  /\ codes = <<>>
  /\ eligible = {}
  /\ bootstrap = "minted"
  /\ handlers = [h \in Handlers |-> "idle"]
  /\ minted = {}
  /\ redeemed = {}
  /\ writes = 0

-----------------------------------------------------------------------------
(* What is asked of the tables.                                            *)

\* Flag holders and nothing else.
Administrators == {u \in DOMAIN users : users[u].admin}

\* Slip: an administrator who cannot sign in today does not count.
IsTheLastWhoCouldSignIn(u) ==
  {v \in Administrators : ~users[v].locked /\ users[v].password # {}} = {u}

\* is_the_last_administrator.
IsTheLastAdministrator(u) == Administrators = {u}

\* signed_in and whoever_holds: the record, as it is now, of whoever holds a sign-in.
WhoeverHolds(t) == users[signIns[t].user]

\* What SystemAdministration asks.
MayAdminister(t) ==
  /\ t \in DOMAIN signIns
  /\ WhoeverHolds(t).admin /\ ~WhoeverHolds(t).locked

\* stored_password: a locked account resolves to nothing.
HasAStoredPassword(u) ==
  /\ u \in DOMAIN users
  /\ users[u].password # {} /\ ~users[u].locked

-----------------------------------------------------------------------------
(* What is done to the tables.                                             *)

Mints(S) == /\ S \cap minted = {}
            /\ minted' = minted \cup S

\* end_every_sign_in.
EndsEverySignInOf(u) ==
  signIns' = Without(signIns, {t \in DOMAIN signIns : signIns[t].user = u})

\* A new record, with the eligibility every user starts with.
CreatesAUser(u, record) ==
  /\ users' = With(users, u, record)
  /\ eligible' = eligible \cup {u}

\* end_sign_in.
EndsASignIn(t) == signIns' = Without(signIns, {t})

SetsSystemAdministration(u, held) ==
  /\ held \/ ~IsTheLastAdministrator(u)
  /\ users' = [users EXCEPT ![u].admin = held]

\* Locking ends what the user has open.
SetsTheAccountLock(u, locked) ==
  /\ locked => ~IsTheLastAdministrator(u)
  /\ users' = [users EXCEPT ![u].locked = locked]
  /\ IF locked THEN EndsEverySignInOf(u) ELSE UNCHANGED signIns

MakesEligible(u) ==
  /\ u \in DOMAIN users
  /\ eligible' = eligible \cup {u}

MakesIneligible(u) ==
  /\ u \in eligible
  /\ eligible' = eligible \ {u}

\* Slip: what is about the user is left where it is.
DeletesTheRecordAlone(u) ==
  /\ users' = Without(users, {u})
  /\ EndsEverySignInOf(u)
  /\ UNCHANGED <<codes, eligible>>

\* The row goes, and the rows that refer to it with it.
DeletesARecord(u) ==
  /\ users' = Without(users, {u})
  /\ EndsEverySignInOf(u)
  /\ codes' = Without(codes, {c \in DOMAIN codes : codes[c].user = u})
  /\ eligible' = eligible \ {u}

\* issue_enrolment_code: expired rows go on the way past, and the user's last code.
IssuesACodeTo(u, c) ==
  codes' = With(Restrict(codes, {d \in DOMAIN codes : codes[d].good /\ codes[d].user # u}),
                c, [user |-> u, good |-> TRUE])

-----------------------------------------------------------------------------
(* The administration pages.                                               *)

\* The requirement is met: a sign-in of somebody with the flag who is not locked.
IsPermitted(h, t) ==
  /\ handlers[h] = "idle"
  /\ MayAdminister(t)
  /\ handlers' = [handlers EXCEPT ![h] = "administering"]
  /\ UNCHANGED <<tables, bootstrap, minted, redeemed, writes>>

\* The handler's own transaction, which asks nothing of the caller again.
Administers(h) ==
  /\ handlers[h] = "administering"
  /\ handlers' = [handlers EXCEPT ![h] = "idle"]
  /\ writes < MaxWrites
  /\ writes' = writes + 1
  /\ UNCHANGED <<bootstrap, redeemed>>

\* It was refused, or named nobody, or the store failed: rolled back.
WritesNothing(h) ==
  /\ handlers[h] # "idle"
  /\ handlers' = [handlers EXCEPT ![h] = "idle"]
  /\ UNCHANGED <<tables, bootstrap, minted, redeemed, writes>>

CreatesAnAccount(h, u, admin) ==
  /\ Administers(h)
  /\ Mints({u})
  /\ CreatesAUser(u, [admin |-> admin, locked |-> FALSE, password |-> {}])
  /\ UNCHANGED <<signIns, codes>>

\* edit, of the flag.
SetsTheFlag(h, u, held) ==
  /\ Administers(h)
  /\ u \in DOMAIN users
  /\ SetsSystemAdministration(u, held)
  /\ UNCHANGED <<signIns, codes, eligible, minted>>

\* setting_the_lock.
SetsTheLock(h, u, locked) ==
  /\ Administers(h)
  /\ u \in DOMAIN users
  /\ SetsTheAccountLock(u, locked)
  /\ UNCHANGED <<codes, eligible, minted>>

\* Slip: the sign-ins are left to whoever resets the password.
ClearsThePasswordAlone(u) ==
  /\ users' = [users EXCEPT ![u].password = {}]
  /\ UNCHANGED signIns

\* clear_password, which the last administrator is not protected from.
ClearsThePassword(u) ==
  /\ users' = [users EXCEPT ![u].password = {}]
  /\ EndsEverySignInOf(u)

ForcesAReset(h, u) ==
  /\ Administers(h)
  /\ u \in DOMAIN users
  /\ ClearsThePassword(u)
  /\ UNCHANGED <<codes, eligible, minted>>

DeletesAUser(h, u) ==
  /\ Administers(h)
  /\ u \in DOMAIN users
  /\ ~IsTheLastAdministrator(u)
  /\ DeletesARecord(u)
  /\ UNCHANGED minted

IssuesACode(h, u, c) ==
  /\ Administers(h)
  /\ u \in DOMAIN users
  /\ Mints({c})
  /\ IssuesACodeTo(u, c)
  /\ UNCHANGED <<users, signIns, eligible>>

GrantsEligibility(h, u) ==
  /\ Administers(h)
  /\ MakesEligible(u)
  /\ UNCHANGED <<users, signIns, codes, minted>>

RevokesEligibility(h, u) ==
  /\ Administers(h)
  /\ MakesIneligible(u)
  /\ UNCHANGED <<users, signIns, codes, minted>>

-----------------------------------------------------------------------------
(* Anybody at all.                                                         *)

\* The right password of an account that has one and is not locked.
SignsIn(u, t) ==
  /\ HasAStoredPassword(u)
  /\ Mints({t})
  /\ signIns' = With(signIns, t, [user |-> u, password |-> users[u].password])
  /\ UNCHANGED <<users, codes, eligible, memory, redeemed, writes>>

\* Other sign-ins of the same user stand.
SignsOut(t) ==
  /\ t \in DOMAIN signIns
  /\ EndsASignIn(t)
  /\ UNCHANGED <<users, codes, eligible, memory, minted, redeemed, writes>>

\* Slip: the code is looked up, and spent by nobody.
FindsTheCode(c) == UNCHANGED codes

\* spend_enrolment_code.
SpendsTheCode(c) == codes' = Without(codes, {c})

\* set_password.
InPlaceOfTheLast(c) == {c}

\* enrol: spent, set and ended in one transaction.  A password that will not do, or a
\* store that fails, rolls it all back.
RedeemsACode(c) ==
  /\ c \in DOMAIN codes
  /\ codes[c].good
  /\ SpendsTheCode(c)
  /\ users' = [users EXCEPT ![codes[c].user].password = InPlaceOfTheLast(c)]
  /\ EndsEverySignInOf(codes[c].user)
  /\ redeemed' = redeemed \cup {c}
  /\ UNCHANGED <<eligible, memory, minted, writes>>

\* Its time passes, and the row is there until another code is issued.
Expires(c) ==
  /\ c \in DOMAIN codes
  /\ codes[c].good
  /\ codes' = [codes EXCEPT ![c].good = FALSE]
  /\ UNCHANGED <<users, signIns, eligible, memory, minted, redeemed, writes>>

-----------------------------------------------------------------------------
(* The first administrator.                                                *)

\* is_the_code, which spends nothing.
PresentsTheBootstrapCode(h) ==
  /\ handlers[h] = "idle"
  /\ bootstrap = "minted"
  /\ handlers' = [handlers EXCEPT ![h] = "bootstrapping"]
  /\ UNCHANGED <<tables, bootstrap, minted, redeemed, writes>>

\* Slip: the code is taken to say that nobody administers the deployment.
TakesTheCodesWordForIt == TRUE

NobodyAdministers == Administrators = {}

\* redeem, in memory, once nothing but the store can refuse.
Redeems(h) ==
  /\ handlers[h] = "bootstrapping"
  /\ NobodyAdministers
  /\ bootstrap = "minted"
  /\ bootstrap' = "spent"
  /\ handlers' = [handlers EXCEPT ![h] = "idle"]

MakesTheFirstAdministrator(h, u) ==
  /\ Redeems(h)
  /\ Mints({u})
  /\ CreatesAUser(u, [admin |-> TRUE, locked |-> FALSE, password |-> {TheBootstrapCode}])
  /\ UNCHANGED <<signIns, codes, redeemed, writes>>

\* The store fails once the code is spent, and it makes nobody.
SpendsItForNothing(h) ==
  /\ Redeems(h)
  /\ UNCHANGED <<tables, minted, redeemed, writes>>

\* mint_unless_administered.
MintsUnlessAdministered ==
  bootstrap' = IF NobodyAdministers THEN "minted" ELSE "none"

\* What is in memory is lost.
Restarts ==
  /\ MintsUnlessAdministered
  /\ handlers' = [h \in Handlers |-> "idle"]
  /\ UNCHANGED <<tables, minted, redeemed, writes>>

-----------------------------------------------------------------------------
(* The command line on the box.                                            *)

OnTheBox ==
  /\ writes < MaxWrites
  /\ writes' = writes + 1
  /\ UNCHANGED <<memory, redeemed>>

\* open_the_way_in, to a record that is there: the flag, no lock, and a code.
OpensTheWayIn(u, c) ==
  /\ OnTheBox
  /\ u \in DOMAIN users
  /\ Mints({c})
  /\ users' = [users EXCEPT ![u].admin = TRUE, ![u].locked = FALSE]
  /\ IssuesACodeTo(u, c)
  /\ UNCHANGED <<signIns, eligible>>

\* create_an_administrator, of a name the box has never heard of.
CreatesAnAdministrator(u, c) ==
  /\ OnTheBox
  /\ Mints({u, c})
  /\ CreatesAUser(u, [admin |-> TRUE, locked |-> FALSE, password |-> {}])
  /\ IssuesACodeTo(u, c)
  /\ UNCHANGED signIns

\* make_an_administrator.
MakesAnAdministrator(u, c) == OpensTheWayIn(u, c) \/ CreatesAnAdministrator(u, c)

\* reset_a_password.
ResetsAPassword(u, c) ==
  /\ OnTheBox
  /\ u \in DOMAIN users
  /\ Mints({c})
  /\ ClearsThePassword(u)
  /\ IssuesACodeTo(u, c)
  /\ UNCHANGED eligible

-----------------------------------------------------------------------------
Next ==
  \/ \E h \in Handlers :
       \/ \E t \in Tokens : IsPermitted(h, t)
       \/ WritesNothing(h)
       \/ PresentsTheBootstrapCode(h)
       \/ SpendsItForNothing(h)
       \/ \E u \in UserIds :
            \/ \E b \in BOOLEAN :
                 CreatesAnAccount(h, u, b) \/ SetsTheFlag(h, u, b) \/ SetsTheLock(h, u, b)
            \/ ForcesAReset(h, u)
            \/ DeletesAUser(h, u)
            \/ \E c \in Codes : IssuesACode(h, u, c)
            \/ GrantsEligibility(h, u)
            \/ RevokesEligibility(h, u)
            \/ MakesTheFirstAdministrator(h, u)
  \/ \E u \in UserIds, t \in Tokens : SignsIn(u, t)
  \/ \E t \in Tokens : SignsOut(t)
  \/ \E c \in Codes : RedeemsACode(c) \/ Expires(c)
  \/ Restarts
  \/ \E u \in UserIds, c \in Codes :
       MakesAnAdministrator(u, c) \/ ResetsAPassword(u, c)

Spec == Init /\ [][Next]_vars

-----------------------------------------------------------------------------
\* Every variable has the shape the tables give it.
TypeOK ==
  /\ DOMAIN users \subseteq UserIds /\ users \in [DOMAIN users -> User]
  /\ DOMAIN signIns \subseteq Tokens /\ signIns \in [DOMAIN signIns -> SignIn]
  /\ DOMAIN codes \subseteq Codes /\ codes \in [DOMAIN codes -> Enrolment]
  /\ eligible \in SUBSET UserIds
  /\ bootstrap \in {"none", "minted", "spent"}
  /\ handlers \in [Handlers -> {"idle", "administering", "bootstrapping"}]
  /\ minted \in SUBSET (UserIds \cup Tokens \cup Codes)
  /\ redeemed \in SUBSET Codes
  /\ writes \in 0..MaxWrites

\* A sign-in stands for somebody who is there and is not locked, and against the password
\* that was last set for them with a code: locking, resetting, deleting and enrolling end
\* what was open before, whoever does it, and from whichever process.
\* ("there is no state in which a deleted user is signed in"; "nothing standing against the
\* old one is left standing").  A change of one's own password is excepted: it ends no
\* sign-in (transport/password.rs:107).
NoSignInOutlivesItsCredential ==
  \A t \in DOMAIN signIns :
    /\ signIns[t].user \in DOMAIN users
    /\ ~users[signIns[t].user].locked
    /\ users[signIns[t].user].password = signIns[t].password

\* A user has one code at most, and a code that has been redeemed is not there to be
\* redeemed again, whichever of the page and the command line issued it, and in whatever
\* order ("it is expiring, single-use"; "Issuing a second invalidates the first").
OneCodeEnrolsOnce ==
  /\ \A c, d \in DOMAIN codes : codes[c].user = codes[d].user => c = d
  /\ redeemed \cap DOMAIN codes = {}

\* Neither a code nor an eligibility outlives the user it is about: the redemption of the
\* one is "unreachable" code without the record, and ids are never given out again.
NothingOutlivesItsUser ==
  {codes[c].user : c \in DOMAIN codes} \cup eligible \subseteq DOMAIN users

\* Whatever administrators and the box do to one another's records, and in whatever order
\* requests that were permitted earlier are carried out, a deployment that has an
\* administrator goes on having one ("a box could be emptied of administrators one
\* permitted act at a time").
AnAdministratorRemains ==
  [][Administrators # {} => Administrators' # {}]_vars

\* The bootstrap code makes an administrator of a deployment that has none: not the second
\* of two requests that presented it, nor one made after the box has made its own.
TheCodeMakesTheFirst ==
  [][\A u \in DOMAIN users' \ DOMAIN users :
       users'[u].password = {TheBootstrapCode} => Administrators = {}]_vars
=============================================================================

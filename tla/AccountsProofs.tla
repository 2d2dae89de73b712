---------------------------- MODULE AccountsProofs ----------------------------
(***************************************************************************)
(* What sessions and mailed links guarantee, for any number of accounts,   *)
(* sessions, links and requests in flight.                                 *)
(***************************************************************************)
EXTENDS Accounts, TLAPS

\* A request that may end in a session: a login, or the change of a password.
Opens(q) == q.pc \in {"login", "session"} \/ q.goal = "password"

(***************************************************************************)
(* What the row of the account, in the table U, says of a request or of a  *)
(* session, and whether the app was emptied (e).                           *)
(***************************************************************************)
Proved(x, U) == U[x.user].verified /\ (x.old => x.late \/ U[x.user].unrevoked)

Fine(q, U, e) ==
  /\ q \in Request
  /\ q.pc = "idle" => q = Idle
  /\ q.user # None => U[q.user] # None
  /\ q.pc = "login" => q.user = None /\ ~q.old
  /\ Opens(q) /\ q.user # None => Proved(q, U)
  /\ Opens(q) /\ e => q.late
  /\ q.pc = "register" => q.name \in Names
  /\ q.pc \in {"register", "link", "confirm"} => q.email \in Addresses
  /\ q.pc = "check" /\ q.goal = "email" => q.email \in Addresses
  /\ q.pc = "link" => q.goal \in Purposes

Good(x, U, e) ==
  x # None => /\ x \in Session /\ U[x.user] # None
              /\ Proved(x, U)
              /\ e => x.late

Tables ==
  /\ user \in [Ids -> Account \cup {None}]
  /\ sess \in [Sids -> Session \cup {None}]
  /\ link \in [Links -> Link \cup {None}]
  /\ req \in [Requests -> Request]
  /\ maintenance \in BOOLEAN /\ emptied \in BOOLEAN
  /\ emptied => maintenance
  /\ \A l \in Links : link[l] # None => user[link[l].user] # None

Inv ==
  /\ Tables
  /\ \A r \in Requests : Fine(req[r], user, emptied)
  /\ \A s \in Sids : Good(sess[s], user, emptied)
  /\ LinkOnce

-------------------------------------------------------------------------------
(***************************************************************************)
(* Records.                                                                *)
(***************************************************************************)
LEMMA IdleFields ==
  /\ Idle \in Request
  /\ Idle.pc = "idle" /\ Idle.goal = None /\ Idle.user = None /\ Idle.link = None /\ Idle.old = FALSE
  /\ Idle.late = FALSE
BY DEF Idle, Request, Pcs

LEMMA IdleFine == ASSUME NEW U, NEW e PROVE Fine(Idle, U, e)
<1>1. ~Opens(Idle)
  BY IdleFields, NoneAssumption DEF Opens, Goals, NoneAssumption
<1> QED BY <1>1, IdleFields DEF Fine, Idle

LEMMA LateFields ==
  ASSUME NEW q \in Request
  PROVE  LET n == [q EXCEPT !.late = TRUE]
         IN /\ n \in Request /\ n.late = TRUE
            /\ n.pc = q.pc /\ n.goal = q.goal /\ n.user = q.user /\ n.name = q.name /\ n.email = q.email
            /\ n.link = q.link /\ n.old = q.old
BY DEF Request

LEMMA OldFields ==
  ASSUME NEW q \in Request
  PROVE  LET n == [q EXCEPT !.old = TRUE]
         IN /\ n \in Request /\ n.old = TRUE
            /\ n.pc = q.pc /\ n.goal = q.goal /\ n.user = q.user /\ n.name = q.name /\ n.email = q.email
            /\ n.link = q.link /\ n.late = q.late
BY DEF Request

LEMMA GoneFields ==
  ASSUME NEW q \in Request
  PROVE  LET n == [q EXCEPT !.user = None]
         IN /\ n \in Request /\ n.user = None
            /\ n.pc = q.pc /\ n.goal = q.goal /\ n.name = q.name /\ n.email = q.email
            /\ n.link = q.link /\ n.old = q.old /\ n.late = q.late
BY DEF Request

-------------------------------------------------------------------------------
(***************************************************************************)
(* Changes of the table of accounts, seen from a request and a session.    *)
(***************************************************************************)
\* V has the accounts of U, none of them less confirmed or more revoked.
Grown(U, V) ==
  \A i \in Ids : U[i] # None => /\ V[i] # None
                                /\ U[i].verified => V[i].verified
                                /\ U[i].unrevoked => V[i].unrevoked

LEMMA FineGrown ==
  ASSUME NEW U, NEW V, NEW e, Grown(U, V), NEW q, Fine(q, U, e)
  PROVE  Fine(q, V, e)
<1>1. q.user \in Ids \cup {None}
  BY DEF Fine, Request
<1> QED BY <1>1 DEF Fine, Proved, Grown

LEMMA GoodGrown ==
  ASSUME NEW U, NEW V, NEW e, Grown(U, V), NEW x, Good(x, U, e)
  PROVE  Good(x, V, e)
<1>1. x # None => x.user \in Ids
  BY DEF Good, Session
<1> QED BY <1>1 DEF Good, Proved, Grown

\* Rows that did not change for an account.
LEMMA FineSame ==
  ASSUME NEW U, NEW V, NEW e, NEW q, Fine(q, U, e), q.user # None => V[q.user] = U[q.user]
  PROVE  Fine(q, V, e)
BY DEF Fine, Proved

LEMMA GoodSame ==
  ASSUME NEW U, NEW V, NEW e, NEW x, Good(x, U, e), x # None => V[x.user] = U[x.user]
  PROVE  Good(x, V, e)
BY DEF Good, Proved


\* An account in the table has the columns of an account.
LEMMA AccountRow ==
  ASSUME NEW U \in [Ids -> Account \cup {None}], NEW i \in Ids, U[i] # None
  PROVE  /\ U[i] \in Account /\ U[i] # None
         /\ U[i].verified \in BOOLEAN /\ U[i].unrevoked \in BOOLEAN
         /\ U[i].name \in Names /\ U[i].pending \in Addresses \cup {None}
         /\ U[i].email \in Addresses \cup {None}
<1>1. U[i] \in Account
  OBVIOUS
<1> QED BY <1>1 DEF Account

LEMMA Selected ==
  ASSUME NEW n
  PROVE  /\ Credentials(n) \in SUBSET Ids
         /\ \A i \in Credentials(n) : user[i] # None
BY DEF Credentials

\* Another password.
LEMMA RehashedRows ==
  ASSUME Tables, NEW S \in SUBSET Ids, \A i \in S : user[i] # None
  PROVE  /\ Rehashed(S) \in [Ids -> Account \cup {None}]
         /\ Grown(user, Rehashed(S))
         /\ \A i \in S : Rehashed(S)[i].unrevoked = TRUE
<1>1. ASSUME NEW i \in S
      PROVE  LET a == [user[i] EXCEPT !.unrevoked = TRUE]
             IN a \in Account /\ a # None /\ a.unrevoked = TRUE /\ a.verified = user[i].verified
  <2>1. user[i] \in Account
    BY AccountRow DEF Tables
  <2> QED BY <2>1, NoneAssumption DEF Account, NoneAssumption
<1>2. \A i \in Ids : Rehashed(S)[i] = IF i \in S THEN [user[i] EXCEPT !.unrevoked = TRUE] ELSE user[i]
  BY DEF Rehashed
<1>3. Rehashed(S) \in [Ids -> Account \cup {None}]
  BY <1>1 DEF Rehashed, Tables
<1> QED BY <1>1, <1>2, <1>3 DEF Grown

\* Sessions revoked: only the flag unrevoked changes, and only in the accounts S.
LEMMA RevokedRows ==
  ASSUME Tables, NEW S \in SUBSET Ids
  PROVE  /\ Revoked(S) \in [Ids -> Account \cup {None}]
         /\ \A i \in Ids : i \notin S => Revoked(S)[i] = user[i]
         /\ \A i \in Ids : user[i] # None => /\ Revoked(S)[i] # None
                                             /\ Revoked(S)[i].verified = user[i].verified
<1>1. ASSUME NEW i \in S, user[i] # None
      PROVE  LET a == [user[i] EXCEPT !.unrevoked = FALSE]
             IN a \in Account /\ a # None /\ a.verified = user[i].verified
  <2>1. i \in Ids
    OBVIOUS
  <2>2. user[i] \in Account
    BY <1>1, <2>1 DEF Tables
  <2> QED BY <2>2, NoneAssumption DEF Account, NoneAssumption
<1>2. \A i \in Ids : Revoked(S)[i] = IF i \in S /\ user[i] # None THEN [user[i] EXCEPT !.unrevoked = FALSE]
                                                                  ELSE user[i]
  BY DEF Revoked
<1>3. Revoked(S) \in [Ids -> Account \cup {None}]
  BY <1>1 DEF Revoked, Tables
<1> QED BY <1>1, <1>2, <1>3

\* A row inserted where there was none.
LEMMA InsertedRow ==
  ASSUME Tables, NEW i \in Ids, user[i] = None, NEW a \in Account, user' = [user EXCEPT ![i] = a]
  PROVE  user' \in [Ids -> Account \cup {None}] /\ Grown(user, user') /\ user'[i] # None
BY NoneAssumption DEF Tables, Grown, NoneAssumption

-------------------------------------------------------------------------------
(***************************************************************************)
(* Steps of one request: it goes on or ends, and accounts only grow.       *)
(***************************************************************************)
LEMMA LinksKept ==
  ASSUME Inv,
         \A q \in Requests : req'[q].link = req[q].link \/ req'[q].link = None,
         \A l \in Links : link'[l] = link[l] \/ link'[l] = None
  PROVE  LinkOnce'
<1>1. \A q \in Requests : req[q].link \in Links \cup {None}
  BY DEF Inv, Tables, Request
<1> QED BY <1>1 DEF Inv, LinkOnce

LEMMA Answer ==
  ASSUME Inv, NEW r \in Requests, NEW n, Fine(n, user', emptied'), n.link = None,
         req' = [req EXCEPT ![r] = n],
         Grown(user, user'), user' \in [Ids -> Account \cup {None}],
         UNCHANGED <<sess, link, maintenance, emptied>>
  PROVE  Inv'
<1>1. n \in Request
  BY DEF Fine
<1>2. Tables'
  <2>1. \A l \in Links : link[l] # None => link[l].user \in Ids
    BY DEF Inv, Tables, Link
  <2> QED BY <1>1, <2>1 DEF Inv, Tables, Grown
<1>3. ASSUME NEW q \in Requests
      PROVE  Fine(req'[q], user', emptied')
  <2>1. CASE q = r
    BY <2>1 DEF Inv, Tables
  <2>2. CASE q # r
    BY <2>2, FineGrown DEF Inv, Tables
  <2> QED BY <2>1, <2>2
<1>4. \A s \in Sids : Good(sess'[s], user', emptied')
  BY GoodGrown DEF Inv
<1>5. LinkOnce'
  BY LinksKept DEF Inv, Tables
<1> QED BY <1>2, <1>3, <1>4, <1>5 DEF Inv

LEMMA Unlinked ==
  ASSUME NEW U, NEW e, NEW q, Fine(q, U, e), q.pc # "idle"
  PROVE  Fine([q EXCEPT !.link = None], U, e) /\ [q EXCEPT !.link = None].link = None
<1> DEFINE n == [q EXCEPT !.link = None]
<1>1. q \in Request
  BY DEF Fine
<1>2. /\ n \in Request /\ n.link = None
      /\ n.pc = q.pc /\ n.goal = q.goal /\ n.user = q.user /\ n.name = q.name /\ n.email = q.email
      /\ n.old = q.old /\ n.late = q.late
  BY <1>1 DEF Request
<1> HIDE DEF n
<1>3. Opens(n) = Opens(q) /\ (Proved(n, U) = Proved(q, U))
  BY <1>2 DEF Opens, Proved
<1>4. Fine(n, U, e)
  BY <1>2, <1>3 DEF Fine
<1> QED BY <1>2, <1>4 DEF n

LEMMA GoesOn ==
  ASSUME Inv, NEW r \in Requests, NEW n, Fine(n, user', emptied'), n.pc # "idle", Goto(r, n),
         Grown(user, user'), user' \in [Ids -> Account \cup {None}],
         UNCHANGED <<sess, link, maintenance, emptied>>
  PROVE  Inv'
BY Answer, Unlinked DEF Goto

LEMMA Ends ==
  ASSUME Inv, NEW r \in Requests, Done(r),
         Grown(user, user'), user' \in [Ids -> Account \cup {None}],
         UNCHANGED <<sess, link, maintenance, emptied>>
  PROVE  Inv'
BY Answer, IdleFine, IdleFields DEF Done

LEMMA Unchanged ==
  ASSUME Tables, UNCHANGED user
  PROVE  Grown(user, user') /\ user' \in [Ids -> Account \cup {None}]
BY DEF Grown, Tables

LEMMA LoginStep == ASSUME Inv, NEW r \in Requests, NEW n \in Names, Login(r, n) PROVE Inv'
<1> DEFINE x == [Idle EXCEPT !.pc = "login", !.name = n]
<1>1. /\ x \in Request /\ x.pc = "login" /\ x.goal = None /\ x.user = None /\ x.old = FALSE
  BY DEF Idle, Request, Pcs
<1>2. Goto(r, x) /\ ~maintenance /\ UNCHANGED <<user, sess, link, maintenance, emptied>>
  BY DEF Login
<1> HIDE DEF x
<1>3. ~emptied'
  BY <1>2 DEF Inv, Tables
<1>4. Fine(x, user', emptied')
  BY <1>1, <1>3 DEF Fine
<1> QED BY <1>1, <1>2, <1>4, GoesOn, Unchanged DEF Inv

LEMMA CompareStep == ASSUME Inv, NEW r \in Requests, Compare(r) PROVE Inv'
<1>1. UNCHANGED <<user, sess, link, maintenance, emptied>> /\ req[r].pc = "login"
  BY DEF Compare
<1>2. CASE Done(r)
  BY <1>1, <1>2, Ends, Unchanged DEF Inv
<1>3. ASSUME NEW i \in Credentials(req[r].name), user[i].verified,
             Goto(r, [req[r] EXCEPT !.pc = "session", !.user = i])
      PROVE  Inv'
  <2> DEFINE q == req[r]
             x == [q EXCEPT !.pc = "session", !.user = i]
  <2>1. Fine(q, user, emptied) /\ q \in Request /\ q.pc = "login"
    BY <1>1 DEF Inv, Fine
  <2>2. i \in Ids /\ user[i] # None
    BY DEF Credentials
  <2>3. /\ x \in Request /\ x.pc = "session" /\ x.goal = q.goal /\ x.user = i /\ x.old = q.old
        /\ x.late = q.late /\ x.email = q.email /\ x.name = q.name
    BY <2>1, <2>2 DEF Request, Pcs
  <2>4. Goto(r, x)
    BY <1>3
  <2> HIDE DEF q, x
  <2>5. Opens(q) /\ ~q.old
    BY <2>1 DEF Fine, Opens
  <2>6. Fine(x, user, emptied)
    BY <1>3, <2>1, <2>2, <2>3, <2>5 DEF Fine, Proved, Opens
  <2> QED BY <1>1, <2>3, <2>4, <2>6, GoesOn, Unchanged DEF Inv
<1> QED BY <1>2, <1>3 DEF Compare

\* A request takes over what its session had proved.
LEMMA EnterStep ==
  ASSUME Inv, NEW r \in Requests, NEW s \in Sids, NEW pc \in {"check", "others"},
         NEW goal \in {"password", "email", None}, NEW a \in Addresses \cup {None},
         goal = "email" => a \in Addresses, Enter(r, s, pc, goal, a)
  PROVE  Inv'
<1> DEFINE i == sess[s].user
           x == [Idle EXCEPT !.pc = pc, !.goal = goal, !.user = i, !.name = user[i].name, !.email = a,
                             !.sid = s, !.late = sess[s].late, !.old = sess[s].old]
<1>1. UNCHANGED <<user, sess, link, maintenance, emptied>> /\ sess[s] # None /\ Goto(r, x)
  BY DEF Enter
<1>2. Good(sess[s], user, emptied)
  BY DEF Inv
<1>3. /\ i \in Ids /\ user[i] # None /\ sess[s].old \in BOOLEAN /\ sess[s].late \in BOOLEAN
      /\ Proved(sess[s], user) /\ (emptied => sess[s].late)
  BY <1>1, <1>2 DEF Good, Session
<1>4. user[i].name \in Names
  BY <1>3, AccountRow DEF Inv, Tables
<1>5. /\ x \in Request /\ x.pc = pc /\ x.goal = goal /\ x.user = i /\ x.email = a
      /\ x.late = sess[s].late /\ x.old = sess[s].old
  BY <1>3, <1>4 DEF Idle, Request, Pcs, Goals
<1> HIDE DEF x
<1>6. Fine(x, user, emptied)
  BY <1>3, <1>5, NoneAssumption DEF Fine, Proved, NoneAssumption, Goals
<1> QED BY <1>1, <1>5, <1>6, GoesOn, Unchanged DEF Inv

LEMMA CheckPasswordStep == ASSUME Inv, NEW r \in Requests, CheckPassword(r) PROVE Inv'
<1> DEFINE q == req[r]
           x == [q EXCEPT !.pc = "set", !.old = FALSE]
           y == [q EXCEPT !.pc = "link", !.goal = "verify"]
<1>1. UNCHANGED <<user, sess, link, maintenance, emptied>> /\ q.pc = "check"
  BY DEF CheckPassword
<1>2. Fine(q, user, emptied) /\ q \in Request
  BY DEF Inv, Fine
<1>3. CASE Done(r)
  BY <1>1, <1>3, Ends, Unchanged DEF Inv
<1>4. CASE q.goal = "password" /\ Goto(r, x)
  <2>1. /\ x \in Request /\ x.pc = "set" /\ x.goal = "password" /\ x.user = q.user /\ x.old = FALSE
        /\ x.late = q.late
    BY <1>2, <1>4 DEF Request, Pcs
  <2> HIDE DEF x
  <2>2. Fine(x, user, emptied)
    BY <1>2, <1>4, <2>1 DEF Fine, Proved, Opens
  <2> QED BY <1>1, <1>4, <2>1, <2>2, GoesOn, Unchanged DEF Inv
<1>5. CASE q.goal = "email" /\ Goto(r, y)
  <2>1. /\ y \in Request /\ y.pc = "link" /\ y.goal = "verify" /\ y.user = q.user /\ y.email = q.email
    BY <1>2 DEF Request, Pcs, Goals, Purposes
  <2> HIDE DEF y
  <2>2. Fine(y, user, emptied)
    BY <1>1, <1>2, <1>5, <2>1 DEF Fine, Opens, Purposes
  <2> QED BY <1>1, <1>5, <2>1, <2>2, GoesOn, Unchanged DEF Inv
<1> QED BY <1>3, <1>4, <1>5 DEF CheckPassword

LEMMA RegisterStep ==
  ASSUME Inv, NEW r \in Requests, NEW n \in Names, NEW a \in Addresses, Register(r, n, a) PROVE Inv'
<1> DEFINE x == [Idle EXCEPT !.pc = "register", !.name = n, !.email = a]
<1>1. /\ x \in Request /\ x.pc = "register" /\ x.goal = None /\ x.user = None /\ x.name = n /\ x.email = a
  BY DEF Idle, Request, Pcs
<1>2. Goto(r, x) /\ UNCHANGED <<user, sess, link, maintenance, emptied>>
  BY DEF Register
<1> HIDE DEF x
<1>3. Fine(x, user, emptied)
  BY <1>1, NoneAssumption DEF Fine, Opens, NoneAssumption, Goals
<1> QED BY <1>1, <1>2, <1>3, GoesOn, Unchanged DEF Inv

LEMMA InsertUserStep == ASSUME Inv, NEW r \in Requests, InsertUser(r) PROVE Inv'
<1> DEFINE q == req[r]
<1>1. UNCHANGED <<sess, link, maintenance, emptied>> /\ q.pc = "register"
  BY DEF InsertUser
<1>2. CASE Done(r) /\ UNCHANGED user
  BY <1>1, <1>2, Ends, Unchanged DEF Inv
<1>3. ASSUME NEW i \in Ids, user[i] = None, user' = [user EXCEPT ![i] = Unconfirmed(q.name, q.email)],
             Goto(r, [q EXCEPT !.pc = "link", !.goal = "verify", !.user = i])
      PROVE  Inv'
  <2> DEFINE x == [q EXCEPT !.pc = "link", !.goal = "verify", !.user = i]
  <2>1. Fine(q, user, emptied) /\ q \in Request /\ q.name \in Names /\ q.email \in Addresses
    BY <1>1 DEF Inv, Fine
  <2>2. Unconfirmed(q.name, q.email) \in Account
    BY <2>1 DEF Unconfirmed, Account
  <2>3. user' \in [Ids -> Account \cup {None}] /\ Grown(user, user') /\ user'[i] # None
    BY <1>3, <2>2, InsertedRow DEF Inv
  <2>4. /\ x \in Request /\ x.pc = "link" /\ x.goal = "verify" /\ x.user = i /\ x.email = q.email
    BY <2>1 DEF Request, Pcs, Goals, Purposes
  <2>5. Goto(r, x)
    BY <1>3
  <2> HIDE DEF x, q
  <2>6. Fine(x, user', emptied')
    BY <2>1, <2>3, <2>4 DEF Fine, Opens, Purposes
  <2> QED BY <1>1, <2>3, <2>4, <2>5, <2>6, GoesOn
<1> QED BY <1>2, <1>3 DEF InsertUser

\* A request that is about to write a link opens no session.
LEMMA MailStep ==
  ASSUME Inv, NEW r \in Requests, NEW i \in Ids, user[i] # None, NEW a \in Addresses, NEW p \in Purposes,
         Goto(r, [Idle EXCEPT !.pc = "link", !.goal = p, !.user = i, !.email = a]),
         UNCHANGED <<user, sess, link, maintenance, emptied>>
  PROVE  Inv'
<1> DEFINE x == [Idle EXCEPT !.pc = "link", !.goal = p, !.user = i, !.email = a]
<1>1. x \in Request /\ x.pc = "link" /\ x.goal = p /\ x.user = i /\ x.email = a
  BY DEF Idle, Request, Pcs, Goals
<1>2. Goto(r, x)
  OBVIOUS
<1> HIDE DEF x
<1>3. Fine(x, user, emptied)
  BY <1>1 DEF Fine, Opens, Purposes
<1> QED BY <1>1, <1>2, <1>3, GoesOn, Unchanged DEF Inv

LEMMA ResendStep == ASSUME Inv, NEW r \in Requests, NEW n \in Names, ResendVerification(r, n) PROVE Inv'
<1>1. PICK i \in Credentials(n) :
        /\ user[i].pending # None
        /\ Goto(r, [Idle EXCEPT !.pc = "link", !.goal = "verify", !.user = i, !.email = user[i].pending])
  BY DEF ResendVerification
<1>2. i \in Ids /\ user[i] # None
  BY DEF Credentials
<1>3. user[i].pending \in Addresses
  BY <1>1, <1>2, AccountRow DEF Inv, Tables
<1>4. UNCHANGED <<user, sess, link, maintenance, emptied>> /\ "verify" \in Purposes
  BY DEF ResendVerification, Purposes
<1> QED BY <1>1, <1>2, <1>3, <1>4, MailStep

LEMMA ForgotStep == ASSUME Inv, NEW r \in Requests, NEW a \in Addresses, ForgotPassword(r, a) PROVE Inv'
<1>1. PICK i \in UserByEmail(a) :
        Goto(r, [Idle EXCEPT !.pc = "link", !.goal = "reset", !.user = i, !.email = a])
  BY DEF ForgotPassword
<1>2. i \in Ids /\ user[i] # None
  BY DEF UserByEmail
<1>3. UNCHANGED <<user, sess, link, maintenance, emptied>> /\ "reset" \in Purposes
  BY DEF ForgotPassword, Purposes
<1> QED BY <1>1, <1>2, <1>3, MailStep

LEMMA SetEmailStep == ASSUME Inv, NEW r \in Requests, SetEmail(r) PROVE Inv'
<1> DEFINE q == req[r]
           i == q.user
<1>1. UNCHANGED <<sess, link, maintenance, emptied>> /\ q.pc = "confirm" /\ Done(r)
  BY DEF SetEmail
<1>2. CASE UNCHANGED user
  BY <1>1, <1>2, Ends, Unchanged DEF Inv
<1>3. CASE /\ i # None
           /\ user' = [user EXCEPT ![i].email = q.email, ![i].pending = None, ![i].verified = TRUE]
  <2>1. q \in Request /\ q.email \in Addresses /\ i \in Ids /\ user[i] # None
    BY <1>1, <1>3 DEF Inv, Fine, Request
  <2>2. user[i] \in Account
    BY <2>1, AccountRow DEF Inv, Tables
  <2> DEFINE b == [user[i] EXCEPT !.email = q.email, !.pending = None, !.verified = TRUE]
  <2>3. b \in Account /\ b # None /\ b.verified = TRUE /\ b.unrevoked = user[i].unrevoked
    BY <2>1, <2>2, NoneAssumption DEF Account, NoneAssumption
  <2>4. user' = [user EXCEPT ![i] = b]
    BY <1>3, <2>1 DEF Inv, Tables
  <2> HIDE DEF b
  <2>5. user' \in [Ids -> Account \cup {None}] /\ Grown(user, user')
    BY <2>1, <2>3, <2>4 DEF Inv, Tables, Grown
  <2> QED BY <1>1, <2>5, Ends
<1> QED BY <1>2, <1>3 DEF SetEmail

LEMMA FailStep == ASSUME Inv, NEW r \in Requests, Fail(r) PROVE Inv'
BY Ends, Unchanged DEF Fail, Inv

-------------------------------------------------------------------------------
(***************************************************************************)
(* Sessions and links that come and go.                                    *)
(***************************************************************************)
LEMMA CreateSessionStep ==
  ASSUME Inv, NEW r \in Requests, NEW s \in Sids, CreateSession(r, s) PROVE Inv'
<1> DEFINE q == req[r]
           x == [user |-> q.user, old |-> q.old, late |-> q.late]
<1>1. /\ q.pc = "session" /\ q.user # None /\ Done(r) /\ sess' = [sess EXCEPT ![s] = x]
      /\ UNCHANGED <<user, link, maintenance, emptied>>
  BY DEF CreateSession
<1>2. Fine(q, user, emptied) /\ q \in Request
  BY DEF Inv, Fine
<1>3. q.user \in Ids /\ q.old \in BOOLEAN /\ q.late \in BOOLEAN /\ Opens(q)
  BY <1>1, <1>2 DEF Request, Opens
<1>4. x \in Session /\ Good(x, user, emptied)
  BY <1>1, <1>2, <1>3 DEF Session, Good, Fine, Proved
<1> HIDE DEF x, q
<1>5. Tables'
  BY <1>1, <1>4, IdleFields DEF Inv, Tables, Done
<1>6. \A p \in Requests : Fine(req'[p], user', emptied')
  BY <1>1, IdleFine DEF Inv, Tables, Done
<1>7. \A t \in Sids : Good(sess'[t], user', emptied')
  BY <1>1, <1>4 DEF Inv, Tables
<1>8. LinkOnce'
  BY <1>1, IdleFields, LinksKept DEF Inv, Tables, Done
<1> QED BY <1>5, <1>6, <1>7, <1>8 DEF Inv

LEMMA CreateEmailTokenStep ==
  ASSUME Inv, NEW r \in Requests, NEW l \in Links, CreateEmailToken(r, l) PROVE Inv'
<1> DEFINE q == req[r]
           x == [user |-> q.user, email |-> q.email, purpose |-> q.goal]
<1>1. /\ q.pc = "link" /\ q.user # None /\ Done(r) /\ link' = [link EXCEPT ![l] = x]
      /\ \A p \in Requests : req[p].link # l
      /\ UNCHANGED <<user, sess, maintenance, emptied>>
  BY DEF CreateEmailToken
<1>2. Fine(q, user, emptied) /\ q \in Request
  BY DEF Inv, Fine
<1>3. x \in Link /\ x.user = q.user /\ user[q.user] # None
  BY <1>1, <1>2 DEF Request, Fine, Link
<1> HIDE DEF x, q
<1>4. Tables'
  BY <1>1, <1>3, IdleFields DEF Inv, Tables, Done
<1>5. \A p \in Requests : Fine(req'[p], user', emptied')
  BY <1>1, IdleFine DEF Inv, Tables, Done
<1>6. \A t \in Sids : Good(sess'[t], user', emptied')
  BY <1>1 DEF Inv
<1>7. LinkOnce'
  <2>1. \A p \in Requests : req'[p].link # None => p # r /\ req'[p].link = req[p].link /\ req[p].link # l
    BY <1>1, IdleFields DEF Inv, Tables, Done
  <2>2. \A p \in Requests : req[p].link \in Links \cup {None}
    BY DEF Inv, Tables, Request
  <2> QED BY <1>1, <2>1, <2>2 DEF Inv, LinkOnce, Tables
<1> QED BY <1>4, <1>5, <1>6, <1>7 DEF Inv

LEMMA ConsumeEmailTokenStep ==
  ASSUME Inv, NEW r \in Requests, NEW l \in Links, ConsumeEmailToken(r, l) PROVE Inv'
<1> DEFINE i == link[l].user
           next == [Idle EXCEPT !.user = i, !.name = user[i].name, !.link = l]
           n == IF link[l].purpose = "verify" THEN [next EXCEPT !.pc = "confirm", !.email = link[l].email]
                                              ELSE [next EXCEPT !.pc = "set", !.goal = "reset"]
<1>1. /\ link[l] # None /\ req' = [req EXCEPT ![r] = n] /\ link' = [link EXCEPT ![l] = None]
      /\ UNCHANGED <<user, sess, maintenance, emptied>>
  BY DEF ConsumeEmailToken, ConsumeWith
<1>2. link[l] \in Link /\ i \in Ids /\ user[i] # None /\ link[l].email \in Addresses
  BY <1>1 DEF Inv, Tables, Link
<1>3. user[i].name \in Names
  BY <1>2, AccountRow DEF Inv, Tables
<1>4. /\ n \in Request /\ n.link = l /\ n.user = i
      /\ \/ n.pc = "confirm" /\ n.goal = None /\ n.email \in Addresses
         \/ n.pc = "set" /\ n.goal = "reset"
  BY <1>2, <1>3 DEF Idle, Request, Pcs, Goals, Purposes
<1> HIDE DEF n, next
<1>5. Fine(n, user, emptied)
  BY <1>2, <1>4, NoneAssumption DEF Fine, Opens, NoneAssumption, Goals
<1>6. Tables'
  BY <1>1, <1>4 DEF Inv, Tables
<1>7. \A p \in Requests : Fine(req'[p], user', emptied')
  BY <1>1, <1>5 DEF Inv, Tables
<1>8. \A t \in Sids : Good(sess'[t], user', emptied')
  BY <1>1 DEF Inv
<1>9. LinkOnce'
  <2>1. \A p \in Requests : req'[p].link = IF p = r THEN l ELSE req[p].link
    BY <1>1, <1>4 DEF Inv, Tables
  <2>2. \A k \in Links : link'[k] = IF k = l THEN None ELSE link[k]
    BY <1>1 DEF Inv, Tables
  <2>3. \A p \in Requests : req[p].link \in Links \cup {None}
    BY DEF Inv, Tables, Request
  <2> QED BY <1>1, <2>1, <2>2, <2>3 DEF Inv, LinkOnce
<1> QED BY <1>6, <1>7, <1>8, <1>9 DEF Inv

LEMMA ExpireLinkStep == ASSUME Inv, NEW l \in Links, ExpireLink(l) PROVE Inv'
<1>1. link' = [link EXCEPT ![l] = None] /\ UNCHANGED <<user, sess, req, maintenance, emptied>>
  BY DEF ExpireLink
<1>2. Tables' /\ LinkOnce'
  BY <1>1, LinksKept DEF Inv, Tables
<1> QED BY <1>1, <1>2 DEF Inv

\* A session that is closed or has expired.
LEMMA DropStep ==
  ASSUME Inv, NEW gone, Drop(gone), UNCHANGED <<user, link, req, maintenance, emptied>>
  PROVE  Inv'
<1>1. sess' \in [Sids -> Session \cup {None}] /\ \A s \in Sids : sess'[s] = sess[s] \/ sess'[s] = None
  BY DEF Drop, Inv, Tables
<1>2. \A s \in Sids : Good(sess'[s], user', emptied')
  BY <1>1 DEF Inv, Good
<1> QED BY <1>1, <1>2 DEF Inv, Tables, LinkOnce

LEMMA MaintenanceStep == ASSUME Inv, NEW on \in BOOLEAN, AdminMaintenance(on) PROVE Inv'
<1>1. /\ maintenance' = on /\ emptied' = (emptied /\ on) /\ UNCHANGED <<user, sess, link, req>>
  BY DEF AdminMaintenance
<1>2. Tables' /\ LinkOnce'
  BY <1>1 DEF Inv, Tables, LinkOnce
<1>3. emptied' => emptied
  BY <1>1
<1>4. \A r \in Requests : Fine(req'[r], user', emptied')
  BY <1>1, <1>3 DEF Inv, Fine
<1>5. \A s \in Sids : Good(sess'[s], user', emptied')
  BY <1>1, <1>3 DEF Inv, Good
<1> QED BY <1>2, <1>4, <1>5 DEF Inv

LEMMA CreateUserStep ==
  ASSUME Inv, NEW n \in Names, NEW i \in Ids, AdminCreateUser(n, i) PROVE Inv'
<1>1. /\ user[i] = None /\ user' = [user EXCEPT ![i] = Created(n)]
      /\ UNCHANGED <<sess, link, req, maintenance, emptied>>
  BY DEF AdminCreateUser
<1>2. Created(n) \in Account
  BY DEF Created, Account
<1>3. user' \in [Ids -> Account \cup {None}] /\ Grown(user, user')
  BY <1>1, <1>2, InsertedRow DEF Inv
<1>4. \A l \in Links : link[l] # None => link[l].user \in Ids
  BY DEF Inv, Tables, Link
<1>5. Tables' /\ LinkOnce'
  BY <1>1, <1>3, <1>4 DEF Inv, Tables, LinkOnce, Grown
<1>6. \A r \in Requests : Fine(req'[r], user', emptied')
  BY <1>1, <1>3, FineGrown DEF Inv
<1>7. \A s \in Sids : Good(sess'[s], user', emptied')
  BY <1>1, <1>3, GoodGrown DEF Inv
<1> QED BY <1>5, <1>6, <1>7 DEF Inv

-------------------------------------------------------------------------------
(***************************************************************************)
(* Other passwords and revocations: what they make of a request and of a   *)
(* session of the accounts S.                                              *)
(***************************************************************************)
LEMMA Concerned ==
  ASSUME NEW U, NEW e, NEW q, Fine(q, U, e), q.user \in Ids
  PROVE  q \in Request /\ q.user # None /\ q.pc # "idle" /\ q.pc # "login"
BY NoneAssumption, IdleFields DEF Fine, NoneAssumption

LEMMA FineOld ==
  ASSUME NEW U, NEW V, NEW e, Grown(U, V), NEW q, Fine(q, U, e), q.user \in Ids, V[q.user].unrevoked
  PROVE  Fine([q EXCEPT !.old = TRUE], V, e)
<1> DEFINE n == [q EXCEPT !.old = TRUE]
<1>1. q \in Request /\ q.user # None /\ q.pc # "idle" /\ q.pc # "login"
  BY Concerned
<1>2. /\ n \in Request /\ n.pc = q.pc /\ n.goal = q.goal /\ n.user = q.user /\ n.name = q.name
      /\ n.email = q.email /\ n.late = q.late
  BY <1>1, OldFields
<1> HIDE DEF n
<1>3. Opens(n) = Opens(q)
  BY <1>2 DEF Opens
<1>4. Fine(n, V, e)
  BY <1>1, <1>2, <1>3 DEF Fine, Proved, Grown
<1> QED BY <1>4 DEF n

LEMMA FineLate ==
  ASSUME NEW U, NEW V, NEW e, NEW f, NEW q, Fine(q, U, e), q.pc # "idle",
         q.user # None => V[q.user] # None /\ V[q.user].verified = U[q.user].verified
  PROVE  Fine([q EXCEPT !.late = TRUE], V, f)
<1> DEFINE n == [q EXCEPT !.late = TRUE]
<1>1. /\ n \in Request /\ n.pc = q.pc /\ n.goal = q.goal /\ n.user = q.user /\ n.name = q.name
      /\ n.email = q.email /\ n.old = q.old /\ n.late = TRUE
  BY LateFields DEF Fine
<1> HIDE DEF n
<1>2. Opens(n) = Opens(q)
  BY <1>1 DEF Opens
<1>3. Fine(n, V, f)
  BY <1>1, <1>2 DEF Fine, Proved
<1> QED BY <1>3 DEF n

LEMMA FineGone ==
  ASSUME NEW U, NEW V, NEW e, NEW q, Fine(q, U, e), q.user \in Ids
  PROVE  Fine([q EXCEPT !.user = None], V, e)
<1> DEFINE n == [q EXCEPT !.user = None]
<1>1. q \in Request /\ q.user # None /\ q.pc # "idle" /\ q.pc # "login"
  BY Concerned
<1>2. /\ n \in Request /\ n.user = None /\ n.pc = q.pc /\ n.goal = q.goal /\ n.name = q.name
      /\ n.email = q.email /\ n.old = q.old /\ n.late = q.late
  BY <1>1, GoneFields
<1> HIDE DEF n
<1>3. Opens(n) = Opens(q)
  BY <1>2 DEF Opens
<1>4. Fine(n, V, e)
  BY <1>1, <1>2, <1>3 DEF Fine
<1> QED BY <1>4 DEF n

\* Everything that a request or a session of S had proved is an old password now.
LEMMA Outdating ==
  ASSUME Inv, NEW S \in SUBSET Ids, \A i \in S : user[i] # None, user' = Rehashed(S), Outdated(S),
         UNCHANGED <<link, maintenance, emptied>>
  PROVE  /\ user' \in [Ids -> Account \cup {None}] /\ Grown(user, user')
         /\ sess' \in [Sids -> Session \cup {None}]
         /\ \A s \in Sids : Good(sess'[s], user', emptied')
         /\ \A q \in Requests : Fine(Old(req, S)[q], user', emptied') /\ Old(req, S)[q].link = req[q].link
<1>1. /\ user' \in [Ids -> Account \cup {None}] /\ Grown(user, user')
      /\ \A i \in S : user'[i].unrevoked = TRUE
  BY RehashedRows DEF Inv
<1>2. ASSUME NEW s \in Sids
      PROVE  sess'[s] \in Session \cup {None} /\ Good(sess'[s], user', emptied')
  <2>1. Good(sess[s], user, emptied) /\ Good(sess[s], user', emptied')
    BY <1>1, GoodGrown DEF Inv
  <2>2. CASE s \notin SessionsOf(S)
    BY <2>1, <2>2 DEF Outdated, Inv, Tables
  <2>3. CASE s \in SessionsOf(S)
    <3> DEFINE x == [sess[s] EXCEPT !.old = TRUE]
    <3>1. sess[s] \in Session /\ sess[s].user \in S /\ sess[s] # None
      BY <2>3 DEF SessionsOf, Inv, Tables
    <3>2. x \in Session /\ x.user = sess[s].user /\ x.late = sess[s].late /\ sess'[s] = x
      BY <2>3, <3>1 DEF Session, Outdated
    <3> HIDE DEF x
    <3>3. user'[x.user].unrevoked = TRUE
      BY <1>1, <3>1, <3>2
    <3> QED BY <2>1, <3>1, <3>2, <3>3 DEF Good, Proved
  <2> QED BY <2>2, <2>3
<1>3. sess' \in [Sids -> Session \cup {None}]
  BY <1>2 DEF Outdated
<1>4. ASSUME NEW q \in Requests
      PROVE  Fine(Old(req, S)[q], user', emptied') /\ Old(req, S)[q].link = req[q].link
  <2>1. Fine(req[q], user, emptied) /\ Fine(req[q], user', emptied') /\ req[q] \in Request
    BY <1>1, FineGrown DEF Inv, Fine
  <2>2. CASE req[q].user \notin S
    BY <2>1, <2>2 DEF Old
  <2>3. CASE req[q].user \in S
    <3>1. Fine([req[q] EXCEPT !.old = TRUE], user', emptied')
      BY <1>1, <2>1, <2>3, FineOld
    <3> QED BY <2>1, <2>3, <3>1, OldFields DEF Old
  <2> QED BY <2>2, <2>3
<1> QED BY <1>1, <1>2, <1>3, <1>4

\* Everything that a request of S had proved is late, and the sessions of S are gone but for some to spare.
LEMMA Revoking ==
  ASSUME Inv, NEW S \in SUBSET Ids, NEW spare,
         Drop(SessionsOf(S) \ spare), user' = Revoked(S) \/ UNCHANGED user,
         spare # {} => UNCHANGED user,
         UNCHANGED <<link, maintenance, emptied>>
  PROVE  /\ user' \in [Ids -> Account \cup {None}]
         /\ \A i \in Ids : user[i] # None => user'[i] # None
         /\ sess' \in [Sids -> Session \cup {None}]
         /\ \A s \in Sids : Good(sess'[s], user', emptied')
         /\ \A q \in Requests : Fine(Late(req, S)[q], user', emptied') /\ Late(req, S)[q].link = req[q].link
<1>1. /\ user' \in [Ids -> Account \cup {None}]
      /\ \A i \in Ids : i \notin S => user'[i] = user[i]
      /\ \A i \in Ids : user[i] # None => user'[i] # None /\ user'[i].verified = user[i].verified
  BY RevokedRows DEF Inv, Tables
<1>2. sess' \in [Sids -> Session \cup {None}]
  BY DEF Drop, Inv, Tables
<1>3. ASSUME NEW s \in Sids PROVE Good(sess'[s], user', emptied')
  <2>1. Good(sess[s], user, emptied)
    BY DEF Inv
  <2>2. CASE sess'[s] = None
    BY <2>2 DEF Good
  <2>3. CASE sess'[s] # None
    <3>1. sess'[s] = sess[s] /\ (s \notin SessionsOf(S) \/ s \in spare)
      BY <2>3 DEF Drop
    <3>2. sess[s].user \in Ids
      BY <2>1, <2>3, <3>1 DEF Good, Session
    <3>3. user'[sess[s].user] = user[sess[s].user]
      BY <1>1, <2>3, <3>1, <3>2 DEF SessionsOf
    <3> QED BY <2>1, <3>1, <3>3, GoodSame
  <2> QED BY <2>2, <2>3
<1>4. ASSUME NEW q \in Requests
      PROVE  Fine(Late(req, S)[q], user', emptied') /\ Late(req, S)[q].link = req[q].link
  <2>1. Fine(req[q], user, emptied) /\ req[q] \in Request /\ req[q].user \in Ids \cup {None}
    BY DEF Inv, Fine, Request
  <2>2. CASE req[q].user \notin S
    BY <1>1, <2>1, <2>2, FineSame DEF Late
  <2>3. CASE req[q].user \in S
    <3>1. req[q].pc # "idle" /\ user[req[q].user] # None
      BY <2>1, <2>3, Concerned DEF Fine
    <3>2. Fine([req[q] EXCEPT !.late = TRUE], user', emptied')
      BY <1>1, <2>1, <2>3, <3>1, FineLate
    <3> QED BY <2>1, <2>3, <3>2, LateFields DEF Late
  <2> QED BY <2>2, <2>3
<1> QED BY <1>1, <1>2, <1>3, <1>4

LEMMA TablesKept ==
  ASSUME Inv, user' \in [Ids -> Account \cup {None}], \A i \in Ids : user[i] # None => user'[i] # None,
         sess' \in [Sids -> Session \cup {None}], req' \in [Requests -> Request], link' = link,
         maintenance' = maintenance, emptied' \in BOOLEAN, emptied' => maintenance
  PROVE  Tables'
<1>1. \A l \in Links : link[l] # None => link[l].user \in Ids
  BY DEF Inv, Tables, Link
<1> QED BY <1>1 DEF Inv, Tables

LEMMA AdminSetPasswordStep ==
  ASSUME Inv, NEW n \in Names, AdminSetPassword(n) PROVE Inv'
<1> DEFINE S == Credentials(n)
<1>1. /\ user' = Rehashed(S) /\ Outdated(S) /\ req' = Old(req, S) /\ UNCHANGED <<link, maintenance, emptied>>
  BY DEF AdminSetPassword
<1>2. S \in SUBSET Ids /\ \A i \in S : user[i] # None
  BY Selected
<1> HIDE DEF S
<1>3. /\ user' \in [Ids -> Account \cup {None}] /\ Grown(user, user')
      /\ sess' \in [Sids -> Session \cup {None}]
      /\ \A s \in Sids : Good(sess'[s], user', emptied')
      /\ \A q \in Requests : Fine(req'[q], user', emptied') /\ req'[q].link = req[q].link
  BY <1>1, <1>2, Outdating
<1>4. req' \in [Requests -> Request]
  BY <1>1, <1>3 DEF Fine, Old
<1>5. Tables' /\ LinkOnce'
  BY <1>1, <1>3, <1>4, TablesKept, LinksKept DEF Grown, Inv, Tables
<1> QED BY <1>3, <1>5 DEF Inv

LEMMA SetPasswordStep == ASSUME Inv, NEW r \in Requests, SetPassword(r) PROVE Inv'
<1> DEFINE S == Credentials(req[r].name)
           q == req[r]
           n == [q EXCEPT !.pc = "revoke", !.old = FALSE]
<1>1. q.pc = "set" /\ UNCHANGED <<link, maintenance, emptied>>
  BY DEF SetPassword
<1>2. CASE Done(r) /\ UNCHANGED <<user, sess>>
  BY <1>1, <1>2, Ends, Unchanged DEF Inv
<1>3. CASE user' = Rehashed(S) /\ Outdated(S) /\ req' = [Old(req, S) EXCEPT ![r] = n]
  <2>1. S \in SUBSET Ids /\ \A i \in S : user[i] # None
    BY Selected
  <2>2. Fine(q, user, emptied) /\ q \in Request
    BY DEF Inv, Fine
  <2>3. /\ n \in Request /\ n.pc = "revoke" /\ n.goal = q.goal /\ n.user = q.user /\ n.name = q.name
        /\ n.email = q.email /\ n.link = q.link /\ n.old = FALSE /\ n.late = q.late
    BY <2>2 DEF Request, Pcs
  <2> HIDE DEF S, n
  <2>4. /\ user' \in [Ids -> Account \cup {None}] /\ Grown(user, user')
        /\ sess' \in [Sids -> Session \cup {None}]
        /\ \A s \in Sids : Good(sess'[s], user', emptied')
        /\ \A p \in Requests : Fine(Old(req, S)[p], user', emptied') /\ Old(req, S)[p].link = req[p].link
    BY <1>1, <1>3, <2>1, Outdating
  <2>5. Fine(n, user', emptied')
    <3>1. Opens(n) => Opens(q)
      BY <1>1, <2>3 DEF Opens
    <3>2. n.user \in Ids \cup {None}
      BY <2>3 DEF Request
    <3> QED BY <1>1, <2>2, <2>3, <2>4, <3>1, <3>2 DEF Fine, Proved, Grown
  <2>6. \A p \in Requests : req'[p] = IF p = r THEN n ELSE Old(req, S)[p]
    BY <1>3 DEF Old
  <2>7. \A p \in Requests : Fine(req'[p], user', emptied') /\ req'[p].link = req[p].link
    BY <2>3, <2>4, <2>5, <2>6
  <2>8. req' \in [Requests -> Request]
    BY <1>3, <2>7 DEF Fine, Old
  <2>9. Tables' /\ LinkOnce'
    BY <1>1, <2>4, <2>7, <2>8, TablesKept, LinksKept DEF Grown, Inv, Tables
  <2> QED BY <2>4, <2>7, <2>9 DEF Inv
<1> QED BY <1>2, <1>3 DEF SetPassword

LEMMA AdminRevokeSessionsStep ==
  ASSUME Inv, NEW n \in Names, AdminRevokeSessions(n) PROVE Inv'
<1> DEFINE S == Credentials(n)
<1>1. /\ Drop(SessionsOf(S) \ {}) /\ user' = Revoked(S) /\ req' = Late(req, S)
      /\ UNCHANGED <<link, maintenance, emptied>>
  BY DEF AdminRevokeSessions, Drop
<1>2. S \in SUBSET Ids
  BY Selected
<1> HIDE DEF S
<1>3. /\ user' \in [Ids -> Account \cup {None}]
      /\ \A i \in Ids : user[i] # None => user'[i] # None
      /\ sess' \in [Sids -> Session \cup {None}]
      /\ \A s \in Sids : Good(sess'[s], user', emptied')
      /\ \A q \in Requests : Fine(req'[q], user', emptied') /\ req'[q].link = req[q].link
  BY <1>1, <1>2, Revoking
<1>4. req' \in [Requests -> Request]
  BY <1>1, <1>3 DEF Fine, Late
<1>5. Tables' /\ LinkOnce'
  BY <1>1, <1>3, <1>4, TablesKept, LinksKept DEF Inv, Tables
<1> QED BY <1>3, <1>5 DEF Inv

LEMMA DeleteOtherSessionsStep ==
  ASSUME Inv, NEW r \in Requests, DeleteOtherSessions(r) PROVE Inv'
<1> DEFINE S == {req[r].user} \ {None}
<1>1. /\ Drop(SessionsOf(S) \ {req[r].sid}) /\ req' = [Late(req, S) EXCEPT ![r] = Idle]
      /\ UNCHANGED <<user, link, maintenance, emptied>>
  BY DEF DeleteOtherSessions
<1>2. S \in SUBSET Ids
  BY DEF Inv, Tables, Request
<1> HIDE DEF S
<1>3. /\ user' \in [Ids -> Account \cup {None}]
      /\ \A i \in Ids : user[i] # None => user'[i] # None
      /\ sess' \in [Sids -> Session \cup {None}]
      /\ \A s \in Sids : Good(sess'[s], user', emptied')
      /\ \A q \in Requests : Fine(Late(req, S)[q], user', emptied') /\ Late(req, S)[q].link = req[q].link
  BY <1>1, <1>2, Revoking
<1>4. \A q \in Requests : req'[q] = IF q = r THEN Idle ELSE Late(req, S)[q]
  BY <1>1 DEF Late
<1>5. \A q \in Requests : Fine(req'[q], user', emptied') /\ (req'[q].link = req[q].link \/ req'[q].link = None)
  BY <1>3, <1>4, IdleFine, IdleFields
<1>6. req' \in [Requests -> Request]
  BY <1>1, <1>5 DEF Fine, Late
<1>7. Tables' /\ LinkOnce'
  BY <1>1, <1>3, <1>5, <1>6, TablesKept, LinksKept DEF Inv, Tables
<1> QED BY <1>3, <1>5, <1>7 DEF Inv

LEMMA RevokeSessionsStep == ASSUME Inv, NEW r \in Requests, RevokeSessions(r) PROVE Inv'
<1> DEFINE q == req[r]
           S == Credentials(q.name)
           n == AfterRevoke(r)
<1>1. /\ q.pc = "revoke" /\ Drop(SessionsOf(S) \ {}) /\ user' = Revoked(S)
      /\ req' = [Late(req, S) EXCEPT ![r] = n]
      /\ UNCHANGED <<link, maintenance, emptied>>
  BY DEF RevokeSessions, Drop
<1>2. S \in SUBSET Ids
  BY Selected
<1>3. Fine(q, user, emptied) /\ q \in Request
  BY DEF Inv, Fine
<1> HIDE DEF S
<1>4. /\ user' \in [Ids -> Account \cup {None}]
      /\ \A i \in Ids : user[i] # None => user'[i] # None
      /\ sess' \in [Sids -> Session \cup {None}]
      /\ \A s \in Sids : Good(sess'[s], user', emptied')
      /\ \A p \in Requests : Fine(Late(req, S)[p], user', emptied') /\ Late(req, S)[p].link = req[p].link
  BY <1>1, <1>2, Revoking
<1>5. \A i \in Ids : user[i] # None => user'[i].verified = user[i].verified
  BY <1>1, <1>2, RevokedRows DEF Inv
<1>6. Fine(n, user', emptied') /\ (n.link = q.link \/ n.link = None)
  <2>1. CASE q.goal # "password"
    BY <2>1, IdleFine, IdleFields DEF AfterRevoke
  <2>2. CASE q.goal = "password"
    <3>1. n = [q EXCEPT !.pc = "session", !.late = q.late \/ q.old]
      BY <2>2 DEF AfterRevoke
    <3>2. /\ n \in Request /\ n.pc = "session" /\ n.goal = q.goal /\ n.user = q.user /\ n.name = q.name
          /\ n.email = q.email /\ n.link = q.link /\ n.old = q.old /\ n.late = (q.late \/ q.old)
      BY <1>3, <3>1 DEF Request, Pcs
    <3>3. n.user \in Ids \cup {None} /\ Opens(q)
      BY <2>2, <3>2 DEF Request, Opens
    <3> HIDE DEF n, q
    <3> QED BY <1>1, <1>3, <1>4, <1>5, <3>2, <3>3 DEF Fine, Proved
  <2> QED BY <2>1, <2>2
<1> HIDE DEF n
<1>7. \A p \in Requests : req'[p] = IF p = r THEN n ELSE Late(req, S)[p]
  BY <1>1 DEF Late
<1>8. \A p \in Requests : Fine(req'[p], user', emptied') /\ (req'[p].link = req[p].link \/ req'[p].link = None)
  BY <1>4, <1>6, <1>7
<1>9. req' \in [Requests -> Request]
  BY <1>1, <1>8 DEF Fine, Late
<1>10. Tables' /\ LinkOnce'
  BY <1>1, <1>4, <1>8, <1>9, TablesKept, LinksKept DEF Inv, Tables
<1> QED BY <1>4, <1>8, <1>10 DEF Inv

LEMMA AdminRevokeAllSessionsStep == ASSUME Inv, AdminRevokeAllSessions PROVE Inv'
<1>1. /\ Drop(Sids) /\ user' = Revoked(Ids) /\ emptied' = maintenance
      /\ req' = [r \in Requests |-> IF req[r] = Idle THEN Idle ELSE [req[r] EXCEPT !.late = TRUE]]
      /\ UNCHANGED <<link, maintenance>>
  BY DEF AdminRevokeAllSessions
<1>2. /\ user' \in [Ids -> Account \cup {None}]
      /\ \A i \in Ids : user[i] # None => user'[i] # None /\ user'[i].verified = user[i].verified
  BY <1>1, RevokedRows DEF Inv
<1>3. ASSUME NEW r \in Requests
      PROVE  Fine(req'[r], user', emptied') /\ req'[r].link = req[r].link
  <2>1. Fine(req[r], user, emptied) /\ req[r] \in Request /\ req[r].user \in Ids \cup {None}
    BY DEF Inv, Fine, Request
  <2>2. CASE req[r] = Idle
    BY <1>1, <2>2, IdleFine
  <2>3. CASE req[r] # Idle
    <3>1. req[r].pc # "idle" /\ (req[r].user # None => user[req[r].user] # None)
      BY <2>1, <2>3 DEF Fine
    <3>2. Fine([req[r] EXCEPT !.late = TRUE], user', emptied')
      BY <1>2, <2>1, <3>1, FineLate
    <3> QED BY <1>1, <2>1, <2>3, <3>2, LateFields
  <2> QED BY <2>2, <2>3
<1>4. /\ sess' \in [Sids -> Session \cup {None}]
      /\ \A s \in Sids : Good(sess'[s], user', emptied')
  BY <1>1 DEF Drop, Good
<1>5. req' \in [Requests -> Request]
  BY <1>1, <1>3 DEF Fine
<1>6. Tables' /\ LinkOnce'
  BY <1>1, <1>2, <1>3, <1>4, <1>5, TablesKept, LinksKept DEF Inv, Tables
<1> QED BY <1>3, <1>4, <1>6 DEF Inv

\* Accounts deleted with their sessions and links.
LEMMA DeletedStep ==
  ASSUME Inv, NEW S \in SUBSET Ids, Deleted(S), UNCHANGED <<maintenance, emptied>>
  PROVE  Inv'
<1>1. /\ user' = [i \in Ids |-> IF i \in S THEN None ELSE user[i]]
      /\ sess' = [s \in Sids |-> IF s \in SessionsOf(S) THEN None ELSE sess[s]]
      /\ link' = [l \in Links |-> IF link[l] # None /\ link[l].user \in S THEN None ELSE link[l]]
      /\ req' = [r \in Requests |-> IF req[r].user \in S THEN [req[r] EXCEPT !.user = None] ELSE req[r]]
  BY DEF Deleted, Drop
<1>2. ASSUME NEW r \in Requests
      PROVE  Fine(req'[r], user', emptied') /\ req'[r].link = req[r].link
  <2>1. Fine(req[r], user, emptied) /\ req[r] \in Request /\ req[r].user \in Ids \cup {None}
    BY DEF Inv, Fine, Request
  <2>2. CASE req[r].user \notin S
    BY <1>1, <2>1, <2>2, FineSame
  <2>3. CASE req[r].user \in S
    <3>1. Fine([req[r] EXCEPT !.user = None], user', emptied')
      BY <2>1, <2>3, FineGone
    <3> QED BY <1>1, <2>1, <2>3, <3>1, GoneFields
  <2> QED BY <2>2, <2>3
<1>3. ASSUME NEW s \in Sids PROVE Good(sess'[s], user', emptied')
  <2>1. Good(sess[s], user, emptied)
    BY DEF Inv
  <2>2. CASE sess'[s] = None
    BY <2>2 DEF Good
  <2>3. CASE sess'[s] # None
    <3>1. sess'[s] = sess[s] /\ sess[s] # None /\ sess[s].user \notin S
      BY <1>1, <2>3 DEF SessionsOf
    <3>2. sess[s].user \in Ids
      BY <2>1, <3>1 DEF Good, Session
    <3> QED BY <1>1, <2>1, <3>1, <3>2, GoodSame
  <2> QED BY <2>2, <2>3
<1>4. Tables'
  <2>1. \A l \in Links : link[l] # None => link[l].user \in Ids
    BY DEF Inv, Tables, Link
  <2>2. req' \in [Requests -> Request]
    BY <1>1, <1>2 DEF Fine
  <2> QED BY <1>1, <2>1, <2>2 DEF Inv, Tables
<1>5. LinkOnce'
  BY <1>1, <1>2, LinksKept DEF Inv, Tables
<1> QED BY <1>2, <1>3, <1>4, <1>5 DEF Inv

-------------------------------------------------------------------------------
(***************************************************************************)
(* Every step keeps the invariant.                                         *)
(***************************************************************************)
LEMMA HandlerStep == ASSUME Inv, NEW r \in Requests, Handler(r) PROVE Inv'
<1>1. CASE \E n \in Names : Login(r, n) \/ ResendVerification(r, n)
  BY <1>1, LoginStep, ResendStep
<1>2. CASE \E n \in Names, a \in Addresses : Register(r, n, a)
  BY <1>2, RegisterStep
<1>3. CASE \E a \in Addresses : ForgotPassword(r, a)
  BY <1>3, ForgotStep
<1>4. CASE \E s \in Sids : SetMyPassword(r, s) \/ DeleteMyOtherSessions(r, s) \/ CreateSession(r, s)
  <2>1. ASSUME NEW s \in Sids, SetMyPassword(r, s) PROVE Inv'
    <3>1. Enter(r, s, "check", "password", None)
      BY <2>1 DEF SetMyPassword
    <3> QED BY <3>1, EnterStep
  <2>2. ASSUME NEW s \in Sids, DeleteMyOtherSessions(r, s) PROVE Inv'
    <3>1. Enter(r, s, "others", None, None) /\ None # "email"
      BY <2>2, NoneAssumption DEF DeleteMyOtherSessions, NoneAssumption, Goals
    <3> QED BY <3>1, EnterStep
  <2> QED BY <1>4, <2>1, <2>2, CreateSessionStep
<1>5. CASE \E s \in Sids, a \in Addresses : SetMyEmail(r, s, a)
  <2>1. PICK s \in Sids, a \in Addresses : Enter(r, s, "check", "email", a)
    BY <1>5 DEF SetMyEmail
  <2> QED BY <2>1, EnterStep
<1>6. CASE \E l \in Links : CreateEmailToken(r, l) \/ ConsumeEmailToken(r, l)
  BY <1>6, CreateEmailTokenStep, ConsumeEmailTokenStep
<1>7. CASE Compare(r) \/ CheckPassword(r) \/ SetPassword(r) \/ RevokeSessions(r) \/ DeleteOtherSessions(r)
  BY <1>7, CompareStep, CheckPasswordStep, SetPasswordStep, RevokeSessionsStep, DeleteOtherSessionsStep
<1>8. CASE InsertUser(r) \/ SetEmail(r) \/ Fail(r)
  BY <1>8, InsertUserStep, SetEmailStep, FailStep
<1> QED BY <1>1, <1>2, <1>3, <1>4, <1>5, <1>6, <1>7, <1>8 DEF Handler

LEMMA OperatorStep == ASSUME Inv, Operator PROVE Inv'
<1>1. ASSUME NEW n \in Names, UserAdd(n) PROVE Inv'
  BY <1>1, CreateUserStep, AdminSetPasswordStep DEF UserAdd
<1>2. ASSUME NEW n \in Names, AdminDeleteUser(n) PROVE Inv'
  BY <1>2, DeletedStep, Selected DEF AdminDeleteUser
<1>3. ASSUME NEW n \in Names, AdminSetPassword(n) \/ AdminRevokeSessions(n) PROVE Inv'
  BY <1>3, AdminSetPasswordStep, AdminRevokeSessionsStep
<1> QED
  BY <1>1, <1>2, <1>3, CreateUserStep, AdminRevokeAllSessionsStep, MaintenanceStep DEF Operator

LEMMA JanitorStep == ASSUME Inv, Janitor PROVE Inv'
<1>1. ASSUME NEW s \in Sids, ExpireSession(s) \/ Logout(s) PROVE Inv'
  BY <1>1, DropStep DEF ExpireSession, Logout
<1>2. CASE DeleteUnconfirmedUsers
  BY <1>2, DeletedStep DEF DeleteUnconfirmedUsers
<1> QED BY <1>1, <1>2, ExpireLinkStep DEF Janitor

LEMMA Invariance == Spec => []Inv
<1>1. Init => Inv
  <2> SUFFICES ASSUME Init PROVE Inv
    OBVIOUS
  <2>1. \A r \in Requests : req[r] = Idle
    BY DEF Init
  <2>2. Tables /\ LinkOnce
    BY <2>1, IdleFields DEF Init, Tables, LinkOnce
  <2> QED BY <2>1, <2>2, IdleFine DEF Inv, Init, Good
<1>2. Inv /\ [Next]_vars => Inv'
  <2> SUFFICES ASSUME Inv, [Next]_vars PROVE Inv'
    OBVIOUS
  <2>1. CASE UNCHANGED vars
    BY <2>1 DEF vars, Inv, Tables, LinkOnce
  <2> QED BY <2>1, HandlerStep, OperatorStep, JanitorStep DEF Next
<1> QED BY <1>1, <1>2, PTL DEF Spec

\* A mailed link acts once, however many requests open it (store.ConsumeEmailToken deletes and returns in one statement).
THEOREM LinksActOnce == Spec => []LinkOnce
<1>1. Inv => LinkOnce
  BY DEF Inv
<1> QED BY <1>1, Invariance, PTL

\* Nobody is logged in to an account whose address was never confirmed (login, Register, SetEmail and the janitor).
THEOREM ConfirmedAlways == Spec => []ConfirmedOnly
<1>1. Inv => ConfirmedOnly
  BY DEF Inv, Good, Proved, ConfirmedOnly
<1> QED BY <1>1, Invariance, PTL

\* In maintenance mode, after all sessions were revoked, only requests in flight can leave a session behind.
THEOREM AppEmpties == Spec => []EmptyApp
<1>1. Inv => EmptyApp
  BY DEF Inv, Good, EmptyApp
<1> QED BY <1>1, Invariance, PTL

\* A changed password leaves no session of an old one, save those of requests that had compared it before (setPassword).
THEOREM ChangesRevoke == Spec => []RevokedByChange
<1>1. Inv => RevokedByChange
  BY DEF Inv, Good, Proved, RevokedByChange
<1> QED BY <1>1, Invariance, PTL
===============================================================================

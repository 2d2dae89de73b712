------------------------------ MODULE Accounts ------------------------------
(***************************************************************************)
(* Accounts, their sessions and the links mailed to their addresses, as    *)
(* the handlers of internal/web/{auth,account,admin}.go change the tables  *)
(* users, sessions and email_tokens through internal/store/users.go.       *)
(*                                                                         *)
(* One SQL statement is one action: no handler opens a transaction, so     *)
(* those of several requests interleave, and DELETE ... RETURNING or an    *)
(* UPDATE is atomic.  A handler keeps what it read (an id, a name, an      *)
(* address) in req[r] and acts on it later.  Passwords and hashes are not  *)
(* values here: typing the right password is a choice, and a flag says     *)
(* whether what a request or a session proved is the password of today.    *)
(* Any statement may fail (Fail), any attempt may be refused by a rate     *)
(* limit (RateLimits), a session or link may expire whenever it is unused  *)
(* for long enough (SessionClock): both are a request that does not start. *)
(***************************************************************************)
EXTENDS Naturals, FiniteSets

CONSTANTS
    Ids,        \* users.id; an id that is free stands for the next one
    Names,      \* user names, lower case
    Addresses,  \* email addresses
    Sids,       \* session ids (the hash of the cookie)
    Links,      \* ids of mailed one-time tokens
    Requests,   \* requests in flight
    None

VARIABLES
    user,        \* user[i]: row of users, or None
    sess,        \* sess[s]: live row of sessions, or None
    link,        \* link[l]: live row of email_tokens, or None
    req,         \* req[r]: the handler r is in and what it has read
    maintenance, \* settings.maintenance
    emptied      \* history: all sessions revoked since maintenance was switched on

vars == <<user, sess, link, req, maintenance, emptied>>

Purposes == {"verify", "reset"}

(***************************************************************************)
(* user.unrevoked and the flags below are history: the password was        *)
(* changed and the sessions of the account were not revoked since.         *)
(***************************************************************************)
Account == [name : Names, email : Addresses \cup {None}, pending : Addresses \cup {None},
            verified : BOOLEAN, unrevoked : BOOLEAN]

(***************************************************************************)
(* old: the account got another password after this one was compared;      *)
(* late: sessions were revoked after this request, or the one that created *)
(* the session, had proved who it is.                                      *)
(***************************************************************************)
Session == [user : Ids, old : BOOLEAN, late : BOOLEAN]
Link == [user : Ids, email : Addresses, purpose : Purposes]

Pcs == {"idle", "login", "session", "check", "set", "revoke", "others", "register", "link", "confirm"}
Goals == {"password", "email"} \cup Purposes
Request == [pc : Pcs, goal : Goals \cup {None},
            user : Ids \cup {None}, name : Names \cup {None}, email : Addresses \cup {None},
            sid : Sids \cup {None}, link : Links \cup {None}, old : BOOLEAN, late : BOOLEAN]

\* None is none of the values it stands beside.
NoneAssumption ==
    /\ None \notin Ids \cup Names \cup Addresses \cup Links
    /\ None \notin Account /\ None \notin Session /\ None \notin Link /\ None \notin Goals
ASSUME NoneAssumption

Idle == [pc |-> "idle", goal |-> None, user |-> None, name |-> None, email |-> None,
         sid |-> None, link |-> None, old |-> FALSE, late |-> FALSE]

\* The types of the tables and of what requests hold; rows refer to accounts that exist.
TypeOK ==
    /\ user \in [Ids -> Account \cup {None}]
    /\ sess \in [Sids -> Session \cup {None}]
    /\ link \in [Links -> Link \cup {None}]
    /\ req \in [Requests -> Request]
    /\ maintenance \in BOOLEAN /\ emptied \in BOOLEAN
    /\ \A s \in Sids : sess[s] # None => user[sess[s].user] # None
    /\ \A l \in Links : link[l] # None => user[link[l].user] # None

Init ==
    /\ user = [i \in Ids |-> None]
    /\ sess = [s \in Sids |-> None]
    /\ link = [l \in Links |-> None]
    /\ req = [r \in Requests |-> Idle]
    /\ maintenance = FALSE /\ emptied = FALSE

(***************************************************************************)
(* Rows by the columns the statements select on.                           *)
(***************************************************************************)
Credentials(n) == {i \in Ids : user[i] # None /\ user[i].name = n}
UserByEmail(a) == {i \in Ids : user[i] # None /\ user[i].email = a}
SessionsOf(S) == {s \in Sids : sess[s] # None /\ sess[s].user \in S}

\* A row of users as CreateUser and UpsertUser insert it, and as Register does.
Created(n) == [name |-> n, email |-> None, pending |-> None, verified |-> TRUE, unrevoked |-> FALSE]
Unconfirmed(n, a) == [name |-> n, email |-> None, pending |-> a, verified |-> FALSE, unrevoked |-> FALSE]

Goto(r, next) == req' = [req EXCEPT ![r] = [next EXCEPT !.link = None]]
Done(r) == req' = [req EXCEPT ![r] = Idle]

(***************************************************************************)
(* Removing sessions: what requests and sessions of S had proved is late.  *)
(***************************************************************************)
Drop(gone) == sess' = [s \in Sids |-> IF s \in gone THEN None ELSE sess[s]]
Late(q, S) == [r \in Requests |-> IF q[r].user \in S THEN [q[r] EXCEPT !.late = TRUE] ELSE q[r]]
Revoked(S) == [i \in Ids |-> IF i \in S /\ user[i] # None THEN [user[i] EXCEPT !.unrevoked = FALSE] ELSE user[i]]

\* A new password hash for the accounts S, proved by nobody but request r.
Rehashed(S) == [i \in Ids |-> IF i \in S THEN [user[i] EXCEPT !.unrevoked = TRUE] ELSE user[i]]
Outdated(S) == sess' = [s \in Sids |-> IF s \in SessionsOf(S) THEN [sess[s] EXCEPT !.old = TRUE] ELSE sess[s]]
Old(q, S) == [r \in Requests |-> IF q[r].user \in S THEN [q[r] EXCEPT !.old = TRUE] ELSE q[r]]

\* The bug of a table that does not go with the account.
DeletedAlone(S) ==
    /\ user' = [i \in Ids |-> IF i \in S THEN None ELSE user[i]]
    /\ Drop(SessionsOf(S))
    /\ req' = [r \in Requests |-> IF req[r].user \in S THEN [req[r] EXCEPT !.user = None] ELSE req[r]]
    /\ UNCHANGED link

\* DELETE FROM users: sessions and links go with the row, and no later statement finds the id.
Deleted(S) ==
    /\ user' = [i \in Ids |-> IF i \in S THEN None ELSE user[i]]
    /\ Drop(SessionsOf(S))
    /\ link' = [l \in Links |-> IF link[l] # None /\ link[l].user \in S THEN None ELSE link[l]]
    /\ req' = [r \in Requests |-> IF req[r].user \in S THEN [req[r] EXCEPT !.user = None] ELSE req[r]]

(***************************************************************************)
(* Login: maintenance mode is read first, the row of the name later, the   *)
(* session is inserted last.  An address typed instead of a name stands    *)
(* for a name here.                                                        *)
(***************************************************************************)
\* The bug of a login that does not look at the maintenance mode.
LoginUnchecked(r, n) ==
    /\ req[r] = Idle
    /\ Goto(r, [Idle EXCEPT !.pc = "login", !.name = n])
    /\ UNCHANGED <<user, sess, link, maintenance, emptied>>

Login(r, n) ==
    /\ req[r] = Idle
    /\ ~maintenance
    /\ Goto(r, [Idle EXCEPT !.pc = "login", !.name = n])
    /\ UNCHANGED <<user, sess, link, maintenance, emptied>>

\* The bug of letting an unconfirmed account in.
ComparePending(r) ==
    /\ req[r].pc = "login"
    /\ \/ \E i \in Credentials(req[r].name) : Goto(r, [req[r] EXCEPT !.pc = "session", !.user = i])
       \/ Done(r)
    /\ UNCHANGED <<user, sess, link, maintenance, emptied>>

\* The password is compared with the hash of now; an unconfirmed account is refused after that.
Compare(r) ==
    /\ req[r].pc = "login"
    /\ \/ \E i \in Credentials(req[r].name) :
            /\ user[i].verified
            /\ Goto(r, [req[r] EXCEPT !.pc = "session", !.user = i])
       \/ Done(r)
    /\ UNCHANGED <<user, sess, link, maintenance, emptied>>

\* INSERT INTO sessions: refused by the foreign key once the account is gone.
CreateSession(r, s) ==
    /\ req[r].pc = "session"
    /\ req[r].user # None
    /\ sess[s] = None
    /\ \A q \in Requests : req[q].sid # s
    /\ sess' = [sess EXCEPT ![s] = [user |-> req[r].user, old |-> req[r].old, late |-> req[r].late]]
    /\ Done(r)
    /\ UNCHANGED <<user, link, maintenance, emptied>>

(***************************************************************************)
(* What a session may do to its account.  The middleware finds the session *)
(* and puts the user into the context of the request; the row may be gone  *)
(* when the handler acts.                                                  *)
(***************************************************************************)
Enter(r, s, pc, goal, a) ==
    /\ req[r] = Idle
    /\ sess[s] # None
    /\ LET i == sess[s].user
       IN Goto(r, [Idle EXCEPT !.pc = pc, !.goal = goal, !.user = i, !.name = user[i].name, !.email = a,
                               !.sid = s, !.late = sess[s].late, !.old = sess[s].old])
    /\ UNCHANGED <<user, sess, link, maintenance, emptied>>

SetMyPassword(r, s) == Enter(r, s, "check", "password", None)
SetMyEmail(r, s, a) ==
    /\ sess[s] # None => user[sess[s].user].email # a
    /\ Enter(r, s, "check", "email", a)
DeleteMyOtherSessions(r, s) == Enter(r, s, "others", None, None)

\* The password in use, read by name.
CheckPassword(r) ==
    /\ req[r].pc = "check"
    /\ \/ /\ Credentials(req[r].name) # {}
          /\ \/ req[r].goal = "password" /\ Goto(r, [req[r] EXCEPT !.pc = "set", !.old = FALSE])
             \/ req[r].goal = "email" /\ Goto(r, [req[r] EXCEPT !.pc = "link", !.goal = "verify"])
       \/ Done(r)
    /\ UNCHANGED <<user, sess, link, maintenance, emptied>>

\* UPDATE users by name: sessions and other requests now hold an old password.
SetPassword(r) ==
    /\ req[r].pc = "set"
    /\ LET S == Credentials(req[r].name)
       IN IF S = {}
          THEN Done(r) /\ UNCHANGED <<user, sess>>
          ELSE /\ user' = Rehashed(S)
               /\ Outdated(S)
               /\ req' = [Old(req, S) EXCEPT ![r] = [req[r] EXCEPT !.pc = "revoke", !.old = FALSE]]
    /\ UNCHANGED <<link, maintenance, emptied>>

\* A changed password gets a fresh session; it is a late one if another change came before this revocation.
AfterRevoke(r) ==
    IF req[r].goal = "password" THEN [req[r] EXCEPT !.pc = "session", !.late = req[r].late \/ req[r].old] ELSE Idle

\* The bug of sparing the session of the caller.
RevokeOthers(r) ==
    /\ req[r].pc = "revoke"
    /\ LET S == Credentials(req[r].name)
       IN /\ Drop(SessionsOf(S) \ {req[r].sid})
          /\ user' = Revoked(S)
          /\ req' = [Late(req, S) EXCEPT ![r] = AfterRevoke(r)]
    /\ UNCHANGED <<link, maintenance, emptied>>

\* DELETE FROM sessions by name.
RevokeSessions(r) ==
    /\ req[r].pc = "revoke"
    /\ LET S == Credentials(req[r].name)
       IN /\ Drop(SessionsOf(S))
          /\ user' = Revoked(S)
          /\ req' = [Late(req, S) EXCEPT ![r] = AfterRevoke(r)]
    /\ UNCHANGED <<link, maintenance, emptied>>

DeleteOtherSessions(r) ==
    /\ req[r].pc = "others"
    /\ LET S == {req[r].user} \ {None}
       IN /\ Drop(SessionsOf(S) \ {req[r].sid})
          /\ req' = [Late(req, S) EXCEPT ![r] = Idle]
    /\ UNCHANGED <<user, link, maintenance, emptied>>

Logout(s) ==
    /\ sess[s] # None
    /\ Drop({s})
    /\ UNCHANGED <<user, link, req, maintenance, emptied>>

(***************************************************************************)
(* Registration: the address is looked up, then the name inserted; the     *)
(* address waits in pending_email, outside the unique index.               *)
(***************************************************************************)
Register(r, n, a) ==
    /\ req[r] = Idle
    /\ ~maintenance
    /\ UserByEmail(a) = {}
    /\ Goto(r, [Idle EXCEPT !.pc = "register", !.name = n, !.email = a])
    /\ UNCHANGED <<user, sess, link, maintenance, emptied>>

InsertUser(r) ==
    /\ req[r].pc = "register"
    /\ IF Credentials(req[r].name) # {}
       THEN Done(r) /\ UNCHANGED user
       ELSE \E i \in Ids :
              /\ user[i] = None
              /\ user' = [user EXCEPT ![i] = Unconfirmed(req[r].name, req[r].email)]
              /\ Goto(r, [req[r] EXCEPT !.pc = "link", !.goal = "verify", !.user = i])
    /\ UNCHANGED <<sess, link, maintenance, emptied>>

ResendVerification(r, n) ==
    /\ req[r] = Idle
    /\ \E i \in Credentials(n) :
         /\ ~user[i].verified /\ user[i].pending # None
         /\ Goto(r, [Idle EXCEPT !.pc = "link", !.goal = "verify", !.user = i, !.email = user[i].pending])
    /\ UNCHANGED <<user, sess, link, maintenance, emptied>>

ForgotPassword(r, a) ==
    /\ req[r] = Idle
    /\ \E i \in UserByEmail(a) : Goto(r, [Idle EXCEPT !.pc = "link", !.goal = "reset", !.user = i, !.email = a])
    /\ UNCHANGED <<user, sess, link, maintenance, emptied>>

\* INSERT INTO email_tokens; the mail itself goes out later, or never.
CreateEmailToken(r, l) ==
    /\ req[r].pc = "link"
    /\ req[r].user # None
    /\ link[l] = None
    /\ \A q \in Requests : req[q].link # l
    /\ link' = [link EXCEPT ![l] = [user |-> req[r].user, email |-> req[r].email, purpose |-> req[r].goal]]
    /\ Done(r)
    /\ UNCHANGED <<user, sess, maintenance, emptied>>

(***************************************************************************)
(* Opening a link: DELETE ... RETURNING consumes it, the effect follows in *)
(* other statements and may fail when the link is used up.                 *)
(***************************************************************************)
ConsumeWith(r, l, rest) ==
    /\ req[r] = Idle
    /\ link[l] # None
    /\ LET i == link[l].user
           next == [Idle EXCEPT !.user = i, !.name = user[i].name, !.link = l]
       IN req' = [req EXCEPT ![r] =
                    IF link[l].purpose = "verify" THEN [next EXCEPT !.pc = "confirm", !.email = link[l].email]
                                                  ELSE [next EXCEPT !.pc = "set", !.goal = "reset"]]
    /\ link' = rest
    /\ UNCHANGED <<user, sess, maintenance, emptied>>

\* The bug of a link that is looked up and deleted later.
ConsumeKeeps(r, l) == ConsumeWith(r, l, link)
ConsumeEmailToken(r, l) == ConsumeWith(r, l, [link EXCEPT ![l] = None])

\* UPDATE users by id: the unique index refuses an address another account has confirmed.
SetEmail(r) ==
    /\ req[r].pc = "confirm"
    /\ IF req[r].user = None \/ UserByEmail(req[r].email) \ {req[r].user} # {}
       THEN UNCHANGED user
       ELSE user' = [user EXCEPT ![req[r].user].email = req[r].email,
                                 ![req[r].user].pending = None, ![req[r].user].verified = TRUE]
    /\ Done(r)
    /\ UNCHANGED <<sess, link, maintenance, emptied>>

\* A statement fails, or the foreign key of a deleted account refuses it: the handler answers and ends.
Fail(r) ==
    /\ req[r].pc # "idle"
    /\ Done(r)
    /\ UNCHANGED <<user, sess, link, maintenance, emptied>>

(***************************************************************************)
(* The operator: the admin panel and the command line.  Each is one        *)
(* statement; a password set here revokes no session.                      *)
(***************************************************************************)
AdminCreateUser(n, i) ==
    /\ Credentials(n) = {} /\ user[i] = None
    /\ user' = [user EXCEPT ![i] = Created(n)]
    /\ UNCHANGED <<sess, link, req, maintenance, emptied>>

AdminSetPassword(n) ==
    /\ Credentials(n) # {}
    /\ user' = Rehashed(Credentials(n))
    /\ Outdated(Credentials(n))
    /\ req' = Old(req, Credentials(n))
    /\ UNCHANGED <<link, maintenance, emptied>>

AdminRevokeSessions(n) ==
    /\ Credentials(n) # {}
    /\ Drop(SessionsOf(Credentials(n)))
    /\ user' = Revoked(Credentials(n))
    /\ req' = Late(req, Credentials(n))
    /\ UNCHANGED <<link, maintenance, emptied>>

AdminDeleteUser(n) ==
    /\ Credentials(n) # {}
    /\ Deleted(Credentials(n))
    /\ UNCHANGED <<maintenance, emptied>>

AdminRevokeAllSessions ==
    /\ Drop(Sids)
    /\ user' = Revoked(Ids)
    /\ req' = [r \in Requests |-> IF req[r] = Idle THEN Idle ELSE [req[r] EXCEPT !.late = TRUE]]
    /\ emptied' = maintenance
    /\ UNCHANGED <<link, maintenance>>

AdminMaintenance(on) ==
    /\ maintenance' = on
    /\ emptied' = (emptied /\ on)
    /\ UNCHANGED <<user, sess, link, req>>

\* radiopath useradd: a new account, or another password for the one of this name.
UserAdd(n) ==
    IF Credentials(n) = {} THEN \E i \in Ids : AdminCreateUser(n, i) ELSE AdminSetPassword(n)

(***************************************************************************)
(* The janitor, and time: a row whose expires_at has passed is as good as  *)
(* deleted, and an account that stays unconfirmed is deleted.              *)
(***************************************************************************)
ExpireSession(s) ==
    /\ sess[s] # None
    /\ Drop({s})
    /\ UNCHANGED <<user, link, req, maintenance, emptied>>

ExpireLink(l) ==
    /\ link[l] # None
    /\ link' = [link EXCEPT ![l] = None]
    /\ UNCHANGED <<user, sess, req, maintenance, emptied>>

DeleteUnconfirmedUsers ==
    \E S \in SUBSET {i \in Ids : user[i] # None /\ ~user[i].verified} :
        /\ S # {}
        /\ Deleted(S)
        /\ UNCHANGED <<maintenance, emptied>>

Handler(r) ==
    \/ \E n \in Names : Login(r, n) \/ ResendVerification(r, n)
    \/ \E n \in Names, a \in Addresses : Register(r, n, a)
    \/ \E a \in Addresses : ForgotPassword(r, a)
    \/ \E s \in Sids : SetMyPassword(r, s) \/ DeleteMyOtherSessions(r, s) \/ CreateSession(r, s)
    \/ \E s \in Sids, a \in Addresses : SetMyEmail(r, s, a)
    \/ \E l \in Links : CreateEmailToken(r, l) \/ ConsumeEmailToken(r, l)
    \/ Compare(r) \/ CheckPassword(r) \/ SetPassword(r) \/ RevokeSessions(r) \/ DeleteOtherSessions(r)
    \/ InsertUser(r) \/ SetEmail(r) \/ Fail(r)

Operator ==
    \/ \E n \in Names : UserAdd(n) \/ AdminSetPassword(n) \/ AdminRevokeSessions(n) \/ AdminDeleteUser(n)
    \/ \E n \in Names, i \in Ids : AdminCreateUser(n, i)
    \/ AdminRevokeAllSessions
    \/ \E on \in BOOLEAN : AdminMaintenance(on)

Janitor ==
    \/ \E s \in Sids : ExpireSession(s) \/ Logout(s)
    \/ \E l \in Links : ExpireLink(l)
    \/ DeleteUnconfirmedUsers

Next == (\E r \in Requests : Handler(r)) \/ Operator \/ Janitor

Spec == Init /\ [][Next]_vars

(***************************************************************************)
(* Properties.                                                             *)
(***************************************************************************)

\* After a password was changed and the sessions revoked (setPassword), the only sessions left that were opened
\* with an old password belong to requests that had compared it before: a login overtaken by the change.
RevokedByChange ==
    \A s \in Sids : sess[s] # None /\ sess[s].old => sess[s].late \/ user[sess[s].user].unrevoked

\* "Use both buttons together to empty the app": in maintenance mode, after Revoke all sessions, only requests that
\* were already in flight can leave a session behind.
EmptyApp == emptied => \A s \in Sids : sess[s] # None => sess[s].late

\* Nobody is logged in to an account whose address was never confirmed, whatever is deleted, registered again or
\* confirmed in between.
ConfirmedOnly == \A s \in Sids : sess[s] # None => user[sess[s].user].verified

\* A mailed link acts once: two requests that open the same link never both get past the statement that consumes it.
LinkOnce ==
    \A r \in Requests : req[r].link # None =>
        /\ link[req[r].link] = None
        /\ \A q \in Requests \ {r} : req[q].link # req[r].link
=============================================================================

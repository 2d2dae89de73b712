------------------------------ MODULE ApiTokens ------------------------------
(***************************************************************************)
(* API tokens (internal/store/tokens.go, internal/web/tokens.go) and how a *)
(* request with one is let in: identify looks the token up, then at the    *)
(* maintenance mode; gate and requireUser compare the scope of the         *)
(* operation with the scopes that were read, and the handler acts.  Tokens *)
(* are made, revoked and deleted meanwhile.                                *)
(*                                                                         *)
(* A request may carry a session cookie as well: with an Authorization     *)
(* header it is never looked at.  Rate limits are those of RateLimits.     *)
(***************************************************************************)
EXTENDS Naturals, FiniteSets

CONSTANTS
    TokenIds,   \* api_tokens.id, and the secret that belongs to it
    Resources,  \* sites, links and so on: each is read or written
    Requests,   \* requests in flight
    MaxTokens,  \* MaxTokensPerUser
    None

VARIABLES
    token,        \* token[t]: row of api_tokens of the one user, or None
    closed,       \* settings.maintenance
    req,          \* req[r]: the request r and what it has read
    stopped       \* history: tokens that were revoked or expired; their ids are not used again

vars == <<token, closed, req, stopped>>

Read(x) == <<x, "read">>
Write(x) == <<x, "write">>
Scopes == Resources \X {"read", "write"}
SessionOnly == "session"  \* the scope of what a token may never do
Token == [scopes : SUBSET Scopes, live : BOOLEAN, by : TokenIds \cup {SessionOnly}]

\* What is assumed of the constants: a session is no token, None is no row, and a user may have a token.
Apart == SessionOnly \notin TokenIds /\ None \notin Token /\ MaxTokens \in Nat \ {0} /\ IsFiniteSet(Requests)

Idle == [pc |-> "idle"]

Init ==
    /\ token = [t \in TokenIds |-> None]
    /\ closed = FALSE
    /\ req = [r \in Requests |-> Idle]
    /\ stopped = {}

Listed == {t \in TokenIds : token[t] # None}
Goto(r, next) == req' = [req EXCEPT ![r] = next]
Done(r) == Goto(r, Idle)

\* parseScopes: at least one, all of them known, and with every write scope its read scope.
ParseScopesBare(in) == IF in # {} /\ in \subseteq Scopes THEN in ELSE {}

ParseScopes(in) ==
    IF in # {} /\ in \subseteq Scopes THEN in \cup {Read(x) : x \in {x \in Resources : Write(x) \in in}} ELSE {}

(***************************************************************************)
(* Letting a request in.                                                   *)
(***************************************************************************)
\* No Authorization header: the session decides, maintenance or not.
EnterSession(r) ==
    /\ req[r] = Idle
    /\ Goto(r, [pc |-> "in", by |-> SessionOnly, scopes |-> {}, late |-> FALSE, shut |-> FALSE])
    /\ UNCHANGED <<token, closed, stopped>>

\* TokenUser: user and scopes of a token that lives; any other one is refused, whatever cookie comes with it.
EnterToken(r, t) ==
    /\ req[r] = Idle
    /\ token[t] # None /\ token[t].live
    /\ Goto(r, [pc |-> "known", by |-> t, scopes |-> token[t].scopes, late |-> FALSE, shut |-> FALSE])
    /\ UNCHANGED <<token, closed, stopped>>

\* Maintenance mode is looked at after the token.
LookAtMaintenance(r) ==
    /\ req[r].pc = "known"
    /\ IF closed THEN Done(r) ELSE Goto(r, [req[r] EXCEPT !.pc = "in"])
    /\ UNCHANGED <<token, closed, stopped>>

\* tokenDenied.
TokenDenied(r, scope) == req[r].by # SessionOnly /\ (scope = SessionOnly \/ scope \notin req[r].scopes)

\* gate and requireUser: the operation with this scope begins, or is 403.
Gate(r, scope) ==
    /\ req[r].pc = "in"
    /\ IF TokenDenied(r, scope)
       THEN Done(r)
       ELSE Goto(r, [pc |-> "act", scope |-> scope, by |-> req[r].by, late |-> req[r].late, shut |-> req[r].shut])
    /\ UNCHANGED <<token, closed, stopped>>

\* What the operation does to other tables is in their modules; the management of tokens follows below.
Act(r) ==
    /\ req[r].pc = "act" /\ req[r].scope # SessionOnly
    /\ Done(r)
    /\ UNCHANGED <<token, closed, stopped>>

(***************************************************************************)
(* create-my-token: scopes and password first, then the count, then the    *)
(* insert.                                                                 *)
(***************************************************************************)
\* The bug of letting the limit itself through.
CountTokensOneMore(r, in) ==
    /\ req[r].pc = "act" /\ req[r].scope = SessionOnly
    /\ ParseScopes(in) # {}
    /\ IF Cardinality(Listed) > MaxTokens THEN Done(r) ELSE Goto(r, [pc |-> "insert", by |-> req[r].by, scopes |-> ParseScopes(in)])
    /\ UNCHANGED <<token, closed, stopped>>

CountTokens(r, in) ==
    /\ req[r].pc = "act" /\ req[r].scope = SessionOnly
    /\ ParseScopes(in) # {}
    /\ IF Cardinality(Listed) >= MaxTokens THEN Done(r) ELSE Goto(r, [pc |-> "insert", by |-> req[r].by, scopes |-> ParseScopes(in)])
    /\ UNCHANGED <<token, closed, stopped>>

CreateToken(r, t) ==
    /\ req[r].pc = "insert"
    /\ token[t] = None /\ t \notin stopped
    /\ token' = [token EXCEPT ![t] = [scopes |-> req[r].scopes, live |-> TRUE, by |-> req[r].by]]
    /\ Done(r)
    /\ UNCHANGED <<closed, stopped>>

\* A request that has read the token acts late from now on.
Late(q, t) == [r \in Requests |-> IF q[r].pc \in {"known", "in", "act"} /\ q[r].by = t THEN [q[r] EXCEPT !.late = TRUE] ELSE q[r]]

\* The bug of a token that is refused only once the janitor came.
DeleteTokenLater(r, t) ==
    /\ req[r].pc = "act" /\ req[r].scope = SessionOnly
    /\ token[t] # None
    /\ stopped' = stopped \cup {t}
    /\ req' = [Late(req, t) EXCEPT ![r] = Idle]
    /\ UNCHANGED <<token, closed>>

DeleteToken(r, t) ==
    /\ req[r].pc = "act" /\ req[r].scope = SessionOnly
    /\ token[t] # None
    /\ token' = [token EXCEPT ![t] = None]
    /\ stopped' = stopped \cup {t}
    /\ req' = [Late(req, t) EXCEPT ![r] = Idle]
    /\ UNCHANGED closed

\* expires_at passes; the row stays listed until the janitor comes, 30 days later.
Expire(t) ==
    /\ token[t] # None /\ token[t].live
    /\ token' = [token EXCEPT ![t].live = FALSE]
    /\ stopped' = stopped \cup {t}
    /\ req' = Late(req, t)
    /\ UNCHANGED closed

DeleteExpiredTokens ==
    /\ \E t \in TokenIds : token[t] # None /\ ~token[t].live
    /\ token' = [t \in TokenIds |-> IF token[t] # None /\ token[t].live THEN token[t] ELSE None]
    /\ UNCHANGED <<closed, req, stopped>>

\* The operator: whoever is past the look at the mode goes on.
SetMaintenance(on) ==
    /\ closed' = on
    /\ req' = [r \in Requests |-> IF req[r].pc \in {"in", "act"} THEN [req[r] EXCEPT !.shut = on] ELSE req[r]]
    /\ UNCHANGED <<token, stopped>>

\* A statement fails, a limit is reached, or the password is wrong.
Fail(r) ==
    /\ req[r] # Idle
    /\ Done(r)
    /\ UNCHANGED <<token, closed, stopped>>

Next ==
    \/ \E r \in Requests :
         \/ EnterSession(r) \/ LookAtMaintenance(r) \/ Act(r) \/ Fail(r)
         \/ \E t \in TokenIds : EnterToken(r, t) \/ CreateToken(r, t) \/ DeleteToken(r, t)
         \/ \E scope \in Scopes \cup {SessionOnly} : Gate(r, scope)
         \/ \E in \in SUBSET Scopes : CountTokens(r, in)
    \/ \E t \in TokenIds : Expire(t)
    \/ DeleteExpiredTokens
    \/ \E on \in BOOLEAN : SetMaintenance(on)

Spec == Init /\ [][Next]_vars

(***************************************************************************)
(* Properties.                                                             *)
(***************************************************************************)

\* "revokes it at once", "maintenance mode stops tokens like it stops logins": what is done with a token that was
\* revoked or expired, or during maintenance, was let in before.
StoppedAtOnce ==
    \A r \in Requests : req[r].pc = "act" /\ req[r].by # SessionOnly =>
        /\ req[r].by \in stopped => req[r].late
        /\ closed => req[r].shut

\* "A token cannot mint tokens": every one was made by a session.  "A write scope includes the read scope of the same
\* resource": who may change it gets to see it.  And the limit is overshot by at most one token for every request but
\* the first.
TokensListed ==
    /\ \A t \in Listed : token[t].by = SessionOnly
    /\ \A t \in Listed, x \in Resources : Write(x) \in token[t].scopes => Read(x) \in token[t].scopes
    /\ Cardinality(Listed) <= MaxTokens + Cardinality(Requests) - 1
=============================================================================

----------------------------- MODULE RateLimits -----------------------------
(***************************************************************************)
(* The table rate_limits (internal/store/ratelimit.go) and the handlers    *)
(* that ask it.  A row is a fixed window: it counts hits and restarts when *)
(* a hit finds it older than the window of the caller.                     *)
(*                                                                         *)
(* Two ways to use it meet here.  Most routes hit first and refuse a count *)
(* above the maximum.  login and identify ask first, compare, and hit only *)
(* when the comparison failed, so that attempts in flight do not see each  *)
(* other.  A route is the sequence of its steps; one step is one statement *)
(* or one decision, and the steps of several attempts interleave.          *)
(***************************************************************************)
EXTENDS Naturals, Sequences, FiniteSets, Functions

CONSTANTS
    IPs,        \* client addresses
    Subjects,   \* what else is limited: a name, a user, a token, an address, a share
    Attempts,   \* requests in flight, over all replicas
    Mixes,      \* what is looked at together: sets of routes, addresses and attempts
    Max,        \* Max[kind], loginIPMax and the like
    Window,     \* Window[kind] in ticks
    Day,        \* the age at which the janitor deletes a row
    Owner,      \* the address the owner of an account logs in from
    None

VARIABLES
    rate,       \* rate[k]: count and age of the row of key k, for the keys that have one
    att,        \* att[a]: the attempt a, or None
    mix,        \* the routes, addresses and attempts of this behaviour
    watch,      \* history: the key an observer looks at,
    since,      \* for how many ticks it has been looking, at most a window,
    seen,       \* what was let through or counted meanwhile,
    slipped,    \* the addresses whose comparison failed once,
    lost        \* and whether a hit failed

vars == <<rate, att, mix, watch, since, seen, slipped, lost>>
observed == <<watch, since, seen, slipped, lost>>

(***************************************************************************)
(* Routes.  ask: RateCount, refused at the maximum; hit: RateHit, refused  *)
(* above it; prove: the comparison; count: the hit after it failed.  A     *)
(* decision that counts nothing (maintenance mode, the scope of a token,   *)
(* the input, an unknown share, an unconfirmed account) is no step: a      *)
(* request it refuses does not begin, or it leaves before its next step.   *)
(***************************************************************************)
Prove == [op |-> "prove", kind |-> None]
Step(op, kind) == [op |-> op, kind |-> kind]

Login == <<Step("ask", "login:ip"), Step("ask", "login:pair"), Step("ask", "login:user"), Prove>>
Token == <<Step("ask", "token:ip"), Prove, Step("hit", "token"), Step("hit", "api:user")>>
Session == <<Step("hit", "api:user")>>
Compute == Session \o <<Step("hit", "compute:user")>>
Binary == <<Step("hit", "compute:user")>>
HFMap == Session \o <<Step("hit", "hfmap:user")>>
Register == <<Step("hit", "register:ip"), Step("hit", "register:mail")>>
Forgot == <<Step("hit", "forgot:ip"), Step("hit", "forgot:mail")>>
Verify == <<Step("hit", "verify:user")>>
Admin == <<Step("hit", "admin:ip"), Prove>>
Share == <<Step("hit", "share")>>

Steps(route) ==
    CASE route = "login" -> Login [] route = "token" -> Token [] route = "session" -> Session
      [] route = "compute" -> Compute [] route = "binary" -> Binary
      [] route = "hfmap" -> HFMap [] route = "register" -> Register
      [] route = "forgot" -> Forgot [] route = "verify" -> Verify [] route = "admin" -> Admin
      [] route = "share" -> Share

\* The bug of counting a failed login for its address and its name only.
FailuresUnpaired(route) ==
    CASE route = "login" -> <<Step("count", "login:ip"), Step("count", "login:user")>>
      [] route = "token" -> <<Step("count", "token:ip")>>
      [] OTHER -> << >>

\* What a failed comparison counts.
Failures(route) ==
    CASE route = "login" -> <<Step("count", "login:ip"), Step("count", "login:pair"), Step("count", "login:user")>>
      [] route = "token" -> <<Step("count", "token:ip")>>
      [] OTHER -> << >>

Routes == {"login", "token", "session", "compute", "binary", "hfmap", "register", "forgot", "verify", "admin", "share"}
Kinds == {"login:ip", "login:pair", "login:user", "token:ip", "token", "api:user", "compute:user", "hfmap:user",
          "register:ip", "register:mail", "forgot:ip", "forgot:mail", "verify:user", "admin:ip", "share"}

\* What is assumed of the constants: everybody may do everything once, the janitor waits for every window, and login
\* counts pairs and names over the same time.
Bounds ==
    /\ Max \in [Kinds -> Nat \ {0}]
    /\ Day \in Nat /\ Window \in [Kinds -> 0 .. Day] /\ Window["login:user"] = Window["login:pair"]
    /\ IsFiniteSet(Attempts)
    /\ Mixes \subseteq [routes : SUBSET Routes, ips : SUBSET IPs, attempts : SUBSET Attempts]
    /\ \A m \in Mixes : m.attempts # {}

ByIP == {"login:ip", "token:ip", "register:ip", "forgot:ip", "admin:ip"}

\* The columns of a key: by address, by both, or by the other thing that is limited.
KeyOf(kind, ip, s) ==
    CASE kind \in ByIP -> <<kind, ip>> [] kind = "login:pair" -> <<kind, ip, s>> [] OTHER -> <<kind, s>>

Keys ==
    {KeyOf(step.kind, ip, s) : step \in {x \in UNION {Range(Steps(route)) : route \in mix.routes} : x.op # "prove"},
                               ip \in mix.ips, s \in Subjects}

AskFirst == {"login:ip", "login:pair", "login:user", "token:ip"}
Key(a) == KeyOf(Head(att[a].todo).kind, att[a].ip, att[a].subject)

(***************************************************************************)
(* The two statements.                                                     *)
(***************************************************************************)
\* RateCount: the hits of the current window, 0 when there is none.
RateCount(k) == IF k \in DOMAIN rate /\ rate[k].age <= Window[k[1]] THEN rate[k].count ELSE 0

\* RateHit: the row after the hit.
RateHit(k) ==
    IF k \in DOMAIN rate /\ rate[k].age <= Window[k[1]]
    THEN [rate[k] EXCEPT !.count = @ + 1]
    ELSE [count |-> 1, age |-> 0]

\* Counts well above Max are not told apart by any comparison.
Saturated(k, row) ==
    LET top == Max[k[1]] + Cardinality(Attempts) IN [row EXCEPT !.count = IF @ > top THEN top ELSE @]
Hit(k) == rate' = [j \in {k} \cup DOMAIN rate |-> IF j = k THEN Saturated(k, RateHit(k)) ELSE rate[j]]

Noted(k) == seen' = IF k = watch THEN seen + 1 ELSE seen

(***************************************************************************)
(* The life of an attempt.                                                 *)
(***************************************************************************)
Refused(a) == att' = [att EXCEPT ![a].todo = << >>, ![a].refused = TRUE]
Goes(a, todo) == att' = [att EXCEPT ![a] = IF todo = << >> /\ ~att[a].refused THEN None ELSE [@ EXCEPT !.todo = todo]]
Next1(a) == Goes(a, Tail(att[a].todo))
At(a, op) == att[a] # None /\ att[a].todo # << >> /\ Head(att[a].todo).op = op

Init ==
    /\ rate = << >>
    /\ att = [a \in Attempts |-> None]
    /\ mix \in Mixes
    /\ watch \in Keys
    /\ since = 0 /\ seen = 0
    /\ slipped = {} /\ lost = FALSE

Begin(a) ==
    /\ att[a] = None /\ a \in mix.attempts
    /\ \E route \in mix.routes, ip \in mix.ips, s \in Subjects :
         att' = [att EXCEPT ![a] = [route |-> route, ip |-> ip, subject |-> s, todo |-> Steps(route), refused |-> FALSE]]
    /\ UNCHANGED <<rate, mix, observed>>

\* The bug of comparing as the routes that hit first do.
AskLate(a) ==
    /\ At(a, "ask")
    /\ IF RateCount(Key(a)) > Max[Head(att[a].todo).kind] THEN Refused(a) ELSE Next1(a)
    /\ UNCHANGED <<rate, mix, observed>>

Ask(a) ==
    /\ At(a, "ask")
    /\ IF RateCount(Key(a)) >= Max[Head(att[a].todo).kind] THEN Refused(a) ELSE Next1(a)
    /\ UNCHANGED <<rate, mix, observed>>

\* The bug of comparing the count from before the hit.
HitCompareOld(a) ==
    /\ At(a, "hit")
    /\ Hit(Key(a))
    /\ IF RateCount(Key(a)) > Max[Head(att[a].todo).kind]
       THEN Refused(a) /\ UNCHANGED seen
       ELSE Next1(a) /\ Noted(Key(a))
    /\ UNCHANGED <<mix, watch, since, slipped, lost>>

HitFirst(a) ==
    /\ At(a, "hit")
    /\ Hit(Key(a))
    /\ IF RateHit(Key(a)).count > Max[Head(att[a].todo).kind]
       THEN Refused(a) /\ UNCHANGED seen
       ELSE Next1(a) /\ Noted(Key(a))
    /\ UNCHANGED <<mix, watch, since, slipped, lost>>

Compare(a) ==
    /\ At(a, "prove")
    /\ \/ Next1(a) /\ UNCHANGED slipped
       \/ Goes(a, Failures(att[a].route)) /\ slipped' = slipped \cup {att[a].ip}
    /\ UNCHANGED <<rate, mix, watch, since, seen, lost>>

\* A failed hit is logged, the others follow all the same.
CountFailure(a) ==
    /\ At(a, "count")
    /\ \/ Hit(Key(a)) /\ Noted(Key(a)) /\ UNCHANGED lost
       \/ lost' = TRUE /\ UNCHANGED <<rate, seen>>
    /\ Next1(a)
    /\ UNCHANGED <<mix, watch, since, slipped>>

\* The answer is out: a refusal, a decision that counts nothing, or a statement that failed.
Leave(a) ==
    /\ att[a] # None
    /\ att[a].refused \/ At(a, "ask") \/ At(a, "hit")
    /\ att' = [att EXCEPT ![a] = None]
    /\ UNCHANGED <<rate, mix, observed>>

\* The janitor.
DeleteOldRateLimits ==
    /\ \E k \in DOMAIN rate : rate[k].age > Day
    /\ rate' = [k \in {x \in DOMAIN rate : rate[x].age <= Day} |-> rate[k]]
    /\ UNCHANGED <<att, mix, observed>>

\* The observer looks on, or begins anew.
Tick ==
    /\ rate' = [k \in DOMAIN rate |-> [rate[k] EXCEPT !.age = IF @ > Day THEN @ ELSE @ + 1]]
    /\ \/ since < Window[watch[1]] /\ since' = since + 1 /\ UNCHANGED seen
       \/ since' = 0 /\ seen' = 0
    /\ UNCHANGED <<att, mix, watch, slipped, lost>>

Next ==
    \/ \E a \in Attempts :
         Begin(a) \/ Ask(a) \/ HitFirst(a) \/ Compare(a) \/ CountFailure(a) \/ Leave(a)
    \/ DeleteOldRateLimits
    \/ Tick

Spec == Init /\ [][Next]_vars

(***************************************************************************)
(* Properties.                                                             *)
(***************************************************************************)
\* Whenever one looks for as long as a window lasts, a route that hits first let through at most two windows'
\* worth: RateHit restarts a row neither early nor for a caller that came late, and the janitor drops no live row.
BurstBounded == watch[1] \notin AskFirst => seen <= 2 * Max[watch[1]]

\* Failed logins and bad tokens: in each of the two windows the attempts that had asked before the limit was reached
\* come on top, all but one of those in flight.
GuessesBounded == watch[1] \in AskFirst => seen <= 2 * (Max[watch[1]] + Cardinality(mix.attempts) - 1)

\* What one other address can do to a name: in each of two windows the pair lets through its maximum and the attempts
\* that had asked before it was reached, and an attempt whose pair was counted in time may count the name later.  Only
\* an address with that many requests under way fills the row of a name by itself, as long as no hit is lost.
NameCharged ==
    Owner \notin slipped /\ ~lost /\ (\A ip, other \in mix.ips \ {Owner} : ip = other) =>
        \A s \in Subjects :
            RateCount(<<"login:user", s>>) <= 2 * Max["login:pair"] + 3 * (Cardinality(mix.attempts) - 1)
=============================================================================

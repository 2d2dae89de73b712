--------------------------------- MODULE Tiles ---------------------------------
(***************************************************************************)
(* The map tile proxy (internal/tiles): a request is a look into the cache *)
(* and, on a miss, one count of the client address, a download and a store *)
(* into the cache.  Cache and counters are keys of Redis.  Every command   *)
(* may fail, also because the client went away; the proxy goes on without  *)
(* the cache and without the limit then.                                   *)
(*                                                                         *)
(* Incr is two commands: INCR, and EXPIRE after the first one.             *)
(***************************************************************************)
EXTENDS Naturals

CONSTANTS
    TileKeys,  \* z/x/y
    Addresses, \* client addresses
    Requests,  \* requests in flight, over all web processes
    Budget,    \* MissesPerIP
    Window,    \* missWindow in ticks
    None       \* also the address of a report, which is not limited

VARIABLES
    cache,     \* tiles that are cached
    counter,   \* counter[ip]: [n, left], left None without an expiry, or None
    req,
    watch,     \* history: the address an observer looks at,
    since,     \* for how many ticks, less than a window,
    seen,      \* and the downloads it was admitted to meanwhile, within the budget
    unbounded  \* history: addresses whose EXPIRE failed

vars == <<cache, counter, req, watch, since, seen, unbounded>>
observed == <<watch, since, seen>>

\* What is assumed of the constants: a counter without an expiry is told from one with, and from none.
Lives == Budget \in Nat /\ Window \in Nat \ {0} /\ None \notin Nat \cup [n : Nat, left : Nat \cup {None}]

Idle == [pc |-> "idle"]
Goto(r, pc) == req' = [req EXCEPT ![r].pc = pc]
Done(r) == req' = [req EXCEPT ![r] = Idle]

Init ==
    /\ cache = {}
    /\ counter = [ip \in Addresses |-> None]
    /\ req = [r \in Requests |-> Idle]
    /\ watch \in Addresses
    /\ since = 0 /\ seen = 0
    /\ unbounded = {}

\* ServeHTTP of valid coordinates, and one tile of Static.
Ask(r) ==
    /\ req[r] = Idle
    /\ \E key \in TileKeys, ip \in Addresses \cup {None} :
         req' = [req EXCEPT ![r] = [pc |-> "get", key |-> key, ip |-> ip]]
    /\ UNCHANGED <<cache, counter, observed, unbounded>>

\* A hit is served; a miss or an error goes on, to the count unless there is nobody to limit.
Get(r) ==
    /\ req[r].pc = "get"
    /\ \/ req[r].key \in cache /\ Done(r)
       \/ Goto(r, IF req[r].ip = None THEN "fetch" ELSE "incr")
    /\ UNCHANGED <<cache, counter, observed, unbounded>>

\* allow: the count is within the budget.
Admitted(r, n) ==
    IF n <= Budget
    THEN /\ Goto(r, "fetch")
         /\ seen' = IF req[r].ip = watch THEN seen + 1 ELSE seen
    ELSE Goto(r, "limited") /\ UNCHANGED seen

FailsOpen(r) == Goto(r, "fetch") /\ UNCHANGED seen

\* The bug of starting the lifetime with the second count.
FirstLate(n) == n = 2

First(n) == n = 1

\* Counts above the budget are not told apart.
Incr(r) ==
    /\ req[r].pc = "incr"
    /\ LET ip == req[r].ip
           n == IF counter[ip] = None THEN 1 ELSE counter[ip].n + 1
           kept == IF n > Budget THEN Budget + 1 ELSE n
       IN \/ /\ counter' = [counter EXCEPT ![ip] = [n |-> kept, left |-> IF @ = None THEN None ELSE @.left]]
             /\ IF First(n) THEN Goto(r, "expire") /\ UNCHANGED seen ELSE Admitted(r, n)
          \/ FailsOpen(r) /\ UNCHANGED counter
    /\ UNCHANGED <<cache, watch, since, unbounded>>

\* When it fails, or the process dies before it, the counter stays for good.
Expire(r) ==
    /\ req[r].pc = "expire"
    /\ LET ip == req[r].ip
       IN \/ /\ counter' = [counter EXCEPT ![ip].left = Window]
             /\ Admitted(r, 1)
             /\ UNCHANGED unbounded
          \/ FailsOpen(r) /\ unbounded' = unbounded \cup {ip} /\ UNCHANGED counter
    /\ UNCHANGED <<cache, watch, since>>

\* 200, at most 2 MiB and a PNG, or 502 and nothing is stored.
Fetch(r) ==
    /\ req[r].pc = "fetch"
    /\ Goto(r, "set") \/ Done(r)
    /\ UNCHANGED <<cache, counter, observed, unbounded>>

Set(r) ==
    /\ req[r].pc = "set"
    /\ cache' = cache \cup {req[r].key} \/ UNCHANGED cache
    /\ Done(r)
    /\ UNCHANGED <<counter, observed, unbounded>>

\* 429.
Refuse(r) == req[r].pc = "limited" /\ Done(r) /\ UNCHANGED <<cache, counter, observed, unbounded>>

\* A process dies with its requests.
Crash(r) ==
    /\ req[r] # Idle
    /\ unbounded' = IF req[r].pc = "expire" THEN unbounded \cup {req[r].ip} ELSE unbounded
    /\ Done(r)
    /\ UNCHANGED <<cache, counter, observed>>

\* The end of its lifetime, or Redis needs the memory.
Evict ==
    /\ \E key \in cache : cache' = cache \ {key}
    /\ UNCHANGED <<counter, req, observed, unbounded>>

\* The observer looks on, or begins anew.
Tick ==
    /\ counter' = [ip \in Addresses |->
         IF counter[ip] = None \/ counter[ip].left = None THEN counter[ip]
         ELSE IF counter[ip].left = 1 THEN None ELSE [counter[ip] EXCEPT !.left = @ - 1]]
    /\ \/ since + 1 < Window /\ since' = since + 1 /\ UNCHANGED seen
       \/ since' = 0 /\ seen' = 0
    /\ UNCHANGED <<cache, req, watch, unbounded>>

Next ==
    \/ \E r \in Requests :
         Ask(r) \/ Get(r) \/ Incr(r) \/ Expire(r) \/ Fetch(r) \/ Set(r) \/ Refuse(r) \/ Crash(r)
    \/ Evict
    \/ Tick

Spec == Init /\ [][Next]_vars

\* The budget of an address, "tiles one client IP may fetch upstream per minute": no minute sees more than two budgets
\* of counted downloads, and an address that was refused is admitted again after a minute, except that a counter whose
\* EXPIRE did not happen refuses its address for ever.
MissBudget ==
    /\ seen <= 2 * Budget
    /\ \A ip \in Addresses :
         counter[ip] # None /\ counter[ip].left = None =>
           ip \in unbounded \/ \E r \in Requests : req[r].pc = "expire" /\ req[r].ip = ip
================================================================================

-------------------------------- MODULE Sunspot --------------------------------
(***************************************************************************)
(* The sunspot numbers of the web processes (internal/sunspot).  Each one  *)
(* refreshes its values from two files, at once and then every Every       *)
(* ticks, after a failure every Retry ticks.  The files go through a cache *)
(* that all processes share and that keeps a file for Every ticks.         *)
(*                                                                         *)
(* A file is put into the cache before it is decoded: one that cannot be   *)
(* decoded fails every refresh of every process until its time is over.    *)
(***************************************************************************)
EXTENDS Naturals, Sequences

CONSTANTS
    Processes,
    Every,     \* refreshEvery in ticks
    Retry,     \* retryAfter in ticks
    None

Pauses == Every \in Nat \ {0} /\ Retry \in 0..Every /\ None \notin Nat

VARIABLES
    cache,    \* cache[f]: content and age of the cached file f, or None
    proc,     \* proc[p]: what the loop of process p does
    values,   \* values[p]: age of the older one of the files the values are from, or None
    calm      \* history: for how long every file was there and good, and no process started

vars == <<cache, proc, values, calm>>

Files == {"observed", "predicted"}
Contents == {"values", "empty", "broken"}  \* empty: without a value of any month
Known == Every + Retry + 1                 \* bounds: longer times
Old == 2 * Every + 1                       \* and older values are not told apart
Older(age, bound) == IF age < bound THEN age + 1 ELSE age

Waiting(left) == [pc |-> "wait", left |-> left]
Look(got) == [pc |-> "look", got |-> got]  \* got: the files that were decoded, with their age
File(p) == IF proc[p].got = << >> THEN "observed" ELSE "predicted"

Init ==
    /\ cache = [f \in Files |-> None]
    /\ proc = [p \in Processes |-> Look(<< >>)]
    /\ values = [p \in Processes |-> None]
    /\ calm = 0

Timer(p) ==
    /\ proc[p] = Waiting(0)
    /\ proc' = [proc EXCEPT ![p] = Look(<< >>)]
    /\ UNCHANGED <<cache, values, calm>>

Pause(ok) == IF ok THEN Every ELSE Retry
Ends(p, ok) == proc' = [proc EXCEPT ![p] = Waiting(Pause(ok))]

\* The body is decoded: an error leaves the values, the second file replaces them if a month has a value in one of them.
Decode(p, content, age) ==
    LET got == Append(proc[p].got, [content |-> content, age |-> age])
        complete == \E i \in DOMAIN got : got[i].content = "values"
        oldest == IF got[1].age > age THEN got[1].age ELSE age
    IN \/ /\ content = "broken" \/ (Len(got) = 2 /\ ~complete)
          /\ Ends(p, FALSE) /\ UNCHANGED values
       \/ /\ content # "broken" /\ Len(got) = 1
          /\ proc' = [proc EXCEPT ![p] = Look(got)] /\ UNCHANGED values
       \/ /\ content # "broken" /\ Len(got) = 2 /\ complete
          /\ Ends(p, TRUE) /\ values' = [values EXCEPT ![p] = oldest]

GetCached(p) ==
    /\ proc[p].pc = "look"
    /\ cache[File(p)] # None
    /\ Decode(p, cache[File(p)].content, cache[File(p)].age)
    /\ UNCHANGED <<cache, calm>>

\* A miss, or a cache that does not answer: the body of an answer 200, whatever it is.
Fetch(p) ==
    /\ proc[p].pc = "look"
    /\ \E content \in Contents :
         /\ proc' = [proc EXCEPT ![p] = [pc |-> "fetched", got |-> @.got, content |-> content]]
         /\ calm' = IF content = "values" THEN calm ELSE 0
    /\ UNCHANGED <<cache, values>>

FetchError(p) ==
    /\ proc[p].pc = "look"
    /\ Ends(p, FALSE)
    /\ calm' = 0
    /\ UNCHANGED <<cache, values>>

\* The cache takes the body or not, then it is decoded.
Store(p) ==
    /\ proc[p].pc = "fetched"
    /\ \/ cache' = [cache EXCEPT ![File(p)] = [content |-> proc[p].content, age |-> 0]]
       \/ UNCHANGED cache
    /\ Decode(p, proc[p].content, 0)
    /\ UNCHANGED calm

Restart(p) ==
    /\ proc' = [proc EXCEPT ![p] = Look(<< >>)]
    /\ values' = [values EXCEPT ![p] = None]
    /\ calm' = 0
    /\ UNCHANGED cache

\* The bug of a file that is kept for twice as long as its values.
KeptTwice(age) == age < 2 * Every

Kept(age) == age < Every

\* A refresh takes at most two times 30 seconds: no tick passes before the refreshes that are due have ended.
Tick ==
    /\ \A p \in Processes : proc[p].pc = "wait" /\ proc[p].left > 0
    /\ cache' = [f \in Files |-> IF cache[f] # None /\ Kept(cache[f].age + 1) THEN [cache[f] EXCEPT !.age = @ + 1]
                                 ELSE None]
    /\ proc' = [p \in Processes |-> Waiting(proc[p].left - 1)]
    /\ values' = [p \in Processes |-> IF values[p] = None THEN None ELSE Older(values[p], Old)]
    /\ calm' = Older(calm, Known)

Next ==
    \/ \E p \in Processes :
         Timer(p) \/ GetCached(p) \/ Fetch(p) \/ FetchError(p) \/ Store(p) \/ Restart(p)
    \/ Tick

Spec == Init /\ [][Next]_vars

\* A file that is not there or cannot be decoded does no lasting harm: when NOAA has been answering well for the life of
\* a cached file and one retry, and no process started since, every process has values, and none from a file that was
\* fetched more than two periods ago.
ValuesRecover ==
    calm > Every + Retry =>
        \A p \in Processes : values[p] # None /\ values[p] <= 2 * Every
================================================================================

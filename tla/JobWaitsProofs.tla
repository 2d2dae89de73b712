---------------------------- MODULE JobWaitsProofs ----------------------------
(***************************************************************************)
(* No channel is closed twice and the streams of a user are counted, for   *)
(* any number of waiters and jobs.                                         *)
(***************************************************************************)
EXTENDS JobWaits, FiniteSetTheorems, TLAPS

Types ==
  /\ state \in [Ids -> {"none", "active", "done", "failed"}]
  /\ covered \in BOOLEAN
  /\ notes \subseteq Ids
  /\ m \in [Ids -> {"none", "open", "closed"}]
  /\ panic \in BOOLEAN
  /\ pc \in [Waiters -> {"idle"} \cup Waiting]
  /\ on \in [Waiters -> Ids \cup {None}]
  /\ ch \in [Waiters -> {"none", "open", "closed", "dropped"}]

\* A waiter has a job where it needs one, and a channel only while it waits on it.
Loops ==
  \A u \in Waiters :
     /\ pc[u] \in {"select", "wait"} => on[u] \in Ids
     /\ u \in Requests /\ pc[u] # "idle" => on[u] \in Ids
     /\ ch[u] # "none" => pc[u] = "wait"

\* A closed channel is not in the map, and an open one is.
Channels ==
  /\ ~panic
  /\ \A id \in Ids : m[id] # "closed"
  /\ \A u \in Waiters : ch[u] = "open" => m[on[u]] = "open"

Inside == {u \in Streams : pc[u] # "idle"}
Counted == streams = Cardinality(Inside)

Inv == Types /\ Loops /\ Channels /\ Counted

-------------------------------------------------------------------------------
(***************************************************************************)
(* The streams of the user.                                                *)
(***************************************************************************)
LEMMA InsideFinite == IsFiniteSet(Inside) /\ Cardinality(Inside) \in Nat
<1>1. Inside \subseteq Streams
  BY DEF Inside
<1> QED BY <1>1, WaitsAssumption, FS_Subset, FS_CardinalityType

\* A step that lets nobody in or out.
LEMMA CountedStays ==
  ASSUME Counted, UNCHANGED streams, \A u \in Streams : pc'[u] # "idle" <=> pc[u] # "idle"
  PROVE  Counted'
<1>1. Inside' = Inside
  BY DEF Inside
<1> QED BY <1>1 DEF Counted

\* A waiter whose place changes.
LEMMA Moved ==
  ASSUME Types, NEW u \in Waiters, NEW l \in {"idle"} \cup Waiting, NEW id \in Ids \cup {None}, At(u, l, id)
  PROVE  /\ pc' \in [Waiters -> {"idle"} \cup Waiting] /\ on' \in [Waiters -> Ids \cup {None}]
         /\ pc'[u] = l /\ on'[u] = id
         /\ \A v \in Waiters \ {u} : pc'[v] = pc[v] /\ on'[v] = on[v]
BY DEF At, Types

\* closeStream: who leaves was inside.
LEMMA LeaveCounted ==
  ASSUME Types, Counted, NEW u \in Waiters, pc[u] # "idle", Leave(u)
  PROVE  Counted'
<1>1. pc'[u] = "idle" /\ \A v \in Waiters \ {u} : pc'[v] = pc[v]
  BY Moved DEF Leave
<1>2. CASE u \in Streams
  <2>1. Inside' = Inside \ {u} /\ u \in Inside
    BY <1>1, <1>2 DEF Inside, Waiters
  <2>2. Cardinality(Inside') = Cardinality(Inside) - 1
    BY <2>1, InsideFinite, FS_RemoveElement
  <2> QED BY <1>2, <2>2 DEF Leave, Counted
<1>3. CASE u \notin Streams
  <2>1. \A v \in Streams : pc'[v] = pc[v]
    BY <1>1, <1>3 DEF Waiters
  <2> QED BY <1>3, <2>1, CountedStays DEF Leave
<1> QED BY <1>2, <1>3

-------------------------------------------------------------------------------
(***************************************************************************)
(* The steps.                                                              *)
(***************************************************************************)
LEMMA InitInv == ASSUME Init PROVE Inv
<1>1. Types /\ Loops /\ Channels
  BY DEF Init, Types, Loops, Channels
<1>2. Inside = {}
  BY DEF Init, Inside, Waiters
<1> QED BY <1>1, <1>2, FS_EmptySet DEF Inv, Counted, Init

\* What the jobs do among themselves.
LEMMA JobsOnly ==
  ASSUME Inv, UNCHANGED <<mapVars, waiterVars, streams>>,
         state' \in [Ids -> {"none", "active", "done", "failed"}], covered' \in BOOLEAN, notes' \subseteq Ids
  PROVE  Inv'
<1>1. Types' /\ Loops' /\ Channels'
  BY DEF Inv, Types, Loops, Channels, mapVars, waiterVars
<1>2. Counted'
  BY CountedStays DEF Inv, waiterVars
<1> QED BY <1>1, <1>2 DEF Inv

\* done: the channel leaves the map as it is closed.
LEMMA JobDoneInv == ASSUME Inv, NEW id \in Ids, JobDone(id) PROVE Inv'
<1>1. panic' = (panic \/ m[id] = "closed") /\ m' = [m EXCEPT ![id] = "none"]
  BY DEF JobDone, Done, Close
<1>2. \A u \in Waiters : ch'[u] = IF u \in Sharing(id) THEN "closed" ELSE ch[u]
  BY DEF JobDone, Done, Close
<1>3. ch' \in [Waiters -> {"none", "open", "closed", "dropped"}]
  BY DEF JobDone, Done, Close, Inv, Types
<1>4. Types'
  BY <1>1, <1>3 DEF JobDone, Inv, Types
<1>5. Loops'
  BY <1>2 DEF JobDone, Inv, Loops, Sharing
<1>6. Channels'
  BY <1>1, <1>2 DEF JobDone, Inv, Types, Loops, Channels, Sharing
<1>7. Counted'
  BY CountedStays DEF JobDone, Inv
<1> QED BY <1>4, <1>5, <1>6, <1>7 DEF Inv

\* A waiter goes on without a channel.
LEMMA Goes ==
  ASSUME Inv, NEW u \in Waiters, NEW l \in {"select", "query"}, NEW id \in Ids \cup {None},
         At(u, l, id), pc[u] # "idle" \/ u \notin Streams, UNCHANGED streams,
         l = "select" \/ u \in Requests => id \in Ids,
         ch' = [ch EXCEPT ![u] = "none"], UNCHANGED mapVars,
         state' \in [Ids -> {"none", "active", "done", "failed"}], UNCHANGED <<covered, notes>>
  PROVE  Inv'
<1>1. /\ pc' \in [Waiters -> {"idle"} \cup Waiting] /\ on' \in [Waiters -> Ids \cup {None}]
      /\ pc'[u] = l /\ on'[u] = id
      /\ \A v \in Waiters \ {u} : pc'[v] = pc[v] /\ on'[v] = on[v]
  BY Moved DEF Inv, Waiting
<1>2. /\ ch' \in [Waiters -> {"none", "open", "closed", "dropped"}] /\ ch'[u] = "none"
      /\ \A v \in Waiters \ {u} : ch'[v] = ch[v]
  BY DEF Inv, Types
<1>3. Types'
  BY <1>1, <1>2 DEF Inv, Types, mapVars
<1>4. Loops'
  BY <1>1, <1>2 DEF Inv, Loops
<1>5. Channels'
  BY <1>1, <1>2 DEF Inv, Channels, mapVars
<1>6. Counted'
  BY <1>1, CountedStays DEF Inv, Waiters
<1> QED BY <1>3, <1>4, <1>5, <1>6 DEF Inv

\* A waiter that has no channel, or has just given it back, returns.
LEMMA Leaves ==
  ASSUME Inv, NEW u \in Waiters, pc[u] # "idle", Leave(u), UNCHANGED <<jobVars, panic>>,
         m' \in [Ids -> {"none", "open", "closed"}], \A id \in Ids : m'[id] # "closed",
         ch' \in [Waiters -> {"none", "open", "closed", "dropped"}], ch'[u] = "none",
         \A v \in Waiters \ {u} : /\ ch'[v] # "none" => ch[v] # "none"
                                  /\ ch'[v] = "open" => ch[v] = "open" /\ m'[on[v]] = m[on[v]]
  PROVE  Inv'
<1>1. /\ pc' \in [Waiters -> {"idle"} \cup Waiting] /\ on' \in [Waiters -> Ids \cup {None}]
      /\ pc'[u] = "idle" /\ on'[u] = None
      /\ \A v \in Waiters \ {u} : pc'[v] = pc[v] /\ on'[v] = on[v]
  BY Moved DEF Leave, Inv
<1>2. Types'
  BY <1>1 DEF Inv, Types, jobVars
<1>3. Loops'
  BY <1>1 DEF Inv, Loops
<1>4. Channels'
  BY <1>1 DEF Inv, Channels
<1>5. Counted'
  BY LeaveCounted DEF Inv
<1> QED BY <1>2, <1>3, <1>4, <1>5 DEF Inv

LEMMA AskInv == ASSUME Inv, NEW u \in Requests, NEW id \in ShortIds, Ask(u, id) PROVE Inv'
<1>1. u \in Waiters /\ u \notin Streams /\ id \in Ids
  BY WaitsAssumption DEF Waiters, Ids
<1>2. ch' = [ch EXCEPT ![u] = "none"]
  BY <1>1 DEF Ask, Inv, Types, Loops
<1>3. state' \in [Ids -> {"none", "active", "done", "failed"}]
  BY DEF Ask, Inv, Types
<1> QED BY <1>1, <1>2, <1>3, Goes DEF Ask

\* openStream: who enters was outside.
LEMMA OpenInv == ASSUME Inv, NEW u \in Streams, OpenStream(u) PROVE Inv'
<1>1. u \in Waiters /\ u \notin Requests /\ ch[u] = "none"
  BY WaitsAssumption DEF Waiters, OpenStream, Inv, Loops
<1>2. /\ pc' \in [Waiters -> {"idle"} \cup Waiting] /\ on' \in [Waiters -> Ids \cup {None}]
      /\ pc'[u] = "query" /\ on'[u] = None
      /\ \A v \in Waiters \ {u} : pc'[v] = pc[v] /\ on'[v] = on[v]
  BY <1>1, Moved DEF OpenStream, Inv, Waiting
<1>3. Types' /\ Loops' /\ Channels'
  BY <1>1, <1>2 DEF OpenStream, Inv, Types, Loops, Channels, jobVars, mapVars
<1>4. Inside' = Inside \cup {u} /\ u \notin Inside
  BY <1>2 DEF Inside, OpenStream, Waiters
<1>5. Cardinality(Inside') = Cardinality(Inside) + 1
  BY <1>4, InsideFinite, FS_AddElement
<1> QED BY <1>3, <1>5 DEF OpenStream, Inv, Counted

\* wait: the channel is open and in the map.
LEMMA EnterInv == ASSUME Inv, NEW u \in Waiters, Enter(u) PROVE Inv'
<1>1. on[u] \in Ids /\ m[on[u]] \in {"none", "open"}
  BY DEF Enter, Inv, Loops, Channels, Types
<1>2. m' = [m EXCEPT ![on[u]] = "open"] /\ ch' = [ch EXCEPT ![u] = "open"] /\ UNCHANGED panic
  BY <1>1 DEF Enter, Wait
<1>3. pc' = [pc EXCEPT ![u] = "wait"] /\ UNCHANGED <<jobVars, on, streams>> /\ pc[u] = "select"
  BY DEF Enter
<1>4. Types' /\ Loops'
  BY <1>1, <1>2, <1>3 DEF Inv, Types, Loops, Waiting, jobVars
<1>5. Channels'
  BY <1>1, <1>2, <1>3 DEF Inv, Types, Channels
<1>6. Counted'
  BY <1>3, CountedStays DEF Inv, Types, Waiters
<1> QED BY <1>4, <1>5, <1>6 DEF Inv

LEMMA WakeInv == ASSUME Inv, NEW u \in Waiters, Woken(u) \/ Poll(u) PROVE Inv'
<1>1. /\ pc[u] = "wait" /\ At(u, "query", on[u]) /\ ch' = [ch EXCEPT ![u] = "none"]
      /\ UNCHANGED <<jobVars, mapVars, streams>>
  BY DEF Woken, Poll
<1>2. on[u] \in Ids
  BY <1>1 DEF Inv, Loops
<1> QED BY <1>1, <1>2, Goes DEF jobVars, Inv, Types

\* The queries: a waiter that asks has no channel.
LEMMA QueryInv ==
  ASSUME Inv, NEW u \in Waiters,
         (u \in Requests /\ GetJob(u)) \/ (u \in Streams /\ CoverageJob(u)) \/ QueryError(u)
  PROVE  Inv'
<1>1. pc[u] = "query" /\ ch[u] = "none" /\ UNCHANGED <<jobVars, mapVars, ch>>
  BY DEF GetJob, CoverageJob, QueryError, Inv, Loops
<1>2. ch' = [ch EXCEPT ![u] = "none"]
  BY <1>1 DEF Inv, Types
<1>3. CASE Leave(u)
  BY <1>1, <1>3, Leaves DEF Inv, Types, Channels, mapVars
<1>4. CASE \E id \in Ids : At(u, "select", id) /\ UNCHANGED streams
  BY <1>1, <1>2, <1>4, Goes DEF jobVars, Inv, Types
<1>5. u \in Requests => on[u] \in Ids
  BY <1>1 DEF Inv, Loops
<1> QED BY <1>3, <1>4, <1>5 DEF GetJob, CoverageJob, QueryError, JobOfCoverage, Ids

\* forget: what the others share is dropped from the map, so that nobody can close it.
LEMMA GiveUpInv == ASSUME Inv, NEW u \in Waiters, GiveUp(u) PROVE Inv'
<1> DEFINE id == on[u]
<1>1. id \in Ids /\ pc[u] = "wait" /\ Leave(u) /\ UNCHANGED <<jobVars, panic>>
  BY DEF GiveUp, Forget, Inv, Loops
<1>2. m' = [m EXCEPT ![id] = "none"]
  BY DEF GiveUp, Forget
<1>3. ch' = [v \in Waiters |-> CASE v = u -> "none"
                                 [] v \in Sharing(id) \ {u} -> "dropped"
                                 [] OTHER -> ch[v]]
  BY DEF GiveUp, Forget
<1> HIDE DEF id
<1>4. /\ ch'[u] = "none"
      /\ \A v \in Waiters \ {u} : ch'[v] = IF v \in Sharing(id) THEN "dropped" ELSE ch[v]
      /\ ch' \in [Waiters -> {"none", "open", "closed", "dropped"}]
  BY <1>3 DEF Inv, Types
<1>5. \A v \in Waiters \ {u} : /\ ch'[v] # "none" => ch[v] # "none"
                               /\ ch'[v] = "open" => ch[v] = "open" /\ m'[on[v]] = m[on[v]]
  <2> SUFFICES ASSUME NEW v \in Waiters \ {u}
               PROVE  /\ ch'[v] # "none" => ch[v] # "none"
                      /\ ch'[v] = "open" => ch[v] = "open" /\ m'[on[v]] = m[on[v]]
    OBVIOUS
  <2>1. ch'[v] = "open" => ch[v] = "open" /\ on[v] # id /\ on[v] \in Ids
    BY <1>4 DEF Sharing, Inv, Loops
  <2> QED BY <1>2, <1>4, <2>1 DEF Sharing, Inv, Types
<1>6. m' \in [Ids -> {"none", "open", "closed"}] /\ \A i \in Ids : m'[i] # "closed"
  BY <1>1, <1>2 DEF Inv, Types, Channels
<1> QED BY <1>1, <1>4, <1>5, <1>6, Leaves

LEMMA StepInv == ASSUME Inv, [Next]_vars PROVE Inv'
<1>1. CASE \E id \in Ids : JobStep(id)
  <2> PICK id \in Ids : JobStep(id)
    BY <1>1
  <2>1. CASE \E o \in {"done", "failed"}, N \in SUBSET {id} : Settle(id, o, N)
    BY <2>1, JobsOnly DEF Settle, Inv, Types
  <2>2. CASE Delete(id)
    BY <2>2, JobsOnly DEF Delete, Inv, Types
  <2> QED BY <2>1, <2>2, JobDoneInv DEF JobStep
<1>2. CASE \E id \in CoverageIds : EnqueueCoverage(id)
  <2> PICK id \in CoverageIds : EnqueueCoverage(id)
    BY <1>2
  <2>1. state' \in [Ids -> {"none", "active", "done", "failed"}]
    BY DEF EnqueueCoverage, Inv, Types
  <2> QED BY <2>1, JobsOnly DEF EnqueueCoverage, Inv, Types
<1>3. CASE DeleteCoverage
  <2>1. state' \in [Ids -> {"none", "active", "done", "failed"}]
    BY <1>3 DEF DeleteCoverage, Inv, Types
  <2> QED BY <1>3, <2>1, JobsOnly DEF DeleteCoverage, Inv, Types
<1>4. CASE \E u \in Waiters : Loop(u) \/ GiveUp(u) \/ QueryError(u)
  BY <1>4, EnterInv, WakeInv, QueryInv, GiveUpInv DEF Loop
<1>5. CASE UNCHANGED vars
  BY <1>5, JobsOnly DEF vars, mapVars, waiterVars, Inv, Types
<1> QED BY <1>1, <1>2, <1>3, <1>4, <1>5, AskInv, OpenInv DEF Next

LEMMA AlwaysInv == Spec => []Inv
<1>1. Init => Inv BY InitInv
<1>2. Inv /\ [Next]_vars => Inv' BY StepInv
<1> QED BY <1>1, <1>2, PTL DEF Spec

\* jobWaits (web/jobs.go): done never closes a channel twice, whoever waits, gives up or comes back meanwhile.
THEOREM NeverPanics == Spec => []NoPanic
<1>1. Inv => NoPanic
  BY DEF Inv, Channels, NoPanic
<1> QED BY <1>1, AlwaysInv, PTL

\* openStream and closeStream (web/events.go): the count is exact on every way out of the handler.
THEOREM StreamsCounted == Spec => []TypeOK
<1>1. Inv => TypeOK
  BY DEF Inv, Types, Counted, Inside, TypeOK
<1> QED BY <1>1, AlwaysInv, PTL
===============================================================================

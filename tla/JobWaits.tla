------------------------------ MODULE JobWaits ------------------------------
(***************************************************************************)
(* One web process that waits for jobs: requests inside runJob and event   *)
(* streams inside coverageEvents of internal/web, which share the channels *)
(* of jobWaits, and the listener that turns job_done notifications into    *)
(* JobDone.  The jobs are the environment: they settle, are queued again   *)
(* or deleted as JobQueue says, and their notification may be lost or come *)
(* late.                                                                   *)
(*                                                                         *)
(* A select of the code evaluates s.waits.wait before it blocks, so one    *)
(* turn of a loop is three steps: Enter (the channel is taken), one of the *)
(* ways out of the select, and the query of the job.                       *)
(***************************************************************************)
EXTENDS Naturals, FiniteSets

CONSTANTS
  Requests,    \* calls of runJob
  Streams,     \* calls of coverageEvents by one user, for one coverage
  ShortIds,    \* ids of short jobs
  CoverageIds, \* ids of the successive jobs of the coverage
  MaxStreams,  \* maxStreamsPerUser
  None

Waiters == Requests \cup Streams
Ids == ShortIds \cup CoverageIds

ASSUME WaitsAssumption ==
  /\ Requests \cap Streams = {}
  /\ ShortIds \cap CoverageIds = {}
  /\ None \notin Ids
  /\ MaxStreams \in Nat \ {0}
  /\ IsFiniteSet(Streams)

VARIABLES
  state,   \* state[id] of the job in the table, "none" when it is not there
  covered, \* whether the coverage exists
  notes,   \* job_done notifications on their way to this process
  m,       \* jobWaits.m: the channel of a job
  panic,   \* whether a channel was closed twice
  pc,      \* where each waiter is in its loop
  on,      \* the job it waits for
  ch,      \* the channel it waits on
  streams  \* Server.streams of the user

jobVars == <<state, covered, notes>>
mapVars == <<m, panic>>
waiterVars == <<pc, on, ch>>
vars == <<state, covered, notes, m, panic, pc, on, ch, streams>>

Active(id) == state[id] = "active"
Waiting == {"select", "wait", "query"}

\* The coverage has at most one job (EnqueueCoverage replaces a finished one).
JobOfCoverage == {id \in CoverageIds : state[id] # "none"}

(***************************************************************************)
(* jobWaits.  The waiters of one job share the channel in the map until it *)
(* is closed (ch is "closed") or dropped from the map ("dropped": nobody   *)
(* can close it any more).                                                 *)
(***************************************************************************)
Sharing(id) == {u \in Waiters : on[u] = id /\ ch[u] = "open"}

\* wait: the channel in the map, or a new one.
Wait(u, id) ==
  LET c == IF m[id] = "none" THEN "open" ELSE m[id]
  IN /\ m' = [m EXCEPT ![id] = c]
     /\ ch' = [ch EXCEPT ![u] = c]
     /\ UNCHANGED panic

Close(id) ==
  /\ panic' = (panic \/ m[id] = "closed")
  /\ ch' = [u \in Waiters |-> IF u \in Sharing(id) THEN "closed" ELSE ch[u]]

\* Mutant: the closed channel stays in the map.
DoneKeeps(id) ==
  /\ Close(id)
  /\ m' = [m EXCEPT ![id] = IF @ = "none" THEN @ ELSE "closed"]

\* done; closing a closed channel panics.
Done(id) ==
  /\ Close(id)
  /\ m' = [m EXCEPT ![id] = "none"]

\* forget by waiter u, which leaves.
Forget(u, id) ==
  /\ m' = [m EXCEPT ![id] = "none"]
  /\ ch' = [v \in Waiters |-> CASE v = u -> "none"
                                [] v \in Sharing(id) \ {u} -> "dropped"
                                [] OTHER -> ch[v]]
  /\ UNCHANGED panic

(***************************************************************************)
(* The jobs and their notifications.                                       *)
(***************************************************************************)

\* An id of the sequence is never used twice; one nobody refers to stands for
\* the next one.
Fresh(id) ==
  /\ state[id] = "none"
  /\ id \notin notes
  /\ m[id] = "none"
  /\ \A u \in Waiters : on[u] # id

\* FinishJob, FinishCoverageJob or FailJob; the notification may be lost while
\* the listener is not connected.
Settle(id, outcome, N) ==
  /\ Active(id)
  /\ state' = [state EXCEPT ![id] = outcome]
  /\ notes' = notes \cup N
  /\ UNCHANGED <<covered, mapVars, waiterVars, streams>>

\* The janitor and the deletion of the owner.
Delete(id) ==
  /\ state[id] # "none"
  /\ state' = [state EXCEPT ![id] = "none"]
  /\ UNCHANGED <<covered, notes, mapVars, waiterVars, streams>>

DeleteCoverage ==
  /\ covered
  /\ covered' = FALSE
  /\ state' = [id \in Ids |-> IF id \in CoverageIds THEN "none" ELSE state[id]]
  /\ UNCHANGED <<notes, mapVars, waiterVars, streams>>

\* EnqueueCoverage: a job that is queued or running stays.
EnqueueCoverage(id) ==
  /\ covered
  /\ Fresh(id)
  /\ \A k \in JobOfCoverage : ~Active(k)
  /\ state' = [k \in Ids |-> CASE k = id -> "active"
                               [] k \in JobOfCoverage -> "none"
                               [] OTHER -> state[k]]
  /\ UNCHANGED <<covered, notes, mapVars, waiterVars, streams>>

\* The listener hands the payload to JobDone.
JobDone(id) ==
  /\ id \in notes
  /\ notes' = notes \ {id}
  /\ Done(id)
  /\ UNCHANGED <<state, covered, pc, on, streams>>

(***************************************************************************)
(* runJob and coverageEvents.                                              *)
(***************************************************************************)
At(u, l, id) ==
  /\ pc' = [pc EXCEPT ![u] = l]
  /\ on' = [on EXCEPT ![u] = id]

\* Mutant: the deferred closeStream is missing.
LeaveOpen(u) ==
  /\ At(u, "idle", None)
  /\ UNCHANGED streams

\* The handler returns; that of a stream ends with closeStream.
Leave(u) ==
  /\ At(u, "idle", None)
  /\ streams' = IF u \in Streams THEN streams - 1 ELSE streams

\* EnqueueJob: a new job, the active one with the same input, or the failed one
\* queued again; a done job is the answer and nothing is waited for.
Ask(u, id) ==
  /\ pc[u] = "idle"
  /\ state[id] \in {"active", "failed"} \/ Fresh(id)
  /\ state' = [state EXCEPT ![id] = "active"]
  /\ At(u, "select", id)
  /\ UNCHANGED <<covered, notes, mapVars, ch, streams>>

OpenStream(u) ==
  /\ pc[u] = "idle"
  /\ streams < MaxStreams
  /\ streams' = streams + 1
  /\ At(u, "query", None)
  /\ UNCHANGED <<jobVars, mapVars, ch>>

Enter(u) ==
  /\ pc[u] = "select"
  /\ Wait(u, on[u])
  /\ pc' = [pc EXCEPT ![u] = "wait"]
  /\ UNCHANGED <<jobVars, on, streams>>

Woken(u) ==
  /\ pc[u] = "wait"
  /\ ch[u] = "closed"
  /\ At(u, "query", on[u])
  /\ ch' = [ch EXCEPT ![u] = "none"]
  /\ UNCHANGED <<jobVars, mapVars, streams>>

\* Mutant: runJob without its poll.
PollStreams(u) ==
  /\ u \in Streams
  /\ pc[u] = "wait"
  /\ At(u, "query", on[u])
  /\ ch' = [ch EXCEPT ![u] = "none"]
  /\ UNCHANGED <<jobVars, mapVars, streams>>

Poll(u) ==
  /\ pc[u] = "wait"
  /\ At(u, "query", on[u])
  /\ ch' = [ch EXCEPT ![u] = "none"]
  /\ UNCHANGED <<jobVars, mapVars, streams>>

\* The client left, or jobWait or eventMaxLife is over.
GiveUp(u) ==
  /\ pc[u] = "wait"
  /\ Forget(u, on[u])
  /\ Leave(u)
  /\ UNCHANGED jobVars

\* GetJob of runJob: the loop goes on while the job is active; it ends with an
\* error when the job is gone.
GetJob(u) ==
  /\ pc[u] = "query"
  /\ IF Active(on[u]) THEN At(u, "select", on[u]) /\ UNCHANGED streams ELSE Leave(u)
  /\ UNCHANGED <<jobVars, mapVars, ch>>

\* CoverageJob of coverageEvents: another job may be the newest by now.
CoverageJob(u) ==
  /\ pc[u] = "query"
  /\ \/ \E id \in JobOfCoverage : Active(id) /\ At(u, "select", id) /\ UNCHANGED streams
     \/ (\A id \in JobOfCoverage : ~Active(id)) /\ Leave(u)
  /\ UNCHANGED <<jobVars, mapVars, ch>>

\* The query fails, or the event cannot be sent.
QueryError(u) ==
  /\ pc[u] = "query"
  /\ Leave(u)
  /\ UNCHANGED <<jobVars, mapVars, ch>>

-----------------------------------------------------------------------------
Init ==
  /\ state = [id \in Ids |-> "none"]
  /\ covered = TRUE
  /\ notes = {}
  /\ m = [id \in Ids |-> "none"]
  /\ panic = FALSE
  /\ pc = [u \in Waiters |-> "idle"]
  /\ on = [u \in Waiters |-> None]
  /\ ch = [u \in Waiters |-> "none"]
  /\ streams = 0

JobStep(id) ==
  \/ \E o \in {"done", "failed"}, N \in SUBSET {id} : Settle(id, o, N)
  \/ Delete(id)
  \/ JobDone(id)

Loop(u) ==
  \/ Enter(u) \/ Woken(u) \/ Poll(u)
  \/ u \in Requests /\ GetJob(u)
  \/ u \in Streams /\ CoverageJob(u)

Next ==
  \/ \E id \in Ids : JobStep(id)
  \/ \E id \in CoverageIds : EnqueueCoverage(id)
  \/ DeleteCoverage
  \/ \E u \in Requests, id \in ShortIds : Ask(u, id)
  \/ \E u \in Streams : OpenStream(u)
  \/ \E u \in Waiters : Loop(u) \/ GiveUp(u) \/ QueryError(u)

\* The loops go on: a poll fires and a query returns.  Nothing is assumed of
\* the jobs, their notifications or the clients.
Fairness == \A u \in Waiters : WF_vars(Loop(u))

Spec == Init /\ [][Next]_vars /\ Fairness

-----------------------------------------------------------------------------
(***************************************************************************)
(* Properties.                                                             *)
(***************************************************************************)

\* Types; the user's open streams are counted exactly, on every way out of the
\* handler.
TypeOK ==
  /\ state \in [Ids -> {"none", "active", "done", "failed"}]
  /\ covered \in BOOLEAN
  /\ notes \subseteq Ids
  /\ m \in [Ids -> {"none", "open", "closed"}]
  /\ panic \in BOOLEAN
  /\ pc \in [Waiters -> {"idle"} \cup Waiting]
  /\ on \in [Waiters -> Ids \cup {None}]
  /\ ch \in [Waiters -> {"none", "open", "closed", "dropped"}]
  /\ streams = Cardinality({u \in Streams : pc[u] # "idle"})

\* The listener never closes a closed channel, which would end the process:
\* what waiters share is open and in the map until the job is reported or one
\* of them gives up.
NoPanic ==
  /\ ~panic
  /\ \A u \in Waiters : ch[u] = "open" => m[on[u]] = "open"

\* No waiter is left behind for ever by a job that settled or was deleted,
\* though its notification is lost, came before the waiter registered, or the
\* channel was dropped by another waiter that gave up.
NoneLeftWaiting ==
  \A u \in Waiters, id \in Ids :
     []<>~(pc[u] \in Waiting /\ on[u] = id /\ ~Active(id))

\* What forget documents: jobs that never report "leave nothing behind".
NothingLeftBehind ==
  \A id \in Ids :
     (state[id] = "none" /\ m[id] # "none") =>
        id \in notes \/ \E u \in Waiters : on[u] = id
=============================================================================

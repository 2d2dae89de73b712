--------------------------- MODULE JobQueueProofs ---------------------------
(***************************************************************************)
(* Proofs about JobQueue for every set of owners, inputs, workers,         *)
(* processes and requests, and every choice of times that satisfies        *)
(* TimeAssumption: type correctness, the claim a worker holds, what        *)
(* follows from it, and that the queue implements the life of a job.       *)
(***************************************************************************)
EXTENDS JobQueue, FiniteSetTheorems, TLAPS

\* The row a statement writes is a row.
LEMMA RowType ==
  /\ NoRow \in Row
  /\ \A o \in Owners, i \in Inputs : NewRow(o, i) \in Row
  /\ \A r \in Row :
       /\ Done(r) \in Row /\ Failed(r) \in Row /\ Requeued(r) \in Row
       /\ \A w \in Workers : Claimed(r, w) \in Row
<1>1. /\ NoRow \in Row
      /\ \A o \in Owners, i \in Inputs : NewRow(o, i) \in Row
  BY LimitAssumption, TimeAssumption
     DEF NoRow, NewRow, Row, ActiveStates, FinishedStates
<1>2. ASSUME NEW r \in Row
      PROVE  Done(r) \in Row /\ Failed(r) \in Row /\ Requeued(r) \in Row
  <2>1. 0 \in 0 .. AgeCap
    BY TimeAssumption
  <2>2. Done(r) \in Row
    BY <2>1 DEF Done, Row, ActiveStates, FinishedStates
  <2>3. Failed(r) \in Row
    BY <2>1 DEF Failed, Row, ActiveStates, FinishedStates
  <2>4. Requeued(r) \in Row
    BY <2>1 DEF Requeued, Row, ActiveStates, FinishedStates
  <2> QED BY <2>2, <2>3, <2>4
<1>3. ASSUME NEW r \in Row, NEW w \in Workers
      PROVE  Claimed(r, w) \in Row
  <2>1. 0 \in 0 .. AgeCap /\ OneMore(r.attempts) \in 0 .. MaxAttempts
    BY LimitAssumption, TimeAssumption DEF OneMore, Row
  <2> QED BY <2>1 DEF Claimed, Row, ActiveStates, FinishedStates
<1> QED BY <1>1, <1>2, <1>3

\* DELETE keeps the table well formed.
LEMMA RemoveType ==
  ASSUME TableOK, NEW S, Remove(S)
  PROVE  TableOK'
<1>1. jobs' \in [Ids -> Row] /\ older' \in [Ids -> SUBSET Ids] /\ runs' \in [Ids -> Nat]
  BY RowType DEF TableOK, Remove, LeaveQueue
<1>2. \A id \in Ids : \/ (jobs'[id] = jobs[id] /\ id \notin S)
                      \/ (jobs'[id] = NoRow /\ id \in S)
  BY DEF Remove
<1>3. overrun' \subseteq {id \in Ids : InTable(id)'}
  BY <1>2 DEF TableOK, Remove, InTable
<1> QED BY <1>1, <1>2, <1>3 DEF TableOK, InTable, NoRow

\* UPDATE of one row to its outcome keeps the table well formed.
LEMMA SettleType ==
  ASSUME TableOK, NEW id \in Ids,
         \/ Settle(id, Done(jobs[id]))
         \/ Settle(id, Failed(jobs[id]))
  PROVE  TableOK'
<1>1. CASE ~InTable(id)
  BY <1>1 DEF Settle, TableOK, InTable, tableVars
<1>2. CASE InTable(id)
  <2>1. PICK r \in {Done(jobs[id]), Failed(jobs[id])} : Settle(id, r)
    OBVIOUS
  <2>2. r \in Row
    BY RowType DEF TableOK
  <2>3. /\ jobs' = [jobs EXCEPT ![id] = r] /\ older' = LeaveQueue({id}) /\ runs' = runs
        /\ overrun' = overrun
    BY <1>2, <2>1 DEF Settle
  <2>4. /\ r.state \in FinishedStates
        /\ r.owner = jobs[id].owner
        /\ r.input = jobs[id].input
    BY DEF Done, Failed, TableOK, Row, FinishedStates
  <2>5. jobs' \in [Ids -> Row] /\ older' \in [Ids -> SUBSET Ids] /\ runs' \in [Ids -> Nat]
    BY <2>2, <2>3 DEF TableOK, LeaveQueue
  <2>6. \A k \in Ids : jobs'[k] = IF k = id THEN r ELSE jobs[k]
    BY <2>3 DEF TableOK
  <2> QED BY <1>2, <2>3, <2>4, <2>5, <2>6 DEF TableOK, InTable, FinishedStates
<1> QED BY <1>1, <1>2

\* INSERT or the update of a failed row keeps the table well formed.
LEMMA PutType ==
  ASSUME TableOK, NEW id \in Ids, NEW o \in Owners, NEW i \in Inputs, PutRow(id, o, i)
  PROVE  TableOK'
<1>1. jobs' = [jobs EXCEPT ![id] = NewRow(o, i)] /\ NewRow(o, i) \in Row
  BY RowType DEF PutRow
<1>2. jobs' \in [Ids -> Row] /\ older' \in [Ids -> SUBSET Ids] /\ runs' \in [Ids -> Nat]
  BY <1>1 DEF TableOK, PutRow, JoinQueue
<1>3. \A k \in Ids : jobs'[k] = IF k = id THEN NewRow(o, i) ELSE jobs[k]
  BY <1>1 DEF TableOK
<1>4. overrun' = overrun
  BY DEF PutRow
<1> QED BY <1>2, <1>3, <1>4 DEF TableOK, InTable, NewRow

\* A claim keeps the table well formed.
LEMMA ClaimType ==
  ASSUME TableOK, NEW w \in Workers, NEW id \in Ids, ClaimRow(w, id), runs' \in [Ids -> Nat]
  PROVE  TableOK'
<1>1. /\ jobs' = [jobs EXCEPT ![id] = Claimed(jobs[id], w)]
      /\ Claimed(jobs[id], w) \in Row
      /\ older' = older /\ overrun' = overrun
      /\ InTable(id)
  BY RowType DEF ClaimRow, Claimable, TableOK
<1>2. jobs' \in [Ids -> Row] /\ older' \in [Ids -> SUBSET Ids]
  BY <1>1 DEF TableOK
<1>3. \A k \in Ids : jobs'[k] = IF k = id THEN Claimed(jobs[id], w) ELSE jobs[k]
  BY <1>1 DEF TableOK
<1>4. /\ Claimed(jobs[id], w).state = "running"
      /\ Claimed(jobs[id], w).worker = w
      /\ Claimed(jobs[id], w).owner = jobs[id].owner
      /\ Claimed(jobs[id], w).input = jobs[id].input
  BY DEF Claimed, TableOK, Row
<1> QED BY <1>1, <1>2, <1>3, <1>4 DEF TableOK, InTable

\* Requests: a step to another statement, and the return.
LEMMA GotoType ==
  ASSUME RequestsOK, NEW r \in Requests, req[r].pc # "idle",
         NEW l \in {"look", "count", "insert", "notify"}, Goto(r, l)
  PROVE  RequestsOK'
BY DEF RequestsOK, Goto

LEMMA ReturnType ==
  ASSUME RequestsOK, NEW r \in Requests, Return(r)
  PROVE  RequestsOK'
BY DEF RequestsOK, Return, Idle

\* Workers: letting go of the job, and the start or end of a process.
LEMMA ReleaseType ==
  ASSUME WorkersOK, NEW w \in Workers, NEW l \in {"off", "claim", "wait", "pause"},
         Release(w, l)
  PROVE  WorkersOK'
BY TimeAssumption, SetAssumption DEF WorkersOK, Release, Holding, Saving

LEMMA AfterJobType == \A w \in Workers : AfterJob(w) \in {"off", "claim", "wait", "pause"}
BY DEF AfterJob

LEMMA RestartedType ==
  ASSUME WorkersOK, ProcsOK, NEW p \in Procs, NEW l \in {"off", "claim"}, Restarted(p, l)
  PROVE  WorkersOK' /\ wake' \subseteq Procs \X Classes
BY TimeAssumption, SetAssumption DEF WorkersOK, ProcsOK, Restarted, Holding, Saving

\* Notifications only reach processes.
LEMMA NotifiedType ==
  ASSUME ProcsOK, NEW c \in Classes, NEW S \in SUBSET Procs, Notified(c, S)
  PROVE  wake' \subseteq Procs \X Classes
BY DEF ProcsOK, Notified

LEMMA ClassOfType == \A i : ClassOf(i) \in Classes
BY DEF ClassOf, Classes

LEMMA RequestStepType ==
  ASSUME TypeOK, NEW r \in Requests, RequestStep(r)
  PROVE  TypeOK'
<1> USE DEF TypeOK
<1>1. ASSUME NEW o \in Owners, NEW i \in Inputs, Begin(r, o, i)
      PROVE  TypeOK'
  BY <1>1 DEF Begin, tableVars, workerVars, TableOK, RequestsOK, WorkersOK, ProcsOK, InTable
<1>2. CASE DropFinished(r)
  BY <1>2, RemoveType, GotoType DEF DropFinished, workerVars, WorkersOK, ProcsOK
<1>3. CASE Look(r)
  BY <1>3, GotoType, ReturnType
     DEF Look, tableVars, workerVars, TableOK, WorkersOK, ProcsOK, InTable
<1>4. CASE Count(r)
  BY <1>4, GotoType, ReturnType
     DEF Count, tableVars, workerVars, TableOK, WorkersOK, ProcsOK, InTable
<1>5. CASE Insert(r)
  <2>1. req[r].owner \in Owners /\ req[r].input \in Inputs
    BY <1>5 DEF Insert, RequestsOK
  <2>2. WorkersOK' /\ ProcsOK'
    BY <1>5 DEF Insert, workerVars, WorkersOK, ProcsOK
  <2>3. CASE /\ \E id \in Ids : PutRow(id, req[r].owner, req[r].input)
             /\ Goto(r, "notify")
    BY <1>5, <2>1, <2>2, <2>3, PutType, GotoType DEF Insert
  <2>4. CASE Return(r) /\ UNCHANGED tableVars
    BY <2>2, <2>4, ReturnType DEF tableVars, TableOK, InTable
  <2> QED BY <1>5, <2>3, <2>4 DEF Insert
<1>6. ASSUME NEW S \in SUBSET Procs, NotifyQueued(r, S)
      PROVE  TypeOK'
  BY <1>6, ReturnType, NotifiedType, ClassOfType
     DEF NotifyQueued, tableVars, workerVars, TableOK, WorkersOK, ProcsOK, InTable
<1>7. CASE Abort(r)
  BY <1>7, ReturnType DEF Abort, tableVars, workerVars, TableOK, WorkersOK, ProcsOK, InTable
<1> QED BY <1>1, <1>2, <1>3, <1>4, <1>5, <1>6, <1>7 DEF RequestStep

\* The job of a worker that holds one.
LEMMA HeldJob ==
  ASSUME WorkersOK, NEW w \in Workers, pc[w] \in Holding
  PROVE  job[w] \in Ids
BY DEF WorkersOK

LEMMA WorkerStepType ==
  ASSUME TypeOK, NEW w \in Workers, WorkerStep(w)
  PROVE  TypeOK'
<1> USE DEF TypeOK
<1>0. UNCHANGED tableVars => TableOK'
  BY DEF tableVars, TableOK, InTable
<1>1. ASSUME NEW id \in Ids, Claim(w, id)
      PROVE  TypeOK'
  <2>1. runs' \in [Ids -> Nat]
    BY <1>1 DEF Claim, StartRun, TableOK
  <2>2. FirstStep(w, id) \in Holding
    BY DEF FirstStep, Holding
  <2>3. WorkersOK'
    BY <1>1, <2>2, TimeAssumption, SetAssumption DEF Claim, WorkersOK
  <2> QED BY <1>1, <2>1, <2>3, ClaimType DEF Claim, RequestsOK, ProcsOK
<1>2. CASE ClaimNothing(w)
  BY <1>0, <1>2, ReleaseType DEF ClaimNothing, RequestsOK, ProcsOK
<1>3. CASE ClaimError(w)
  <2>1. WorkersOK' /\ RequestsOK' /\ ProcsOK'
    BY <1>3, ReleaseType DEF ClaimError, RequestsOK, ProcsOK
  <2>2. CASE UNCHANGED tableVars
    BY <1>0, <2>1, <2>2
  <2>3. CASE (\E id \in Ids : ClaimRow(w, id)) /\ UNCHANGED runs
    BY <2>1, <2>3, ClaimType DEF TableOK
  <2> QED BY <1>3, <2>2, <2>3 DEF ClaimError
<1>4. CASE TakeWake(w)
  BY <1>0, <1>4, ReleaseType DEF TakeWake, RequestsOK, ProcsOK
<1>5. CASE Poll(w)
  BY <1>0, <1>5, ReleaseType DEF Poll, RequestsOK, ProcsOK
<1>6. CASE StopWaiting(w)
  BY <1>0, <1>6, ReleaseType DEF StopWaiting, RequestsOK, ProcsOK
<1>7. CASE GiveUp(w)
  BY <1>7, HeldJob, SettleType, ReleaseType DEF GiveUp, RequestsOK, ProcsOK, Holding
<1>8. CASE GiveUpError(w)
  BY <1>0, <1>8, ReleaseType DEF GiveUpError, RequestsOK, ProcsOK
<1>9. CASE Load(w)
  BY <1>9 DEF Load, StartRun, TableOK, InTable, WorkersOK, RequestsOK, ProcsOK, Holding
<1>10. CASE LoadError(w)
  BY <1>0, <1>10, ReleaseType, AfterJobType DEF LoadError, RequestsOK, ProcsOK
<1>11. CASE EndCompute(w)
  BY <1>0, <1>11 DEF EndCompute, WorkersOK, RequestsOK, ProcsOK, Holding, Saving
<1>12. CASE Finish(w)
  BY <1>12, HeldJob, SettleType, ReleaseType, AfterJobType
     DEF Finish, RequestsOK, ProcsOK, Holding, Saving
<1>13. CASE Fail(w)
  BY <1>13, HeldJob, SettleType, ReleaseType, AfterJobType
     DEF Fail, RequestsOK, ProcsOK, Holding, Saving
<1>14. CASE SaveError(w)
  BY <1>0, <1>14, ReleaseType, AfterJobType DEF SaveError, RequestsOK, ProcsOK
<1>15. ASSUME NEW S \in SUBSET Procs, Requeue(w, S)
       PROVE  TypeOK'
  <2>1. job[w] \in Ids
    BY <1>15, HeldJob DEF Requeue, Holding, Saving
  <2>2. WorkersOK' /\ RequestsOK'
    BY <1>15, ReleaseType, AfterJobType DEF Requeue, RequestsOK
  <2>3. CASE jobs[job[w]].state = "running"
    <3>1. jobs' = [jobs EXCEPT ![job[w]] = Requeued(jobs[job[w]])]
      BY <1>15, <2>3 DEF Requeue
    <3>2. Requeued(jobs[job[w]]) \in Row
      BY <2>1, RowType DEF TableOK
    <3>3. \A k \in Ids : jobs'[k] = IF k = job[w] THEN Requeued(jobs[job[w]]) ELSE jobs[k]
      BY <2>1, <3>1 DEF TableOK
    <3>4. /\ Requeued(jobs[job[w]]).state = "queued"
          /\ Requeued(jobs[job[w]]).worker = None
          /\ Requeued(jobs[job[w]]).owner = jobs[job[w]].owner
          /\ Requeued(jobs[job[w]]).input = jobs[job[w]].input
      BY <2>1 DEF Requeued, TableOK, Row
    <3>5. jobs' \in [Ids -> Row] /\ older' = older /\ runs' = runs /\ overrun' = overrun
      BY <1>15, <2>1, <3>1, <3>2 DEF Requeue, TableOK
    <3>6. TableOK'
      BY <2>3, <3>3, <3>4, <3>5 DEF TableOK, InTable
    <3>7. ProcsOK'
      BY <1>15, <2>3, NotifiedType, ClassOfType DEF Requeue, ProcsOK
    <3> QED BY <2>2, <3>6, <3>7
  <2>4. CASE jobs[job[w]].state # "running"
    BY <1>15, <2>2, <2>4 DEF Requeue, TableOK, InTable, ProcsOK
  <2> QED BY <2>3, <2>4
<1> QED BY <1>1, <1>2, <1>3, <1>4, <1>5, <1>6, <1>7, <1>8, <1>9, <1>10, <1>11, <1>12, <1>13,
           <1>14, <1>15 DEF WorkerStep

LEMMA ProcStepType ==
  ASSUME TypeOK, NEW p \in Procs, ProcStep(p)
  PROVE  TypeOK'
<1> USE DEF TypeOK
<1>1. TableOK' /\ RequestsOK'
  BY DEF ProcStep, Start, Stop, Exit, Crash, tableVars, TableOK, InTable, RequestsOK
<1>2. CASE Start(p)
  BY <1>1, <1>2, RestartedType DEF Start, ProcsOK
<1>3. CASE Stop(p)
  BY <1>1, <1>3 DEF Stop, workerVars, WorkersOK, ProcsOK
<1>4. CASE Exit(p)
  BY <1>1, <1>4, RestartedType DEF Exit, ProcsOK
<1>5. CASE Crash(p)
  BY <1>1, <1>5, RestartedType DEF Crash, ProcsOK
<1> QED BY <1>2, <1>3, <1>4, <1>5 DEF ProcStep

LEMMA StoreStepType ==
  ASSUME TypeOK, StoreStep
  PROVE  TypeOK'
<1> USE DEF TypeOK
<1>1. ASSUME NEW S, NEW Q, Cascade(S, Q)
      PROVE  TypeOK'
  BY <1>1, RemoveType DEF Cascade, workerVars, RequestsOK, Idle, WorkersOK, ProcsOK
<1>2. CASE DeleteFinishedJobs
  BY <1>2, RemoveType DEF DeleteFinishedJobs, workerVars, RequestsOK, WorkersOK, ProcsOK
<1>3. ASSUME NEW i, UpdateCoverage(i)
      PROVE  TypeOK'
  BY <1>3, RemoveType DEF UpdateCoverage, workerVars, RequestsOK, WorkersOK, ProcsOK
<1> QED BY <1>1, <1>2, <1>3 DEF StoreStep, DeleteOwner, DeleteCoverage

\* Time: only ages change.
LEMMA TickRows ==
  ASSUME TableOK, Tick
  PROVE  /\ jobs' \in [Ids -> Row]
         /\ \A id \in Ids : /\ jobs'[id].state = jobs[id].state
                            /\ jobs'[id].owner = jobs[id].owner
                            /\ jobs'[id].input = jobs[id].input
                            /\ jobs'[id].attempts = jobs[id].attempts
                            /\ jobs'[id].worker = jobs[id].worker
                            /\ jobs'[id].age = IF AgeRead(id) THEN Older(jobs[id].age)
                                                ELSE jobs[id].age
<1> DEFINE Aged(r) == [r EXCEPT !.age = Older(@)]
<1>1. \A r \in Row : /\ Aged(r) \in Row
                     /\ Aged(r).state = r.state /\ Aged(r).owner = r.owner
                     /\ Aged(r).input = r.input /\ Aged(r).attempts = r.attempts
                     /\ Aged(r).worker = r.worker /\ Aged(r).age = Older(r.age)
  <2>1. \A n \in 0 .. AgeCap : Older(n) \in 0 .. AgeCap
    BY TimeAssumption DEF Older
  <2> QED BY <2>1 DEF Row
<1>2. jobs' = [id \in Ids |-> IF AgeRead(id) THEN Aged(jobs[id]) ELSE jobs[id]]
  BY DEF Tick
<1> HIDE DEF Aged
<1> QED BY <1>1, <1>2 DEF TableOK

LEMMA TickType ==
  ASSUME TypeOK, Tick
  PROVE  TypeOK'
<1>1. TableOK'
  <2>1. overrun' \subseteq {id \in Ids : InTable(id)'}
    BY TickRows DEF TypeOK, TableOK, InTable, Tick, HeldTooLong
  <2>2. \A id \in Ids :
           /\ InTable(id)' => jobs'[id].owner \in Owners /\ jobs'[id].input \in Inputs
           /\ jobs'[id].state = "running" => jobs'[id].worker \in Workers
           /\ jobs'[id].state = "queued" => jobs'[id].worker = None
    BY TickRows DEF TypeOK, TableOK, InTable
  <2>3. /\ jobs' \in [Ids -> Row] /\ older' \in [Ids -> SUBSET Ids]
        /\ runs' \in [Ids -> Nat]
    BY TickRows DEF TypeOK, TableOK, Tick
  <2> QED BY <2>1, <2>2, <2>3 DEF TableOK
<1>2. WorkersOK'
  BY TimeAssumption DEF TypeOK, WorkersOK, Tick, Older
<1> QED BY <1>1, <1>2 DEF TypeOK, Tick, RequestsOK, ProcsOK

LEMMA TypeStep == TypeOK /\ [Next]_vars => TypeOK'
<1> SUFFICES ASSUME TypeOK, [Next]_vars
             PROVE  TypeOK'
  OBVIOUS
<1>1. CASE Next
  BY <1>1, RequestStepType, WorkerStepType, ProcStepType, StoreStepType, TickType DEF Next
<1>2. CASE UNCHANGED vars
  BY <1>2 DEF vars, tableVars, TypeOK, TableOK, InTable, RequestsOK, WorkersOK, ProcsOK
<1> QED BY <1>1, <1>2

LEMMA TypeInit == Init => TypeOK
BY RowType, TimeAssumption, SetAssumption
   DEF Init, TypeOK, TableOK, InTable, RequestsOK, WorkersOK, ProcsOK, NoRow, Idle, Holding,
       Saving

\* Every state of the job queue is well typed.
THEOREM TypeCorrect == Spec => []TypeOK
BY TypeInit, TypeStep, PTL DEF Spec
-----------------------------------------------------------------------------
(***************************************************************************)
(* The claim.  HoldsClaim is inductive together with TypeOK: a worker that *)
(* keeps its job keeps its row, because the only statements that could     *)
(* change it belong to other workers, which cannot reach it before it is   *)
(* stale, or to requests, which only touch failed rows.  A worker that goes *)
(* on after that marks the row as overrun, and HoldsClaim says nothing more *)
(* of it: the invariant needs no bound on how long a worker may take.       *)
(***************************************************************************)
KeepsClaim(w) ==
  Holds(w) => /\ jobs[job[w]].state = "running"
              /\ jobs[job[w]].worker = w
              /\ jobs[job[w]].age = elapsed[w]
              /\ elapsed[w] <= Stale[ClassOf(jobs[job[w]].input)]

Inv == TypeOK /\ HoldsClaim

\* A row the step leaves as it is.
Untouched(id) == jobs'[id] = jobs[id] /\ (id \in overrun => id \in overrun')

\* A worker that does not step, with its row untouched, deleted or overrun,
\* keeps its claim.
LEMMA Frame ==
  ASSUME Inv, NEW w \in Workers,
         pc'[w] = pc[w], job'[w] = job[w], elapsed'[w] = elapsed[w],
         pc[w] \in Holding =>
            \/ Untouched(job[w])
            \/ jobs'[job[w]].state = "none"
            \/ job[w] \in overrun'
  PROVE  KeepsClaim(w)'
BY DEF Inv, HoldsClaim, KeepsClaim, Holds, InTable, Timely, Untouched

\* A worker that let its job go claims nothing.
LEMMA Released ==
  ASSUME NEW w \in Workers, pc'[w] \notin Holding
  PROVE  KeepsClaim(w)'
BY DEF KeepsClaim, Holds

LEMMA RemoveClaim ==
  ASSUME Inv, NEW S, Remove(S), UNCHANGED workerVars, NEW w \in Workers
  PROVE  KeepsClaim(w)'
<1>1. pc[w] \in Holding => job[w] \in Ids
  BY HeldJob DEF Inv, TypeOK
<1>2. \A id \in Ids : Untouched(id) \/ jobs'[id].state = "none"
  BY DEF Remove, NoRow, Untouched
<1> QED BY <1>1, <1>2, Frame DEF workerVars

LEMMA RequestStepClaim ==
  ASSUME Inv, NEW r \in Requests, RequestStep(r), NEW w \in Workers
  PROVE  KeepsClaim(w)'
<1>0. UNCHANGED workerVars
  BY DEF RequestStep, Begin, DropFinished, Look, Count, Insert, NotifyQueued, Abort
<1>1. CASE UNCHANGED tableVars
  BY <1>0, <1>1, Frame DEF workerVars, tableVars, Untouched
<1>2. CASE DropFinished(r)
  BY <1>0, <1>2, RemoveClaim DEF DropFinished
<1>3. CASE Insert(r) /\ ~UNCHANGED tableVars
  <2> DEFINE o == req[r].owner
             i == req[r].input
  <2>1. PICK id \in Ids : /\ PutRow(id, o, i)
                          /\ Fresh(id) \/ (id \in Existing(o, i) /\ jobs[id].state = "failed")
    BY <1>3 DEF Insert
  <2>2. /\ jobs'[id] = NewRow(o, i)
        /\ \A k \in Ids \ {id} : Untouched(k)
        /\ overrun' = overrun
    BY <2>1 DEF PutRow, Untouched, Inv, TypeOK, TableOK
  <2>3. CASE pc[w] \in Holding /\ job[w] = id
    <3>1. id \in Existing(o, i) /\ jobs[id].state = "failed"
      BY <2>1, <2>3 DEF Fresh
    <3>2. id \in overrun'
      BY <2>2, <2>3, <3>1 DEF Inv, HoldsClaim, Holds, InTable, Timely
    <3> QED BY <1>0, <2>3, <3>2, Frame DEF workerVars
  <2>4. CASE ~(pc[w] \in Holding /\ job[w] = id)
    BY <1>0, <2>2, <2>4, HeldJob, Frame DEF workerVars, Inv, TypeOK
  <2> QED BY <2>3, <2>4
<1> QED
  BY <1>1, <1>2, <1>3 DEF RequestStep, Begin, Look, Count, NotifyQueued, Abort

\* A claimed row was held by nobody, except for an overrun one.
LEMMA ClaimOthers ==
  ASSUME Inv, NEW w \in Workers, NEW id \in Ids, ClaimRow(w, id),
         NEW v \in Workers, pc'[v] = pc[v], job'[v] = job[v], elapsed'[v] = elapsed[v]
  PROVE  KeepsClaim(v)'
<1>1. /\ jobs'[id] = Claimed(jobs[id], w)
      /\ \A k \in Ids \ {id} : Untouched(k)
      /\ jobs[id] \in Row /\ overrun' = overrun
  BY DEF ClaimRow, Untouched, Inv, TypeOK, TableOK
<1>2. CASE pc[v] \in Holding /\ job[v] = id
  <2>1. InTable(id) /\ (jobs[id].state = "queued" \/ jobs[id].age > Stale[ClassOf(jobs[id].input)])
    BY DEF ClaimRow, Claimable
  <2>2. id \in overrun
    <3> SUFFICES ASSUME Holds(v) PROVE FALSE
      BY <1>2, <2>1 DEF Holds, Timely
    <3>1. /\ jobs[id].state = "running"
          /\ jobs[id].age <= Stale[ClassOf(jobs[id].input)]
      BY <1>2 DEF Inv, HoldsClaim
    <3>2. Stale[ClassOf(jobs[id].input)] \in Nat /\ jobs[id].age \in Nat
      BY <1>1, TimeAssumption, ClassOfType DEF Row
    <3> QED BY <2>1, <3>1, <3>2
  <2> QED BY <1>1, <1>2, <2>2, Frame
<1>3. CASE ~(pc[v] \in Holding /\ job[v] = id)
  BY <1>1, <1>3, HeldJob, Frame DEF Inv, TypeOK
<1> QED BY <1>2, <1>3

\* The outcome worker w writes meets no other claim on the row.
LEMMA WriteOthers ==
  ASSUME Inv, NEW w \in Workers, pc[w] \in Holding, InTable(job[w]), NEW r,
         jobs' = [jobs EXCEPT ![job[w]] = r], overrun' = overrun,
         NEW v \in Workers, v # w, pc'[v] = pc[v], job'[v] = job[v], elapsed'[v] = elapsed[v]
  PROVE  KeepsClaim(v)'
<1>1. job[w] \in Ids /\ \A k \in Ids : jobs'[k] = IF k = job[w] THEN r ELSE jobs[k]
  BY HeldJob DEF Inv, TypeOK, TableOK
<1>2. CASE pc[v] \in Holding /\ job[v] = job[w]
  <2>1. job[w] \in overrun'
    BY <1>2 DEF Inv, HoldsClaim, Holds, Timely
  <2> QED BY <1>2, <2>1, Frame
<1>3. CASE ~(pc[v] \in Holding /\ job[v] = job[w])
  BY <1>1, <1>3, HeldJob, Frame DEF Inv, TypeOK, Untouched
<1> QED BY <1>2, <1>3

\* So does the UPDATE of FinishJob or FailJob, which does nothing to a deleted job.
LEMMA SettleOthers ==
  ASSUME Inv, NEW w \in Workers, pc[w] \in Holding,
         \/ Settle(job[w], Done(jobs[job[w]]))
         \/ Settle(job[w], Failed(jobs[job[w]])),
         NEW v \in Workers, v # w, pc'[v] = pc[v], job'[v] = job[v], elapsed'[v] = elapsed[v]
  PROVE  KeepsClaim(v)'
<1>1. PICK r \in {Done(jobs[job[w]]), Failed(jobs[job[w]])} : Settle(job[w], r)
  OBVIOUS
<1>2. CASE InTable(job[w])
  BY <1>1, <1>2, WriteOthers DEF Settle
<1>3. CASE ~InTable(job[w])
  BY <1>1, <1>3, Frame DEF Settle, tableVars, Untouched
<1> QED BY <1>2, <1>3

LEMMA WorkerStepClaim ==
  ASSUME Inv, NEW w \in Workers, WorkerStep(w), NEW v \in Workers
  PROVE  KeepsClaim(v)'
<1>0. \A l : Release(w, l) =>
         /\ pc'[w] = l
         /\ v # w => pc'[v] = pc[v] /\ job'[v] = job[v] /\ elapsed'[v] = elapsed[v]
  BY DEF Release, Inv, TypeOK, WorkersOK
<1>1. ASSUME NEW id \in Ids, Claim(w, id)
      PROVE  KeepsClaim(v)'
  <2>1. CASE v = w
    <3>1. /\ job'[w] = id /\ elapsed'[w] = 0
          /\ jobs'[id] = Claimed(jobs[id], w) /\ jobs[id] \in Row
      BY <1>1 DEF Claim, ClaimRow, Inv, TypeOK, TableOK, WorkersOK
    <3>2. /\ jobs'[id].state = "running" /\ jobs'[id].worker = w /\ jobs'[id].age = 0
      BY <3>1 DEF Claimed, Row
    <3>3. 0 <= Stale[ClassOf(jobs'[id].input)]
      BY TimeAssumption, ClassOfType
    <3> QED BY <2>1, <3>1, <3>2, <3>3 DEF KeepsClaim
  <2>2. CASE v # w
    <3>1. pc'[v] = pc[v] /\ job'[v] = job[v] /\ elapsed'[v] = elapsed[v]
      BY <1>1, <2>2 DEF Claim, Inv, TypeOK, WorkersOK
    <3> QED BY <1>1, <3>1, ClaimOthers DEF Claim
  <2> QED BY <2>1, <2>2
<1>2. ASSUME NEW l \in {"off", "claim", "wait", "pause"}, Release(w, l), UNCHANGED <<jobs, overrun>>
      PROVE  KeepsClaim(v)'
  BY <1>0, <1>2, Frame, Released DEF Holding, Saving, Untouched
<1>3. CASE ClaimError(w)
  <2>1. PICK l \in {"off", "pause"} : Release(w, l)
    BY <1>3 DEF ClaimError
  <2>2. CASE UNCHANGED tableVars
    BY <1>2, <2>1, <2>2 DEF tableVars
  <2>3. CASE \E id \in Ids : ClaimRow(w, id)
    BY <1>0, <2>1, <2>3, ClaimOthers, Released DEF Holding, Saving
  <2> QED BY <1>3, <2>2, <2>3 DEF ClaimError
<1>4. CASE ClaimNothing(w) \/ TakeWake(w) \/ Poll(w) \/ StopWaiting(w)
  BY <1>2, <1>4 DEF ClaimNothing, TakeWake, Poll, StopWaiting, tableVars
<1>5. CASE GiveUpError(w) \/ LoadError(w) \/ SaveError(w)
  BY <1>2, <1>5, AfterJobType DEF GiveUpError, LoadError, SaveError, tableVars
<1>6. ASSUME NEW l \in {"off", "claim"}, Release(w, l), pc[w] \in Holding,
             \/ Settle(job[w], Done(jobs[job[w]]))
             \/ Settle(job[w], Failed(jobs[job[w]]))
      PROVE  KeepsClaim(v)'
  BY <1>0, <1>6, SettleOthers, Released DEF Holding, Saving
<1>7. CASE GiveUp(w)
  BY <1>6, <1>7 DEF GiveUp, Holding
<1>8. CASE Finish(w) \/ Fail(w)
  BY <1>6, <1>8 DEF Finish, Fail, AfterJob, Holding, Saving
<1>9. CASE Load(w) \/ EndCompute(w)
  <2>1. /\ jobs' = jobs /\ overrun' = overrun /\ job' = job /\ elapsed' = elapsed
        /\ pc[w] \in Holding
        /\ v # w => pc'[v] = pc[v]
    BY <1>9 DEF Load, EndCompute, tableVars, Holding, Inv, TypeOK, WorkersOK
  <2> QED BY <2>1 DEF Inv, HoldsClaim, KeepsClaim, Holds, InTable, Timely
<1>10. ASSUME NEW S \in SUBSET Procs, Requeue(w, S)
       PROVE  KeepsClaim(v)'
  <2>1. /\ pc[w] \in Holding
        /\ jobs[job[w]] \in Row
        /\ Release(w, AfterJob(w)) /\ AfterJob(w) \in {"off", "claim"}
    BY <1>10, HeldJob DEF Requeue, Holding, Saving, Inv, TypeOK, TableOK, AfterJob
  <2>2. CASE jobs[job[w]].state = "running"
    <3>1. /\ jobs' = [jobs EXCEPT ![job[w]] = Requeued(jobs[job[w]])]
          /\ overrun' = overrun
          /\ InTable(job[w])
      BY <1>10, <2>1, <2>2 DEF Requeue, InTable
    <3>2. v # w => KeepsClaim(v)'
      BY <1>0, <2>1, <3>1, WriteOthers
    <3>3. v = w => KeepsClaim(v)'
      BY <1>0, <2>1, Released DEF Holding, Saving
    <3> QED BY <3>2, <3>3
  <2>3. CASE jobs[job[w]].state # "running"
    BY <1>2, <1>10, <2>1, <2>3 DEF Requeue
  <2> QED BY <2>2, <2>3
<1> QED BY <1>1, <1>3, <1>4, <1>5, <1>7, <1>8, <1>9, <1>10 DEF WorkerStep

LEMMA ProcStepClaim ==
  ASSUME Inv, NEW p \in Procs, ProcStep(p), NEW w \in Workers
  PROVE  KeepsClaim(w)'
<1>1. \A id : Untouched(id)
  BY DEF ProcStep, Start, Stop, Exit, Crash, tableVars, Untouched
<1>2. CASE Stop(p)
  BY <1>1, <1>2, Frame DEF Stop, workerVars
<1>3. ASSUME NEW l \in {"off", "claim"}, Restarted(p, l)
      PROVE  KeepsClaim(w)'
  <2>1. CASE Home[w] = p
    BY <1>3, <2>1, Released DEF Restarted, Holding, Saving
  <2>2. CASE Home[w] # p
    BY <1>1, <1>3, <2>2, Frame DEF Restarted
  <2> QED BY <2>1, <2>2
<1> QED BY <1>2, <1>3 DEF ProcStep, Start, Exit, Crash

LEMMA StoreStepClaim ==
  ASSUME Inv, StoreStep, NEW w \in Workers
  PROVE  KeepsClaim(w)'
BY RemoveClaim DEF StoreStep, DeleteFinishedJobs, DeleteOwner, DeleteCoverage, UpdateCoverage,
   Cascade

LEMMA TickClaim ==
  ASSUME Inv, Tick, NEW w \in Workers
  PROVE  KeepsClaim(w)'
<1> SUFFICES ASSUME Holds(w)'
             PROVE  /\ jobs'[job'[w]].state = "running"
                    /\ jobs'[job'[w]].worker = w
                    /\ jobs'[job'[w]].age = elapsed'[w]
                    /\ elapsed'[w] <= Stale[ClassOf(jobs'[job'[w]].input)]
  BY DEF KeepsClaim
<1>1. /\ pc' = pc /\ job' = job /\ job[w] \in Ids /\ pc[w] \in Holding
      /\ elapsed'[w] = Older(elapsed[w])
  BY HeldJob DEF Tick, Holds, Inv, TypeOK
<1> DEFINE id == job[w]
           c == ClassOf(jobs[id].input)
<1>2. /\ jobs'[id].state = jobs[id].state /\ jobs'[id].input = jobs[id].input
      /\ jobs'[id].worker = jobs[id].worker
      /\ jobs'[id].age = IF AgeRead(id) THEN Older(jobs[id].age) ELSE jobs[id].age
  BY <1>1, TickRows DEF Inv, TypeOK
<1>3. Holds(w) /\ ~HeldTooLong(id)
  BY <1>1, <1>2 DEF Holds, InTable, Timely, Tick
<1>4. /\ jobs[id].state = "running" /\ jobs[id].worker = w /\ jobs[id].age = elapsed[w]
  BY <1>3 DEF Inv, HoldsClaim
<1>5. Older(elapsed[w]) <= Stale[c]
  <2>1. ~(Older(elapsed[w]) > Stale[c])
    BY <1>1, <1>3 DEF HeldTooLong, Holds
  <2>2. Stale[c] \in Nat /\ Older(elapsed[w]) \in Nat
    BY TimeAssumption, ClassOfType DEF Inv, TypeOK, WorkersOK, Older
  <2> QED BY <2>1, <2>2
<1> QED BY <1>1, <1>2, <1>4, <1>5 DEF AgeRead

\* The inductive step of the claim.
LEMMA InvStep == Inv /\ [Next]_vars => Inv'
<1> SUFFICES ASSUME Inv, [Next]_vars
             PROVE  HoldsClaim'
  BY TypeStep DEF Inv
<1>1. \A w \in Workers : KeepsClaim(w)'
  <2>1. CASE Next
    BY <2>1, RequestStepClaim, WorkerStepClaim, ProcStepClaim, StoreStepClaim, TickClaim
       DEF Next
  <2>2. CASE UNCHANGED vars
    BY <2>2, Frame DEF vars, tableVars, Untouched
  <2> QED BY <2>1, <2>2
<1> QED BY <1>1 DEF HoldsClaim, KeepsClaim

LEMMA InvInit == Init => Inv
BY TypeInit DEF Inv, Init, HoldsClaim, Holds, Holding, Saving

LEMMA InvCorrect == Spec => []Inv
BY InvInit, InvStep, PTL DEF Spec

\* Until it writes its outcome, a worker's row is still the one it claimed, if
\* no worker of the row outlived Stale.  How long a worker may take is nowhere
\* assumed: the only way to lose a row to another worker is to be that late.
THEOREM ClaimHeld == Spec => []HoldsClaim
BY InvCorrect, PTL DEF Inv

\* No two workers ever work on one job, however long the queue runs and however
\* many jobs are taken over, as long as no worker of the job outlived Stale.
THEOREM OneRunner == Spec => []SingleRunner
<1>1. Inv => SingleRunner
  BY DEF Inv, HoldsClaim, Holds, SingleRunner
<1> QED BY <1>1, InvCorrect, PTL
-----------------------------------------------------------------------------
(***************************************************************************)
(* The outcome.  A finished row is not claimed, and by the claim no worker *)
(* still holds it, so only a request or a deletion changes it.             *)
(***************************************************************************)
Kept(id) ==
  Timely(id) =>
    /\ jobs[id].state = "done" => jobs'[id].state \in {"done", "none"}
    /\ jobs[id].state = "failed" =>
          \/ jobs'[id].state \in {"failed", "none"}
          \/ jobs'[id].state = "queued" /\ jobs'[id].attempts = 0

\* The ways a step treats a row that keep its outcome.
LEMMA KeptBy ==
  ASSUME NEW id \in Ids,
         \/ jobs'[id].state = jobs[id].state
         \/ jobs'[id].state = "none"
         \/ jobs[id].state \notin FinishedStates
         \/ id \in overrun
         \/ /\ jobs[id].state = "failed"
            /\ jobs'[id].state = "queued" /\ jobs'[id].attempts = 0
  PROVE  Kept(id)
BY DEF Kept, Timely, FinishedStates

LEMMA RemoveKept ==
  ASSUME NEW S, Remove(S), NEW id \in Ids
  PROVE  Kept(id)
<1>1. jobs'[id] = jobs[id] \/ jobs'[id].state = "none"
  BY DEF Remove, NoRow
<1> QED BY <1>1, KeptBy

\* EnqueueJob only writes over a failed row.
LEMMA RequestStepKept ==
  ASSUME Inv, NEW r \in Requests, RequestStep(r), NEW id \in Ids
  PROVE  Kept(id)
<1>1. CASE UNCHANGED tableVars
  BY <1>1, KeptBy DEF tableVars
<1>2. CASE DropFinished(r)
  BY <1>2, RemoveKept DEF DropFinished
<1>3. CASE Insert(r) /\ ~UNCHANGED tableVars
  <2> DEFINE o == req[r].owner
             i == req[r].input
  <2>1. PICK k \in Ids : /\ PutRow(k, o, i)
                         /\ Fresh(k) \/ jobs[k].state = "failed"
    BY <1>3 DEF Insert
  <2>2. jobs'[k] = NewRow(o, i) /\ (id # k => jobs'[id] = jobs[id])
    BY <2>1 DEF PutRow, Inv, TypeOK, TableOK
  <2>3. CASE id = k /\ Fresh(k)
    BY <2>3, KeptBy DEF Fresh, InTable, FinishedStates
  <2>4. CASE id = k /\ jobs[k].state = "failed"
    BY <2>2, <2>4, KeptBy DEF NewRow
  <2>5. CASE id # k
    BY <2>2, <2>5, KeptBy
  <2> QED BY <2>1, <2>3, <2>4, <2>5
<1> QED BY <1>1, <1>2, <1>3 DEF RequestStep, Begin, Look, Count, NotifyQueued, Abort

\* ClaimJob takes no finished row.
LEMMA ClaimKept ==
  ASSUME Inv, NEW w \in Workers, NEW k \in Ids, ClaimRow(w, k), NEW id \in Ids
  PROVE  Kept(id)
<1>1. jobs[k].state \notin FinishedStates
  BY DEF ClaimRow, Claimable, FinishedStates
<1>2. id # k => jobs'[id] = jobs[id]
  BY DEF ClaimRow, Inv, TypeOK, TableOK
<1> QED BY <1>1, <1>2, KeptBy

\* What a worker writes when it ends goes to a row that is still running.
LEMMA WriteKept ==
  ASSUME Inv, NEW w \in Workers, pc[w] \in Holding, InTable(job[w]),
         NEW r, jobs' = [jobs EXCEPT ![job[w]] = r], NEW id \in Ids
  PROVE  Kept(id)
<1>1. job[w] \in Ids /\ (id # job[w] => jobs'[id] = jobs[id])
  BY HeldJob DEF Inv, TypeOK, TableOK
<1>2. CASE id = job[w]
  <2>1. jobs[id].state = "running" \/ id \in overrun
    BY <1>2 DEF Inv, HoldsClaim, Holds, Timely
  <2> QED BY <2>1, KeptBy DEF FinishedStates
<1>3. CASE id # job[w]
  BY <1>1, <1>3, KeptBy
<1> QED BY <1>2, <1>3

LEMMA WorkerStepKept ==
  ASSUME Inv, NEW w \in Workers, WorkerStep(w), NEW id \in Ids
  PROVE  Kept(id)
<1>1. CASE UNCHANGED jobs
  BY <1>1, KeptBy
<1>2. CASE \E k \in Ids : ClaimRow(w, k)
  BY <1>2, ClaimKept
<1>3. CASE GiveUp(w) \/ Finish(w) \/ Fail(w)
  <2>1. /\ pc[w] \in Holding
        /\ \E r : Settle(job[w], r)
    BY <1>3 DEF GiveUp, Finish, Fail, Holding, Saving
  <2>2. PICK r : Settle(job[w], r)
    BY <2>1
  <2>3. CASE InTable(job[w])
    BY <2>1, <2>2, <2>3, WriteKept DEF Settle
  <2>4. CASE ~InTable(job[w])
    BY <1>1, <2>2, <2>4 DEF Settle, tableVars
  <2> QED BY <2>3, <2>4
<1>4. ASSUME NEW S \in SUBSET Procs, Requeue(w, S)
      PROVE  Kept(id)
  <2>1. pc[w] \in Holding
    BY <1>4 DEF Requeue, Holding, Saving
  <2>2. CASE jobs[job[w]].state = "running"
    BY <1>4, <2>1, <2>2, WriteKept DEF Requeue, InTable
  <2>3. CASE jobs[job[w]].state # "running"
    BY <1>1, <1>4, <2>3 DEF Requeue
  <2> QED BY <2>2, <2>3
<1> QED
  BY <1>1, <1>2, <1>3, <1>4
     DEF WorkerStep, Claim, ClaimNothing, ClaimError, TakeWake, Poll, StopWaiting, GiveUpError,
         Load, LoadError, EndCompute, SaveError, tableVars

LEMMA OutcomeStep ==
  ASSUME Inv, [Next]_vars, NEW id \in Ids
  PROVE  Kept(id)
<1>1. ASSUME NEW p \in Procs, ProcStep(p)
      PROVE  Kept(id)
  BY <1>1, KeptBy DEF ProcStep, Start, Stop, Exit, Crash, tableVars
<1>2. CASE StoreStep
  BY <1>2, RemoveKept
     DEF StoreStep, DeleteFinishedJobs, DeleteOwner, DeleteCoverage, UpdateCoverage, Cascade
<1>3. CASE Tick
  BY <1>3, TickRows, KeptBy DEF Inv, TypeOK
<1>4. CASE UNCHANGED vars
  BY <1>4, KeptBy DEF vars, tableVars
<1> QED BY <1>1, <1>2, <1>3, <1>4, RequestStepKept, WorkerStepKept DEF Next

\* An outcome is final: no takeover, crash, retry or shutdown replaces the
\* result or failure that the waiting requests have seen; only the late write
\* of a worker that outlived Stale may.
THEOREM OutcomeFinal == Spec => OutcomeStable
<1>1. Inv /\ [Next]_vars => [\A id \in Ids : Kept(id)]_vars
  BY OutcomeStep
<1> QED BY <1>1, InvCorrect, PTL DEF Spec, OutcomeStable, Kept
-----------------------------------------------------------------------------
(***************************************************************************)
(* The runs.  A computation spends an attempt: a short job is computed by  *)
(* the claim that counts it, and a coverage worker that has not loaded its *)
(* coverage has an attempt in hand that no other worker can spend, since   *)
(* its claim keeps the others away until it outlives Stale.                *)
(***************************************************************************)
Counted(id) ==
  (Timely(id) \/ jobs[id].input \notin CoverageInputs) =>
     runs[id] <= jobs[id].attempts /\ runs[id] < MaxAttempts

InHand(w) ==
  (pc[w] = "load" /\ InTable(job[w])) =>
     /\ jobs[job[w]].input \in CoverageInputs
     /\ Timely(job[w]) => /\ runs[job[w]] < jobs[job[w]].attempts
                          /\ jobs[job[w]].attempts < MaxAttempts

RunInv == (\A id \in Ids : Counted(id)) /\ (\A w \in Workers : InHand(w))

\* What most statements do to a row: nothing the count depends on, or DELETE.
Quiet(id) ==
  \/ /\ runs'[id] = runs[id]
     /\ jobs'[id].attempts = jobs[id].attempts
     /\ jobs'[id].input = jobs[id].input
     /\ jobs'[id].state = "none" <=> jobs[id].state = "none"
     /\ id \in overrun => id \in overrun'
  \/ jobs'[id] = NoRow /\ runs'[id] = 0

LEMMA QuietCounted ==
  ASSUME RunInv, NEW id \in Ids, Quiet(id)
  PROVE  Counted(id)'
BY LimitAssumption DEF RunInv, Counted, Quiet, NoRow, Timely

LEMMA QuietInHand ==
  ASSUME Inv, RunInv, NEW w \in Workers,
         pc'[w] = "load" => pc[w] = "load" /\ job'[w] = job[w] /\ Quiet(job[w])
  PROVE  InHand(w)'
BY DEF RunInv, InHand, Quiet, InTable, NoRow, Timely

LEMMA RemoveQuiet ==
  ASSUME NEW S, Remove(S), NEW id \in Ids
  PROVE  Quiet(id)
BY DEF Remove, Quiet

\* EnqueueJob starts the count again, on a row that no worker in time is about
\* to load.
LEMMA RequestStepRuns ==
  ASSUME Inv, RunInv, NEW r \in Requests, RequestStep(r)
  PROVE  RunInv'
<1>0. UNCHANGED workerVars
  BY DEF RequestStep, Begin, DropFinished, Look, Count, Insert, NotifyQueued, Abort
<1>1. ASSUME \A id \in Ids : Quiet(id)
      PROVE  RunInv'
  <2>1. \A w \in Workers : pc[w] = "load" => Quiet(job[w])
    BY <1>1, HeldJob DEF Inv, TypeOK, Holding
  <2> QED BY <1>0, <1>1, <2>1, QuietCounted, QuietInHand DEF RunInv, workerVars
<1>2. CASE UNCHANGED tableVars
  BY <1>1, <1>2 DEF tableVars, Quiet
<1>3. CASE DropFinished(r)
  BY <1>1, <1>3, RemoveQuiet DEF DropFinished
<1>4. CASE Insert(r) /\ ~UNCHANGED tableVars
  <2> DEFINE o == req[r].owner
             i == req[r].input
  <2>1. PICK k \in Ids : /\ PutRow(k, o, i)
                         /\ Fresh(k) \/ (jobs[k].state = "failed" /\ jobs[k].input = i)
    BY <1>4 DEF Insert, Existing
  <2>2. /\ jobs'[k].attempts = 0 /\ runs'[k] = 0 /\ jobs'[k].input = i
        /\ \A id \in Ids \ {k} : jobs'[id] = jobs[id] /\ runs'[id] = runs[id]
        /\ overrun' = overrun
    BY <2>1 DEF PutRow, NewRow, Inv, TypeOK, TableOK
  <2>3. \A id \in Ids : Counted(id)'
    BY <2>2, LimitAssumption DEF Counted, RunInv, Timely
  <2>4. ASSUME NEW w \in Workers, pc[w] = "load", job[w] # k
        PROVE  InHand(w)'
    <3>1. job[w] \in Ids
      BY <2>4, HeldJob DEF Inv, TypeOK, Holding
    <3>2. Quiet(job[w])
      BY <2>2, <2>4, <3>1 DEF Quiet
    <3> QED BY <1>0, <3>2, QuietInHand DEF workerVars
  <2>5. ASSUME NEW w \in Workers, pc[w] = "load", job[w] = k
        PROVE  InHand(w)'
    <3>1. jobs[k].state = "failed" /\ jobs[k].input = i
      BY <2>1, <2>5 DEF Fresh
    <3>2. k \in overrun
      BY <2>5, <3>1 DEF Inv, HoldsClaim, Holds, InTable, Timely, Holding
    <3>3. i \in CoverageInputs
      BY <2>5, <3>1 DEF RunInv, InHand, InTable
    <3> QED BY <1>0, <2>2, <2>5, <3>2, <3>3 DEF InHand, Timely, workerVars
  <2>6. \A w \in Workers : InHand(w)'
    BY <1>0, <2>4, <2>5 DEF InHand, workerVars
  <2> QED BY <2>3, <2>6 DEF RunInv
<1> QED BY <1>2, <1>3, <1>4 DEF RequestStep, Begin, Look, Count, NotifyQueued, Abort

\* The row ClaimJob takes: one attempt more, and no worker in time is about to
\* load it.
LEMMA ClaimRuns ==
  ASSUME Inv, Inv', RunInv, NEW w \in Workers, NEW k \in Ids, ClaimRow(w, k)
  PROVE  /\ jobs'[k].state = "running"
         /\ jobs'[k].input = jobs[k].input
         /\ ClassOf(jobs[k].input) = WorkerClass[w]
         /\ jobs'[k].attempts = OneMore(jobs[k].attempts)
         /\ \A id \in Ids \ {k} : jobs'[id] = jobs[id]
         /\ overrun' = overrun /\ InTable(k)
         /\ \A v \in Workers \ {w} :
               (pc'[v] = pc[v] /\ job'[v] = job[v] /\ pc[v] = "load" /\ job[v] = k) => k \in overrun
<1>1. /\ jobs'[k] = Claimed(jobs[k], w) /\ jobs[k] \in Row
      /\ \A id \in Ids \ {k} : jobs'[id] = jobs[id]
      /\ InTable(k) /\ ClassOf(jobs[k].input) = WorkerClass[w] /\ overrun' = overrun
  BY DEF ClaimRow, Claimable, Inv, TypeOK, TableOK
<1>2. /\ jobs'[k].state = "running" /\ jobs'[k].worker = w
      /\ jobs'[k].input = jobs[k].input
      /\ jobs'[k].attempts = OneMore(jobs[k].attempts)
  BY <1>1 DEF Claimed, Row
<1>3. ASSUME NEW v \in Workers \ {w}, pc'[v] = pc[v], job'[v] = job[v], pc[v] = "load",
             job[v] = k, k \notin overrun
      PROVE  FALSE
  <2>1. Holds(v)'
    BY <1>1, <1>2, <1>3 DEF Holds, InTable, Timely, Holding
  <2>2. jobs'[k].worker = v
    BY <1>3, <2>1 DEF Inv, HoldsClaim
  <2> QED BY <1>2, <1>3, <2>2
<1> QED BY <1>1, <1>2, <1>3

\* A worker about to load goes on with the attempt it has in hand.
LEMMA ClaimInHand ==
  ASSUME Inv, Inv', RunInv, NEW w \in Workers, NEW k \in Ids, ClaimRow(w, k),
         \A id \in Ids \ {k} : runs'[id] = runs[id],
         NEW v \in Workers \ {w}, pc'[v] = pc[v], job'[v] = job[v]
  PROVE  InHand(v)'
<1> SUFFICES ASSUME pc[v] = "load"
             PROVE  InHand(v)'
  BY DEF InHand
<1>1. job[v] \in Ids
  BY HeldJob DEF Inv, TypeOK, Holding
<1>2. CASE job[v] = k
  <2>1. k \in overrun /\ InTable(k) /\ jobs'[k].input = jobs[k].input /\ overrun' = overrun
    BY <1>2, ClaimRuns
  <2> QED BY <1>2, <2>1 DEF RunInv, InHand, Timely
<1>3. CASE job[v] # k
  <2>1. Quiet(job[v])
    BY <1>1, <1>3, ClaimRuns DEF Quiet
  <2> QED BY <2>1, QuietInHand
<1> QED BY <1>2, <1>3

LEMMA OneMoreBounds ==
  ASSUME NEW n \in 0 .. MaxAttempts
  PROVE  /\ n <= OneMore(n)
         /\ OneMore(n) < MaxAttempts => n < OneMore(n)
         /\ OneMore(n) < MaxAttempts => OneMore(n) = n + 1
BY LimitAssumption DEF OneMore

\* A claim that does not lead to a computation in the same step.
LEMMA ClaimOnly ==
  ASSUME Inv, Inv', RunInv, NEW w \in Workers, NEW k \in Ids, ClaimRow(w, k),
         runs' = runs,
         \A v \in Workers \ {w} : pc'[v] = pc[v] /\ job'[v] = job[v],
         pc'[w] = "load" =>
            /\ job'[w] = k
            /\ WorkerClass[w] = "coverage"
            /\ jobs'[k].attempts < MaxAttempts
  PROVE  RunInv'
<1>1. jobs[k].attempts \in 0 .. MaxAttempts /\ \A id \in Ids : runs[id] \in Nat
  BY DEF Inv, TypeOK, TableOK, Row
<1>2. \A id \in Ids : Counted(id)'
  <2>1. jobs[k].attempts <= jobs'[k].attempts /\ jobs'[k].attempts \in Nat
    BY <1>1, ClaimRuns, OneMoreBounds, LimitAssumption DEF OneMore
  <2>2. Counted(k)'
    BY <1>1, <2>1, ClaimRuns DEF RunInv, Counted, Timely
  <2>3. \A id \in Ids \ {k} : Counted(id)'
    BY ClaimRuns DEF RunInv, Counted, Timely
  <2> QED BY <2>2, <2>3
<1>3. \A v \in Workers \ {w} : InHand(v)'
  BY ClaimInHand
<1>4. InHand(w)'
  <2> SUFFICES ASSUME pc'[w] = "load"
               PROVE  /\ jobs'[k].input \in CoverageInputs
                      /\ Timely(k)' => /\ runs'[k] < jobs'[k].attempts
                                       /\ jobs'[k].attempts < MaxAttempts
    BY DEF InHand
  <2>1. jobs'[k].input \in CoverageInputs
    BY ClaimRuns DEF ClassOf
  <2>2. jobs[k].attempts < jobs'[k].attempts /\ jobs'[k].attempts \in Nat
    BY <1>1, ClaimRuns, OneMoreBounds, LimitAssumption DEF OneMore
  <2>3. Timely(k)' => runs[k] <= jobs[k].attempts
    BY ClaimRuns DEF RunInv, Counted, Timely
  <2> QED BY <1>1, <2>1, <2>2, <2>3
<1> QED BY <1>2, <1>3, <1>4 DEF RunInv

\* The claim of a short job that is computed at once.
LEMMA ClaimAndRun ==
  ASSUME Inv, Inv', RunInv, NEW w \in Workers, NEW k \in Ids, ClaimRow(w, k),
         StartRun(k), jobs'[k].attempts < MaxAttempts, pc'[w] # "load",
         \A v \in Workers \ {w} : pc'[v] = pc[v] /\ job'[v] = job[v]
  PROVE  RunInv'
<1>1. /\ jobs[k].attempts \in 0 .. MaxAttempts
      /\ \A id \in Ids : runs[id] \in Nat
      /\ \A id \in Ids : runs'[id] = IF id = k THEN runs[id] + 1 ELSE runs[id]
  BY ClaimRuns DEF StartRun, Inv, TypeOK, TableOK, Row
<1>2. jobs'[k].attempts = jobs[k].attempts + 1
  BY <1>1, ClaimRuns, OneMoreBounds
<1>3. Counted(k)'
  BY <1>1, <1>2, ClaimRuns, LimitAssumption DEF RunInv, Counted, Timely
<1>4. \A id \in Ids \ {k} : Counted(id)'
  BY <1>1, ClaimRuns DEF RunInv, Counted, Timely
<1>5. \A v \in Workers : InHand(v)'
  BY <1>1, ClaimInHand DEF InHand
<1> QED BY <1>3, <1>4, <1>5 DEF RunInv

\* GetCoverage spends the attempt in hand; nobody else in time has it.
LEMMA LoadRuns ==
  ASSUME Inv, RunInv, NEW w \in Workers, Load(w)
  PROVE  RunInv'
<1> DEFINE k == job[w]
<1>1. /\ k \in Ids /\ pc[w] = "load"
      /\ jobs' = jobs /\ job' = job /\ overrun' = overrun
      /\ pc'[w] = "compute"
      /\ \A v \in Workers \ {w} : pc'[v] = pc[v]
  BY HeldJob DEF Load, Holding, Inv, TypeOK, WorkersOK
<1>2. /\ \A id \in Ids : runs[id] \in Nat /\ jobs[id].attempts \in 0 .. MaxAttempts
      /\ \A id \in Ids : runs'[id] = IF id = k /\ InTable(k) THEN runs[id] + 1 ELSE runs[id]
  BY DEF Load, StartRun, Inv, TypeOK, TableOK, Row
<1>3. \A id \in Ids : (id # k \/ ~InTable(k)) => Quiet(id)
  BY <1>1, <1>2 DEF Quiet
<1>4. ASSUME InTable(k)
      PROVE  /\ jobs[k].input \in CoverageInputs
             /\ Timely(k) => runs[k] < jobs[k].attempts /\ jobs[k].attempts < MaxAttempts
  BY <1>1, <1>4 DEF RunInv, InHand
<1>5. InTable(k) => Counted(k)'
  BY <1>1, <1>2, <1>4, LimitAssumption DEF Counted, Timely
<1>6. ASSUME NEW id \in Ids
      PROVE  Counted(id)'
  <2>1. CASE id # k \/ ~InTable(k)
    BY <1>3, <2>1, QuietCounted
  <2>2. CASE id = k /\ InTable(k)
    BY <1>1, <1>5, <2>2 DEF Counted, Timely
  <2> QED BY <2>1, <2>2
<1>7. \A v \in Workers : InHand(v)'
  <2> SUFFICES ASSUME NEW v \in Workers \ {w}, pc[v] = "load"
               PROVE  InHand(v)'
    BY <1>1 DEF InHand
  <2>1. job[v] \in Ids
    BY HeldJob DEF Inv, TypeOK, Holding
  <2>2. CASE job[v] # k \/ ~InTable(k)
    BY <1>1, <1>3, <2>1, <2>2, QuietInHand
  <2>3. CASE job[v] = k /\ InTable(k)
    <3>1. ~Timely(k)
      BY <1>1, <2>3 DEF Inv, HoldsClaim, Holds, Holding
    <3> QED BY <1>1, <1>4, <2>3, <3>1 DEF InHand, Timely
  <2> QED BY <2>2, <2>3
<1> QED BY <1>6, <1>7 DEF RunInv

\* What a worker writes leaves the counts alone.
LEMMA SettleQuiet ==
  ASSUME Inv, NEW k \in Ids, NEW id \in Ids,
         Settle(k, Done(jobs[k])) \/ Settle(k, Failed(jobs[k]))
  PROVE  Quiet(id)
<1>1. PICK r \in {Done(jobs[k]), Failed(jobs[k])} : Settle(k, r)
  OBVIOUS
<1>2. /\ r.attempts = jobs[k].attempts /\ r.input = jobs[k].input
      /\ r.state # "none"
  BY DEF Done, Failed, Inv, TypeOK, TableOK, Row
<1>3. CASE InTable(k)
  <2>1. runs' = runs /\ overrun' = overrun /\ jobs' = [jobs EXCEPT ![k] = r]
    BY <1>1, <1>3 DEF Settle
  <2> QED BY <1>2, <1>3, <2>1 DEF InTable, Quiet, Inv, TypeOK, TableOK
<1>4. CASE ~InTable(k)
  BY <1>1, <1>4 DEF Settle, tableVars, Quiet
<1> QED BY <1>3, <1>4

LEMMA RequeueQuiet ==
  ASSUME Inv, NEW w \in Workers, NEW S \in SUBSET Procs, Requeue(w, S), NEW id \in Ids
  PROVE  Quiet(id)
<1>1. job[w] \in Ids
  BY HeldJob DEF Requeue, Holding, Saving, Inv, TypeOK
<1>2. CASE jobs[job[w]].state = "running"
  <2> DEFINE r == Requeued(jobs[job[w]])
  <2>1. /\ r.attempts = jobs[job[w]].attempts /\ r.input = jobs[job[w]].input
        /\ r.state # "none"
    BY <1>1 DEF Requeued, Inv, TypeOK, TableOK, Row
  <2>2. runs' = runs /\ overrun' = overrun /\ jobs' = [jobs EXCEPT ![job[w]] = r]
    BY <1>2 DEF Requeue
  <2> QED BY <1>1, <1>2, <2>1, <2>2 DEF Quiet, Inv, TypeOK, TableOK
<1>3. CASE jobs[job[w]].state # "running"
  BY <1>3 DEF Requeue, Quiet
<1> QED BY <1>2, <1>3

LEMMA WorkerStepRuns ==
  ASSUME Inv, Inv', RunInv, NEW w \in Workers, WorkerStep(w)
  PROVE  RunInv'
<1>0. \A l : Release(w, l) =>
         /\ pc'[w] = l
         /\ \A v \in Workers \ {w} : pc'[v] = pc[v] /\ job'[v] = job[v]
  BY DEF Release, Inv, TypeOK, WorkersOK
<1>1. ASSUME \A id \in Ids : Quiet(id), pc'[w] # "load",
             \A v \in Workers \ {w} : pc'[v] = pc[v] /\ job'[v] = job[v]
      PROVE  RunInv'
  <2>1. \A v \in Workers : pc[v] = "load" => job[v] \in Ids
    BY HeldJob DEF Inv, TypeOK, Holding
  <2>2. \A v \in Workers : InHand(v)'
    BY <1>1, <2>1, QuietInHand
  <2> QED BY <1>1, <2>2, QuietCounted DEF RunInv
<1>2. ASSUME NEW k \in Ids, Claim(w, k)
      PROVE  RunInv'
  <2>1. /\ ClaimRow(w, k)
        /\ pc'[w] = FirstStep(w, k) /\ job'[w] = k
        /\ \A v \in Workers \ {w} : pc'[v] = pc[v] /\ job'[v] = job[v]
    BY <1>2 DEF Claim, Inv, TypeOK, WorkersOK
  <2>2. jobs'[k].attempts \in 0 .. MaxAttempts
    BY DEF Inv, TypeOK, TableOK, Row
  <2>3. CASE FirstStep(w, k) = "compute"
    <3>1. StartRun(k)
      BY <1>2, <2>3 DEF Claim
    <3>2. jobs'[k].attempts < MaxAttempts
      BY <2>2, <2>3, LimitAssumption DEF FirstStep
    <3> QED BY <2>1, <2>3, <3>1, <3>2, ClaimAndRun
  <2>4. CASE FirstStep(w, k) # "compute"
    <3>1. runs' = runs
      BY <1>2, <2>4 DEF Claim
    <3>2. FirstStep(w, k) = "load" =>
             WorkerClass[w] = "coverage" /\ jobs'[k].attempts < MaxAttempts
      BY <2>2, LimitAssumption DEF FirstStep
    <3> QED BY <2>1, <3>1, <3>2, ClaimOnly
  <2> QED BY <2>3, <2>4
<1>3. CASE ClaimError(w)
  <2>1. PICK l \in {"off", "pause"} : Release(w, l)
    BY <1>3 DEF ClaimError
  <2>2. CASE UNCHANGED tableVars
    BY <1>0, <1>1, <2>1, <2>2 DEF tableVars, Quiet
  <2>3. CASE (\E k \in Ids : ClaimRow(w, k)) /\ UNCHANGED runs
    BY <1>0, <2>1, <2>3, ClaimOnly
  <2> QED BY <1>3, <2>2, <2>3 DEF ClaimError
<1>4. ASSUME NEW l \in {"off", "claim", "wait", "pause"}, Release(w, l),
             \A id \in Ids : Quiet(id)
      PROVE  RunInv'
  BY <1>0, <1>1, <1>4
<1>5. CASE ClaimNothing(w) \/ TakeWake(w) \/ Poll(w) \/ StopWaiting(w)
  BY <1>4, <1>5 DEF ClaimNothing, TakeWake, Poll, StopWaiting, tableVars, Quiet
<1>6. CASE GiveUpError(w) \/ LoadError(w) \/ SaveError(w)
  BY <1>4, <1>6, AfterJobType DEF GiveUpError, LoadError, SaveError, tableVars, Quiet
<1>7. CASE GiveUp(w) \/ Finish(w) \/ Fail(w)
  <2>1. job[w] \in Ids
    BY <1>7, HeldJob DEF GiveUp, Finish, Fail, Holding, Saving, Inv, TypeOK
  <2>2. \A id \in Ids : Quiet(id)
    BY <1>7, <2>1, SettleQuiet DEF GiveUp, Finish, Fail
  <2> QED BY <1>4, <1>7, <2>2, AfterJobType DEF GiveUp, Finish, Fail
<1>8. CASE Load(w)
  BY <1>8, LoadRuns
<1>9. CASE EndCompute(w)
  <2>1. pc'[w] # "load" /\ \A v \in Workers \ {w} : pc'[v] = pc[v] /\ job'[v] = job[v]
    BY <1>9 DEF EndCompute, Inv, TypeOK, WorkersOK
  <2> QED BY <1>1, <1>9, <2>1 DEF EndCompute, tableVars, Quiet
<1>10. ASSUME NEW S \in SUBSET Procs, Requeue(w, S)
       PROVE  RunInv'
  BY <1>4, <1>10, RequeueQuiet, AfterJobType DEF Requeue
<1> QED BY <1>2, <1>3, <1>5, <1>6, <1>7, <1>8, <1>9, <1>10 DEF WorkerStep

\* The inductive step of the runs.
LEMMA RunStep == Inv /\ Inv' /\ RunInv /\ [Next]_vars => RunInv'
<1> SUFFICES ASSUME Inv, Inv', RunInv, [Next]_vars
             PROVE  RunInv'
  OBVIOUS
<1>1. ASSUME \A id \in Ids : Quiet(id),
             \A w \in Workers : pc'[w] = "load" => pc[w] = "load" /\ job'[w] = job[w]
      PROVE  RunInv'
  <2>1. \A w \in Workers : pc[w] = "load" => job[w] \in Ids
    BY HeldJob DEF Inv, TypeOK, Holding
  <2> QED BY <1>1, <2>1, QuietCounted, QuietInHand DEF RunInv
<1>2. ASSUME NEW p \in Procs, ProcStep(p)
      PROVE  RunInv'
  <2>1. \A id \in Ids : Quiet(id)
    BY <1>2 DEF ProcStep, Start, Stop, Exit, Crash, tableVars, Quiet
  <2>2. \A w \in Workers : pc'[w] = "load" => pc[w] = "load" /\ job'[w] = job[w]
    BY <1>2 DEF ProcStep, Start, Stop, Exit, Crash, Restarted, workerVars
  <2> QED BY <1>1, <2>1, <2>2
<1>3. CASE StoreStep
  <2>1. PICK S : Remove(S) /\ UNCHANGED workerVars
    BY <1>3 DEF StoreStep, DeleteFinishedJobs, DeleteOwner, DeleteCoverage, UpdateCoverage,
                Cascade
  <2> QED BY <1>1, <2>1, RemoveQuiet DEF workerVars
<1>4. CASE Tick
  <2>1. \A id \in Ids : Quiet(id)
    BY <1>4, TickRows DEF Inv, TypeOK, Quiet, Tick
  <2> QED BY <1>1, <1>4, <2>1 DEF Tick
<1>5. CASE UNCHANGED vars
  BY <1>1, <1>5 DEF vars, tableVars, Quiet
<1> QED BY <1>2, <1>3, <1>4, <1>5, RequestStepRuns, WorkerStepRuns DEF Next

LEMMA RunInit == Init => RunInv
BY LimitAssumption DEF Init, RunInv, Counted, InHand, NoRow

\* Whatever crashes, shutdowns, failed writes and takeovers happen, no job is
\* computed MaxAttempts times: a job that kills its worker is given up.  For a
\* short job this holds however late its workers are.
THEOREM RunsEnd == Spec => []RunsBounded
<1>1. RunInv => RunsBounded
  BY DEF RunInv, Counted, RunsBounded
<1>2. Spec => []RunInv
  <2>1. Init => RunInv
    BY RunInit
  <2>2. Inv /\ Inv' /\ RunInv /\ [Next]_vars => RunInv'
    BY RunStep
  <2> QED BY <2>1, <2>2, InvCorrect, PTL DEF Spec
<1> QED BY <1>1, <1>2, PTL
-----------------------------------------------------------------------------
(***************************************************************************)
(* The limit of active jobs.  Only Insert adds an active job, and only a   *)
(* request that was let through by Count inserts.  The count holds for     *)
(* that one request; each other one may be at its INSERT as well.          *)
(***************************************************************************)
Inserting(o, c) ==
  {r \in Requests : /\ req[r].pc = "insert" /\ req[r].owner = o
                    /\ ClassOf(req[r].input) = c}

Room(o, c) ==
  /\ IsFiniteSet(ActiveOf(o, c))
  /\ Cardinality(ActiveOf(o, c)) + Cardinality(Inserting(o, c))
       <= Limit[c] + Cardinality(Requests) - 1

QuotaInv == \A o \in Owners, c \in Classes : Room(o, c)

\* A row that is active after the step was so before, for the same owner and input.
Calm(id) ==
  Active(id)' => /\ Active(id)
                 /\ jobs'[id].owner = jobs[id].owner
                 /\ jobs'[id].input = jobs[id].input

LEMMA RemoveCalm ==
  ASSUME NEW S, Remove(S), NEW id \in Ids
  PROVE  Calm(id)
<1>1. jobs'[id] = jobs[id] \/ jobs'[id].state = "none"
  BY DEF Remove, NoRow
<1> QED BY <1>1 DEF Calm, Active, ActiveStates

LEMMA Numbers ==
  ASSUME NEW o, NEW c \in Classes
  PROVE  /\ Limit[c] \in Nat \ {0}
         /\ IsFiniteSet(Requests) /\ Cardinality(Requests) \in Nat
         /\ IsFiniteSet(Inserting(o, c)) /\ Cardinality(Inserting(o, c)) \in Nat
         /\ Cardinality(Inserting(o, c)) <= Cardinality(Requests)
<1>1. IsFiniteSet(Requests) /\ Inserting(o, c) \subseteq Requests
  BY SetAssumption DEF Inserting
<1> QED BY <1>1, FS_Subset, FS_CardinalityType, LimitAssumption

LEMMA CalmRoom ==
  ASSUME NEW o \in Owners, NEW c \in Classes, Room(o, c),
         \A id \in Ids : Calm(id), Inserting(o, c)' \subseteq Inserting(o, c)
  PROVE  Room(o, c)'
<1>1. ActiveOf(o, c)' \subseteq ActiveOf(o, c)
  BY DEF ActiveOf, Calm, ClassOf
<1>2. /\ IsFiniteSet(ActiveOf(o, c)')
      /\ Cardinality(ActiveOf(o, c)') <= Cardinality(ActiveOf(o, c))
      /\ Cardinality(ActiveOf(o, c)') \in Nat /\ Cardinality(ActiveOf(o, c)) \in Nat
  BY <1>1, FS_Subset, FS_CardinalityType DEF Room
<1>3. /\ Cardinality(Inserting(o, c)') <= Cardinality(Inserting(o, c))
      /\ Cardinality(Inserting(o, c)') \in Nat /\ Cardinality(Inserting(o, c)) \in Nat
  BY Numbers, FS_Subset, FS_CardinalityType
<1>4. Cardinality(Requests) \in Nat /\ Limit[c] \in Nat
  BY Numbers
<1>5. Cardinality(ActiveOf(o, c)) + Cardinality(Inserting(o, c))
        <= Limit[c] + Cardinality(Requests) - 1
  BY DEF Room
<1>6. Cardinality(ActiveOf(o, c)') + Cardinality(Inserting(o, c)')
        <= Limit[c] + Cardinality(Requests) - 1
  BY <1>2, <1>3, <1>4, <1>5
<1> QED BY <1>2, <1>6 DEF Room

\* Count lets a request through while there is room for its own job.
LEMMA CountRoom ==
  ASSUME Inv, NEW r \in Requests, Count(r), NEW o \in Owners, NEW c \in Classes, Room(o, c)
  PROVE  Room(o, c)'
<1>1. jobs' = jobs /\ \A id \in Ids : Calm(id)
  BY DEF Count, tableVars, Calm, Active
<1>2. CASE Inserting(o, c)' \subseteq Inserting(o, c)
  BY <1>1, <1>2, CalmRoom
<1>3. CASE ~(Inserting(o, c)' \subseteq Inserting(o, c))
  <2>1. /\ Admits(req[r].owner, req[r].input) /\ req[r].pc = "count"
        /\ req[r].owner = o /\ ClassOf(req[r].input) = c
        /\ Inserting(o, c)' \subseteq Inserting(o, c) \cup {r}
    BY <1>3 DEF Count, Goto, Return, Idle, Inserting, Inv, TypeOK, RequestsOK
  <2>2. Inserting(o, c)' \subseteq Requests
    BY DEF Inserting
  <2>3. /\ Cardinality(Inserting(o, c)') <= Cardinality(Requests)
        /\ Cardinality(Inserting(o, c)') \in Nat /\ Cardinality(Requests) \in Nat
    BY <2>2, Numbers, FS_Subset, FS_CardinalityType
  <2>4. Cardinality(ActiveOf(o, c)) < Limit[c]
    BY <2>1 DEF Admits
  <2>5. /\ IsFiniteSet(ActiveOf(o, c)) /\ Cardinality(ActiveOf(o, c)) \in Nat
        /\ Limit[c] \in Nat
    BY Numbers, FS_CardinalityType DEF Room
  <2>6. ActiveOf(o, c)' = ActiveOf(o, c)
    BY <1>1 DEF ActiveOf, Active
  <2>7. Cardinality(ActiveOf(o, c)) + Cardinality(Inserting(o, c)')
          <= Limit[c] + Cardinality(Requests) - 1
    BY <2>3, <2>4, <2>5
  <2> QED BY <2>5, <2>6, <2>7 DEF Room
<1> QED BY <1>2, <1>3

\* Insert turns an inserting request into an active job.
LEMMA InsertRoom ==
  ASSUME Inv, NEW r \in Requests, Insert(r), NEW o \in Owners, NEW c \in Classes, Room(o, c)
  PROVE  Room(o, c)'
<1>1. /\ Inserting(o, c)' \subseteq Inserting(o, c)
      /\ r \notin Inserting(o, c)'
  BY DEF Insert, Goto, Return, Idle, Inserting, Inv, TypeOK, RequestsOK
<1>2. CASE UNCHANGED tableVars
  <2>1. \A id \in Ids : Calm(id)
    BY <1>2 DEF tableVars, Calm, Active
  <2> QED BY <1>1, <2>1, CalmRoom
<1>3. CASE ~UNCHANGED tableVars
  <2>1. PICK k \in Ids : PutRow(k, req[r].owner, req[r].input)
    BY <1>3 DEF Insert
  <2>2. /\ jobs'[k] = NewRow(req[r].owner, req[r].input)
        /\ \A id \in Ids \ {k} : jobs'[id] = jobs[id]
    BY <2>1 DEF PutRow, Inv, TypeOK, TableOK
  <2>3. CASE req[r].owner = o /\ ClassOf(req[r].input) = c
    <3>1. r \in Inserting(o, c)
      BY <2>3 DEF Insert, Inserting
    <3>2. ActiveOf(o, c)' \subseteq ActiveOf(o, c) \cup {k}
      BY <2>2 DEF ActiveOf, Active, ClassOf
    <3>3. /\ IsFiniteSet(ActiveOf(o, c)) /\ Cardinality(ActiveOf(o, c)) \in Nat
          /\ IsFiniteSet(ActiveOf(o, c) \cup {k})
          /\ Cardinality(ActiveOf(o, c) \cup {k}) <= Cardinality(ActiveOf(o, c)) + 1
          /\ Cardinality(ActiveOf(o, c) \cup {k}) \in Nat
      <4>1. IsFiniteSet(ActiveOf(o, c)) /\ Cardinality(ActiveOf(o, c)) \in Nat
        BY FS_CardinalityType DEF Room
      <4>2. /\ IsFiniteSet(ActiveOf(o, c) \cup {k})
            /\ Cardinality(ActiveOf(o, c) \cup {k}) =
                 IF k \in ActiveOf(o, c) THEN Cardinality(ActiveOf(o, c))
                                         ELSE Cardinality(ActiveOf(o, c)) + 1
        BY <4>1, FS_AddElement
      <4>3. CASE k \in ActiveOf(o, c)
        BY <4>1, <4>2, <4>3
      <4>4. CASE k \notin ActiveOf(o, c)
        BY <4>1, <4>2, <4>4
      <4> QED BY <4>3, <4>4
    <3>4. /\ IsFiniteSet(ActiveOf(o, c)') /\ Cardinality(ActiveOf(o, c)') \in Nat
          /\ Cardinality(ActiveOf(o, c)') <= Cardinality(ActiveOf(o, c)) + 1
      BY <3>2, <3>3, FS_Subset, FS_CardinalityType
    <3>5. /\ IsFiniteSet(Inserting(o, c) \ {r})
          /\ Cardinality(Inserting(o, c) \ {r}) = Cardinality(Inserting(o, c)) - 1
          /\ Cardinality(Inserting(o, c) \ {r}) \in Nat
      BY <3>1, Numbers, FS_RemoveElement, FS_CardinalityType
    <3>6. Inserting(o, c)' \subseteq Inserting(o, c) \ {r}
      BY <1>1
    <3>7. /\ Cardinality(Inserting(o, c)') <= Cardinality(Inserting(o, c)) - 1
          /\ Cardinality(Inserting(o, c)') \in Nat
      BY <3>5, <3>6, FS_Subset, FS_CardinalityType
    <3>8. /\ Cardinality(Requests) \in Nat /\ Limit[c] \in Nat
          /\ Cardinality(Inserting(o, c)) \in Nat
          /\ Cardinality(ActiveOf(o, c)) + Cardinality(Inserting(o, c))
               <= Limit[c] + Cardinality(Requests) - 1
      BY Numbers DEF Room
    <3>9. Cardinality(ActiveOf(o, c)') + Cardinality(Inserting(o, c)')
            <= Limit[c] + Cardinality(Requests) - 1
      BY <3>3, <3>4, <3>7, <3>8
    <3> QED BY <3>4, <3>9 DEF Room
  <2>4. CASE ~(req[r].owner = o /\ ClassOf(req[r].input) = c)
    <3>1. ActiveOf(o, c)' \subseteq ActiveOf(o, c)
      BY <2>2, <2>4 DEF ActiveOf, Active, ClassOf, NewRow
    <3>2. /\ IsFiniteSet(ActiveOf(o, c)')
          /\ Cardinality(ActiveOf(o, c)') <= Cardinality(ActiveOf(o, c))
          /\ Cardinality(ActiveOf(o, c)') \in Nat /\ Cardinality(ActiveOf(o, c)) \in Nat
      BY <3>1, FS_Subset, FS_CardinalityType DEF Room
    <3>3. /\ Cardinality(Inserting(o, c)') <= Cardinality(Inserting(o, c))
          /\ Cardinality(Inserting(o, c)') \in Nat /\ Cardinality(Inserting(o, c)) \in Nat
      BY <1>1, Numbers, FS_Subset, FS_CardinalityType
    <3>4. /\ Cardinality(Requests) \in Nat /\ Limit[c] \in Nat
          /\ Cardinality(ActiveOf(o, c)) + Cardinality(Inserting(o, c))
               <= Limit[c] + Cardinality(Requests) - 1
      BY Numbers DEF Room
    <3>5. Cardinality(ActiveOf(o, c)') + Cardinality(Inserting(o, c)')
            <= Limit[c] + Cardinality(Requests) - 1
      BY <3>2, <3>3, <3>4
    <3> QED BY <3>2, <3>5 DEF Room
  <2> QED BY <2>3, <2>4
<1> QED BY <1>2, <1>3

\* Every other statement of a request leaves the jobs of others as they are.
LEMMA RequestStepRoom ==
  ASSUME Inv, NEW r \in Requests, RequestStep(r), NEW o \in Owners, NEW c \in Classes,
         Room(o, c)
  PROVE  Room(o, c)'
<1>1. CASE Count(r)
  BY <1>1, CountRoom
<1>2. CASE Insert(r)
  BY <1>2, InsertRoom
<1>3. ASSUME req'[r].pc # "insert", \A q \in Requests \ {r} : req'[q] = req[q]
      PROVE  Inserting(o, c)' \subseteq Inserting(o, c)
  BY <1>3 DEF Inserting
<1>4. ASSUME \/ \E p \in Owners, i \in Inputs : Begin(r, p, i)
             \/ Look(r)
             \/ \E S \in SUBSET Procs : NotifyQueued(r, S)
             \/ Abort(r)
      PROVE  Room(o, c)'
  <2>1. \A id \in Ids : Calm(id)
    BY <1>4 DEF Begin, Look, NotifyQueued, Abort, tableVars, Calm, Active
  <2>2. req'[r].pc # "insert" /\ \A q \in Requests \ {r} : req'[q] = req[q]
    BY <1>4 DEF Begin, Look, NotifyQueued, Abort, Goto, Return, Idle, Inv, TypeOK, RequestsOK
  <2> QED BY <1>3, <2>1, <2>2, CalmRoom
<1>5. CASE DropFinished(r)
  <2>1. \A id \in Ids : Calm(id)
    BY <1>5, RemoveCalm DEF DropFinished
  <2>2. req'[r].pc # "insert" /\ \A q \in Requests \ {r} : req'[q] = req[q]
    BY <1>5 DEF DropFinished, Goto, Inv, TypeOK, RequestsOK
  <2> QED BY <1>3, <2>1, <2>2, CalmRoom
<1> QED BY <1>1, <1>2, <1>4, <1>5 DEF RequestStep

\* Workers make no job active that was not.
LEMMA WorkerStepCalm ==
  ASSUME Inv, NEW w \in Workers, WorkerStep(w), NEW id \in Ids
  PROVE  Calm(id)
<1>1. CASE UNCHANGED jobs
  BY <1>1 DEF Calm, Active
<1>2. CASE \E k \in Ids : ClaimRow(w, k)
  <2>1. PICK k \in Ids : ClaimRow(w, k)
    BY <1>2
  <2>2. /\ jobs'[k] = Claimed(jobs[k], w) /\ jobs[k] \in Row /\ Active(k)
        /\ id # k => jobs'[id] = jobs[id]
    BY <2>1 DEF ClaimRow, Claimable, Inv, TypeOK, TableOK, Active, ActiveStates
  <2>3. Claimed(jobs[k], w).owner = jobs[k].owner /\ Claimed(jobs[k], w).input = jobs[k].input
    BY <2>2 DEF Claimed, Row
  <2> QED BY <2>2, <2>3 DEF Calm, Active
<1>3. CASE GiveUp(w) \/ Finish(w) \/ Fail(w)
  <2>1. PICK r : Settle(job[w], r) /\ r.state \in FinishedStates
    <3>1. job[w] \in Ids
      BY <1>3, HeldJob DEF GiveUp, Finish, Fail, Holding, Saving, Inv, TypeOK
    <3>2. PICK r \in {Done(jobs[job[w]]), Failed(jobs[job[w]])} : Settle(job[w], r)
      BY <1>3 DEF GiveUp, Finish, Fail
    <3>3. r.state \in FinishedStates
      BY <3>1, <3>2 DEF Done, Failed, FinishedStates, Inv, TypeOK, TableOK, Row
    <3> QED BY <3>2, <3>3
  <2> QED BY <2>1 DEF Settle, tableVars, Calm, Active, ActiveStates, FinishedStates, Inv,
                      TypeOK, TableOK
<1>4. ASSUME NEW S \in SUBSET Procs, Requeue(w, S)
      PROVE  Calm(id)
  <2>1. job[w] \in Ids
    BY <1>4, HeldJob DEF Requeue, Holding, Saving, Inv, TypeOK
  <2>2. CASE jobs[job[w]].state = "running"
    <3>1. /\ jobs' = [jobs EXCEPT ![job[w]] = Requeued(jobs[job[w]])]
          /\ Requeued(jobs[job[w]]).owner = jobs[job[w]].owner
          /\ Requeued(jobs[job[w]]).input = jobs[job[w]].input
      BY <1>4, <2>1, <2>2 DEF Requeue, Requeued, Inv, TypeOK, TableOK, Row
    <3> QED BY <2>1, <2>2, <3>1 DEF Calm, Active, ActiveStates, Inv, TypeOK, TableOK
  <2>3. CASE jobs[job[w]].state # "running"
    BY <1>1, <1>4, <2>3 DEF Requeue
  <2> QED BY <2>2, <2>3
<1> QED
  BY <1>1, <1>2, <1>3, <1>4
     DEF WorkerStep, Claim, ClaimNothing, ClaimError, TakeWake, Poll, StopWaiting, GiveUpError,
         Load, LoadError, EndCompute, SaveError, tableVars

\* The inductive step of the limit.
LEMMA RoomStep ==
  ASSUME Inv, [Next]_vars, NEW o \in Owners, NEW c \in Classes, Room(o, c)
  PROVE  Room(o, c)'
<1>1. UNCHANGED req => Inserting(o, c)' \subseteq Inserting(o, c)
  BY DEF Inserting
<1>2. ASSUME NEW w \in Workers, WorkerStep(w)
      PROVE  Room(o, c)'
  <2>1. UNCHANGED req
    BY <1>2 DEF WorkerStep, Claim, ClaimNothing, ClaimError, TakeWake, Poll, StopWaiting, GiveUp,
                GiveUpError, Load, LoadError, EndCompute, Finish, Fail, SaveError, Requeue
  <2> QED BY <1>1, <1>2, <2>1, WorkerStepCalm, CalmRoom
<1>3. ASSUME NEW p \in Procs, ProcStep(p)
      PROVE  Room(o, c)'
  <2>1. UNCHANGED req /\ \A id \in Ids : Calm(id)
    BY <1>3 DEF ProcStep, Start, Stop, Exit, Crash, tableVars, Calm, Active
  <2> QED BY <1>1, <2>1, CalmRoom
<1>4. CASE StoreStep
  <2>1. PICK S : Remove(S)
    BY <1>4 DEF StoreStep, DeleteFinishedJobs, DeleteOwner, DeleteCoverage, UpdateCoverage,
                Cascade
  <2>2. \A id \in Ids : Calm(id)
    BY <2>1, RemoveCalm
  <2>3. Inserting(o, c)' \subseteq Inserting(o, c)
    <3>1. ASSUME NEW T, NEW Q, Cascade(T, Q)
          PROVE  Inserting(o, c)' \subseteq Inserting(o, c)
      <4>1. \A r \in Requests : req'[r] = req[r] \/ req'[r].pc = "idle"
        BY <3>1 DEF Cascade, Idle
      <4> QED BY <4>1 DEF Inserting
    <3> QED BY <1>1, <1>4, <3>1 DEF StoreStep, DeleteFinishedJobs, DeleteOwner, DeleteCoverage,
                                    UpdateCoverage
  <2> QED BY <2>2, <2>3, CalmRoom
<1>5. CASE Tick
  <2>1. \A id \in Ids : Calm(id)
    BY <1>5, TickRows DEF Calm, Active, Inv, TypeOK
  <2> QED BY <1>1, <1>5, <2>1, CalmRoom DEF Tick
<1>6. CASE UNCHANGED vars
  BY <1>1, <1>6, CalmRoom DEF vars, tableVars, Calm, Active
<1> QED BY <1>2, <1>3, <1>4, <1>5, <1>6, RequestStepRoom DEF Next

LEMMA RoomInit ==
  ASSUME Init, NEW o \in Owners, NEW c \in Classes
  PROVE  Room(o, c)
<1>1. ActiveOf(o, c) = {} /\ Inserting(o, c) = {}
  BY DEF Init, NoRow, Idle, ActiveOf, Active, ActiveStates, Inserting
<1>2. Cardinality(Requests) \in Nat /\ Limit[c] \in Nat \ {0}
  BY Numbers
<1> QED BY <1>1, <1>2, FS_EmptySet DEF Room

\* However many requests race, an owner never has more active jobs of a class
\* than the limit and one for every request but the first.
THEOREM QuotaBounded == Spec => []QuotaOvershoot
<1>1. Init => QuotaInv
  BY RoomInit DEF QuotaInv
<1>2. Inv /\ QuotaInv /\ [Next]_vars => QuotaInv'
  BY RoomStep DEF QuotaInv
<1>3. QuotaInv => QuotaOvershoot
  <2> SUFFICES ASSUME QuotaInv, NEW o \in Owners, NEW c \in Classes
               PROVE  Cardinality(ActiveOf(o, c)) <= Limit[c] + Cardinality(Requests) - 1
    BY DEF QuotaOvershoot
  <2>1. Room(o, c)
    BY DEF QuotaInv
  <2>2. Cardinality(ActiveOf(o, c)) \in Nat
    BY <2>1, FS_CardinalityType DEF Room
  <2> QED BY <2>1, <2>2, Numbers DEF Room
<1> QED BY <1>1, <1>2, <1>3, InvCorrect, PTL DEF Spec

-----------------------------------------------------------------------------
(***************************************************************************)
(* The job queue implements JobLifecycle.  Besides the claim it needs that *)
(* a worker that does not give its job up has a job with an attempt left.  *)
(***************************************************************************)

On(w, id) == pc[w] \in Holding /\ job[w] = id

\* The part of a row that the abstract state depends on.
SameRow(id) ==
  /\ jobs'[id].state = jobs[id].state /\ jobs'[id].input = jobs[id].input
  /\ jobs'[id].attempts = jobs[id].attempts /\ jobs'[id].worker = jobs[id].worker
  /\ id \in overrun' <=> id \in overrun

\* The abstract variables at one job, after a step.
LEMMA Mapped ==
  ASSUME NEW id \in Ids, NEW s, NEW w, NEW n,
         StageOf(id)' = s, HolderOf(id)' = w, ClaimsOf(id)' = n
  PROVE  Lifecycle!Becomes(id, s, w, n)
BY DEF Lifecycle!Becomes

\* A held job is running and its holder is the worker of its row.
LEMMA HolderFacts ==
  ASSUME Inv, NEW id \in Ids
  PROVE  /\ Held(id) => /\ StageOf(id) = "running" /\ HolderOf(id) \in Workers
                        /\ HolderOf(id) # None /\ InTable(id) /\ Timely(id)
                        /\ jobs[id].state = "running"
         /\ ~Held(id) => HolderOf(id) = None
         /\ \A w \in Workers :
               (On(w, id) /\ InTable(id) /\ Timely(id)) => Held(id) /\ HolderOf(id) = w
<1>1. \A w \in Workers : (On(w, id) /\ InTable(id) /\ Timely(id)) <=> (Holds(w) /\ job[w] = id)
  BY DEF On, Holds
<1>2. ASSUME Held(id)
      PROVE  /\ InTable(id) /\ Timely(id) /\ jobs[id].state = "running"
             /\ jobs[id].worker \in Workers
  BY <1>2 DEF Held, Holds, Inv, HoldsClaim
<1>3. \A w \in Workers : (Holds(w) /\ job[w] = id) => Held(id) /\ jobs[id].worker = w
  BY DEF Held, Inv, HoldsClaim
<1> QED BY <1>1, <1>2, <1>3, SetAssumption DEF HolderOf, StageOf

\* A row that may be claimed is held by nobody.
LEMMA ClaimFree ==
  ASSUME Inv, NEW c \in Classes, NEW id \in Claimable(c)
  PROVE  ~Held(id)
<1> SUFFICES ASSUME NEW w \in Workers, Holds(w), job[w] = id
             PROVE  FALSE
  BY DEF Held
<1>1. /\ jobs[id].state = "running" /\ jobs[id].age > Stale[c]
      /\ jobs[id].age = elapsed[w] /\ elapsed[w] <= Stale[c]
  BY DEF Inv, HoldsClaim, Claimable
<1>2. Stale[c] \in Nat /\ elapsed[w] \in Nat
  BY TimeAssumption DEF Inv, TypeOK, WorkersOK
<1> QED BY <1>1, <1>2

-----------------------------------------------------------------------------
(***************************************************************************)
(* What a step does to one job.                                            *)
(***************************************************************************)

\* A row that is kept and not held by another worker stays or is lost.
LEMMA KeptRow ==
  ASSUME Inv, NEW id \in Ids, SameRow(id),
         \A w \in Workers : On(w, id)' => On(w, id)
  PROVE  Lifecycle!JobStep(id)
<1>1. /\ StageOf(id)' = StageOf(id) /\ ClaimsOf(id)' = ClaimsOf(id)
      /\ InTable(id)' <=> InTable(id)
      /\ Timely(id)' <=> Timely(id)
  BY DEF SameRow, StageOf, ClaimsOf, Timely, InTable
<1>2. Held(id)' => Held(id)
  BY <1>1 DEF Held, Holds, On
<1>3. CASE Held(id)' <=> Held(id)
  <2>1. HolderOf(id)' = HolderOf(id)
    BY <1>3 DEF HolderOf, SameRow
  <2>2. Lifecycle!Stay(id)
    BY <1>1, <2>1, Mapped DEF Lifecycle!Stay
  <2> QED BY <2>2 DEF Lifecycle!JobStep
<1>4. CASE Held(id) /\ ~Held(id)'
  <2>1. /\ HolderOf(id)' = None /\ StageOf(id)' = "running" /\ StageOf(id) = "running"
        /\ HolderOf(id) # None
    BY <1>1, <1>4, HolderFacts DEF HolderOf
  <2>2. Lifecycle!Lose(id)
    BY <1>1, <2>1, Mapped DEF Lifecycle!Lose
  <2> QED BY <2>2 DEF Lifecycle!JobStep
<1> QED BY <1>2, <1>3, <1>4

\* A deleted row, and an overrun one, of which nothing is promised.
LEMMA DroppedRow ==
  ASSUME NEW id \in Ids, jobs'[id] = NoRow, id \notin overrun'
  PROVE  Lifecycle!JobStep(id)
<1>1. StageOf(id)' = "none" /\ ClaimsOf(id)' = 0
  BY DEF StageOf, ClaimsOf, Timely, NoRow
<1>2. HolderOf(id)' = None
  BY DEF HolderOf, Held, Holds, InTable, NoRow
<1>3. Lifecycle!Drop(id)
  BY <1>1, <1>2, Mapped DEF Lifecycle!Drop
<1> QED BY <1>3 DEF Lifecycle!JobStep

LEMMA OverrunRow ==
  ASSUME NEW id \in Ids, id \in overrun, overrun' = overrun
  PROVE  Lifecycle!JobStep(id)
<1>1. /\ StageOf(id) = "overrun" /\ ClaimsOf(id) = 0 /\ HolderOf(id) = None
      /\ StageOf(id)' = "overrun" /\ ClaimsOf(id)' = 0 /\ HolderOf(id)' = None
  BY DEF StageOf, ClaimsOf, HolderOf, Held, Holds, Timely
<1>2. Lifecycle!Stay(id)
  BY <1>1, Mapped DEF Lifecycle!Stay
<1> QED BY <1>2 DEF Lifecycle!JobStep

LEMMA RemovedRows ==
  ASSUME Inv, NEW S, Remove(S), UNCHANGED workerVars, NEW id \in Ids
  PROVE  Lifecycle!JobStep(id)
<1>1. \/ jobs'[id] = NoRow /\ id \notin overrun'
      \/ SameRow(id)
  BY DEF Remove, SameRow
<1> QED BY <1>1, DroppedRow, KeptRow DEF On, workerVars

LEMMA RequestStepRow ==
  ASSUME Inv, NEW r \in Requests, RequestStep(r), NEW id \in Ids
  PROVE  Lifecycle!JobStep(id)
<1>0. UNCHANGED workerVars
  BY DEF RequestStep, Begin, DropFinished, Look, Count, Insert, NotifyQueued, Abort
<1>1. jobs'[id] = jobs[id] /\ overrun' = overrun => Lifecycle!JobStep(id)
  BY <1>0, KeptRow DEF SameRow, On, workerVars
<1>2. CASE UNCHANGED tableVars
  BY <1>1, <1>2 DEF tableVars
<1>3. CASE DropFinished(r)
  BY <1>0, <1>3, RemovedRows DEF DropFinished
<1>4. CASE Insert(r) /\ ~UNCHANGED tableVars
  <2> DEFINE o == req[r].owner
             i == req[r].input
  <2>1. PICK k \in Ids : /\ PutRow(k, o, i)
                         /\ Fresh(k) \/ (jobs[k].state = "failed" /\ jobs[k].input = i)
    BY <1>4 DEF Insert, Existing
  <2>2. jobs'[k] = NewRow(o, i) /\ (id # k => jobs'[id] = jobs[id]) /\ overrun' = overrun
    BY <2>1 DEF PutRow, Inv, TypeOK, TableOK
  <2>3. CASE id = k /\ k \in overrun
    BY <2>2, <2>3, OverrunRow
  <2>4. CASE id = k /\ k \notin overrun
    <3>1. StageOf(id)' = "queued" /\ ClaimsOf(id)' = 0
      BY <2>2, <2>4 DEF StageOf, ClaimsOf, Timely, NewRow
    <3>2. \A w \in Workers : ~(Holds(w) /\ job[w] = id)
      BY <2>1, <2>4 DEF Holds, Inv, HoldsClaim, Fresh, InTable
    <3>3. \A w \in Workers : ~On(w, id)'
      BY <1>0, <2>1, <2>4, <3>2 DEF On, Holds, workerVars, Fresh, InTable, Timely
    <3>4. HolderOf(id)' = None
      BY <3>3 DEF HolderOf, Held, Holds, On
    <3>5. StageOf(id) \in {"none", "failed"}
      BY <2>1, <2>4 DEF StageOf, Timely, Fresh, InTable
    <3>6. Lifecycle!Enqueue(id)
      BY <3>1, <3>4, <3>5, Mapped DEF Lifecycle!Enqueue
    <3> QED BY <3>6 DEF Lifecycle!JobStep
  <2> QED BY <1>1, <2>2, <2>3, <2>4
<1> QED
  BY <1>2, <1>3, <1>4 DEF RequestStep, Begin, Look, Count, NotifyQueued, Abort

-----------------------------------------------------------------------------
(***************************************************************************)
(* The workers.                                                            *)
(***************************************************************************)

\* A worker that does not give its job up has an attempt left to publish.
Spare(w) ==
  (Holds(w) /\ pc[w] # "giveup") => jobs[job[w]].attempts < MaxAttempts

SpareInv == \A w \in Workers : Spare(w)

LEMMA ClaimedRow ==
  ASSUME Inv, NEW w \in Workers, NEW k \in Ids, ClaimRow(w, k)
  PROVE  /\ k \in Claimable(WorkerClass[w]) /\ WorkerClass[w] \in Classes
         /\ jobs'[k].state = "running" /\ jobs'[k].worker = w
         /\ jobs'[k].input = jobs[k].input
         /\ jobs'[k].attempts = OneMore(jobs[k].attempts)
         /\ \A id \in Ids \ {k} : jobs'[id] = jobs[id]
         /\ overrun' = overrun
<1>1. jobs[k] \in Row /\ jobs' = [jobs EXCEPT ![k] = Claimed(jobs[k], w)]
  BY DEF ClaimRow, Inv, TypeOK, TableOK
<1>2. jobs'[k] = Claimed(jobs[k], w) /\ \A id \in Ids \ {k} : jobs'[id] = jobs[id]
  BY <1>1 DEF Inv, TypeOK, TableOK
<1> QED BY <1>1, <1>2, SetAssumption DEF ClaimRow, Claimed, Row

\* The claimed row is taken by the worker, or by nobody when ClaimJob fails.
LEMMA TakenRow ==
  ASSUME Inv, NEW w \in Workers, NEW k \in Ids, ClaimRow(w, k),
         \A v \in Workers \ {w} : On(v, k)' => On(v, k)
  PROVE  Lifecycle!JobStep(k)
<1>1. CASE k \in overrun
  BY <1>1, ClaimedRow, OverrunRow
<1>2. CASE k \notin overrun
  <2>1. /\ InTable(k) /\ Timely(k) /\ jobs[k].state \in {"queued", "running"}
        /\ ~Held(k) /\ HolderOf(k) = None
    BY <1>2, ClaimedRow, ClaimFree DEF Claimable, Timely, HolderOf
  <2>2. /\ StageOf(k)' = "running"
        /\ ClaimsOf(k)' = OneMore(ClaimsOf(k))
        /\ StageOf(k) \in {"queued", "running"}
    BY <1>2, <2>1, ClaimedRow DEF StageOf, ClaimsOf, Timely
  <2>3. HolderOf(k)' \in Workers \cup {None}
    BY ClaimedRow DEF HolderOf
  <2>4. ClaimsOf(k) \in 0 .. MaxAttempts
    BY <2>1 DEF ClaimsOf, Inv, TypeOK, TableOK, Row
  <2>5. OneMore(ClaimsOf(k)) = IF ClaimsOf(k) < MaxAttempts THEN ClaimsOf(k) + 1 ELSE MaxAttempts
    BY <2>4, LimitAssumption DEF OneMore
  <2>6. Lifecycle!Becomes(k, "running", HolderOf(k)',
           IF ClaimsOf(k) < MaxAttempts THEN ClaimsOf(k) + 1 ELSE MaxAttempts)
    BY <2>2, <2>5, Mapped
  <2>7. Lifecycle!Take(k)
    BY <2>1, <2>2, <2>3, <2>6 DEF Lifecycle!Take
  <2> QED BY <2>7 DEF Lifecycle!JobStep
<1> QED BY <1>1, <1>2

\* What a worker leaves behind in the row of its job: an outcome, or the job.
LEMMA WrittenRow ==
  ASSUME Inv, SpareInv, NEW w \in Workers, pc[w] \in Holding, pc'[w] \notin Holding,
         \A v \in Workers \ {w} : pc'[v] = pc[v] /\ job'[v] = job[v],
         NEW id \in Ids, id = job[w], InTable(id), overrun' = overrun,
         jobs'[id].attempts = jobs[id].attempts,
         \/ jobs'[id].state = "failed"
         \/ jobs'[id].state \in {"done", "queued"} /\ pc[w] # "giveup"
  PROVE  Lifecycle!JobStep(id)
<1>1. CASE id \in overrun
  BY <1>1, OverrunRow
<1>2. CASE id \notin overrun
  <2>1. /\ Held(id) /\ HolderOf(id) = w /\ HolderOf(id) # None /\ StageOf(id) = "running"
        /\ ClaimsOf(id) = jobs[id].attempts
    BY <1>2, HolderFacts DEF On, Timely, ClaimsOf
  <2>2. \A v \in Workers : ~On(v, id)'
    <3>1. \A v \in Workers \ {w} : ~On(v, id)
      BY <1>2, <2>1, HolderFacts DEF Timely
    <3> QED BY <3>1 DEF On
  <2>3. /\ StageOf(id)' = jobs'[id].state /\ ClaimsOf(id)' = ClaimsOf(id)
        /\ HolderOf(id)' = None
    BY <1>2, <2>2 DEF StageOf, ClaimsOf, Timely, HolderOf, Held, Holds, On
  <2>4. Lifecycle!Becomes(id, jobs'[id].state, None, ClaimsOf(id))
    BY <2>3, Mapped
  <2>5. pc[w] # "giveup" => ClaimsOf(id) < MaxAttempts
    BY <1>2, <2>1 DEF SpareInv, Spare, Holds, Timely
  <2>6. CASE jobs'[id].state \in {"done", "failed"}
    BY <2>1, <2>4, <2>5, <2>6 DEF Lifecycle!JobStep, Lifecycle!Publish
  <2>7. CASE jobs'[id].state = "queued"
    BY <2>1, <2>4, <2>5, <2>7 DEF Lifecycle!JobStep, Lifecycle!GiveBack
  <2> QED BY <2>6, <2>7
<1> QED BY <1>1, <1>2

LEMMA WorkerStepRow ==
  ASSUME Inv, SpareInv, NEW w \in Workers, WorkerStep(w), NEW id \in Ids
  PROVE  Lifecycle!JobStep(id)
<1>0. \A l : Release(w, l) =>
         /\ pc'[w] = l
         /\ \A v \in Workers \ {w} : pc'[v] = pc[v] /\ job'[v] = job[v]
  BY DEF Release, Inv, TypeOK, WorkersOK
<1>1. ASSUME NEW k \in Ids, Claim(w, k)
      PROVE  Lifecycle!JobStep(id)
  <2>1. /\ \A v \in Workers \ {w} : pc'[v] = pc[v] /\ job'[v] = job[v]
        /\ job'[w] = k
    BY <1>1 DEF Claim, Inv, TypeOK, WorkersOK
  <2>2. CASE id = k
    BY <1>1, <2>1, <2>2, TakenRow DEF Claim, On
  <2>3. CASE id # k
    <3>1. SameRow(id) /\ \A v \in Workers : On(v, id)' => On(v, id)
      BY <1>1, <2>1, <2>3, ClaimedRow DEF Claim, On, SameRow
    <3> QED BY <3>1, KeptRow
  <2> QED BY <2>2, <2>3
<1>2. ASSUME NEW l \in {"off", "claim", "wait", "pause"}, Release(w, l), SameRow(id)
      PROVE  Lifecycle!JobStep(id)
  BY <1>0, <1>2, KeptRow DEF On, Holding, Saving
<1>3. CASE ClaimError(w)
  <2>1. PICK l \in {"off", "pause"} : Release(w, l)
    BY <1>3 DEF ClaimError
  <2>2. CASE UNCHANGED tableVars
    BY <1>2, <2>1, <2>2 DEF tableVars, SameRow
  <2>3. ASSUME NEW k \in Ids, ClaimRow(w, k)
        PROVE  Lifecycle!JobStep(id)
    <3>1. id = k => Lifecycle!JobStep(id)
      BY <1>0, <2>1, <2>3, TakenRow DEF On
    <3>2. id # k => SameRow(id)
      BY <2>3, ClaimedRow DEF SameRow
    <3> QED BY <1>2, <2>1, <3>1, <3>2
  <2> QED BY <1>3, <2>2, <2>3 DEF ClaimError
<1>4. CASE ClaimNothing(w) \/ TakeWake(w) \/ Poll(w) \/ StopWaiting(w)
  BY <1>2, <1>4 DEF ClaimNothing, TakeWake, Poll, StopWaiting, tableVars, SameRow
<1>5. CASE GiveUpError(w) \/ LoadError(w) \/ SaveError(w)
  BY <1>2, <1>5, AfterJobType DEF GiveUpError, LoadError, SaveError, tableVars, SameRow
<1>6. CASE Load(w) \/ EndCompute(w)
  <2>1. /\ jobs' = jobs /\ overrun' = overrun /\ job' = job /\ pc[w] \in Holding
        /\ \A v \in Workers \ {w} : pc'[v] = pc[v]
    BY <1>6 DEF Load, EndCompute, tableVars, Holding, Inv, TypeOK, WorkersOK
  <2> QED BY <2>1, KeptRow DEF On, SameRow
<1>7. ASSUME NEW l \in {"off", "claim"}, Release(w, l), pc[w] \in Holding,
             \/ Settle(job[w], Done(jobs[job[w]])) /\ pc[w] # "giveup"
             \/ Settle(job[w], Failed(jobs[job[w]]))
      PROVE  Lifecycle!JobStep(id)
  <2>1. job[w] \in Ids /\ jobs[job[w]] \in Row
    BY <1>7, HeldJob DEF Inv, TypeOK, TableOK
  <2>2. CASE id # job[w] \/ ~InTable(job[w])
    <3>1. SameRow(id)
      BY <1>7, <2>1, <2>2 DEF Settle, tableVars, SameRow, Inv, TypeOK, TableOK
    <3> QED BY <1>2, <1>7, <3>1
  <2>3. CASE id = job[w] /\ InTable(job[w])
    <3>1. \/ jobs'[id] = Done(jobs[id]) /\ pc[w] # "giveup"
          \/ jobs'[id] = Failed(jobs[id])
      BY <1>7, <2>1, <2>3 DEF Settle, Inv, TypeOK, TableOK
    <3>2. /\ jobs'[id].attempts = jobs[id].attempts /\ overrun' = overrun
          /\ \/ jobs'[id].state = "failed"
             \/ jobs'[id].state = "done" /\ pc[w] # "giveup"
      BY <1>7, <2>1, <2>3, <3>1 DEF Done, Failed, Row, Settle
    <3>3. pc'[w] \notin Holding
      BY <1>0, <1>7 DEF Holding, Saving
    <3> QED BY <1>0, <1>7, <2>3, <3>2, <3>3, WrittenRow
  <2> QED BY <2>2, <2>3
<1>8. CASE GiveUp(w)
  BY <1>7, <1>8 DEF GiveUp, Holding
<1>9. CASE Finish(w) \/ Fail(w)
  BY <1>7, <1>9 DEF Finish, Fail, AfterJob, Holding, Saving
<1>10. ASSUME NEW S \in SUBSET Procs, Requeue(w, S)
       PROVE  Lifecycle!JobStep(id)
  <2>1. /\ pc[w] \in Holding /\ pc[w] # "giveup"
        /\ job[w] \in Ids /\ jobs[job[w]] \in Row
        /\ Release(w, AfterJob(w)) /\ AfterJob(w) \in {"off", "claim"}
    BY <1>10, HeldJob DEF Requeue, Holding, Saving, Inv, TypeOK, TableOK, AfterJob
  <2>2. CASE id # job[w] \/ jobs[job[w]].state # "running"
    <3>1. SameRow(id)
      BY <1>10, <2>1, <2>2 DEF Requeue, SameRow, Inv, TypeOK, TableOK
    <3> QED BY <1>2, <2>1, <3>1
  <2>3. CASE id = job[w] /\ jobs[job[w]].state = "running"
    <3>1. jobs'[id] = Requeued(jobs[id]) /\ InTable(id)
      BY <1>10, <2>1, <2>3 DEF Requeue, InTable, Inv, TypeOK, TableOK
    <3>2. /\ jobs'[id].attempts = jobs[id].attempts /\ overrun' = overrun
          /\ jobs'[id].state = "queued"
      BY <1>10, <2>1, <2>3, <3>1 DEF Requeue, Requeued, Row
    <3>3. pc'[w] \notin Holding
      BY <1>0, <2>1 DEF Holding, Saving
    <3> QED BY <1>0, <2>1, <2>3, <3>1, <3>2, <3>3, WrittenRow
  <2> QED BY <2>2, <2>3
<1> QED BY <1>1, <1>3, <1>4, <1>5, <1>6, <1>8, <1>9, <1>10 DEF WorkerStep

-----------------------------------------------------------------------------
(***************************************************************************)
(* The attempt left.  Only a claim changes the attempts of a row without   *)
(* starting them again, and no claim reaches a held row.                   *)
(***************************************************************************)

\* A worker that goes on with its job, its row untouched or queued anew.
LEMMA SpareFrame ==
  ASSUME SpareInv, NEW w \in Workers,
         pc'[w] \in Holding \ {"giveup"} => pc[w] \in Holding \ {"giveup"} /\ job'[w] = job[w],
         pc[w] \in Holding =>
            \/ jobs'[job[w]].state = "none"
            \/ jobs'[job[w]].attempts = 0
            \/ SameRow(job[w])
            \/ job[w] \in overrun'
  PROVE  Spare(w)'
BY LimitAssumption DEF SpareInv, Spare, Holds, InTable, Timely, SameRow

LEMMA RequestStepSpare ==
  ASSUME Inv, SpareInv, NEW r \in Requests, RequestStep(r), NEW w \in Workers
  PROVE  Spare(w)'
<1>0. UNCHANGED workerVars
  BY DEF RequestStep, Begin, DropFinished, Look, Count, Insert, NotifyQueued, Abort
<1>1. ASSUME NEW id \in Ids
      PROVE  SameRow(id) \/ jobs'[id].state = "none" \/ jobs'[id].attempts = 0
  <2>1. CASE UNCHANGED tableVars
    BY <2>1 DEF tableVars, SameRow
  <2>2. CASE DropFinished(r)
    BY <2>2 DEF DropFinished, Remove, NoRow, SameRow
  <2>3. CASE Insert(r) /\ ~UNCHANGED tableVars
    BY <2>3 DEF Insert, PutRow, NewRow, SameRow, Inv, TypeOK, TableOK
  <2> QED
    BY <2>1, <2>2, <2>3 DEF RequestStep, Begin, Look, Count, NotifyQueued, Abort
<1> QED BY <1>0, <1>1, HeldJob, SpareFrame DEF workerVars, Inv, TypeOK

LEMMA StoreStepSpare ==
  ASSUME Inv, SpareInv, StoreStep, NEW w \in Workers
  PROVE  Spare(w)'
<1>1. (\E S : Remove(S)) /\ UNCHANGED workerVars
  BY DEF StoreStep, DeleteFinishedJobs, DeleteOwner, DeleteCoverage, UpdateCoverage, Cascade
<1>2. \A id \in Ids : SameRow(id) \/ jobs'[id].state = "none"
  BY <1>1 DEF Remove, NoRow, SameRow
<1> QED BY <1>1, <1>2, HeldJob, SpareFrame DEF workerVars, Inv, TypeOK

LEMMA ProcStepSpare ==
  ASSUME Inv, SpareInv, NEW p \in Procs, ProcStep(p), NEW w \in Workers
  PROVE  Spare(w)'
<1>1. UNCHANGED <<jobs, overrun>>
  BY DEF ProcStep, Start, Stop, Exit, Crash, tableVars
<1>2. pc'[w] \in Holding => pc'[w] = pc[w] /\ job'[w] = job[w]
  BY DEF ProcStep, Start, Stop, Exit, Crash, Restarted, workerVars, Holding, Saving
<1> QED BY <1>1, <1>2, SpareFrame DEF SameRow

LEMMA TickSpare ==
  ASSUME Inv, SpareInv, Tick, NEW w \in Workers
  PROVE  Spare(w)'
<1>1. pc' = pc /\ job' = job /\ overrun \subseteq overrun'
  BY DEF Tick
<1>2. \A id \in Ids : jobs'[id].state = jobs[id].state /\ jobs'[id].attempts = jobs[id].attempts
  BY TickRows DEF Inv, TypeOK
<1>3. pc[w] \in Holding => job[w] \in Ids
  BY HeldJob DEF Inv, TypeOK
<1> QED BY <1>1, <1>2, <1>3 DEF SpareInv, Spare, Holds, InTable, Timely

LEMMA ClaimSpare ==
  ASSUME Inv, SpareInv, NEW w \in Workers, NEW k \in Ids, ClaimRow(w, k),
         NEW v \in Workers, pc'[v] = pc[v], job'[v] = job[v]
  PROVE  Spare(v)'
<1>1. CASE pc[v] \in Holding /\ job[v] = k
  <2>1. ~Held(k)
    BY ClaimedRow, ClaimFree
  <2>2. k \in overrun'
    BY <1>1, <2>1, ClaimedRow, HolderFacts DEF On, Claimable, Timely
  <2> QED BY <1>1, <2>2, SpareFrame
<1>2. CASE ~(pc[v] \in Holding /\ job[v] = k)
  BY <1>2, HeldJob, ClaimedRow, SpareFrame DEF SameRow, Inv, TypeOK
<1> QED BY <1>1, <1>2

LEMMA WorkerStepSpare ==
  ASSUME Inv, SpareInv, NEW w \in Workers, WorkerStep(w), NEW v \in Workers
  PROVE  Spare(v)'
<1>0. \A l : Release(w, l) =>
         /\ pc'[w] = l
         /\ v # w => pc'[v] = pc[v] /\ job'[v] = job[v]
  BY DEF Release, Inv, TypeOK, WorkersOK
<1>1. ASSUME NEW k \in Ids, Claim(w, k)
      PROVE  Spare(v)'
  <2>1. CASE v = w
    <3>1. job'[w] = k /\ pc'[w] = FirstStep(w, k)
      BY <1>1 DEF Claim, Inv, TypeOK, WorkersOK
    <3>2. jobs'[k].attempts \in 0 .. MaxAttempts
      BY <1>1, TypeStep DEF Inv, TypeOK, TableOK, Row, Next
    <3>3. FirstStep(w, k) # "giveup" => jobs'[k].attempts < MaxAttempts
      BY <3>2, LimitAssumption DEF FirstStep
    <3> QED BY <2>1, <3>1, <3>3 DEF Spare
  <2>2. CASE v # w
    BY <1>1, <2>2, ClaimSpare DEF Claim, Inv, TypeOK, WorkersOK
  <2> QED BY <2>1, <2>2
<1>2. ASSUME NEW l \in {"off", "claim", "wait", "pause"}, Release(w, l),
             \A id \in Ids : SameRow(id) \/ jobs'[id].state = "none"
      PROVE  Spare(v)'
  BY <1>0, <1>2, HeldJob, SpareFrame DEF Holding, Saving, Inv, TypeOK
<1>3. CASE ClaimError(w)
  <2>1. PICK l \in {"off", "pause"} : Release(w, l)
    BY <1>3 DEF ClaimError
  <2>2. CASE UNCHANGED tableVars
    BY <1>2, <2>1, <2>2 DEF tableVars, SameRow
  <2>3. ASSUME NEW k \in Ids, ClaimRow(w, k)
        PROVE  Spare(v)'
    <3>1. v # w => Spare(v)'
      BY <1>0, <2>1, <2>3, ClaimSpare
    <3>2. v = w => Spare(v)'
      BY <1>0, <2>1 DEF Spare, Holds, Holding, Saving
    <3> QED BY <3>1, <3>2
  <2> QED BY <1>3, <2>2, <2>3 DEF ClaimError
<1>4. CASE ClaimNothing(w) \/ TakeWake(w) \/ Poll(w) \/ StopWaiting(w)
  BY <1>2, <1>4 DEF ClaimNothing, TakeWake, Poll, StopWaiting, tableVars, SameRow
<1>5. CASE GiveUpError(w) \/ LoadError(w) \/ SaveError(w)
  BY <1>2, <1>5, AfterJobType DEF GiveUpError, LoadError, SaveError, tableVars, SameRow
<1>6. CASE Load(w) \/ EndCompute(w)
  <2>1. /\ jobs' = jobs /\ job' = job
        /\ pc[w] \in Holding \ {"giveup"} /\ overrun' = overrun
        /\ v # w => pc'[v] = pc[v]
    BY <1>6 DEF Load, EndCompute, tableVars, Holding, Inv, TypeOK, WorkersOK
  <2> QED BY <2>1, SpareFrame DEF SameRow
<1>7. ASSUME pc'[w] \notin Holding,
             v # w => pc'[v] = pc[v] /\ job'[v] = job[v],
             overrun' = overrun,
             \A id \in Ids : /\ jobs'[id].attempts = jobs[id].attempts
                             /\ InTable(id)' <=> InTable(id)
      PROVE  Spare(v)'
  BY <1>7, HeldJob DEF Spare, SpareInv, Holds, Timely, Inv, TypeOK
<1>8. CASE GiveUp(w) \/ Finish(w) \/ Fail(w)
  <2>1. /\ job[w] \in Ids /\ jobs[job[w]] \in Row
        /\ \/ Settle(job[w], Done(jobs[job[w]]))
           \/ Settle(job[w], Failed(jobs[job[w]]))
        /\ \E l \in {"off", "claim"} : Release(w, l)
    BY <1>8, HeldJob DEF GiveUp, Finish, Fail, AfterJob, Holding, Saving, Inv, TypeOK, TableOK
  <2>2. ASSUME NEW id \in Ids
        PROVE  /\ jobs'[id].attempts = jobs[id].attempts
               /\ InTable(id)' <=> InTable(id)
    <3>1. PICK r \in {Done(jobs[job[w]]), Failed(jobs[job[w]])} : Settle(job[w], r)
      BY <2>1
    <3>2. r.attempts = jobs[job[w]].attempts /\ r.state # "none"
      BY <2>1 DEF Done, Failed, Row
    <3> QED BY <3>1, <3>2 DEF Settle, tableVars, InTable, Inv, TypeOK, TableOK
  <2>3. overrun' = overrun
    BY <2>1 DEF Settle, tableVars
  <2> QED BY <1>0, <1>7, <2>1, <2>2, <2>3 DEF Holding, Saving
<1>9. ASSUME NEW S \in SUBSET Procs, Requeue(w, S)
      PROVE  Spare(v)'
  <2>1. /\ job[w] \in Ids /\ jobs[job[w]] \in Row
        /\ \E l \in {"off", "claim"} : Release(w, l)
    BY <1>9, HeldJob DEF Requeue, AfterJob, Holding, Saving, Inv, TypeOK, TableOK
  <2>2. ASSUME NEW id \in Ids
        PROVE  /\ jobs'[id].attempts = jobs[id].attempts
               /\ InTable(id)' <=> InTable(id)
    <3>1. LET r == Requeued(jobs[job[w]])
          IN  r.attempts = jobs[job[w]].attempts /\ r.state # "none"
      BY <2>1 DEF Requeued, Row
    <3> QED BY <1>9, <3>1 DEF Requeue, InTable, Inv, TypeOK, TableOK
  <2> QED BY <1>0, <1>7, <1>9, <2>1, <2>2 DEF Requeue, Holding, Saving
<1> QED BY <1>1, <1>3, <1>4, <1>5, <1>6, <1>8, <1>9 DEF WorkerStep

LEMMA SpareStep == Inv /\ SpareInv /\ [Next]_vars => SpareInv'
<1> SUFFICES ASSUME Inv, SpareInv, [Next]_vars, NEW w \in Workers
             PROVE  Spare(w)'
  BY DEF SpareInv
<1>1. CASE UNCHANGED vars
  BY <1>1, SpareFrame DEF vars, tableVars, SameRow
<1>2. CASE Next
  BY <1>2, RequestStepSpare, WorkerStepSpare, ProcStepSpare, StoreStepSpare, TickSpare DEF Next
<1> QED BY <1>1, <1>2

-----------------------------------------------------------------------------
(***************************************************************************)
(* The refinement.                                                         *)
(***************************************************************************)

\* Every step does to each job what its life allows.
LEMMA JobSteps ==
  ASSUME Inv, SpareInv, Next, NEW id \in Ids
  PROVE  Lifecycle!JobStep(id)
<1>1. ASSUME NEW p \in Procs, ProcStep(p)
      PROVE  Lifecycle!JobStep(id)
  <2>1. UNCHANGED <<jobs, overrun>>
    BY <1>1 DEF ProcStep, Start, Stop, Exit, Crash, tableVars
  <2>2. \A w \in Workers : On(w, id)' => On(w, id)
    BY <1>1 DEF ProcStep, Start, Stop, Exit, Crash, Restarted, workerVars, On, Holding, Saving
  <2> QED BY <2>1, <2>2, KeptRow DEF SameRow
<1>2. CASE StoreStep
  <2>1. /\ \E S : Remove(S)
        /\ UNCHANGED workerVars
    BY <1>2 DEF StoreStep, DeleteFinishedJobs, DeleteOwner, DeleteCoverage, UpdateCoverage,
                Cascade
  <2> QED BY <2>1, RemovedRows
<1>3. CASE Tick
  <2>1. CASE id \in overrun' <=> id \in overrun
    <3>1. SameRow(id)
      BY <1>3, <2>1, TickRows DEF SameRow, Inv, TypeOK
    <3>2. \A w \in Workers : On(w, id)' => On(w, id)
      BY <1>3 DEF Tick, On
    <3> QED BY <3>1, <3>2, KeptRow
  <2>2. CASE id \in overrun' /\ id \notin overrun
    <3>1. PICK w \in Workers : On(w, id) /\ InTable(id) /\ Timely(id)
      BY <1>3, <2>2 DEF Tick, HeldTooLong, On, Timely
    <3>2. StageOf(id) = "running" /\ HolderOf(id) # None
      BY <3>1, HolderFacts
    <3>3. StageOf(id)' = "overrun" /\ HolderOf(id)' = None /\ ClaimsOf(id)' = 0
      BY <2>2 DEF StageOf, HolderOf, ClaimsOf, Held, Holds, Timely
    <3>4. Lifecycle!Overstay(id)
      BY <3>2, <3>3, Mapped DEF Lifecycle!Overstay
    <3> QED BY <3>4 DEF Lifecycle!JobStep
  <2> QED BY <1>3, <2>1, <2>2 DEF Tick
<1> QED BY <1>1, <1>2, <1>3, RequestStepRow, WorkerStepRow DEF Next

\* The abstract variables keep their types.
LifecycleTypes ==
  \A id \in Ids : /\ StageOf(id) \in Lifecycle!Stages
                  /\ HolderOf(id) \in Workers \cup {None}
                  /\ ClaimsOf(id) \in 0 .. MaxAttempts

LEMMA MappedTypes == Inv => LifecycleTypes
<1> SUFFICES ASSUME Inv, NEW id \in Ids
             PROVE  /\ StageOf(id) \in Lifecycle!Stages
                    /\ HolderOf(id) \in Workers \cup {None}
                    /\ ClaimsOf(id) \in 0 .. MaxAttempts
  BY DEF LifecycleTypes
<1>1. jobs[id] \in Row
  BY DEF Inv, TypeOK, TableOK
<1>2. StageOf(id) \in Lifecycle!Stages
  BY <1>1 DEF StageOf, Lifecycle!Stages, Row, ActiveStates, FinishedStates
<1>3. HolderOf(id) \in Workers \cup {None}
  BY HolderFacts
<1>4. ClaimsOf(id) \in 0 .. MaxAttempts
  BY <1>1, LimitAssumption DEF ClaimsOf, Row
<1> QED BY <1>2, <1>3, <1>4

LEMMA LifecycleInit == Init => Lifecycle!Init
<1> SUFFICES ASSUME Init
             PROVE  Lifecycle!Init
  OBVIOUS
<1>1. \A id \in Ids : /\ StageOf(id) = "none" /\ HolderOf(id) = None /\ ClaimsOf(id) = 0
  BY DEF Init, StageOf, HolderOf, ClaimsOf, Held, Holds, Timely, Holding, Saving, NoRow
<1> QED BY <1>1 DEF Lifecycle!Init

LEMMA LifecycleStep ==
  Inv /\ Inv' /\ SpareInv /\ [Next]_vars => [Lifecycle!Next]_Lifecycle!lifecycleVars
<1> SUFFICES ASSUME Inv, Inv', SpareInv, [Next]_vars
             PROVE  [Lifecycle!Next]_Lifecycle!lifecycleVars
  OBVIOUS
<1>1. CASE UNCHANGED vars
  BY <1>1 DEF vars, tableVars, Lifecycle!lifecycleVars, StageOf, HolderOf, ClaimsOf, Held, Holds, Timely,
              InTable
<1>2. CASE Next
  <2>1. LifecycleTypes'
    BY MappedTypes, PTL
  <2>2. \A id \in Ids : Lifecycle!JobStep(id)
    BY <1>2, JobSteps
  <2> QED BY <2>1, <2>2 DEF Lifecycle!Next, LifecycleTypes, Lifecycle!Stages
<1> QED BY <1>1, <1>2

\* The job queue implements the life of a job, for every number of workers,
\* processes, requests and jobs: at most one holder, an outcome or the job
\* itself only from the holder, and no result after the last claim, until a
\* holder overstays; how long it may take is left open.
THEOREM QueueImplementsLifecycle == Spec => ImplementsLifecycle
<1>1. Init => SpareInv
  BY DEF Init, SpareInv, Spare, Holds, Holding, Saving
<1>2. Spec => []SpareInv
  BY <1>1, InvCorrect, SpareStep, PTL DEF Spec
<1> QED BY <1>2, InvCorrect, LifecycleInit, LifecycleStep, PTL
        DEF Spec, ImplementsLifecycle, Lifecycle!Spec
=============================================================================

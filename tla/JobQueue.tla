------------------------------ MODULE JobQueue ------------------------------
(***************************************************************************)
(* The job queue of radiopath: the table jobs of internal/store/jobs.go,   *)
(* the requests that queue jobs (EnqueueJob, EnqueueCoverage), the workers *)
(* of internal/worker/worker.go that claim and run them, the janitor, and  *)
(* the start, shutdown and crash of the processes of cmd/radiopath.        *)
(*                                                                         *)
(* One SQL statement is one action; a Go function that issues several      *)
(* statements is a sequence of actions of one process, between which every *)
(* other process may step.  Times are kept as ages that grow with Tick and *)
(* saturate at AgeCap, above every age the code compares with.             *)
(*                                                                         *)
(* A worker may keep a job for any time: the timeouts of the job contexts  *)
(* end a computation only where it looks at its context, and neither the   *)
(* prediction of the HF model nor the loading of a terrain tile does, nor  *)
(* have the worker's own statements a deadline.                            *)
(***************************************************************************)
EXTENDS Naturals, FiniteSets

CONSTANTS
  Owners,         \* users
  Inputs,         \* (kind, input) pairs, i.e. the values of input_hash
  CoverageInputs, \* the inputs of kind coverage, one per coverage
  Ids,            \* values of jobs.id
  Workers, Procs, Requests,
  Home,           \* the process a worker runs in
  WorkerClass,    \* the class of jobs a worker claims
  Stale,          \* by class: age at which a running job is taken over
  Keep,           \* age at which the janitor drops a finished short job
  AgeCap,         \* where ages saturate
  MaxAttempts,    \* claims after which a job is given up
  Limit,          \* by class: active jobs per owner
  MaxQueued,      \* queued jobs over all owners
  DbFaults,       \* whether statements of the workers may fail
  None

Classes == {"coverage", "short"}

ASSUME SetAssumption ==
  /\ CoverageInputs \subseteq Inputs
  /\ IsFiniteSet(Requests)
  /\ Home \in [Workers -> Procs]
  /\ WorkerClass \in [Workers -> Classes]
  /\ None \notin Owners \cup Inputs \cup Workers \cup Ids

ASSUME TimeAssumption ==
  /\ Stale \in [Classes -> Nat]
  /\ Keep \in Nat
  /\ AgeCap \in Nat
  /\ AgeCap > Keep
  /\ \A c \in Classes : Stale[c] < AgeCap

ASSUME LimitAssumption ==
  /\ MaxAttempts \in Nat \ {0}
  /\ Limit \in [Classes -> Nat \ {0}]
  /\ MaxQueued \in Nat \ {0}
  /\ DbFaults \in BOOLEAN

VARIABLES
  jobs,    \* the table jobs: [Ids -> Row]
  older,   \* older[id]: the active jobs with an earlier queued_at
  runs,    \* history: computations started since the job was queued
  overrun, \* history: rows a worker of which held on for longer than Stale
  req,     \* the requests inside EnqueueCoverage or EnqueueJob
  pc,      \* where each worker is in Worker.Run
  job,     \* the job a worker claimed
  elapsed, \* the time since that claim
  proc,    \* state of each process
  wake     \* the filled wake channels, as <<process, class>>

tableVars == <<jobs, older, runs, overrun>>
workerVars == <<pc, job, elapsed>>
vars == <<tableVars, req, pc, job, elapsed, proc, wake>>

ClassOf(i) == IF i \in CoverageInputs THEN "coverage" ELSE "short"

(***************************************************************************)
(* The table.                                                              *)
(***************************************************************************)
ActiveStates == {"queued", "running"}
FinishedStates == {"done", "failed"}

\* The worker columns and age of a row: attempts counts claims up to
\* MaxAttempts (the code only asks whether they reached it); age is the time
\* since started_at of a running and since finished_at of a finished job.
Row == [state    : {"none"} \cup ActiveStates \cup FinishedStates,
        owner    : Owners \cup {None},
        input    : Inputs \cup {None},
        attempts : 0 .. MaxAttempts,
        worker   : Workers \cup {None},
        age      : 0 .. AgeCap]

NoRow == [state |-> "none", owner |-> None, input |-> None,
          attempts |-> 0, worker |-> None, age |-> 0]

NewRow(o, i) == [state |-> "queued", owner |-> o, input |-> i,
                 attempts |-> 0, worker |-> None, age |-> 0]

InTable(id) == jobs[id].state # "none"
Active(id) == jobs[id].state \in ActiveStates

\* The rows with one owner and input_hash: at most one, the table's UNIQUE.
Existing(o, i) == {id \in Ids : InTable(id) /\ jobs[id].owner = o /\ jobs[id].input = i}

ActiveOf(o, c) ==
  {id \in Ids : Active(id) /\ jobs[id].owner = o /\ ClassOf(jobs[id].input) = c}

Queued == {id \in Ids : jobs[id].state = "queued"}

\* An id of the sequence is never used twice; an id nobody refers to any more
\* stands for the next one.
Fresh(id) == ~InTable(id) /\ \A w \in Workers : job[w] # id

LeaveQueue(S) == [id \in Ids |-> IF id \in S THEN {} ELSE older[id] \ S]
JoinQueue(n) ==
  [id \in Ids |-> IF id = n THEN {k \in Ids : Active(k)} \ {n} ELSE older[id] \ {n}]

\* DELETE of the rows S.
Remove(S) ==
  /\ jobs' = [id \in Ids |-> IF id \in S THEN NoRow ELSE jobs[id]]
  /\ older' = LeaveQueue(S)
  /\ runs' = [id \in Ids |-> IF id \in S THEN 0 ELSE runs[id]]
  /\ overrun' = overrun \ S

\* UPDATE of row id to r, a job that leaves the queue; nothing when it is gone.
Settle(id, r) ==
  IF InTable(id)
  THEN /\ jobs' = [jobs EXCEPT ![id] = r]
       /\ older' = LeaveQueue({id})
       /\ UNCHANGED <<runs, overrun>>
  ELSE UNCHANGED tableVars

\* Mutants: takeover one unit early; no takeover of a running job.
ClaimableEarly(c) ==
  {id \in Ids : /\ InTable(id)
                /\ ClassOf(jobs[id].input) = c
                /\ \/ jobs[id].state = "queued"
                   \/ jobs[id].state = "running" /\ jobs[id].age >= Stale[c]}
ClaimableQueued(c) ==
  {id \in Ids : jobs[id].state = "queued" /\ ClassOf(jobs[id].input) = c}

Claimable(c) ==
  {id \in Ids : /\ InTable(id)
                /\ ClassOf(jobs[id].input) = c
                /\ \/ jobs[id].state = "queued"
                   \/ jobs[id].state = "running" /\ jobs[id].age > Stale[c]}

OneMore(n) == IF n < MaxAttempts THEN n + 1 ELSE n

\* Mutant: started_at is kept.
ClaimedNoStart(r, w) ==
  [r EXCEPT !.state = "running", !.worker = w, !.attempts = OneMore(@)]

Claimed(r, w) ==
  [r EXCEPT !.state = "running", !.worker = w, !.age = 0, !.attempts = OneMore(@)]

\* ClaimJob of worker w takes id, the oldest job it may claim.
ClaimRow(w, id) ==
  LET can == Claimable(WorkerClass[w])
  IN /\ id \in can
     /\ older[id] \cap can = {}
     /\ jobs' = [jobs EXCEPT ![id] = Claimed(@, w)]
     /\ UNCHANGED <<older, overrun>>

\* Mutant: the attempts start again.
RequeuedAfresh(r) == [r EXCEPT !.state = "queued", !.worker = None, !.age = 0, !.attempts = 0]

Done(r) == [r EXCEPT !.state = "done", !.age = 0]
Failed(r) == [r EXCEPT !.state = "failed", !.age = 0]
Requeued(r) == [r EXCEPT !.state = "queued", !.worker = None, !.age = 0]

\* A job_queued notification of class c fills the wake channels of the
\* processes S whose listener is connected; every other process misses it.
Notified(c, S) == wake' = wake \cup (S \X {c})

Listening == {p \in Procs : proc[p] = "up"}

(***************************************************************************)
(* Requests: EnqueueCoverage, which deletes the coverage's finished job    *)
(* first, and EnqueueJob.                                                  *)
(***************************************************************************)
Idle == [pc |-> "idle", owner |-> None, input |-> None]

Goto(r, l) == req' = [req EXCEPT ![r].pc = l]
Return(r) == req' = [req EXCEPT ![r] = Idle]

Begin(r, o, i) ==
  /\ req[r].pc = "idle"
  /\ req' = [req EXCEPT ![r] = [pc |-> IF i \in CoverageInputs THEN "drop" ELSE "look",
                                owner |-> o, input |-> i]]
  /\ UNCHANGED <<tableVars, workerVars, proc, wake>>

\* Mutant: the job is deleted whatever its state.
DropAny(r) ==
  /\ req[r].pc = "drop"
  /\ Remove({id \in Ids : jobs[id].input = req[r].input})
  /\ Goto(r, "look")
  /\ UNCHANGED <<workerVars, proc, wake>>

\* DELETE FROM jobs of the coverage that are done or failed.
DropFinished(r) ==
  /\ req[r].pc = "drop"
  /\ Remove({id \in Ids : /\ jobs[id].input = req[r].input
                          /\ jobs[id].state \in FinishedStates})
  /\ Goto(r, "look")
  /\ UNCHANGED <<workerVars, proc, wake>>

\* The first existing(): a job that has not failed is the answer.
Look(r) ==
  /\ req[r].pc = "look"
  /\ IF \E id \in Existing(req[r].owner, req[r].input) : jobs[id].state # "failed"
     THEN Return(r)
     ELSE Goto(r, "count")
  /\ UNCHANGED <<tableVars, workerVars, proc, wake>>

\* Mutant: the limit itself is let through.
AdmitsOneMore(o, i) ==
  /\ Cardinality(ActiveOf(o, ClassOf(i))) <= Limit[ClassOf(i)]
  /\ Cardinality(Queued) < MaxQueued

\* ErrQuota and ErrBusy, or on to the INSERT.
Admits(o, i) ==
  /\ Cardinality(ActiveOf(o, ClassOf(i))) < Limit[ClassOf(i)]
  /\ Cardinality(Queued) < MaxQueued

Count(r) ==
  /\ req[r].pc = "count"
  /\ IF Admits(req[r].owner, req[r].input) THEN Goto(r, "insert") ELSE Return(r)
  /\ UNCHANGED <<tableVars, workerVars, proc, wake>>

\* INSERT ... ON CONFLICT DO UPDATE ... WHERE jobs.state = failed.
PutRow(id, o, i) ==
  /\ jobs' = [jobs EXCEPT ![id] = NewRow(o, i)]
  /\ older' = JoinQueue(id)
  /\ runs' = [runs EXCEPT ![id] = 0]
  /\ UNCHANGED overrun

\* Mutant: ON CONFLICT DO UPDATE without its WHERE.
InsertOver(r) ==
  /\ req[r].pc = "insert"
  /\ LET E == Existing(req[r].owner, req[r].input)
     IN \E id \in Ids :
          /\ IF E = {} THEN Fresh(id) ELSE id \in E
          /\ PutRow(id, req[r].owner, req[r].input)
  /\ Goto(r, "notify")
  /\ UNCHANGED <<workerVars, proc, wake>>

Insert(r) ==
  /\ req[r].pc = "insert"
  /\ LET o == req[r].owner
         i == req[r].input
         E == Existing(o, i)
     IN \/ /\ \E id \in Ids : \/ E = {} /\ Fresh(id) /\ PutRow(id, o, i)
                              \/ id \in E /\ jobs[id].state = "failed" /\ PutRow(id, o, i)
           /\ Goto(r, "notify")
        \/ /\ \E id \in E : jobs[id].state # "failed"
           /\ Return(r)
           /\ UNCHANGED tableVars
  /\ UNCHANGED <<workerVars, proc, wake>>

NotifyQueued(r, S) ==
  /\ req[r].pc = "notify"
  /\ S \subseteq Listening
  /\ Notified(ClassOf(req[r].input), S)
  /\ Return(r)
  /\ UNCHANGED <<tableVars, workerVars, proc>>

\* The client left or a statement failed.
Abort(r) ==
  /\ req[r].pc # "idle"
  /\ Return(r)
  /\ UNCHANGED <<tableVars, workerVars, proc, wake>>

(***************************************************************************)
(* Workers.                                                                *)
(***************************************************************************)
Stopping(w) == proc[Home[w]] = "stopping"

\* The loop of Run goes on, or ends when its context is cancelled.
AfterJob(w) == IF Stopping(w) THEN "off" ELSE "claim"

Release(w, l) ==
  /\ pc' = [pc EXCEPT ![w] = l]
  /\ job' = [job EXCEPT ![w] = None]
  /\ elapsed' = [elapsed EXCEPT ![w] = 0]

Saving == {"finish", "fail", "requeue"}
Holding == {"giveup", "load", "compute"} \cup Saving

\* Mutant: a job is given up one claim too late.
FirstStepLate(w, id) ==
  IF jobs'[id].attempts > MaxAttempts    THEN "giveup"
  ELSE IF WorkerClass[w] = "coverage" THEN "load"
  ELSE "compute"

FirstStep(w, id) ==
  IF jobs'[id].attempts >= MaxAttempts THEN "giveup"
  ELSE IF WorkerClass[w] = "coverage"   THEN "load"
  ELSE "compute"

StartRun(id) == runs' = IF InTable(id) THEN [runs EXCEPT ![id] = @ + 1] ELSE runs

Claim(w, id) ==
  /\ pc[w] = "claim"
  /\ ~Stopping(w)
  /\ ClaimRow(w, id)
  /\ pc' = [pc EXCEPT ![w] = FirstStep(w, id)]
  /\ job' = [job EXCEPT ![w] = id]
  /\ elapsed' = [elapsed EXCEPT ![w] = 0]
  /\ IF FirstStep(w, id) = "compute" THEN StartRun(id) ELSE UNCHANGED runs
  /\ UNCHANGED <<req, proc, wake>>

ClaimNothing(w) ==
  /\ pc[w] = "claim"
  /\ ~Stopping(w)
  /\ Claimable(WorkerClass[w]) = {}
  /\ Release(w, "wait")
  /\ UNCHANGED <<tableVars, req, proc, wake>>

\* ClaimJob returns an error, whether or not its UPDATE took effect.
ClaimError(w) ==
  /\ pc[w] = "claim"
  /\ DbFaults \/ Stopping(w)
  /\ \/ UNCHANGED tableVars
     \/ /\ \E id \in Ids : ClaimRow(w, id)
        /\ UNCHANGED runs
  /\ Release(w, IF Stopping(w) THEN "off" ELSE "pause")
  /\ UNCHANGED <<req, proc, wake>>

TakeWake(w) ==
  /\ pc[w] = "wait"
  /\ <<Home[w], WorkerClass[w]>> \in wake
  /\ wake' = wake \ {<<Home[w], WorkerClass[w]>>}
  /\ Release(w, "claim")
  /\ UNCHANGED <<tableVars, req, proc>>

\* Mutant: a worker that found nothing waits for a wake-up only.
PollAfterError(w) ==
  /\ pc[w] = "pause"
  /\ Release(w, "claim")
  /\ UNCHANGED <<tableVars, req, proc, wake>>

Poll(w) ==
  /\ pc[w] \in {"wait", "pause"}
  /\ Release(w, "claim")
  /\ UNCHANGED <<tableVars, req, proc, wake>>

StopWaiting(w) ==
  /\ pc[w] \in {"wait", "pause"}
  /\ Stopping(w)
  /\ Release(w, "off")
  /\ UNCHANGED <<tableVars, req, proc, wake>>

\* FailJob of a job claimed too often uses the worker's own context.
GiveUp(w) ==
  /\ pc[w] = "giveup"
  /\ ~Stopping(w)
  /\ Settle(job[w], Failed(jobs[job[w]]))
  /\ Release(w, "claim")
  /\ UNCHANGED <<req, proc, wake>>

GiveUpError(w) ==
  /\ pc[w] = "giveup"
  /\ DbFaults \/ Stopping(w)
  /\ Release(w, "claim")
  /\ UNCHANGED <<tableVars, req, proc, wake>>

\* GetCoverage of runCoverage asks for the coverage, not for the row.
Load(w) ==
  /\ pc[w] = "load"
  /\ ~Stopping(w)
  /\ StartRun(job[w])
  /\ pc' = [pc EXCEPT ![w] = "compute"]
  /\ UNCHANGED <<jobs, older, overrun, job, elapsed, req, proc, wake>>

\* The coverage is gone, the query failed or the context is cancelled.
LoadError(w) ==
  /\ pc[w] = "load"
  /\ DbFaults \/ Stopping(w) \/ ~InTable(job[w])
  /\ Release(w, AfterJob(w))
  /\ UNCHANGED <<tableVars, req, proc, wake>>

\* Compute returns and the worker looks at its context.
EndCompute(w) ==
  /\ pc[w] = "compute"
  /\ \E l \in IF Stopping(w) THEN {"requeue"} ELSE {"finish", "fail"} :
        pc' = [pc EXCEPT ![w] = l]
  /\ UNCHANGED <<tableVars, job, elapsed, req, proc, wake>>

\* FinishJob and FinishCoverageJob.
Finish(w) ==
  /\ pc[w] = "finish"
  /\ Settle(job[w], Done(jobs[job[w]]))
  /\ Release(w, AfterJob(w))
  /\ UNCHANGED <<req, proc, wake>>

Fail(w) ==
  /\ pc[w] = "fail"
  /\ Settle(job[w], Failed(jobs[job[w]]))
  /\ Release(w, AfterJob(w))
  /\ UNCHANGED <<req, proc, wake>>

\* RequeueJob, with its notification, on a job that is running.
Requeue(w, S) ==
  /\ pc[w] = "requeue"
  /\ S \subseteq Listening
  /\ IF jobs[job[w]].state = "running"
     THEN /\ jobs' = [jobs EXCEPT ![job[w]] = Requeued(@)]
          /\ Notified(ClassOf(jobs[job[w]].input), S)
     ELSE UNCHANGED <<jobs, wake>>
  /\ Release(w, AfterJob(w))
  /\ UNCHANGED <<older, runs, overrun, req, proc>>

\* The write of the result, the failure or the requeue fails.
SaveError(w) ==
  /\ DbFaults
  /\ pc[w] \in Saving
  /\ Release(w, AfterJob(w))
  /\ UNCHANGED <<tableVars, req, proc, wake>>

(***************************************************************************)
(* Processes.                                                              *)
(***************************************************************************)
WorkersOf(p) == {w \in Workers : Home[w] = p}

Restarted(p, l) ==
  /\ pc' = [w \in Workers |-> IF Home[w] = p THEN l ELSE pc[w]]
  /\ job' = [w \in Workers |-> IF Home[w] = p THEN None ELSE job[w]]
  /\ elapsed' = [w \in Workers |-> IF Home[w] = p THEN 0 ELSE elapsed[w]]
  /\ wake' = wake \ ({p} \X Classes)

Start(p) ==
  /\ proc[p] = "down"
  /\ proc' = [proc EXCEPT ![p] = "up"]
  /\ Restarted(p, "claim")
  /\ UNCHANGED <<tableVars, req>>

\* SIGTERM: stopWorkers cancels the context of the workers.
Stop(p) ==
  /\ proc[p] = "up"
  /\ proc' = [proc EXCEPT ![p] = "stopping"]
  /\ UNCHANGED <<tableVars, req, workerVars, wake>>

\* workers.Wait is over.
Exit(p) ==
  /\ proc[p] = "stopping"
  /\ \A w \in WorkersOf(p) : pc[w] = "off"
  /\ proc' = [proc EXCEPT ![p] = "down"]
  /\ Restarted(p, "off")
  /\ UNCHANGED <<tableVars, req>>

Crash(p) ==
  /\ proc[p] # "down"
  /\ proc' = [proc EXCEPT ![p] = "down"]
  /\ Restarted(p, "off")
  /\ UNCHANGED <<tableVars, req>>

(***************************************************************************)
(* The janitor, deletions, and time.                                       *)
(***************************************************************************)
Expired == {id \in Ids : /\ jobs[id].state \in FinishedStates
                         /\ jobs[id].input \notin CoverageInputs
                         /\ jobs[id].age > Keep}

DeleteFinishedJobs ==
  /\ Expired # {}
  /\ Remove(Expired)
  /\ UNCHANGED <<req, workerVars, proc, wake>>

\* Deleting a user or a coverage takes its jobs along; a request still under
\* way for it fails at its INSERT, on the foreign key.
Cascade(S, Q) ==
  /\ Remove(S)
  /\ req' = [r \in Requests |-> IF r \in Q THEN Idle ELSE req[r]]
  /\ UNCHANGED <<workerVars, proc, wake>>

DeleteOwner(o) ==
  Cascade({id \in Ids : jobs[id].owner = o}, {r \in Requests : req[r].owner = o})

DeleteCoverage(i) ==
  Cascade({id \in Ids : jobs[id].input = i}, {r \in Requests : req[r].input = i})

\* Mutant: the running job is dropped too.
UpdateCoverageAny(i) ==
  /\ Remove({id \in Ids : jobs[id].input = i})
  /\ UNCHANGED <<req, workerVars, proc, wake>>

\* The second statement of UpdateCoverage drops the job unless it is running.
UpdateCoverage(i) ==
  /\ Remove({id \in Ids : jobs[id].input = i /\ jobs[id].state # "running"})
  /\ UNCHANGED <<req, workerVars, proc, wake>>

\* The code reads started_at of a running job only, and finished_at of a
\* finished short one.
AgeRead(id) ==
  \/ jobs[id].state = "running"
  \/ jobs[id].state \in FinishedStates /\ jobs[id].input \notin CoverageInputs

Older(n) == IF n < AgeCap THEN n + 1 ELSE n

\* The worker that claimed row id still has it when the code may take it over.
HeldTooLong(id) ==
  \E w \in Workers : /\ pc[w] \in Holding /\ job[w] = id /\ InTable(id)
                     /\ Older(elapsed[w]) > Stale[ClassOf(jobs[id].input)]

Tick ==
  /\ jobs' = [id \in Ids |->
                IF AgeRead(id) THEN [jobs[id] EXCEPT !.age = Older(@)] ELSE jobs[id]]
  /\ elapsed' = [w \in Workers |-> IF pc[w] \in Holding THEN Older(elapsed[w]) ELSE 0]
  /\ overrun' = overrun \cup {id \in Ids : HeldTooLong(id)}
  /\ UNCHANGED <<older, runs, req, pc, job, proc, wake>>

-----------------------------------------------------------------------------
Init ==
  /\ jobs = [id \in Ids |-> NoRow]
  /\ older = [id \in Ids |-> {}]
  /\ runs = [id \in Ids |-> 0]
  /\ overrun = {}
  /\ req = [r \in Requests |-> Idle]
  /\ pc = [w \in Workers |-> "claim"]
  /\ job = [w \in Workers |-> None]
  /\ elapsed = [w \in Workers |-> 0]
  /\ proc = [p \in Procs |-> "up"]
  /\ wake = {}

RequestStep(r) ==
  \/ \E o \in Owners, i \in Inputs : Begin(r, o, i)
  \/ DropFinished(r) \/ Look(r) \/ Count(r) \/ Insert(r)
  \/ \E S \in SUBSET Procs : NotifyQueued(r, S)
  \/ Abort(r)

WorkerStep(w) ==
  \/ \E id \in Ids : Claim(w, id)
  \/ ClaimNothing(w) \/ ClaimError(w)
  \/ TakeWake(w) \/ Poll(w) \/ StopWaiting(w)
  \/ GiveUp(w) \/ GiveUpError(w) \/ Load(w) \/ LoadError(w)
  \/ EndCompute(w) \/ Finish(w) \/ Fail(w) \/ SaveError(w)
  \/ \E S \in SUBSET Procs : Requeue(w, S)

ProcStep(p) == Start(p) \/ Stop(p) \/ Exit(p) \/ Crash(p)

StoreStep ==
  \/ DeleteFinishedJobs
  \/ \E o \in Owners : DeleteOwner(o)
  \/ \E i \in CoverageInputs : DeleteCoverage(i) \/ UpdateCoverage(i)

Next ==
  \/ \E r \in Requests : RequestStep(r)
  \/ \E w \in Workers : WorkerStep(w)
  \/ \E p \in Procs : ProcStep(p)
  \/ StoreStep
  \/ Tick

Spec == Init /\ [][Next]_vars

(***************************************************************************)
(* Fairness.  A worker's loop never stops by itself: its statements return *)
(* and its computations end.  A process that is down is started again, and *)
(* time passes.  Faults may happen any number of times before they cease:  *)
(* processes stop or crash, and the statements that claim a job or give it *)
(* up fail.  Nothing is assumed of the write of an outcome, which may fail *)
(* for ever, of notifications, requests, the janitor or deletions.         *)
(***************************************************************************)
Fault ==
  \/ \E p \in Procs : Stop(p) \/ Crash(p)
  \/ \E w \in Workers : ClaimError(w) \/ GiveUpError(w)

Fairness ==
  /\ \A w \in Workers : WF_vars(WorkerStep(w))
  /\ \A p \in Procs : WF_vars(Start(p) \/ Exit(p))
  /\ SF_vars(Tick)
  /\ <>[][~Fault]_vars

FairSpec == Spec /\ Fairness

-----------------------------------------------------------------------------
(***************************************************************************)
(* Properties.                                                             *)
(***************************************************************************)

TableOK ==
  /\ jobs \in [Ids -> Row]
  /\ older \in [Ids -> SUBSET Ids]
  /\ runs \in [Ids -> Nat]
  /\ overrun \subseteq {id \in Ids : InTable(id)}
  /\ \A id \in Ids :
        /\ InTable(id) => jobs[id].owner \in Owners /\ jobs[id].input \in Inputs
        /\ jobs[id].state = "running" => jobs[id].worker \in Workers
        /\ jobs[id].state = "queued" => jobs[id].worker = None

RequestsOK ==
  /\ req \in [Requests -> [pc : {"idle", "drop", "look", "count", "insert", "notify"},
                           owner : Owners \cup {None}, input : Inputs \cup {None}]]
  /\ \A r \in Requests :
        req[r].pc # "idle" => req[r].owner \in Owners /\ req[r].input \in Inputs

WorkersOK ==
  /\ pc \in [Workers -> {"off", "claim", "wait", "pause"} \cup Holding]
  /\ job \in [Workers -> Ids \cup {None}]
  /\ elapsed \in [Workers -> 0 .. AgeCap]
  /\ \A w \in Workers : pc[w] \in Holding <=> job[w] # None

ProcsOK ==
  /\ proc \in [Procs -> {"up", "stopping", "down"}]
  /\ wake \subseteq Procs \X Classes

\* Types, and the bookkeeping of the columns: a running job names a worker and
\* a queued one does not; a worker has a job exactly while it holds one.
TypeOK == TableOK /\ RequestsOK /\ WorkersOK /\ ProcsOK

\* No worker of this job, since it was inserted, outlived Stale.
Timely(id) == id \notin overrun

\* At most one worker works on a job, as long as none of its workers outlived
\* Stale: takeover, requeue and retry never run it next to a worker in time.
SingleRunner ==
  \A v, w \in Workers :
     (/\ pc[v] \in Holding /\ pc[w] \in Holding
      /\ job[v] = job[w] /\ InTable(job[w]) /\ Timely(job[w])) => v = w

\* Worker w is between the claim and the write of such a job that was not
\* deleted meanwhile.
Holds(w) == pc[w] \in Holding /\ InTable(job[w]) /\ Timely(job[w])

\* What a worker that holds such a job may rely on when it writes, though
\* FinishJob, FailJob and RequeueJob check neither the worker nor the claim:
\* the row, unless deleted, is still the one it claimed.
HoldsClaim ==
  \A w \in Workers : Holds(w) =>
     /\ jobs[job[w]].state = "running"
     /\ jobs[job[w]].worker = w
     /\ jobs[job[w]].age = elapsed[w]
     /\ elapsed[w] <= Stale[ClassOf(jobs[job[w]].input)]

\* A job is computed at most MaxAttempts - 1 times for one time it was queued,
\* whatever crashes, shutdowns and takeovers happen, and for a short job also
\* when workers outlive Stale.  A coverage worker that does so between its
\* claim and GetCoverage may start on the count of a later queueing.
RunsBounded ==
  \A id \in Ids : (Timely(id) \/ jobs[id].input \notin CoverageInputs) => runs[id] < MaxAttempts

\* Concurrent requests pass the count of EnqueueJob together, but the excess
\* over the owner's limit is at most one job for every other request.
QuotaOvershoot ==
  \A o \in Owners, c \in Classes :
     Cardinality(ActiveOf(o, c)) <= Limit[c] + Cardinality(Requests) - 1

\* The documented limit itself: "One account can ... have 2 coverage jobs
\* queued or running at a time".
QuotaHeld ==
  \A o \in Owners, c \in Classes : Cardinality(ActiveOf(o, c)) <= Limit[c]

\* The documented shutdown, "Shutdown on SIGTERM requeues running jobs": a
\* worker that stops with a job does not leave it running under its name.
ShutdownRequeues ==
  [][\A w \in Workers :
       (pc[w] \in Holding /\ Stopping(w) /\ pc'[w] = "off") =>
          ~(jobs'[job[w]].state = "running" /\ jobs'[job[w]].worker = w)]_vars

\* The outcome the requests wait for is final: a done job is only ever deleted,
\* a failed one deleted or queued anew from its first attempt, unless a worker
\* of the job outlived Stale, whose late write replaces the outcome by id.
OutcomeStable ==
  [][\A id \in Ids : Timely(id) =>
       /\ jobs[id].state = "done" => jobs'[id].state \in {"done", "none"}
       /\ jobs[id].state = "failed" =>
             \/ jobs'[id].state \in {"failed", "none"}
             \/ jobs'[id].state = "queued" /\ jobs'[id].attempts = 0]_vars

\* Every job that is queued or running gets an outcome or is deleted, though
\* notifications are lost, writes fail and workers crash at any point.
EventuallySettled == \A id \in Ids : Active(id) ~> ~Active(id)

-----------------------------------------------------------------------------
(***************************************************************************)
(* The refinement.  A job of the abstract specification is a row; it is    *)
(* held while a worker is between its claim and its last write, and it has *)
(* overrun once a worker of it outlived Stale.                             *)
(***************************************************************************)
Held(id) == \E w \in Workers : Holds(w) /\ job[w] = id

StageOf(id) == IF Timely(id) THEN jobs[id].state ELSE "overrun"
HolderOf(id) == IF Held(id) THEN jobs[id].worker ELSE None
ClaimsOf(id) == IF Timely(id) THEN jobs[id].attempts ELSE 0

Lifecycle == INSTANCE JobLifecycle
  WITH Jobs <- Ids, MaxClaims <- MaxAttempts,
       stage <- [id \in Ids |-> StageOf(id)],
       holder <- [id \in Ids |-> HolderOf(id)],
       claims <- [id \in Ids |-> ClaimsOf(id)]

\* The queue, with its lost notifications, failing statements, crashes and
\* takeovers, does nothing to a job that its life does not allow: one holder
\* at a time, an outcome from that holder only, and no result after the last
\* claim, until a holder overstays.
ImplementsLifecycle == Lifecycle!Spec
=============================================================================

--------------------------- MODULE CoveragesProofs ---------------------------
(***************************************************************************)
(* Coverages and their jobs, for any number of them: the joined system is  *)
(* a job queue, so that what JobQueueProofs shows of the queue holds here, *)
(* jobs stay with their coverage, and no worker replaces the result of the *)
(* parameters of now, until one outlives Stale and the row is taken over.  *)
(***************************************************************************)
EXTENDS Coverages, JobQueueProofs

\* The states of a worker that has loaded its coverage.
Past == {"compute"} \cup Saving

\* Rows belong to a coverage that is there and to its owner, and each coverage has one row at most.
Rows ==
  \A id \in Ids : InTable(id) =>
    /\ Live(jobs[id].input)
    /\ jobs[id].owner = CovOwner[jobs[id].input]
    /\ \A k \in Ids : InTable(k) /\ jobs[k].input = jobs[id].input => k = id

\* So does a request on its way to the row.
Asks ==
  \A r \in Requests : req[r].pc # "idle" => Live(req[r].input) /\ req[r].owner = CovOwner[req[r].input]

EditsOK == \A e \in Editors : edit[e].pc # "idle" => edit[e].input \in CoverageInputs

(***************************************************************************)
(* What a worker that holds a job knows of its coverage: its row, if it is *)
(* there, is one of that coverage, and the version loaded is none of the   *)
(* future.  While no worker of the coverage is late, the row is there, and *)
(* the version is no older one once the result of the present one is       *)
(* stored.                                                                 *)
(***************************************************************************)
Known(w) ==
  pc[w] \in Holding =>
    LET i == read[w].input
    IN /\ i \in CoverageInputs
       /\ cov[i].state # "new"
       /\ InTable(job[w]) => jobs[job[w]].input = i
       /\ Live(i) /\ pc[w] \in Past => read[w].version <= cov[i].params
       /\ Live(i) /\ i \notin late =>
            /\ InTable(job[w])
            /\ pc[w] \in Past /\ cov[i].result = cov[i].params => read[w].version = cov[i].params

\* The coverage of a row that a worker outlived Stale on is marked.
Marked == \A id \in overrun : jobs[id].input \in late

CovInv ==
  /\ Inv
  /\ CovTypeOK
  /\ EditsOK
  /\ Rows
  /\ Asks
  /\ Marked
  /\ \A w \in Workers : Known(w)

-------------------------------------------------------------------------------
(***************************************************************************)
(* Facts about one state.                                                  *)
(***************************************************************************)
LEMMA CoverageClass == ASSUME NEW i \in CoverageInputs PROVE i \in Inputs /\ ClassOf(i) = "coverage"
BY SetAssumption DEF ClassOf

LEMMA NoneApart == ASSUME NEW i \in CoverageInputs PROVE i # None
BY SetAssumption

\* The row of a worker whose coverage is there is running, unless one was late.
LEMMA HeldRow ==
  ASSUME CovInv, NEW w \in Workers, pc[w] \in Holding, Live(read[w].input), read[w].input \notin late
  PROVE  /\ job[w] \in Ids /\ InTable(job[w]) /\ jobs[job[w]].input = read[w].input
         /\ jobs[job[w]].state = "running"
<1>1. InTable(job[w]) /\ jobs[job[w]].input = read[w].input /\ read[w].input \in CoverageInputs
  BY DEF CovInv, Known
<1>2. job[w] \in Ids
  BY HeldJob DEF CovInv, Inv, TypeOK
<1>3. Timely(job[w])
  BY <1>1 DEF CovInv, Marked, Timely
<1> QED BY <1>1, <1>2, <1>3 DEF CovInv, Inv, HoldsClaim, Holds

-------------------------------------------------------------------------------
(***************************************************************************)
(* Every step is one of the queue.                                         *)
(***************************************************************************)
LEMMA EditorIsQueue == ASSUME CovInv, NEW e \in Editors, EditorStep(e) PROVE [Next]_vars
<1>1. CASE DropJob(e)
  <2>1. edit[e].input \in CoverageInputs /\ UpdateCoverage(edit[e].input)
    BY <1>1 DEF CovInv, EditsOK, DropJob
  <2> QED BY <2>1 DEF Next, StoreStep
<1>2. CASE UNCHANGED vars
  BY <1>2
<1> QED
  BY <1>1, <1>2 DEF EditorStep, CountCoverages, SetParams, InsertCoverage, AbortEdit

LEMMA RequestIsQueue == ASSUME CovInv, NEW r \in Requests, QueueStep(r) PROVE RequestStep(r)
<1>1. \A i \in CoverageInputs : CovOwner[i] \in Owners /\ i \in Inputs
  BY CoverageAssumption, SetAssumption
<1> QED BY <1>1 DEF QueueStep, RequestStep, Apart, BeginCoverage

LEMMA WorkerIsQueue == ASSUME CovInv, NEW w \in Workers, ComputeStep(w) PROVE WorkerStep(w)
<1>1. CASE LoadCoverage(w)
  <2>1. Load(w)
    BY <1>1 DEF LoadCoverage, Load
  <2> QED BY <2>1 DEF WorkerStep
<1>2. CASE LoadCoverageError(w)
  <2>1. ~Live(read[w].input) => ~InTable(job[w])
    <3>1. job[w] \in Ids /\ Known(w) /\ pc[w] \in Holding
      BY <1>2, HeldJob DEF CovInv, Inv, TypeOK, LoadCoverageError, Holding
    <3> QED BY <3>1 DEF CovInv, Known, Rows
  <2> QED BY <1>2, <2>1 DEF LoadCoverageError, LoadError, WorkerStep
<1> QED
  BY <1>1, <1>2 DEF ComputeStep, WorkerStep, Apart, ClaimCoverage, FinishCoverage

LEMMA StepIsQueue == CovInv /\ [CovNext]_allVars => [Next]_vars
<1> SUFFICES ASSUME CovInv, [CovNext]_allVars PROVE [Next]_vars
  OBVIOUS
<1>1. CASE \E i \in CoverageInputs : RemoveCoverage(i)
  BY <1>1 DEF RemoveCoverage, Next, StoreStep
<1>2. CASE \E o \in Owners : RemoveOwner(o)
  BY <1>2 DEF RemoveOwner, Next, StoreStep
<1>3. CASE (\E p \in Procs : Apart(ProcStep(p))) \/ CoverageTick
  BY <1>3 DEF Apart, CoverageTick, Next
<1>4. CASE \E r \in Requests : QueueStep(r)
  BY <1>4, RequestIsQueue DEF Next
<1>5. CASE \E w \in Workers : ComputeStep(w)
  BY <1>5, WorkerIsQueue DEF Next
<1>6. CASE UNCHANGED allVars
  BY <1>6 DEF allVars
<1> QED BY <1>1, <1>2, <1>3, <1>4, <1>5, <1>6, EditorIsQueue DEF CovNext

-------------------------------------------------------------------------------
(***************************************************************************)
(* What the steps leave as it is.                                          *)
(***************************************************************************)
LiveNext(i) == i \in CoverageInputs /\ cov'[i].state = "live"
InTableNext(id) == jobs'[id].state # "none"

RowSame(id) ==
  (InTableNext(id) <=> InTable(id)) /\ jobs'[id].input = jobs[id].input /\ jobs'[id].owner = jobs[id].owner

\* A row that is there was there before.
RowStays(id) ==
  InTableNext(id) => InTable(id) /\ jobs'[id].input = jobs[id].input /\ jobs'[id].owner = jobs[id].owner

\* A coverage once created is edited or removed; only an edit, and the end of a computation, touch its result.
CovStays(i) ==
  /\ cov[i].state # "new" => cov'[i].state # "new"
  /\ LiveNext(i) /\ cov[i].state # "new" =>
       /\ Live(i)
       /\ cov[i].params <= cov'[i].params
       /\ i \notin late /\ cov'[i].result = cov'[i].params =>
            cov[i].result = cov[i].params /\ cov'[i].params = cov[i].params

\* A worker that holds a job held it before.
WorkerStays(w) ==
  job'[w] # None => job'[w] = job[w] /\ read'[w] = read[w] /\ (pc'[w] \in Past => pc[w] \in Past)

AskStays(r) ==
  req'[r].pc # "idle" => req[r].pc # "idle" /\ req'[r].owner = req[r].owner /\ req'[r].input = req[r].input

LEMMA RowsKept ==
  ASSUME CovInv, \A id \in Ids : RowStays(id) /\ (InTableNext(id) => LiveNext(jobs[id].input))
  PROVE  Rows'
<1> SUFFICES ASSUME NEW id \in Ids, InTableNext(id)
             PROVE  /\ LiveNext(jobs'[id].input)
                    /\ jobs'[id].owner = CovOwner[jobs'[id].input]
                    /\ \A k \in Ids : InTableNext(k) /\ jobs'[k].input = jobs'[id].input => k = id
  BY DEF Rows, LiveNext, InTableNext, Live, InTable
<1>1. InTable(id) /\ jobs'[id].input = jobs[id].input /\ jobs'[id].owner = jobs[id].owner /\ LiveNext(jobs[id].input)
  BY DEF RowStays
<1>2. \A k \in Ids : InTableNext(k) => InTable(k) /\ jobs'[k].input = jobs[k].input
  BY DEF RowStays
<1>3. LiveNext(jobs'[id].input)
  BY <1>1
<1> QED BY <1>1, <1>2, <1>3 DEF CovInv, Rows

LEMMA AsksKept ==
  ASSUME CovInv, \A r \in Requests : AskStays(r) /\ (req'[r].pc # "idle" => LiveNext(req[r].input))
  PROVE  Asks'
BY DEF CovInv, Asks, AskStays, Live, LiveNext

LEMMA KnownKept ==
  ASSUME CovInv, Inv', CovTypeOK', NEW w \in Workers, WorkerStays(w),
         job'[w] # None => CovStays(read[w].input),
         job'[w] # None => RowStays(job[w]),
         job'[w] # None /\ LiveNext(read[w].input) /\ read[w].input \notin late => InTableNext(job[w]),
         late \subseteq late'
  PROVE  Known(w)'
<1> SUFFICES ASSUME pc'[w] \in Holding PROVE Known(w)'
  BY DEF Known
<1> DEFINE i == read[w].input
<1>1. job'[w] # None
  BY DEF Inv, TypeOK, WorkersOK
<1>2. job'[w] = job[w] /\ read'[w] = read[w] /\ (pc'[w] \in Past => pc[w] \in Past)
  BY <1>1 DEF WorkerStays
<1>3. pc[w] \in Holding
  BY <1>1, <1>2 DEF CovInv, Inv, TypeOK, WorkersOK
<1>4. i \in CoverageInputs /\ cov[i].state # "new" /\ (InTable(job[w]) => jobs[job[w]].input = i)
  BY <1>3 DEF CovInv, Known
<1>5. cov'[i].state # "new" /\ (InTableNext(job[w]) => jobs'[job[w]].input = i)
  BY <1>1, <1>4 DEF CovStays, RowStays
<1>6. ASSUME LiveNext(i), pc'[w] \in Past
      PROVE  read[w].version <= cov'[i].params
  <2>1. Live(i) /\ cov[i].params <= cov'[i].params
    BY <1>1, <1>4, <1>6 DEF CovStays
  <2>2. read[w].version <= cov[i].params
    BY <1>2, <1>3, <1>6, <2>1 DEF CovInv, Known
  <2>3. read[w].version \in Nat /\ cov[i].params \in Nat
    BY <1>4, CoverageAssumption DEF CovInv, CovTypeOK
  <2>4. cov'[i].params \in Nat
    BY <1>4, CoverageAssumption DEF CovTypeOK
  <2> QED BY <2>1, <2>2, <2>3, <2>4
<1>7. ASSUME LiveNext(i), i \notin late'
      PROVE  /\ InTableNext(job[w])
             /\ pc'[w] \in Past /\ cov'[i].result = cov'[i].params => read[w].version = cov'[i].params
  <2>1. i \notin late
    BY <1>7
  <2>2. /\ Live(i)
        /\ cov'[i].result = cov'[i].params => cov[i].result = cov[i].params /\ cov'[i].params = cov[i].params
    BY <1>1, <1>4, <1>7, <2>1 DEF CovStays
  <2>3. InTableNext(job[w])
    BY <1>1, <1>7, <2>1
  <2>4. pc[w] \in Past /\ cov[i].result = cov[i].params => read[w].version = cov[i].params
    BY <1>3, <2>1, <2>2 DEF CovInv, Known
  <2> QED BY <1>2, <2>2, <2>3, <2>4
<1> QED BY <1>2, <1>4, <1>5, <1>6, <1>7 DEF Known, InTable, Live, InTableNext, LiveNext

-------------------------------------------------------------------------------
(***************************************************************************)
(* Types.                                                                  *)
(***************************************************************************)
LEMMA ForgetType ==
  ASSUME CovTypeOK, Forget
  PROVE  read' \in [Workers -> [input : CoverageInputs \cup {None}, version : 0 .. MaxVersion]]
<1>1. Nothing \in [input : CoverageInputs \cup {None}, version : 0 .. MaxVersion]
  BY CoverageAssumption DEF Nothing
<1> QED BY <1>1 DEF CovTypeOK, Forget

\* Steps that touch no coverage.
LEMMA ApartTypes ==
  ASSUME CovInv, Forget, UNCHANGED <<cov, edit, late>>
  PROVE  CovTypeOK' /\ EditsOK'
BY ForgetType DEF CovInv, CovTypeOK, EditsOK

LEMMA EditorTypes == ASSUME CovInv, NEW e \in Editors, EditorStep(e) PROVE CovTypeOK' /\ EditsOK'
<1> USE CoverageAssumption DEF CovInv, CovTypeOK, EditsOK, NoEdit
<1>1. ASSUME NEW i \in CoverageInputs, CountCoverages(e, i) PROVE CovTypeOK' /\ EditsOK'
  BY <1>1 DEF CountCoverages
<1>2. CASE InsertCoverage(e)
  <2> DEFINE c == [state |-> "live", params |-> 1, result |-> 0]
  <2>1. edit[e].input \in CoverageInputs /\ cov' = [cov EXCEPT ![edit[e].input] = c]
    BY <1>2 DEF InsertCoverage
  <2>2. /\ c \in [state : {"new", "live", "gone"}, params : 0 .. MaxVersion, result : 0 .. MaxVersion]
        /\ c.result <= c.params /\ c.state = "live"
    OBVIOUS
  <2> QED BY <1>2, <2>1, <2>2 DEF InsertCoverage
<1>3. ASSUME NEW i \in CoverageInputs, SetParams(e, i) PROVE CovTypeOK' /\ EditsOK'
  <2> DEFINE c == Edited(cov[i])
  <2>1. cov' = [cov EXCEPT ![i] = c] /\ cov[i].params < MaxVersion /\ cov[i].state = "live"
    BY <1>3 DEF SetParams, Live
  <2>2. /\ c \in [state : {"new", "live", "gone"}, params : 0 .. MaxVersion, result : 0 .. MaxVersion]
        /\ c.result <= c.params /\ c.state = "live"
    <3>1. cov[i] \in [state : {"new", "live", "gone"}, params : 0 .. MaxVersion, result : 0 .. MaxVersion]
      OBVIOUS
    <3>2. c = [cov[i] EXCEPT !.params = cov[i].params + 1, !.result = 0]
      BY DEF Edited
    <3> HIDE DEF c
    <3>3. cov[i].params + 1 \in 0 .. MaxVersion /\ 0 \in 0 .. MaxVersion /\ 0 <= cov[i].params + 1
      BY <2>1, <3>1
    <3>4. c.params = cov[i].params + 1 /\ c.result = 0 /\ c.state = cov[i].state
      BY <3>1, <3>2
    <3>5. c \in [state : {"new", "live", "gone"}, params : 0 .. MaxVersion, result : 0 .. MaxVersion]
      BY <3>1, <3>2, <3>3
    <3> QED BY <2>1, <3>3, <3>4, <3>5
  <2> QED BY <1>3, <2>1, <2>2 DEF SetParams
<1>4. CASE DropJob(e) \/ AbortEdit(e)
  <2>1. edit' = [edit EXCEPT ![e] = NoEdit] /\ UNCHANGED <<cov, read, late>>
    BY <1>4 DEF DropJob, AbortEdit
  <2>2. NoEdit \in [pc : {"idle", "insert", "drop"}, input : CoverageInputs \cup {None}] /\ NoEdit.pc = "idle"
    OBVIOUS
  <2> QED BY <2>1, <2>2
<1> QED BY <1>1, <1>2, <1>3, <1>4 DEF EditorStep

LEMMA WorkerTypes == ASSUME CovInv, NEW w \in Workers, ComputeStep(w) PROVE CovTypeOK' /\ EditsOK'
<1> USE CoverageAssumption DEF CovInv, CovTypeOK, EditsOK
<1>1. ASSUME NEW id \in Ids, ClaimCoverage(w, id) PROVE CovTypeOK' /\ EditsOK'
  <2>1. InTable(id)
    BY <1>1 DEF ClaimCoverage, Claim, ClaimRow, Claimable
  <2>2. jobs[id].input \in CoverageInputs
    BY <2>1 DEF Rows, Live
  <2> QED BY <1>1, <2>2 DEF ClaimCoverage
<1>2. CASE LoadCoverage(w)
  BY <1>2 DEF LoadCoverage, Live
<1>3. CASE FinishCoverage(w)
  <2> DEFINE i == read[w].input
             v == read[w].version
  <2>1. read' \in [Workers -> [input : CoverageInputs \cup {None}, version : 0 .. MaxVersion]] /\ UNCHANGED <<edit, late>>
    BY <1>3, ForgetType DEF FinishCoverage
  <2>2. CASE ~Live(i)
    BY <1>3, <2>1, <2>2 DEF FinishCoverage, Stored
  <2>3. CASE Live(i)
    <3>1. cov' = [cov EXCEPT ![i].result = v] /\ i \in CoverageInputs /\ v \in 0 .. MaxVersion
      BY <1>3, <2>3 DEF FinishCoverage, Stored, Live
    <3>2. v <= cov[i].params
      BY <1>3, <2>3 DEF FinishCoverage, Finish, Known, Holding, Saving, Past
    <3> QED BY <2>1, <2>3, <3>1, <3>2 DEF Live
  <2> QED BY <2>2, <2>3
<1>4. CASE Forget /\ UNCHANGED <<cov, edit, late>>
  BY <1>4, ApartTypes
<1> QED
  BY <1>1, <1>2, <1>3, <1>4 DEF ComputeStep, Apart, LoadCoverageError

LEMMA DropTypes ==
  ASSUME CovInv, NEW S, Drop(S)
  PROVE  CovTypeOK' /\ EditsOK'
<1>1. Gone \in [state : {"new", "live", "gone"}, params : 0 .. MaxVersion, result : 0 .. MaxVersion]
  BY CoverageAssumption DEF Gone
<1>2. /\ cov' = [i \in CoverageInputs |-> IF i \in S /\ Live(i) THEN Gone ELSE cov[i]]
      /\ edit' = [e \in Editors |-> IF edit[e].input \in S THEN NoEdit ELSE edit[e]]
      /\ UNCHANGED <<read, late>>
  BY DEF Drop
<1>3. \A i \in CoverageInputs : cov'[i].result <= cov'[i].params /\ (cov'[i].state # "live" => cov'[i].params = 0)
  BY <1>2 DEF CovInv, CovTypeOK, Gone
<1>4. NoEdit \in [pc : {"idle", "insert", "drop"}, input : CoverageInputs \cup {None}] /\ NoEdit.pc = "idle"
  BY DEF NoEdit
<1> QED BY <1>1, <1>2, <1>3, <1>4 DEF CovInv, CovTypeOK, EditsOK

LEMMA TypesKept == CovInv /\ [CovNext]_allVars => CovTypeOK' /\ EditsOK'
<1> SUFFICES ASSUME CovInv, [CovNext]_allVars PROVE CovTypeOK' /\ EditsOK'
  OBVIOUS
<1>1. CASE \E r \in Requests : QueueStep(r)
  <2>1. PICK r \in Requests : QueueStep(r)
    BY <1>1
  <2>2. Forget /\ UNCHANGED <<cov, edit, late>>
    BY <2>1 DEF QueueStep, BeginCoverage, Apart
  <2> QED BY <2>2, ApartTypes
<1>2. CASE \E p \in Procs : Apart(ProcStep(p))
  BY <1>2, ApartTypes DEF Apart
<1>3. CASE \E i \in CoverageInputs : RemoveCoverage(i)
  BY <1>3, DropTypes DEF RemoveCoverage
<1>4. CASE \E o \in Owners : RemoveOwner(o)
  BY <1>4, DropTypes DEF RemoveOwner
<1>5. CASE UNCHANGED allVars
  BY <1>5 DEF allVars, covVars, CovInv, CovTypeOK, EditsOK
<1>6. CASE CoverageTick
  <2>1. \A id \in overrun' : id \in Ids /\ InTable(id)
    BY <1>6 DEF CoverageTick, Tick, HeldTooLong, CovInv, Inv, TypeOK, TableOK
  <2>2. late' \subseteq CoverageInputs
    BY <1>6, <2>1 DEF CoverageTick, CovInv, CovTypeOK, Rows, Live
  <2> QED BY <1>6, <2>2 DEF CoverageTick, CovInv, CovTypeOK, EditsOK
<1> QED BY <1>1, <1>2, <1>3, <1>4, <1>5, <1>6, EditorTypes, WorkerTypes DEF CovNext

-------------------------------------------------------------------------------
(***************************************************************************)
(* What the steps of the queue do to rows and workers.                     *)
(***************************************************************************)
LEMMA ChangedRow ==
  ASSUME TypeOK, NEW id \in Ids, InTable(id), NEW x,
         \/ x = Done(jobs[id]) \/ x = Failed(jobs[id]) \/ x = Requeued(jobs[id])
         \/ \E w \in Workers : x = Claimed(jobs[id], w),
         jobs' = [jobs EXCEPT ![id] = x]
  PROVE  \A k \in Ids : RowSame(k)
<1>1. jobs[id] \in Row
  BY DEF TypeOK, TableOK
<1>2. x.state # "none" /\ x.owner = jobs[id].owner /\ x.input = jobs[id].input
  BY <1>1 DEF Done, Failed, Requeued, Claimed, Row
<1> QED BY <1>2 DEF TypeOK, TableOK, RowSame, InTable, InTableNext

LEMMA SettledRows ==
  ASSUME TypeOK, NEW id \in Ids, NEW x, x = Done(jobs[id]) \/ x = Failed(jobs[id]), Settle(id, x)
  PROVE  \A k \in Ids : RowSame(k)
<1>1. CASE InTable(id)
  BY <1>1, ChangedRow DEF Settle
<1>2. CASE ~InTable(id)
  BY <1>2 DEF Settle, tableVars, RowSame, InTable, InTableNext
<1> QED BY <1>1, <1>2

LEMMA ClaimedRows ==
  ASSUME TypeOK, NEW w \in Workers, NEW id \in Ids, ClaimRow(w, id)
  PROVE  \A k \in Ids : RowSame(k)
<1>1. InTable(id) /\ jobs' = [jobs EXCEPT ![id] = Claimed(jobs[id], w)]
  BY DEF ClaimRow, Claimable
<1> QED BY <1>1, ChangedRow

LEMMA WorkerRows ==
  ASSUME TypeOK, NEW w \in Workers, WorkerStep(w)
  PROVE  \A k \in Ids : RowSame(k)
<1>1. CASE UNCHANGED jobs
  BY <1>1 DEF RowSame, InTable, InTableNext
<1>2. ASSUME pc[w] \in Holding PROVE job[w] \in Ids
  BY <1>2, HeldJob DEF TypeOK
<1>3. CASE GiveUp(w) \/ Fail(w) \/ Finish(w)
  BY <1>2, <1>3, SettledRows DEF GiveUp, Fail, Finish, Holding, Saving
<1>4. CASE \E id \in Ids : Claim(w, id)
  BY <1>4, ClaimedRows DEF Claim
<1>5. CASE ClaimError(w)
  BY <1>1, <1>5, ClaimedRows DEF ClaimError, tableVars
<1>6. CASE \E S \in SUBSET Procs : Requeue(w, S)
  <2>1. CASE jobs[job[w]].state = "running"
    BY <1>2, <1>6, <2>1, ChangedRow DEF Requeue, Holding, Saving, InTable
  <2>2. CASE jobs[job[w]].state # "running"
    BY <1>1, <1>6, <2>2 DEF Requeue
  <2> QED BY <2>1, <2>2
<1> QED
  BY <1>1, <1>3, <1>4, <1>5, <1>6
  DEF WorkerStep, ClaimNothing, TakeWake, Poll, StopWaiting, GiveUpError, Load, LoadError, EndCompute, SaveError,
      tableVars

\* The worker of the step keeps or drops its job, and the others do nothing.
LEMMA WorkerMoves ==
  ASSUME TypeOK, NEW w \in Workers, WorkerStep(w)
  PROVE  /\ UNCHANGED req
         /\ \A v \in Workers \ {w} : pc'[v] = pc[v] /\ job'[v] = job[v]
         /\ (\E id \in Ids : Claim(w, id)) \/ job'[w] \in {None, job[w]}
         /\ (\E id \in Ids : Claim(w, id)) \/ Load(w) \/ (pc'[w] \in Past => pc[w] \in Past)
<1> USE DEF TypeOK, WorkersOK
<1>1. ASSUME NEW l, Release(w, l)
      PROVE  /\ \A v \in Workers \ {w} : pc'[v] = pc[v] /\ job'[v] = job[v]
             /\ job'[w] = None /\ pc'[w] = l
  BY <1>1 DEF Release
<1>2. AfterJob(w) \notin Past /\ {"off", "pause", "claim", "wait"} \cap Past = {}
  BY DEF AfterJob, Past, Saving
<1>3. CASE \E id \in Ids : Claim(w, id)
  BY <1>3 DEF Claim
<1>4. CASE ClaimNothing(w) \/ ClaimError(w) \/ TakeWake(w) \/ Poll(w) \/ StopWaiting(w)
  BY <1>1, <1>2, <1>4 DEF ClaimNothing, ClaimError, TakeWake, Poll, StopWaiting
<1>5. CASE GiveUp(w) \/ GiveUpError(w) \/ LoadError(w)
  BY <1>1, <1>2, <1>5 DEF GiveUp, GiveUpError, LoadError
<1>6. CASE Finish(w) \/ Fail(w) \/ SaveError(w) \/ (\E S \in SUBSET Procs : Requeue(w, S))
  BY <1>1, <1>2, <1>6 DEF Finish, Fail, SaveError, Requeue
<1>7. CASE Load(w)
  BY <1>7 DEF Load
<1>8. CASE EndCompute(w)
  BY <1>8 DEF EndCompute, Past
<1> QED BY <1>3, <1>4, <1>5, <1>6, <1>7, <1>8 DEF WorkerStep

LEMMA RowsRemoved ==
  ASSUME NEW S, Remove(S)
  PROVE  \A k \in Ids : /\ RowStays(k)
                        /\ InTableNext(k) <=> InTable(k) /\ k \notin S
BY DEF Remove, RowStays, InTable, InTableNext, NoRow

-------------------------------------------------------------------------------
(***************************************************************************)
(* The invariant, step by step.                                            *)
(***************************************************************************)
\* What ties the rows, the requests and the workers to the coverages.
Joined == Rows /\ Asks /\ \A w \in Workers : Known(w)

LEMMA SameCoverages ==
  ASSUME CovInv, UNCHANGED cov
  PROVE  (\A i \in CoverageInputs : CovStays(i)) /\ (\A i : LiveNext(i) <=> Live(i))
<1>1. \A i \in CoverageInputs : cov[i].params \in Nat
  BY CoverageAssumption DEF CovInv, CovTypeOK
<1> QED BY <1>1 DEF CovStays, LiveNext, Live

\* No coverage changes, rows are at most removed, and none that a worker holds.
LEMMA CalmStep ==
  ASSUME CovInv, Inv', CovTypeOK', UNCHANGED cov, late \subseteq late',
         \A id \in Ids : RowStays(id),
         \A r \in Requests : AskStays(r),
         \A w \in Workers : /\ WorkerStays(w)
                            /\ (/\ pc[w] \in Holding /\ job'[w] # None
                                /\ Live(read[w].input) /\ read[w].input \notin late) => InTableNext(job[w])
  PROVE  Joined'
<1>1. Rows'
  BY SameCoverages, RowsKept DEF CovInv, Rows, RowStays
<1>2. Asks'
  BY SameCoverages, AsksKept DEF CovInv, Asks, AskStays
<1>3. ASSUME NEW w \in Workers PROVE Known(w)'
  <2>1. job'[w] # None => job[w] \in Ids /\ pc[w] \in Holding
    BY DEF WorkerStays, CovInv, Inv, TypeOK, WorkersOK
  <2>2. job'[w] # None => read[w].input \in CoverageInputs
    BY <2>1 DEF CovInv, Known
  <2> QED BY <2>1, <2>2, SameCoverages, KnownKept
<1> QED BY <1>1, <1>2, <1>3 DEF Joined

LEMMA SameRows ==
  ASSUME UNCHANGED jobs
  PROVE  \A id : RowSame(id)
BY DEF RowSame, InTable, InTableNext

LEMMA SameRowsStay ==
  ASSUME \A id \in Ids : RowSame(id)
  PROVE  \A id \in Ids : RowStays(id) /\ (InTable(id) => InTableNext(id))
BY DEF RowSame, RowStays

\* A step in which no row comes or goes.
LEMMA EvenStep ==
  ASSUME CovInv, Inv', CovTypeOK', UNCHANGED cov, late \subseteq late',
         \A id \in Ids : RowSame(id),
         \A r \in Requests : AskStays(r),
         \A w \in Workers : WorkerStays(w)
  PROVE  Joined'
<1>1. \A w \in Workers : pc[w] \in Holding /\ Live(read[w].input) /\ read[w].input \notin late =>
                           job[w] \in Ids /\ InTable(job[w])
  BY HeldRow
<1> QED BY <1>1, SameRowsStay, CalmStep

LEMMA SameWorkers ==
  ASSUME UNCHANGED <<pc, job, read>>
  PROVE  \A w \in Workers : WorkerStays(w)
BY DEF WorkerStays

LEMMA ForgetStays ==
  ASSUME Forget, NEW w \in Workers, job'[w] \in {None, job[w]}, pc'[w] \in Past => pc[w] \in Past
  PROVE  WorkerStays(w)
BY DEF Forget, WorkerStays

LEMMA SameAsks ==
  ASSUME UNCHANGED req
  PROVE  \A r \in Requests : AskStays(r)
BY DEF AskStays

\* Rows go that no worker holds.
LEMMA RemoveStep ==
  ASSUME CovInv, Inv', CovTypeOK', UNCHANGED <<cov, read, late>>, UNCHANGED workerVars,
         \A r \in Requests : AskStays(r),
         NEW S, Remove(S), \A id \in S : jobs[id].state # "running"
  PROVE  Joined'
<1>1. \A w \in Workers : pc[w] \in Holding /\ Live(read[w].input) /\ read[w].input \notin late =>
                           job[w] \in Ids /\ InTable(job[w]) /\ job[w] \notin S
  BY HeldRow
<1>2. \A w \in Workers : WorkerStays(w)
  BY SameWorkers DEF workerVars
<1> QED BY <1>1, <1>2, RowsRemoved, CalmStep

LEMMA EditorKeeps ==
  ASSUME CovInv, Inv', CovTypeOK', NEW e \in Editors, EditorStep(e)
  PROVE  Joined'
<1>1. CASE UNCHANGED <<vars, cov, read, late>>
  BY <1>1, EvenStep, SameRows, SameAsks, SameWorkers DEF vars, tableVars
<1>2. CASE DropJob(e)
  <2>1. /\ Remove({id \in Ids : jobs[id].input = edit[e].input /\ jobs[id].state # "running"})
        /\ UNCHANGED <<req, cov, read, late>> /\ UNCHANGED workerVars
    BY <1>2 DEF DropJob, UpdateCoverage
  <2> QED BY <2>1, RemoveStep, SameAsks
<1>3. ASSUME UNCHANGED <<vars, read, late>>, \A i \in CoverageInputs : CovStays(i) /\ (Live(i) => LiveNext(i))
      PROVE  Joined'
  <2>1. \A id \in Ids : RowSame(id)
    BY <1>3, SameRows DEF vars, tableVars
  <2>2. Rows'
    BY <1>3, <2>1, RowsKept, SameRowsStay DEF CovInv, Rows, RowSame, Live
  <2>3. Asks'
    BY <1>3, AsksKept, SameAsks DEF CovInv, Asks, Live, vars
  <2>4. ASSUME NEW w \in Workers PROVE Known(w)'
    <3>1. WorkerStays(w)
      BY <1>3, SameWorkers DEF vars
    <3>2. job'[w] # None => pc[w] \in Holding /\ job[w] \in Ids /\ read[w].input \in CoverageInputs
      BY <1>3 DEF vars, CovInv, Inv, TypeOK, WorkersOK, Known
    <3>3. job'[w] # None /\ LiveNext(read[w].input) => Live(read[w].input)
      BY <1>3, <3>2 DEF CovStays, CovInv, Known
    <3>4. job'[w] # None /\ LiveNext(read[w].input) /\ read[w].input \notin late => InTableNext(job[w])
      BY <2>1, <3>2, <3>3, HeldRow DEF RowSame
    <3>5. job'[w] # None => RowStays(job[w])
      BY <2>1, <3>2, SameRowsStay
    <3> QED BY <1>3, <3>1, <3>2, <3>4, <3>5, KnownKept
  <2> QED BY <2>2, <2>3, <2>4 DEF Joined
<1>4. CASE InsertCoverage(e)
  <2>1. /\ edit[e].input \in CoverageInputs /\ cov[edit[e].input].state = "new"
        /\ cov' = [cov EXCEPT ![edit[e].input] = [state |-> "live", params |-> 1, result |-> 0]]
        /\ UNCHANGED <<vars, read, late>>
    BY <1>4 DEF InsertCoverage, CovInv, EditsOK
  <2>2. \A i \in CoverageInputs : CovStays(i) /\ (Live(i) => LiveNext(i))
    BY <2>1 DEF CovInv, CovTypeOK, CovStays, Live, LiveNext
  <2> QED BY <1>3, <2>1, <2>2
<1>5. CASE \E i \in CoverageInputs : SetParams(e, i)
  <2>1. PICK i \in CoverageInputs : SetParams(e, i)
    BY <1>5
  <2>2. cov' = [cov EXCEPT ![i] = Edited(cov[i])] /\ UNCHANGED <<vars, read, late>> /\ Live(i)
    BY <2>1 DEF SetParams
  <2>3. cov[i].params \in Nat /\ cov[i] \in [state : {"new", "live", "gone"}, params : 0 .. MaxVersion, result : 0 .. MaxVersion]
    BY CoverageAssumption DEF CovInv, CovTypeOK
  <2>4. Edited(cov[i]).params = cov[i].params + 1 /\ Edited(cov[i]).result = 0 /\ Edited(cov[i]).state = "live"
    BY <2>2, <2>3 DEF Edited, Live
  <2>5. \A k \in CoverageInputs : CovStays(k) /\ (Live(k) => LiveNext(k))
    <3>1. \A k \in CoverageInputs : cov'[k] = IF k = i THEN Edited(cov[i]) ELSE cov[k]
      BY <2>2 DEF CovInv, CovTypeOK
    <3>2. \A k \in CoverageInputs : cov[k].params \in Nat
      BY CoverageAssumption DEF CovInv, CovTypeOK
    <3> QED BY <2>2, <2>3, <2>4, <3>1, <3>2 DEF CovStays, Live, LiveNext
  <2> QED BY <1>3, <2>2, <2>5
<1> QED
  BY <1>1, <1>2, <1>4, <1>5 DEF EditorStep, CountCoverages, AbortEdit

LEMMA RequestKeeps ==
  ASSUME CovInv, Inv', CovTypeOK', NEW r \in Requests, QueueStep(r)
  PROVE  Joined'
<1>1. Forget /\ UNCHANGED <<cov, late>> /\ UNCHANGED workerVars
  BY DEF QueueStep, BeginCoverage, Apart, Begin, DropFinished, Look, Count, Insert, NotifyQueued, Abort
<1>2. \A w \in Workers : WorkerStays(w)
  BY <1>1, ForgetStays DEF workerVars
<1>3. \A w \in Workers : pc[w] \in Holding /\ Live(read[w].input) /\ read[w].input \notin late =>
                           job[w] \in Ids /\ InTable(job[w]) /\ jobs[job[w]].state = "running"
  BY HeldRow
<1>4. ASSUME NEW l, Goto(r, l), req[r].pc # "idle" PROVE \A q \in Requests : AskStays(q)
  BY <1>4 DEF Goto, AskStays, CovInv, Inv, TypeOK, RequestsOK
<1>5. ASSUME Return(r) PROVE \A q \in Requests : AskStays(q)
  BY <1>5 DEF Return, AskStays, Idle, CovInv, Inv, TypeOK, RequestsOK
<1>6. CASE Look(r) \/ Count(r) \/ Abort(r) \/ (\E S \in SUBSET Procs : NotifyQueued(r, S))
  <2>1. UNCHANGED jobs /\ \A q \in Requests : AskStays(q)
    BY <1>4, <1>5, <1>6 DEF Look, Count, Abort, NotifyQueued, tableVars
  <2> QED BY <1>1, <1>2, <2>1, SameRows, EvenStep
<1>7. CASE DropFinished(r)
  <2> DEFINE S == {id \in Ids : jobs[id].input = req[r].input /\ jobs[id].state \in FinishedStates}
  <2>1. Remove(S) /\ \A q \in Requests : AskStays(q)
    BY <1>4, <1>7 DEF DropFinished
  <2>2. \A id \in S : jobs[id].state # "running"
    BY DEF FinishedStates
  <2>3. \A w \in Workers : pc[w] \in Holding /\ Live(read[w].input) /\ read[w].input \notin late =>
                             InTableNext(job[w])
    BY <1>3, <2>1, <2>2, RowsRemoved
  <2>4. \A id \in Ids : RowStays(id)
    BY <2>1, RowsRemoved
  <2> QED BY <1>1, <1>2, <2>1, <2>3, <2>4, CalmStep
<1>8. CASE \E i \in CoverageInputs : Live(i) /\ Begin(r, CovOwner[i], i)
  <2>1. PICK i \in CoverageInputs : Live(i) /\ Begin(r, CovOwner[i], i)
    BY <1>8
  <2>2. UNCHANGED jobs
    BY <2>1 DEF Begin, tableVars
  <2>3. Rows'
    BY <1>1, <2>2, SameRows, SameRowsStay, SameCoverages, RowsKept DEF CovInv, Rows, RowSame
  <2>4. \A q \in Requests : req'[q] = req[q] \/ (req'[q].owner = CovOwner[i] /\ req'[q].input = i)
    BY <2>1 DEF Begin, CovInv, Inv, TypeOK, RequestsOK
  <2>5. Asks'
    BY <1>1, <2>1, <2>4 DEF CovInv, Asks, Live
  <2>6. \A w \in Workers : Known(w)'
    <3> TAKE w \in Workers
    <3>1. job'[w] # None => job[w] \in Ids /\ pc[w] \in Holding
      BY <1>1 DEF workerVars, CovInv, Inv, TypeOK, WorkersOK
    <3>2. job'[w] # None => read[w].input \in CoverageInputs
      BY <3>1 DEF CovInv, Known
    <3> QED BY <1>1, <1>2, <1>3, <2>2, <3>1, <3>2, SameRows, SameRowsStay, SameCoverages, KnownKept
  <2> QED BY <2>3, <2>5, <2>6 DEF Joined
<1>9. CASE Insert(r)
  <2> DEFINE o == req[r].owner
             i == req[r].input
             E == Existing(o, i)
  <2>1. CASE Return(r) /\ UNCHANGED tableVars
    BY <1>1, <1>2, <1>5, <2>1, SameRows, EvenStep DEF tableVars
  <2>2. CASE /\ Goto(r, "notify")
             /\ \E id \in Ids : PutRow(id, o, i) /\ ((E = {} /\ Fresh(id)) \/ (id \in E /\ jobs[id].state = "failed"))
    <3>1. PICK id \in Ids : /\ PutRow(id, o, i)
                            /\ \/ E = {} /\ Fresh(id)
                               \/ id \in E /\ jobs[id].state = "failed"
      BY <2>2
    <3>2. Live(i) /\ o = CovOwner[i] /\ \A q \in Requests : AskStays(q)
      BY <1>4, <1>9, <2>2 DEF CovInv, Asks, Insert
    <3>3. /\ jobs'[id].state = "queued" /\ jobs'[id].owner = o /\ jobs'[id].input = i
          /\ \A k \in Ids \ {id} : jobs'[k] = jobs[k]
      BY <3>1 DEF PutRow, NewRow, CovInv, Inv, TypeOK, TableOK
    <3>4. \A k \in Ids : InTable(k) /\ jobs[k].input = i => k \in E /\ k = id
      <4>1. \A k \in Ids : InTable(k) /\ jobs[k].input = i => k \in E
        BY <3>2 DEF CovInv, Rows, Existing
      <4> QED BY <3>1, <4>1 DEF CovInv, Rows, Existing
    <3> HIDE DEF o, i, E
    <3>5. Rows'
      <4> SUFFICES ASSUME NEW k \in Ids, InTableNext(k)
                   PROVE  /\ LiveNext(jobs'[k].input)
                          /\ jobs'[k].owner = CovOwner[jobs'[k].input]
                          /\ \A n \in Ids : InTableNext(n) /\ jobs'[n].input = jobs'[k].input => n = k
        BY DEF Rows, LiveNext, InTableNext, Live, InTable
      <4>1. CASE k = id
        BY <1>1, <3>2, <3>3, <3>4, <4>1, SameCoverages DEF InTable, InTableNext
      <4>2. CASE k # id
        <5>1. InTable(k) /\ jobs'[k] = jobs[k] /\ jobs[k].input # i
          BY <3>3, <3>4, <4>2 DEF InTable, InTableNext
        <5>2. \A n \in Ids : InTableNext(n) /\ jobs'[n].input = jobs'[k].input => InTable(n) /\ jobs[n].input = jobs[k].input
          BY <3>3, <5>1 DEF InTable, InTableNext
        <5> QED BY <1>1, <5>1, <5>2, SameCoverages DEF CovInv, Rows
      <4> QED BY <4>1, <4>2
    <3>6. Asks'
      BY <1>1, <3>2, AsksKept, SameCoverages DEF CovInv, Asks, AskStays
    <3>7. ASSUME NEW w \in Workers PROVE Known(w)'
      <4>1. job'[w] # None => job[w] \in Ids /\ pc[w] \in Holding /\ read[w].input \in CoverageInputs
        BY <1>1 DEF workerVars, CovInv, Inv, TypeOK, WorkersOK, Known
      <4>2. ASSUME job'[w] # None
            PROVE  RowStays(job[w]) /\ (LiveNext(read[w].input) /\ read[w].input \notin late => InTableNext(job[w]))
        <5>1. CASE job[w] # id
          BY <1>1, <1>3, <3>3, <4>1, <4>2, <5>1, SameCoverages DEF RowStays, InTable, InTableNext
        <5>2. CASE job[w] = id
          <6>1. id \in E
            BY <3>1, <5>2 DEF Fresh
          <6>2. InTable(id) /\ jobs[id].owner = o /\ jobs[id].input = i
            BY <6>1 DEF E, Existing
          <6> QED BY <3>3, <5>2, <6>2 DEF RowStays, InTableNext
        <5> QED BY <5>1, <5>2
      <4> QED BY <1>1, <1>2, <4>1, <4>2, SameCoverages, KnownKept
    <3> QED BY <3>5, <3>6, <3>7 DEF Joined
  <2>3. ASSUME ~(Return(r) /\ UNCHANGED tableVars)
        PROVE  Goto(r, "notify")
    BY <1>9, <2>3 DEF Insert
  <2>4. ASSUME ~(Return(r) /\ UNCHANGED tableVars)
        PROVE  \E id \in Ids : PutRow(id, o, i) /\ ((E = {} /\ Fresh(id)) \/ (id \in E /\ jobs[id].state = "failed"))
    BY <1>9, <2>4 DEF Insert
  <2> QED BY <2>1, <2>2, <2>3, <2>4
<1> QED
  BY <1>6, <1>7, <1>8, <1>9 DEF QueueStep, BeginCoverage, Apart

\* Two workers on the row of one coverage are one worker.
LEMMA SameHolder ==
  ASSUME CovInv, NEW v \in Workers, NEW w \in Workers, pc[v] \in Holding, pc[w] \in Holding,
         Live(read[w].input), read[w].input \notin late, read[v].input = read[w].input
  PROVE  v = w
<1>1. /\ job[v] \in Ids /\ InTable(job[v]) /\ jobs[job[v]].input = read[w].input
      /\ job[w] \in Ids /\ InTable(job[w]) /\ jobs[job[w]].input = read[w].input
  BY HeldRow
<1>2. job[v] = job[w]
  BY <1>1 DEF CovInv, Rows
<1>3. Holds(v) /\ Holds(w)
  BY <1>1 DEF Holds, Timely, CovInv, Marked
<1> QED BY <1>2, <1>3 DEF CovInv, Inv, HoldsClaim

LEMMA WorkerKeeps ==
  ASSUME CovInv, Inv', CovTypeOK', NEW w \in Workers, ComputeStep(w)
  PROVE  Joined'
<1>0. WorkerStep(w) /\ TypeOK
  BY WorkerIsQueue DEF CovInv, Inv
<1>1. /\ \A id \in Ids : RowSame(id)
      /\ \A r \in Requests : AskStays(r)
      /\ \A v \in Workers \ {w} : pc'[v] = pc[v] /\ job'[v] = job[v]
  BY <1>0, WorkerRows, WorkerMoves, SameAsks
<1>2. ASSUME UNCHANGED cov
      PROVE  Rows' /\ Asks'
  <2>1. Rows'
    BY <1>1, <1>2, SameRowsStay, SameCoverages, RowsKept DEF CovInv, Rows, RowSame
  <2>2. Asks'
    BY <1>1, <1>2, SameCoverages, AsksKept DEF CovInv, Asks, AskStays
  <2> QED BY <2>1, <2>2
<1>3. ASSUME UNCHANGED <<cov, late>>, NEW v \in Workers, WorkerStays(v)
      PROVE  Known(v)'
  <2>1. job'[v] # None => job[v] \in Ids /\ pc[v] \in Holding /\ read[v].input \in CoverageInputs
    BY <1>3 DEF WorkerStays, CovInv, Inv, TypeOK, WorkersOK, Known
  <2>2. job'[v] # None /\ Live(read[v].input) /\ read[v].input \notin late => InTableNext(job[v])
    BY <1>1, <2>1, HeldRow DEF RowSame
  <2> QED BY <1>1, <1>3, <2>1, <2>2, SameRowsStay, SameCoverages, KnownKept
<1>4. CASE \E id \in Ids : ClaimCoverage(w, id)
  <2>1. PICK id \in Ids : ClaimCoverage(w, id)
    BY <1>4
  <2>2. /\ InTable(id) /\ ClassOf(jobs[id].input) = WorkerClass[w]
        /\ job' = [job EXCEPT ![w] = id] /\ pc' = [pc EXCEPT ![w] = FirstStep(w, id)]
        /\ read' = [read EXCEPT ![w] = [input |-> jobs[id].input, version |-> 0]]
        /\ UNCHANGED <<cov, late>>
    BY <2>1 DEF ClaimCoverage, Claim, ClaimRow, Claimable
  <2>3. jobs[id].input \in CoverageInputs /\ Live(jobs[id].input) /\ WorkerClass[w] = "coverage"
    BY <2>2, CoverageClass DEF CovInv, Rows, Live
  <2>4. \A v \in Workers \ {w} : WorkerStays(v)
    BY <1>1, <2>2 DEF WorkerStays, CovInv, CovTypeOK
  <2>5. Known(w)'
    <3>1. pc'[w] \notin Past /\ job'[w] = id /\ read'[w].input = jobs[id].input
      BY <2>2, <2>3 DEF FirstStep, Past, Saving, CovInv, CovTypeOK, Inv, TypeOK, WorkersOK
    <3>2. InTable(id)' /\ jobs'[id].input = jobs[id].input
      BY <1>1, <2>2 DEF RowSame, InTable, InTableNext
    <3> QED BY <2>2, <2>3, <3>1, <3>2 DEF Known, Live, InTable
  <2> QED BY <1>2, <1>3, <2>2, <2>4, <2>5 DEF Joined
<1>5. CASE LoadCoverage(w)
  <2> DEFINE i == read[w].input
  <2>1. /\ pc[w] = "load" /\ Live(i) /\ read' = [read EXCEPT ![w].version = cov[i].params]
        /\ pc' = [pc EXCEPT ![w] = "compute"] /\ UNCHANGED <<job, jobs, cov, late>>
    BY <1>5 DEF LoadCoverage
  <2>2. \A v \in Workers \ {w} : WorkerStays(v)
    BY <2>1 DEF WorkerStays, CovInv, CovTypeOK
  <2>3. read'[w].input = i /\ read'[w].version = cov[i].params /\ i \in CoverageInputs
    BY <2>1 DEF CovInv, CovTypeOK, Live
  <2>4. /\ InTable(job[w]) => jobs[job[w]].input = i
        /\ i \notin late => InTable(job[w])
    BY <2>1, HeldRow DEF Holding, CovInv, Known
  <2>5. cov[i].params \in Nat /\ cov[i].state = "live"
    BY <2>1, <2>3, CoverageAssumption DEF CovInv, CovTypeOK, Live
  <2>6. Known(w)'
    BY <2>1, <2>3, <2>4, <2>5 DEF Known, Live, InTable
  <2> QED BY <1>2, <1>3, <2>1, <2>2, <2>6 DEF Joined
<1>6. CASE FinishCoverage(w)
  <2> DEFINE i == read[w].input
  <2>1. pc[w] = "finish" /\ Finish(w) /\ Forget /\ cov' = Stored(i, read[w].version) /\ late' = late
    BY <1>6 DEF FinishCoverage, Finish
  <2>2. job'[w] = None /\ pc'[w] \notin Past
    BY <2>1 DEF Finish, Release, AfterJob, Past, Saving, CovInv, Inv, TypeOK, WorkersOK
  <2>3. \A v \in Workers : WorkerStays(v)
    BY <1>1, <2>1, <2>2, ForgetStays
  <2>4. CASE ~Live(i)
    BY <1>2, <1>3, <2>1, <2>3, <2>4 DEF Stored, Joined
  <2>5. CASE Live(i)
    <3>1. cov' = [cov EXCEPT ![i].result = read[w].version] /\ i \in CoverageInputs
      BY <2>1, <2>5 DEF Stored, Live
    <3>2. \A k \in CoverageInputs : LiveNext(k) <=> Live(k)
      BY <3>1 DEF CovInv, CovTypeOK, LiveNext, Live
    <3>3. \A k \in CoverageInputs \ {i} : CovStays(k)
      <4>1. \A k \in CoverageInputs \ {i} : cov'[k] = cov[k] /\ cov[k].params \in Nat
        BY <3>1, CoverageAssumption DEF CovInv, CovTypeOK
      <4> QED BY <4>1 DEF CovStays, LiveNext, Live
    <3>4. \A k : LiveNext(k) <=> Live(k)
      BY <3>2 DEF LiveNext, Live
    <3>5. Rows'
      BY <1>1, <3>4, SameRowsStay, RowsKept DEF CovInv, Rows, RowSame
    <3>6. Asks'
      BY <1>1, <3>4, AsksKept DEF CovInv, Asks, AskStays
    <3>7. ASSUME NEW v \in Workers PROVE Known(v)'
      <4>1. job'[v] # None => v # w /\ job[v] \in Ids /\ pc[v] \in Holding /\ read[v].input \in CoverageInputs
        BY <1>1, <2>2 DEF CovInv, Inv, TypeOK, WorkersOK, Known
      <4>2. job'[v] # None /\ i \notin late => read[v].input # i
        BY <2>1, <2>5, <4>1, SameHolder DEF Holding, Saving
      <4>3. i \in late => CovStays(i)
        <5>1. cov'[i].state = cov[i].state /\ cov'[i].params = cov[i].params /\ cov[i].params \in Nat
          BY <3>1, CoverageAssumption DEF CovInv, CovTypeOK
        <5> QED BY <2>5, <5>1 DEF CovStays, LiveNext, Live
      <4>4. job'[v] # None => CovStays(read[v].input) /\ RowStays(job[v])
        BY <1>1, <3>3, <4>1, <4>2, <4>3, SameRowsStay
      <4>5. job'[v] # None /\ LiveNext(read[v].input) /\ read[v].input \notin late => InTableNext(job[v])
        BY <1>1, <3>4, <4>1, HeldRow DEF RowSame
      <4> QED BY <2>1, <2>3, <4>4, <4>5, KnownKept
    <3> QED BY <3>5, <3>6, <3>7 DEF Joined
  <2> QED BY <2>4, <2>5
<1>7. CASE /\ Forget /\ UNCHANGED <<cov, late>>
           /\ ~(\E id \in Ids : Claim(w, id)) /\ ~Load(w)
  <2>1. \A v \in Workers : WorkerStays(v)
    BY <1>0, <1>1, <1>7, WorkerMoves, ForgetStays
  <2> QED BY <1>2, <1>3, <1>7, <2>1 DEF Joined
<1>8. /\ \A id \in Ids : Claim(w, id) => pc[w] = "claim" /\ pc'[w] # "claim" /\ job'[w] = id
      /\ Load(w) => pc[w] = "load" /\ pc'[w] = "compute"
  BY DEF Claim, Load, FirstStep, CovInv, Inv, TypeOK, WorkersOK
<1>9. CASE Apart(ClaimNothing(w)) \/ Apart(ClaimError(w))
  <2>1. pc[w] = "claim" /\ job'[w] = None
    BY <1>9 DEF Apart, ClaimNothing, ClaimError, Release, CovInv, Inv, TypeOK, WorkersOK
  <2> QED BY <1>7, <1>8, <1>9, <2>1, SetAssumption DEF Apart
<1>10. CASE LoadCoverageError(w)
  <2>1. pc'[w] # "compute" /\ pc[w] # "claim"
    BY <1>10 DEF LoadCoverageError, Release, AfterJob, CovInv, Inv, TypeOK, WorkersOK
  <2> QED BY <1>7, <1>8, <1>10, <2>1 DEF LoadCoverageError
<1>11. CASE pc[w] \notin {"claim", "load"} /\ Forget /\ UNCHANGED <<cov, late>>
  BY <1>7, <1>8, <1>11
<1> QED
  BY <1>4, <1>5, <1>6, <1>9, <1>10, <1>11
  DEF ComputeStep, Apart, TakeWake, Poll, StopWaiting, GiveUp, GiveUpError, EndCompute, Fail, SaveError, Requeue, Saving

LEMMA ProcessKeeps ==
  ASSUME CovInv, Inv', CovTypeOK', UNCHANGED allVars \/ (\E p \in Procs : Apart(ProcStep(p))) \/ CoverageTick
  PROVE  Joined'
<1>1. CASE UNCHANGED allVars
  BY <1>1, EvenStep, SameRows, SameAsks, SameWorkers DEF allVars, covVars, vars, tableVars
<1>2. CASE \E p \in Procs : Apart(ProcStep(p))
  <2>1. PICK p \in Procs : Apart(ProcStep(p))
    BY <1>2
  <2>2. UNCHANGED <<jobs, req, cov, late>> /\ Forget
    BY <2>1 DEF Apart, ProcStep, Start, Stop, Exit, Crash, tableVars
  <2>3. ASSUME NEW w \in Workers PROVE job'[w] \in {None, job[w]} /\ (pc'[w] \in Past => pc[w] \in Past)
    BY <2>1 DEF Apart, ProcStep, Start, Stop, Exit, Crash, Restarted, workerVars, Past, Saving
  <2>4. \A w \in Workers : WorkerStays(w)
    BY <2>2, <2>3, ForgetStays
  <2> QED BY <2>2, <2>4, EvenStep, SameRows, SameAsks
<1>3. CASE CoverageTick
  <2>1. UNCHANGED <<req, pc, job, cov, read>> /\ late \subseteq late'
    BY <1>3 DEF CoverageTick, Tick
  <2>2. \A w \in Workers : WorkerStays(w)
    BY <2>1, SameWorkers
  <2>3. ASSUME NEW id \in Ids PROVE RowSame(id)
    <3>1. jobs'[id] = jobs[id] \/ jobs'[id] = [jobs[id] EXCEPT !.age = Older(jobs[id].age)]
      BY <1>3 DEF CoverageTick, Tick
    <3>2. jobs[id] \in Row
      BY DEF CovInv, Inv, TypeOK, TableOK
    <3> QED BY <3>1, <3>2 DEF RowSame, InTable, InTableNext, Row
  <2> QED BY <2>1, <2>2, <2>3, EvenStep, SameAsks
<1> QED BY <1>1, <1>2, <1>3

\* Coverages go with their rows and with the requests for them.
LEMMA GoneStep ==
  ASSUME CovInv, Inv', CovTypeOK', NEW G \in SUBSET CoverageInputs, Drop(G),
         NEW S, Remove(S), UNCHANGED workerVars,
         \A id \in Ids : InTable(id) => (id \in S <=> jobs[id].input \in G),
         \A r \in Requests : AskStays(r) /\ (req'[r].pc # "idle" => req[r].input \notin G)
  PROVE  Joined'
<1>1. \A i \in CoverageInputs : cov'[i] = IF i \in G /\ Live(i) THEN Gone ELSE cov[i]
  BY DEF Drop
<1>2. \A i : LiveNext(i) <=> Live(i) /\ i \notin G
  BY <1>1 DEF LiveNext, Live, Gone
<1>3. \A i \in CoverageInputs : CovStays(i)
  <2>1. \A i \in CoverageInputs : cov[i].params \in Nat
    BY CoverageAssumption DEF CovInv, CovTypeOK
  <2> QED BY <1>1, <1>2, <2>1 DEF CovStays, Gone
<1>4. \A id \in Ids : RowStays(id) /\ (InTableNext(id) <=> InTable(id) /\ id \notin S)
  BY RowsRemoved
<1>5. Rows'
  BY <1>2, <1>4, RowsKept DEF CovInv, Rows
<1>6. Asks'
  BY <1>2, AsksKept DEF CovInv, Asks, AskStays
<1>7. ASSUME NEW w \in Workers PROVE Known(w)'
  <2>1. WorkerStays(w)
    BY SameWorkers DEF Drop, workerVars
  <2>2. job'[w] # None => job[w] \in Ids /\ pc[w] \in Holding /\ read[w].input \in CoverageInputs
    BY DEF workerVars, CovInv, Inv, TypeOK, WorkersOK, Known
  <2>3. job'[w] # None /\ LiveNext(read[w].input) /\ read[w].input \notin late => InTableNext(job[w])
    BY <1>2, <1>4, <2>2, HeldRow
  <2>4. late' = late
    BY DEF Drop
  <2> QED BY <1>3, <1>4, <2>1, <2>2, <2>3, <2>4, KnownKept
<1> QED BY <1>5, <1>6, <1>7 DEF Joined

LEMMA RemovalKeeps ==
  ASSUME CovInv, Inv', CovTypeOK',
         (\E i \in CoverageInputs : RemoveCoverage(i)) \/ (\E o \in Owners : RemoveOwner(o))
  PROVE  Joined'
<1>1. ASSUME NEW Q, NEW r \in Requests, req' = [q \in Requests |-> IF q \in Q THEN Idle ELSE req[q]]
      PROVE  AskStays(r) /\ (req'[r].pc # "idle" => r \notin Q)
  BY <1>1 DEF AskStays, Idle
<1>2. CASE \E i \in CoverageInputs : RemoveCoverage(i)
  <2>1. PICK i \in CoverageInputs : RemoveCoverage(i)
    BY <1>2
  <2> DEFINE S == {id \in Ids : jobs[id].input = i}
             Q == {r \in Requests : req[r].input = i}
  <2>2. /\ Drop({i}) /\ Remove(S) /\ UNCHANGED workerVars
        /\ req' = [q \in Requests |-> IF q \in Q THEN Idle ELSE req[q]]
    BY <2>1 DEF RemoveCoverage, DeleteCoverage, Cascade
  <2>3. \A r \in Requests : AskStays(r) /\ (req'[r].pc # "idle" => req[r].input \notin {i})
    BY <1>1, <2>2
  <2>4. \A id \in Ids : InTable(id) => (id \in S <=> jobs[id].input \in {i})
    OBVIOUS
  <2> QED BY <2>2, <2>3, <2>4, GoneStep
<1>3. CASE \E o \in Owners : RemoveOwner(o)
  <2>1. PICK o \in Owners : RemoveOwner(o)
    BY <1>3
  <2> DEFINE S == {id \in Ids : jobs[id].owner = o}
             Q == {r \in Requests : req[r].owner = o}
             G == {i \in CoverageInputs : CovOwner[i] = o}
  <2>2. /\ Drop(G) /\ Remove(S) /\ UNCHANGED workerVars
        /\ req' = [q \in Requests |-> IF q \in Q THEN Idle ELSE req[q]]
    BY <2>1 DEF RemoveOwner, DeleteOwner, Cascade
  <2>3. \A r \in Requests : req'[r].pc # "idle" => req[r].pc # "idle" /\ r \notin Q
    BY <1>1, <2>2 DEF AskStays
  <2>4. \A r \in Requests : AskStays(r) /\ (req'[r].pc # "idle" => req[r].input \notin G)
    BY <1>1, <2>2, <2>3 DEF CovInv, Asks
  <2>5. \A id \in Ids : InTable(id) => (id \in S <=> jobs[id].input \in G)
    BY DEF CovInv, Rows, Live
  <2> QED BY <2>2, <2>4, <2>5, GoneStep
<1> QED BY <1>2, <1>3

(***************************************************************************)
(* Only time marks a row or a coverage, and a marked row stays one of its  *)
(* coverage.                                                               *)
(***************************************************************************)
LEMMA RemoveMarked ==
  ASSUME CovInv, NEW S, Remove(S), late' = late
  PROVE  Marked'
BY DEF CovInv, Inv, TypeOK, TableOK, Marked, Remove

LEMMA RequestMarked ==
  ASSUME CovInv, NEW r \in Requests, QueueStep(r)
  PROVE  Marked'
<1>1. late' = late
  BY DEF QueueStep, BeginCoverage, Apart
<1>2. CASE UNCHANGED tableVars
  BY <1>1, <1>2 DEF tableVars, CovInv, Marked
<1>3. CASE DropFinished(r)
  BY <1>1, <1>3, RemoveMarked DEF DropFinished
<1>4. CASE Insert(r) /\ ~UNCHANGED tableVars
  <2>1. PICK id \in Ids : /\ PutRow(id, req[r].owner, req[r].input)
                          /\ \/ Fresh(id)
                             \/ id \in Existing(req[r].owner, req[r].input)
    BY <1>4 DEF Insert
  <2>2. /\ overrun' = overrun /\ jobs'[id].input = req[r].input
        /\ \A k \in Ids \ {id} : jobs'[k] = jobs[k]
    BY <2>1 DEF PutRow, NewRow, CovInv, Inv, TypeOK, TableOK
  <2>3. id \in overrun => jobs[id].input = req[r].input
    BY <2>1 DEF Fresh, Existing, CovInv, Inv, TypeOK, TableOK
  <2> QED BY <1>1, <2>2, <2>3 DEF CovInv, Inv, TypeOK, TableOK, Marked
<1> QED
  BY <1>2, <1>3, <1>4 DEF QueueStep, BeginCoverage, Apart, Begin, Look, Count, NotifyQueued, Abort

LEMMA MarkedStep == CovInv /\ [CovNext]_allVars => Marked'
<1> SUFFICES ASSUME CovInv, [CovNext]_allVars PROVE Marked'
  OBVIOUS
<1>0. overrun \subseteq Ids
  BY DEF CovInv, Inv, TypeOK, TableOK
<1>1. CASE UNCHANGED <<jobs, overrun, late>>
  BY <1>1 DEF CovInv, Marked
<1>2. ASSUME NEW e \in Editors, EditorStep(e) PROVE Marked'
  <2>1. CASE DropJob(e)
    BY <2>1, RemoveMarked DEF DropJob, UpdateCoverage
  <2> QED
    BY <1>1, <1>2, <2>1 DEF EditorStep, CountCoverages, SetParams, InsertCoverage, AbortEdit, vars, tableVars
<1>3. ASSUME NEW w \in Workers, ComputeStep(w) PROVE Marked'
  <2>1. \A id \in Ids : jobs'[id].input = jobs[id].input
    BY <1>3, WorkerIsQueue, WorkerRows DEF CovInv, Inv, RowSame
  <2>2. overrun' = overrun /\ late' = late
    BY <1>3 DEF ComputeStep, Apart, ClaimCoverage, LoadCoverage, LoadCoverageError, FinishCoverage, Claim, ClaimRow,
                ClaimNothing, ClaimError, TakeWake, Poll, StopWaiting, GiveUp, GiveUpError, EndCompute, Finish, Fail,
                SaveError, Requeue, Settle, tableVars
  <2> QED BY <1>0, <2>1, <2>2 DEF CovInv, Marked
<1>4. CASE \E p \in Procs : Apart(ProcStep(p))
  BY <1>1, <1>4 DEF Apart, ProcStep, Start, Stop, Exit, Crash, tableVars
<1>5. CASE \E i \in CoverageInputs : RemoveCoverage(i)
  BY <1>5, RemoveMarked DEF RemoveCoverage, DeleteCoverage, Cascade, Drop
<1>6. CASE \E o \in Owners : RemoveOwner(o)
  BY <1>6, RemoveMarked DEF RemoveOwner, DeleteOwner, Cascade, Drop
<1>7. CASE CoverageTick
  <2>1. \A id \in overrun' : id \in Ids /\ jobs[id].input \in late'
    BY <1>0, <1>7 DEF CoverageTick, Tick
  <2>2. \A id \in Ids : jobs'[id].input = jobs[id].input
    BY <1>7, TickRows DEF CoverageTick, CovInv, Inv, TypeOK
  <2> QED BY <2>1, <2>2 DEF Marked
<1>8. CASE UNCHANGED allVars
  BY <1>1, <1>8 DEF allVars, covVars, vars, tableVars
<1> QED BY <1>2, <1>3, <1>4, <1>5, <1>6, <1>7, <1>8, RequestMarked DEF CovNext

LEMMA CovInvStep == CovInv /\ [CovNext]_allVars => CovInv'
<1> SUFFICES ASSUME CovInv, [CovNext]_allVars PROVE CovInv'
  OBVIOUS
<1>1. Inv'
  BY StepIsQueue, InvStep DEF CovInv
<1>2. CovTypeOK' /\ EditsOK'
  BY TypesKept
<1>3. Joined'
  BY <1>1, <1>2, EditorKeeps, RequestKeeps, WorkerKeeps, ProcessKeeps, RemovalKeeps DEF CovNext
<1> QED BY <1>1, <1>2, <1>3, MarkedStep DEF CovInv, Joined

LEMMA CovInvCorrect == CovSpec => []CovInv
<1>1. CovInit => CovInv
  <2> SUFFICES ASSUME CovInit PROVE CovInv
    OBVIOUS
  <2>1. Inv
    BY InvInit DEF CovInit
  <2>2. CovTypeOK /\ EditsOK
    BY CoverageAssumption DEF CovInit, CovTypeOK, EditsOK, NoCoverage, Nothing, NoEdit
  <2>3. Rows /\ Asks /\ Marked /\ \A w \in Workers : Known(w)
    BY DEF CovInit, Init, Rows, Asks, Marked, Known, InTable, NoRow, Idle, Holding, Saving
  <2> QED BY <2>1, <2>2, <2>3 DEF CovInv
<1> QED BY <1>1, CovInvStep, PTL DEF CovSpec

(***************************************************************************)
(* The theorems.                                                           *)
(***************************************************************************)

\* Coverages run on the job queue: runCoverage, which loads the coverage and not the job, and the statements of
\* store/coverages.go do nothing to jobs that the queue does not allow, so every property of Spec holds with them.
THEOREM CoveragesOnQueue == CovSpec => Spec
<1>1. CovInit => Init
  BY DEF CovInit
<1> QED BY <1>1, StepIsQueue, CovInvCorrect, PTL DEF CovSpec, Spec

\* A job has its coverage, and, until a worker of the coverage outlives Stale, a worker's job is there while the
\* coverage is (EnqueueCoverage, UpdateCoverage, DeleteCoverage and the cascades).
THEOREM JobsStayWithCoverage == CovSpec => []JobsWithCoverage
<1>1. CovInv => JobsWithCoverage
  BY DEF CovInv, JobsWithCoverage, Rows, Known
<1> QED BY <1>1, CovInvCorrect, PTL

\* Until a worker of the coverage outlives Stale, FinishCoverageJob of one that loaded the coverage before an edit
\* never replaces the result of the present parameters by that of older ones.
THEOREM CurrentKept == CovSpec => CurrentStays
<1> DEFINE A == \A i \in CoverageInputs \ late : (Live(i) /\ cov[i].result = cov[i].params) =>
                                             cov'[i].result \in {0, cov'[i].params}
<1>1. CovInv /\ [CovNext]_allVars => [A]_allVars
  <2> SUFFICES ASSUME CovInv, CovNext, NEW i \in CoverageInputs \ late, Live(i), cov[i].result = cov[i].params
               PROVE  cov'[i].result \in {0, cov'[i].params}
    OBVIOUS
  <2>1. CASE UNCHANGED cov
    BY <2>1
  <2>2. ASSUME NEW e \in Editors, EditorStep(e) PROVE cov'[i].result \in {0, cov'[i].params}
    <3>1. cov'[i] = cov[i] \/ cov'[i] = [state |-> "live", params |-> 1, result |-> 0] \/ cov'[i] = Edited(cov[i])
      BY <2>2 DEF EditorStep, CountCoverages, SetParams, InsertCoverage, DropJob, AbortEdit, CovInv, CovTypeOK
    <3>2. Edited(cov[i]).result = 0
      BY DEF Edited, CovInv, CovTypeOK
    <3> QED BY <3>1, <3>2
  <2>3. ASSUME NEW w \in Workers, FinishCoverage(w) PROVE cov'[i].result \in {0, cov'[i].params}
    <3>1. CASE i # read[w].input
      BY <2>3, <3>1 DEF FinishCoverage, Stored, CovInv, CovTypeOK
    <3>2. CASE i = read[w].input
      <4>1. read[w].version = cov[i].params
        BY <2>3, <3>2 DEF FinishCoverage, Finish, CovInv, Known, Holding, Saving, Past
      <4> QED BY <2>3, <3>2, <4>1 DEF FinishCoverage, Stored, CovInv, CovTypeOK
    <3> QED BY <3>1, <3>2
  <2>4. ASSUME NEW S, Drop(S) PROVE cov'[i].result \in {0, cov'[i].params}
    BY <2>4 DEF Drop, Gone
  <2> QED
    BY <2>1, <2>2, <2>3, <2>4
    DEF CovNext, QueueStep, BeginCoverage, ComputeStep, ClaimCoverage, LoadCoverage, LoadCoverageError, Apart,
        CoverageTick, RemoveCoverage, RemoveOwner
<1> QED BY <1>1, CovInvCorrect, PTL DEF CovSpec, CurrentStays
===============================================================================

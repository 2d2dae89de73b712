------------------------------ MODULE Coverages ------------------------------
(***************************************************************************)
(* The coverages of internal/store/coverages.go together with the jobs     *)
(* that compute them.  A coverage keeps its parameters and the result of   *)
(* its last computation; its job names the coverage, so the worker reads   *)
(* the parameters when it starts (GetCoverage) and stores the result on    *)
(* whatever the coverage has become by then (FinishCoverageJob).           *)
(*                                                                         *)
(* The steps of the job queue are those of JobQueue, joined with what they *)
(* read and write of the coverages.  The parameters are a version number,  *)
(* and a result is the version it was computed from.                       *)
(***************************************************************************)
EXTENDS JobQueue

CONSTANTS
  Editors,      \* API requests that create and update coverages
  CovOwner,     \* the owner of each coverage
  MaxCoverages, \* coverages per owner
  MaxVersion    \* bound on the edits of a coverage

ASSUME CoverageAssumption ==
  /\ CovOwner \in [CoverageInputs -> Owners]
  /\ MaxCoverages \in Nat \ {0}
  /\ MaxVersion \in Nat \ {0}

VARIABLES
  cov,   \* the table coverages
  read,  \* what a worker knows: the coverage of its job, the version it loaded
  edit,  \* the editors inside CreateCoverage or UpdateCoverage
  late   \* history: coverages a worker of which held a job for longer than Stale

covVars == <<cov, read, edit, late>>
allVars == <<vars, covVars>>

NoCoverage == [state |-> "new", params |-> 0, result |-> 0]
Gone == [state |-> "gone", params |-> 0, result |-> 0]
Nothing == [input |-> None, version |-> 0]
NoEdit == [pc |-> "idle", input |-> None]

Live(i) == i \in CoverageInputs /\ cov[i].state = "live"

\* Workers that hold no job know nothing.
Forget == read' = [w \in Workers |-> IF job'[w] = None THEN Nothing ELSE read[w]]

\* A step of the job queue that neither reads nor writes a coverage.
Apart(A) == A /\ Forget /\ UNCHANGED <<cov, edit, late>>

\* As in JobQueue; a coverage whose worker outlived Stale stays marked when the
\* row is gone, since a later row is for the same coverage.
CoverageTick ==
  /\ Tick
  /\ late' = late \cup {jobs[id].input : id \in overrun'}
  /\ UNCHANGED <<cov, read, edit>>

(***************************************************************************)
(* Editors.                                                                *)
(***************************************************************************)
Owned(o) == {i \in CoverageInputs : Live(i) /\ CovOwner[i] = o}

\* CreateCoverage counts the owner's coverages, then inserts.
CountCoverages(e, i) ==
  /\ edit[e].pc = "idle"
  /\ cov[i].state = "new"
  /\ Cardinality(Owned(CovOwner[i])) < MaxCoverages
  /\ edit' = [edit EXCEPT ![e] = [pc |-> "insert", input |-> i]]
  /\ UNCHANGED <<vars, cov, read, late>>

InsertCoverage(e) ==
  /\ edit[e].pc = "insert"
  /\ cov[edit[e].input].state = "new"
  /\ cov' = [cov EXCEPT ![edit[e].input] = [state |-> "live", params |-> 1, result |-> 0]]
  /\ edit' = [edit EXCEPT ![e] = NoEdit]
  /\ UNCHANGED <<vars, read, late>>

\* The first statement of UpdateCoverage: new parameters, no result.
Edited(c) == [c EXCEPT !.params = @ + 1, !.result = 0]

SetParams(e, i) ==
  /\ edit[e].pc = "idle"
  /\ Live(i)
  /\ cov[i].params < MaxVersion
  /\ cov' = [cov EXCEPT ![i] = Edited(@)]
  /\ edit' = [edit EXCEPT ![e] = [pc |-> "drop", input |-> i]]
  /\ UNCHANGED <<vars, read, late>>

\* Its second statement, in JobQueue.
DropJob(e) ==
  /\ edit[e].pc = "drop"
  /\ UpdateCoverage(edit[e].input)
  /\ edit' = [edit EXCEPT ![e] = NoEdit]
  /\ UNCHANGED <<cov, read, late>>

\* The client left or a statement failed.
AbortEdit(e) ==
  /\ edit[e].pc # "idle"
  /\ edit' = [edit EXCEPT ![e] = NoEdit]
  /\ UNCHANGED <<vars, cov, read, late>>

(***************************************************************************)
(* Requests and workers.                                                   *)
(***************************************************************************)

\* EnqueueCoverage asks first whether the owner has the coverage.
BeginCoverage(r, i) ==
  /\ Live(i)
  /\ Apart(Begin(r, CovOwner[i], i))

\* The claimed row names the coverage.
ClaimCoverage(w, id) ==
  /\ Claim(w, id)
  /\ read' = [read EXCEPT ![w] = [input |-> jobs[id].input, version |-> 0]]
  /\ UNCHANGED <<cov, edit, late>>

\* Mutant: GetCoverage does not use the worker's context.
LoadCoverageAnyway(w) ==
  /\ pc[w] = "load"
  /\ Live(read[w].input)
  /\ read' = [read EXCEPT ![w].version = cov[read[w].input].params]
  /\ StartRun(job[w])
  /\ pc' = [pc EXCEPT ![w] = "compute"]
  /\ UNCHANGED <<jobs, older, overrun, job, elapsed, req, proc, wake, cov, edit, late>>

\* GetCoverage finds the coverage; whether the job is still there is not asked.
LoadCoverage(w) ==
  /\ pc[w] = "load"
  /\ ~Stopping(w)
  /\ Live(read[w].input)
  /\ read' = [read EXCEPT ![w].version = cov[read[w].input].params]
  /\ StartRun(job[w])
  /\ pc' = [pc EXCEPT ![w] = "compute"]
  /\ UNCHANGED <<jobs, older, overrun, job, elapsed, req, proc, wake, cov, edit, late>>

LoadCoverageError(w) ==
  /\ pc[w] = "load"
  /\ DbFaults \/ Stopping(w) \/ ~Live(read[w].input)
  /\ Release(w, AfterJob(w))
  /\ Forget
  /\ UNCHANGED <<tableVars, req, proc, wake, cov, edit, late>>

\* Mutant: the rows affected are not looked at.
StoredAnyway(i, v) == [cov EXCEPT ![i].result = v]

\* FinishCoverageJob stores the result on the coverage, if it is there.
Stored(i, v) == IF Live(i) THEN [cov EXCEPT ![i].result = v] ELSE cov

FinishCoverage(w) ==
  /\ Finish(w)
  /\ cov' = Stored(read[w].input, read[w].version)
  /\ Forget
  /\ UNCHANGED <<edit, late>>

(***************************************************************************)
(* Deletions.                                                              *)
(***************************************************************************)
Drop(S) ==
  /\ cov' = [i \in CoverageInputs |-> IF i \in S /\ Live(i) THEN Gone ELSE cov[i]]
  /\ edit' = [e \in Editors |-> IF edit[e].input \in S THEN NoEdit ELSE edit[e]]
  /\ UNCHANGED <<read, late>>

RemoveCoverage(i) == Live(i) /\ DeleteCoverage(i) /\ Drop({i})

RemoveOwner(o) ==
  DeleteOwner(o) /\ Drop({i \in CoverageInputs : CovOwner[i] = o})

-----------------------------------------------------------------------------
CovInit ==
  /\ Init
  /\ cov = [i \in CoverageInputs |-> NoCoverage]
  /\ read = [w \in Workers |-> Nothing]
  /\ edit = [e \in Editors |-> NoEdit]
  /\ late = {}

EditorStep(e) ==
  \/ \E i \in CoverageInputs : CountCoverages(e, i) \/ SetParams(e, i)
  \/ InsertCoverage(e) \/ DropJob(e) \/ AbortEdit(e)

QueueStep(r) ==
  \/ \E i \in CoverageInputs : BeginCoverage(r, i)
  \/ Apart(DropFinished(r)) \/ Apart(Look(r)) \/ Apart(Count(r)) \/ Apart(Insert(r))
  \/ \E S \in SUBSET Procs : Apart(NotifyQueued(r, S))
  \/ Apart(Abort(r))

ComputeStep(w) ==
  \/ \E id \in Ids : ClaimCoverage(w, id)
  \/ Apart(ClaimNothing(w)) \/ Apart(ClaimError(w))
  \/ Apart(TakeWake(w)) \/ Apart(Poll(w)) \/ Apart(StopWaiting(w))
  \/ Apart(GiveUp(w)) \/ Apart(GiveUpError(w))
  \/ LoadCoverage(w) \/ LoadCoverageError(w)
  \/ Apart(EndCompute(w)) \/ FinishCoverage(w) \/ Apart(Fail(w)) \/ Apart(SaveError(w))
  \/ \E S \in SUBSET Procs : Apart(Requeue(w, S))

CovNext ==
  \/ \E e \in Editors : EditorStep(e)
  \/ \E r \in Requests : QueueStep(r)
  \/ \E w \in Workers : ComputeStep(w)
  \/ \E p \in Procs : Apart(ProcStep(p))
  \/ \E i \in CoverageInputs : RemoveCoverage(i)
  \/ \E o \in Owners : RemoveOwner(o)
  \/ CoverageTick

CovSpec == CovInit /\ [][CovNext]_allVars

-----------------------------------------------------------------------------
(***************************************************************************)
(* Properties.                                                             *)
(***************************************************************************)

\* Types; a row that does not exist has no result, and no result is newer than
\* the parameters.
CovTypeOK ==
  /\ cov \in [CoverageInputs -> [state : {"new", "live", "gone"},
                                 params : 0 .. MaxVersion, result : 0 .. MaxVersion]]
  /\ read \in [Workers -> [input : CoverageInputs \cup {None}, version : 0 .. MaxVersion]]
  /\ edit \in [Editors -> [pc : {"idle", "insert", "drop"},
                           input : CoverageInputs \cup {None}]]
  /\ late \subseteq CoverageInputs
  /\ \A i \in CoverageInputs :
        /\ cov[i].result <= cov[i].params
        /\ cov[i].state # "live" => cov[i].params = 0

\* "The coverage was deleted meanwhile and took its job along", and nothing
\* else does: a job has its coverage, and while the coverage of a worker's job
\* is there, so is the job, however often the coverage is edited and queued,
\* unless a worker outlived Stale and the row was taken over and settled.
JobsWithCoverage ==
  /\ \A id \in Ids : InTable(id) => Live(jobs[id].input)
  /\ \A w \in Workers :
        (pc[w] \in Holding /\ Live(read[w].input) /\ read[w].input \notin late) =>
           InTable(job[w]) /\ jobs[job[w]].input = read[w].input

\* A result that belongs to the current parameters is never replaced by that
\* of older ones: a worker that loaded the coverage before an edit does not
\* write over a newer result, unless a worker outlived Stale.
CurrentStays ==
  [][\A i \in CoverageInputs \ late :
       (Live(i) /\ cov[i].result = cov[i].params) =>
          cov'[i].result \in {0, cov'[i].params}]_allVars

\* What UpdateCoverage documents, "clears its result": whatever result is
\* stored was computed from the parameters the coverage has.
ResultCurrent ==
  \A i \in CoverageInputs : Live(i) => cov[i].result \in {0, cov[i].params}
==============================================================================

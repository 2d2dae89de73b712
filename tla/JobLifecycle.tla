---------------------------- MODULE JobLifecycle ----------------------------
(***************************************************************************)
(* What the job queue promises of every job, without its statements,       *)
(* times, processes or notifications: a job has at most one holder, only   *)
(* its holder publishes an outcome or gives the job back, a job is taken   *)
(* by another worker only once its holder has lost it, and after MaxClaims *)
(* claims it can only fail.  A holder may overstay; of such a job nothing  *)
(* is promised until it is dropped.                                        *)
(***************************************************************************)
EXTENDS Naturals

CONSTANTS Jobs, Workers, None, MaxClaims

VARIABLES
  stage,   \* stage[j]: where job j is
  holder,  \* holder[j]: the worker whose result is to be published
  claims   \* claims[j]: how often j was claimed since it was queued

lifecycleVars == <<stage, holder, claims>>

Stages == {"none", "queued", "running", "done", "failed", "overrun"}

Becomes(j, s, w, n) == stage'[j] = s /\ holder'[j] = w /\ claims'[j] = n

Stay(j) == Becomes(j, stage[j], holder[j], claims[j])

Enqueue(j) ==
  /\ stage[j] \in {"none", "failed"}
  /\ Becomes(j, "queued", None, 0)

\* A worker takes a job that nobody holds; it may never learn that it did.
Take(j) ==
  /\ stage[j] \in {"queued", "running"}
  /\ holder[j] = None
  /\ \E w \in Workers \cup {None} :
        Becomes(j, "running", w, IF claims[j] < MaxClaims THEN claims[j] + 1 ELSE MaxClaims)

\* The holder crashes, stops or cannot write.
Lose(j) ==
  /\ stage[j] = "running" /\ holder[j] # None
  /\ Becomes(j, "running", None, claims[j])

Publish(j) ==
  /\ stage[j] = "running" /\ holder[j] # None
  /\ \E s \in {"done", "failed"} :
        /\ s = "done" => claims[j] < MaxClaims
        /\ Becomes(j, s, None, claims[j])

GiveBack(j) ==
  /\ stage[j] = "running" /\ holder[j] # None
  /\ claims[j] < MaxClaims
  /\ Becomes(j, "queued", None, claims[j])

\* The holder keeps the job for longer than it may.
Overstay(j) ==
  /\ stage[j] = "running" /\ holder[j] # None
  /\ Becomes(j, "overrun", None, 0)

Drop(j) == Becomes(j, "none", None, 0)

Init ==
  /\ stage = [j \in Jobs |-> "none"]
  /\ holder = [j \in Jobs |-> None]
  /\ claims = [j \in Jobs |-> 0]

JobStep(j) ==
  \/ Stay(j) \/ Enqueue(j) \/ Take(j) \/ Lose(j) \/ Publish(j) \/ GiveBack(j)
  \/ Overstay(j) \/ Drop(j)

\* One step of the system may move several jobs, as a crash does.
Next ==
  /\ stage' \in [Jobs -> Stages]
  /\ holder' \in [Jobs -> Workers \cup {None}]
  /\ claims' \in [Jobs -> 0 .. MaxClaims]
  /\ \A j \in Jobs : JobStep(j)

Spec == Init /\ [][Next]_lifecycleVars
=============================================================================

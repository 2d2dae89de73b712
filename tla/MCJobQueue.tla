----------------------------- MODULE MCJobQueue -----------------------------
(* Instances of JobQueue for TLC. *)
EXTENDS JobQueue, TLC

CONSTANTS w1, w2, p1, p2

-----------------------------------------------------------------------------
\* Takeover: one short worker in each of two processes; a job is stale after
\* more than one unit of time, which a worker may outlive.
TakeoverHome == (w1 :> p1) @@ (w2 :> p2)
TakeoverClass == [w \in Workers |-> "short"]
TakeoverStale == [c \in Classes |-> 1]
TakeoverLimit == [c \in Classes |-> 1]

\* Jobs and requests are interchangeable.
Symmetry == Permutations(Ids) \cup Permutations(Requests)

-----------------------------------------------------------------------------
\* Progress: a coverage worker and two coverage jobs; a lost job is stale after
\* the next tick.  Overrun: the same times, two short workers of one process,
\* two requests, and a job that may be taken over while it is computed.
ProgressHome == [w \in Workers |-> p1]
ProgressClass == [w \in Workers |-> "coverage"]
ProgressTime == [c \in Classes |-> 0]
ProgressLimit == [c \in Classes |-> 2]

-----------------------------------------------------------------------------
\* Quota: three coverages of one owner and two requests at a time, limit one.
QuotaLimit == [c \in Classes |-> 1]
QuotaSymmetry ==
  Permutations(Ids) \cup Permutations(Requests) \cup Permutations(Inputs)
=============================================================================

----------------------------- MODULE MCCoverages -----------------------------
(* Instances of Coverages for TLC. *)
EXTENDS Coverages, TLC

CONSTANTS w1, w2, p1, o1

\* Coverage workers of one process; a lost job is stale after the next tick.
AllHome == [w \in Workers |-> p1]
AllClass == [w \in Workers |-> "coverage"]
NoStale == [c \in Classes |-> 0]
OneJob == [c \in Classes |-> 1]
OneOwner == [i \in CoverageInputs |-> o1]

Symmetry ==
  Permutations(Ids) \cup Permutations(Workers) \cup Permutations(Editors)
==============================================================================

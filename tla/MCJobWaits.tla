----------------------------- MODULE MCJobWaits -----------------------------
(* Instances of JobWaits for TLC. *)
EXTENDS JobWaits, TLC
=============================================================================

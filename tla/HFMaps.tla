--------------------------------- MODULE HFMaps --------------------------------
(***************************************************************************)
(* A reliability map (internal/web/hfmap.go): hfMapCompute hands the cells *)
(* of the globe to one goroutine per CPU over a channel, each of them runs *)
(* the model for its cell and writes the frames of the map.  The context   *)
(* ends with the deadline of the job or the shutdown of the worker.        *)
(*                                                                         *)
(* The hours of a cell are written by the goroutine that computed it, and  *)
(* the model keeps one value per cell.                                     *)
(***************************************************************************)
EXTENDS Naturals, FiniteSets

CONSTANTS
    Cells,    \* number of cells
    Workers,  \* one per CPU
    None

\* What is assumed of them: there is a cell to compute, and None is neither a cell nor an answer.
Sizes ==
    /\ Cells \in Nat \ {0}
    /\ None \notin 1..Cells /\ None \notin {"map", "error", "cancelled"}

VARIABLES
    fed,        \* cells sent, in order
    closedCh,   \* the channel is closed
    worker,     \* worker[w]: what the goroutine does, and with which cell
    frame,      \* frame[c]: 0 as made, "percent", or "n/a" (-307)
    failed,     \* cells the model could not calculate
    firstErr,   \* cell of the first error
    cancelled,  \* ctx is done
    answer      \* what hfMapCompute returned

vars == <<fed, closedCh, worker, frame, failed, firstErr, cancelled, answer>>

Idle == [pc |-> "idle"]

Init ==
    /\ fed = 0 /\ closedCh = FALSE /\ cancelled = FALSE /\ answer = None
    /\ worker = [w \in Workers |-> Idle]
    /\ frame = [c \in 1..Cells |-> "0"]
    /\ failed = 0 /\ firstErr = None

Goto(w, next) == worker' = [worker EXCEPT ![w] = next]

Cancel ==
    /\ ~cancelled /\ answer = None /\ cancelled' = TRUE
    /\ UNCHANGED <<fed, closedCh, worker, frame, failed, firstErr, answer>>

\* The channel has no buffer: a cell is sent to a goroutine that waits.  With both cases ready, select takes either.
Feed(w) ==
    /\ ~closedCh /\ fed < Cells /\ worker[w] = Idle
    /\ fed' = fed + 1
    /\ Goto(w, [pc |-> "predict", cell |-> fed + 1])
    /\ UNCHANGED <<closedCh, frame, failed, firstErr, cancelled, answer>>

CloseCells ==
    /\ ~closedCh /\ (fed = Cells \/ cancelled)
    /\ closedCh' = TRUE
    /\ UNCHANGED <<fed, worker, frame, failed, firstErr, cancelled, answer>>

\* Predict does not look at the context.
Predicted(w) ==
    /\ worker[w].pc = "predict"
    /\ frame' = [frame EXCEPT ![worker[w].cell] = "percent"]
    /\ Goto(w, Idle)
    /\ UNCHANGED <<fed, closedCh, failed, firstErr, cancelled, answer>>

\* Under the mutex.
CountFailure(w) ==
    /\ worker[w].pc = "predict"
    /\ failed' = failed + 1
    /\ firstErr' = IF firstErr = None THEN worker[w].cell ELSE firstErr
    /\ Goto(w, [worker[w] EXCEPT !.pc = "mark"])
    /\ UNCHANGED <<fed, closedCh, frame, cancelled, answer>>

MarkFailure(w) ==
    /\ worker[w].pc = "mark"
    /\ frame' = [frame EXCEPT ![worker[w].cell] = "n/a"]
    /\ Goto(w, Idle)
    /\ UNCHANGED <<fed, closedCh, failed, firstErr, cancelled, answer>>

EndWorker(w) ==
    /\ closedCh /\ worker[w] = Idle
    /\ Goto(w, [pc |-> "ended"])
    /\ UNCHANGED <<fed, closedCh, frame, failed, firstErr, cancelled, answer>>

AllEnded == \A w \in Workers : worker[w].pc = "ended"

\* The bug of a map that is returned as far as it came.
ReturnPartial ==
    /\ answer = None /\ closedCh /\ AllEnded
    /\ answer' = IF failed = Cells THEN "error" ELSE "map"
    /\ UNCHANGED <<fed, closedCh, worker, frame, failed, firstErr, cancelled>>

Return ==
    /\ answer = None /\ closedCh /\ AllEnded
    /\ answer' = IF cancelled THEN "cancelled" ELSE IF failed = Cells THEN "error" ELSE "map"
    /\ UNCHANGED <<fed, closedCh, worker, frame, failed, firstErr, cancelled>>

Next ==
    \/ Cancel \/ CloseCells \/ Return
    \/ \E w \in Workers : Feed(w) \/ Predicted(w) \/ CountFailure(w) \/ MarkFailure(w) \/ EndWorker(w)

Spec == Init /\ [][Next]_vars

(***************************************************************************)
(* "cells the model cannot calculate stay at hfNotAvailable, and it fails  *)
(* only when none could be calculated": a map that was returned has every  *)
(* cell computed or marked, none at the 0 percent it was made with, though *)
(* the goroutines finish in any order and the context may end at any time; *)
(* the error it fails with is that of a cell; and nobody writes to the     *)
(* frames after the return.                                                *)
(***************************************************************************)
MapWhole ==
    /\ answer = "map" =>
         /\ \A c \in 1..Cells : frame[c] # "0"
         /\ failed = Cardinality({c \in 1..Cells : frame[c] = "n/a"}) /\ failed < Cells
    /\ answer = "error" => firstErr # None /\ \A c \in 1..Cells : frame[c] = "n/a"
    /\ answer # None => AllEnded
================================================================================

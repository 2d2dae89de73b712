------------------------------- MODULE HFProofs -------------------------------
(***************************************************************************)
(* The HF model: a reliability map that is returned is whole, for any      *)
(* number of cells and goroutines; and the routines of a prediction read   *)
(* what was computed for its run, for paths of any length and any hours    *)
(* and frequencies.                                                        *)
(***************************************************************************)
EXTENDS Services, FiniteSetTheorems, TLAPS

\* The instance has a Cardinality of its own, defined alike.
LEMMA SameCardinality == \A S : Maps!Cardinality(S) = Cardinality(S)
BY DEF Maps!Cardinality, Cardinality

Busy == [pc : {"predict", "mark"}, cell : 1..Cells]

MapTypes ==
    /\ fed \in 0..Cells /\ closedCh \in BOOLEAN /\ cancelled \in BOOLEAN
    /\ worker \in [MapWorkers -> {Maps!Idle, [pc |-> "ended"]} \cup Busy]
    /\ frame \in [1..Cells -> {"0", "percent", "n/a"}]
    /\ failed \in Nat /\ firstErr \in 1..Cells \cup {None}
    /\ answer \in {None, "map", "error", "cancelled"}

Works(w, c) == worker[w] \in Busy /\ worker[w].cell = c
Marks(w, c) == worker[w] \in Busy /\ worker[w].cell = c /\ worker[w].pc = "mark"

\* A cell that was sent is at 0 percent exactly while one goroutine works on it.
CellsShared ==
    /\ \A w \in MapWorkers, c \in 1..Cells : Works(w, c) => c <= fed /\ frame[c] = "0"
    /\ \A v, w \in MapWorkers, c \in 1..Cells : Works(v, c) /\ Works(w, c) => v = w
    /\ \A c \in 1..Cells : c <= fed /\ frame[c] = "0" => \E w \in MapWorkers : Works(w, c)
    /\ \A c \in 1..Cells : c > fed => frame[c] = "0"

\* The failures that were counted: those in the frames, and those about to be.
Failures == {c \in 1..Cells : frame[c] = "n/a" \/ \E w \in MapWorkers : Marks(w, c)}

FailuresCounted ==
    /\ failed = Cardinality(Failures)
    /\ failed > 0 => firstErr # None

Closing ==
    /\ closedCh => fed = Cells \/ cancelled
    /\ \A w \in MapWorkers : worker[w].pc = "ended" => closedCh
    /\ answer # None => Maps!AllEnded /\ closedCh

MapInv == MapTypes /\ CellsShared /\ FailuresCounted /\ Closing /\ Maps!MapWhole

-------------------------------------------------------------------------------
(***************************************************************************)
(* Goroutines and failures.                                                *)
(***************************************************************************)
LEMMA BusyFields ==
    ASSUME NEW x \in Busy
    PROVE  /\ x.pc \in {"predict", "mark"} /\ x.cell \in 1..Cells /\ x # Maps!Idle /\ x # [pc |-> "ended"]
           /\ x = [pc |-> x.pc, cell |-> x.cell]
BY DEF Busy, Maps!Idle

LEMMA BusyByPc ==
    ASSUME MapTypes, NEW w \in MapWorkers
    PROVE  /\ worker[w].pc \in {"predict", "mark"} <=> worker[w] \in Busy
           /\ worker[w].pc = "idle" <=> worker[w] = Maps!Idle
           /\ worker[w].pc = "ended" <=> worker[w] = [pc |-> "ended"]
<1>1. worker[w] \in {Maps!Idle, [pc |-> "ended"]} \cup Busy
  BY DEF MapTypes
<1>2. Maps!Idle.pc = "idle" /\ [pc |-> "ended"].pc = "ended" /\ Maps!Idle # [pc |-> "ended"]
  BY DEF Maps!Idle
<1>3. Maps!Idle \notin Busy /\ [pc |-> "ended"] \notin Busy
  BY <1>2, BusyFields
<1> QED BY <1>1, <1>2, <1>3, BusyFields

LEMMA FailuresFinite == ASSUME Maps!Sizes PROVE IsFiniteSet(Failures) /\ Cardinality(Failures) \in Nat
<1>1. Failures \subseteq 1..Cells BY DEF Failures
<1>2. IsFiniteSet(1..Cells) BY FS_Interval DEF Maps!Sizes
<1>3. IsFiniteSet(Failures) BY <1>1, <1>2, FS_Subset
<1> QED BY <1>3, FS_CardinalityType

\* If all cells failed, and only then, their number is that of the cells.
LEMMA AllFailed ==
    ASSUME Maps!Sizes
    PROVE  /\ Cardinality(Failures) <= Cells
           /\ Cardinality(Failures) = Cells => Failures = 1..Cells
<1>1. Failures \subseteq 1..Cells BY DEF Failures
<1>2. IsFiniteSet(1..Cells) /\ Cardinality(1..Cells) = Cells
  BY FS_Interval DEF Maps!Sizes
<1> QED BY <1>1, <1>2, FS_Subset

-------------------------------------------------------------------------------
(***************************************************************************)
(* The steps.                                                              *)
(***************************************************************************)
LEMMA MapStart == ASSUME Maps!Sizes, Maps!Init PROVE MapInv
<1>1. MapTypes
  <2>1. fed \in 0..Cells
    BY DEF Maps!Init, Maps!Sizes
  <2>2. worker \in [MapWorkers -> {Maps!Idle, [pc |-> "ended"]} \cup Busy]
    BY DEF Maps!Init
  <2>3. frame \in [1..Cells -> {"0", "percent", "n/a"}]
    BY DEF Maps!Init
  <2> QED BY <2>1, <2>2, <2>3 DEF Maps!Init, MapTypes
<1>2. \A w \in MapWorkers : worker[w] = Maps!Idle /\ worker[w].pc = "idle" /\ worker[w] \notin Busy
  BY BusyFields DEF Maps!Init, Maps!Idle
<1>3. Failures = {}
  BY <1>2 DEF Failures, Marks, Maps!Init
<1>4. FailuresCounted
  BY <1>3, FS_EmptySet DEF FailuresCounted, Maps!Init
<1>5. CellsShared
  BY <1>2 DEF CellsShared, Works, Maps!Init, Maps!Sizes
<1>6. Closing /\ Maps!MapWhole
  BY <1>2 DEF Closing, Maps!MapWhole, Maps!Init, Maps!Sizes
<1> QED BY <1>1, <1>4, <1>5, <1>6 DEF MapInv

\* After the answer nothing happens.
LEMMA NothingAfter ==
    ASSUME Maps!Sizes, MapInv, Maps!Next
    PROVE  answer = None
<1> SUFFICES ASSUME answer # None PROVE FALSE
  OBVIOUS
<1>1. \A w \in MapWorkers : worker[w].pc = "ended"
  BY DEF MapInv, Closing, Maps!AllEnded
<1>2. closedCh
  BY DEF MapInv, Closing
<1>3. \A w \in MapWorkers : worker[w] # Maps!Idle
  BY <1>1 DEF Maps!Idle
<1> QED BY <1>1, <1>2, <1>3 DEF Maps!Next, Maps!Cancel, Maps!CloseCells, Maps!Return, Maps!Feed, Maps!Predicted, Maps!CountFailure, Maps!MarkFailure, Maps!EndWorker

\* Steps that leave the goroutines and the frames alone.
LEMMA SameCells ==
    ASSUME MapInv, UNCHANGED <<fed, worker, frame, failed, firstErr>>
    PROVE  CellsShared' /\ FailuresCounted'
BY DEF MapInv, CellsShared, FailuresCounted, Works, Failures, Marks

LEMMA CancelInv == ASSUME Maps!Sizes, MapInv, Maps!Cancel PROVE MapInv'
<1>1. CellsShared' /\ FailuresCounted'
  BY SameCells DEF Maps!Cancel
<1>2. MapTypes' /\ Closing' /\ Maps!MapWhole'
  BY DEF Maps!Cancel, MapInv, MapTypes, Closing, Maps!MapWhole, Maps!AllEnded
<1> QED BY <1>1, <1>2 DEF MapInv

LEMMA CloseInv == ASSUME Maps!Sizes, MapInv, Maps!CloseCells PROVE MapInv'
<1>1. CellsShared' /\ FailuresCounted'
  BY SameCells DEF Maps!CloseCells
<1>2. MapTypes' /\ Closing' /\ Maps!MapWhole'
  BY DEF Maps!CloseCells, MapInv, MapTypes, Closing, Maps!MapWhole, Maps!AllEnded
<1> QED BY <1>1, <1>2 DEF MapInv

\* All have ended: nobody works on a cell, and with all cells sent none is at 0 percent.
LEMMA ReturnInv == ASSUME Maps!Sizes, MapInv, Maps!Return PROVE MapInv'
<1>1. CellsShared' /\ FailuresCounted'
  BY SameCells DEF Maps!Return
<1>2. MapTypes' /\ Closing'
  BY DEF Maps!Return, MapInv, MapTypes, Closing, Maps!AllEnded
<1>3. \A w \in MapWorkers : worker[w] \notin Busy
  BY BusyByPc DEF Maps!Return, Maps!AllEnded, MapInv
<1>4. Failures = {c \in 1..Cells : frame[c] = "n/a"}
  BY <1>3 DEF Failures, Marks
<1>5. ~cancelled => \A c \in 1..Cells : frame[c] # "0"
  BY <1>3 DEF Maps!Return, MapInv, MapTypes, Closing, CellsShared, Works
<1>6. failed = Cardinality(Failures) /\ failed \in Nat
  BY DEF MapInv, FailuresCounted, MapTypes
<1>7. answer' = "map" => ~cancelled /\ failed # Cells
  BY DEF Maps!Return
<1>8. answer' = "error" => failed = Cells
  BY DEF Maps!Return
<1>9. /\ failed = Cells => firstErr # None /\ Failures = 1..Cells
      /\ failed # Cells => failed < Cells
  BY <1>6, AllFailed DEF MapInv, FailuresCounted, Maps!Sizes
<1>10. Maps!MapWhole'
  BY <1>4, <1>5, <1>6, <1>7, <1>8, <1>9, SameCardinality DEF Maps!MapWhole, Maps!Return, Maps!AllEnded
<1> QED BY <1>1, <1>2, <1>10 DEF MapInv

\* A goroutine gets a new value, and the others keep theirs.
LEMMA Others ==
    ASSUME MapTypes, NEW w \in MapWorkers, NEW to, Maps!Goto(w, to)
    PROVE  /\ worker'[w] = to
           /\ \A v \in MapWorkers \ {w} : worker'[v] = worker[v]
BY DEF Maps!Goto, MapTypes

LEMMA FeedInv == ASSUME Maps!Sizes, MapInv, answer = None, NEW w \in MapWorkers, Maps!Feed(w) PROVE MapInv'
<1> DEFINE to == [pc |-> "predict", cell |-> fed + 1]
<1>1. fed + 1 \in 1..Cells /\ to \in Busy /\ to.pc = "predict" /\ to.cell = fed + 1
  <2>1. fed + 1 \in 1..Cells
    BY DEF Maps!Feed, MapInv, MapTypes, Maps!Sizes
  <2> QED BY <2>1 DEF Busy
<1>2. worker'[w] = to /\ \A v \in MapWorkers \ {w} : worker'[v] = worker[v]
  BY Others DEF Maps!Feed, MapInv
<1>3. worker[w] \notin Busy
  BY BusyFields DEF Maps!Feed
<1>4. MapTypes'
  <2>1. worker' = [worker EXCEPT ![w] = to]
    BY DEF Maps!Feed, Maps!Goto
  <2> QED BY <1>1, <2>1 DEF Maps!Feed, MapInv, MapTypes
<1>5. \A v \in MapWorkers, c \in 1..Cells :
         /\ Works(v, c)' <=> Works(v, c) \/ (v = w /\ c = fed + 1)
         /\ Marks(v, c)' <=> Marks(v, c)
  BY <1>1, <1>2, <1>3 DEF Works, Marks
<1>6. CellsShared'
  BY <1>1, <1>5 DEF Maps!Feed, MapInv, MapTypes, CellsShared
<1>7. Failures' = Failures
  BY <1>5 DEF Failures, Maps!Feed
<1>8. FailuresCounted'
  BY <1>7 DEF Maps!Feed, MapInv, FailuresCounted
<1>9. Closing' /\ Maps!MapWhole'
  <2>1. to.pc # "ended"
    BY <1>1
  <2> QED BY <1>2, <2>1 DEF Maps!Feed, MapInv, Closing, Maps!MapWhole, Maps!Sizes
<1> QED BY <1>4, <1>6, <1>8, <1>9 DEF MapInv

\* A goroutine is done with its cell: the frame is written and it waits again.
LEMMA Written ==
    ASSUME Maps!Sizes, MapInv, NEW w \in MapWorkers, NEW c \in 1..Cells, Works(w, c), NEW value \in {"percent", "n/a"},
           frame' = [frame EXCEPT ![c] = value], Maps!Goto(w, Maps!Idle), UNCHANGED fed
    PROVE  /\ CellsShared'
           /\ \A v \in MapWorkers, b \in 1..Cells : Marks(v, b)' <=> Marks(v, b) /\ v # w
           /\ \A b \in 1..Cells : frame'[b] = IF b = c THEN value ELSE frame[b]
<1>1. worker'[w] = Maps!Idle /\ \A v \in MapWorkers \ {w} : worker'[v] = worker[v]
  BY Others DEF MapInv
<1>2. Maps!Idle \notin Busy
  BY BusyFields
<1>3. \A b \in 1..Cells : frame'[b] = IF b = c THEN value ELSE frame[b]
  BY DEF MapInv, MapTypes
<1>4. \A v \in MapWorkers, b \in 1..Cells :
         /\ Works(v, b)' <=> Works(v, b) /\ v # w
         /\ Marks(v, b)' <=> Marks(v, b) /\ v # w
  BY <1>1, <1>2 DEF Works, Marks
<1>5. \A b \in 1..Cells : Works(w, b) => b = c
  BY DEF Works
<1>6. CellsShared'
  <2>1. \A v \in MapWorkers, b \in 1..Cells : Works(v, b)' => b <= fed' /\ frame'[b] = "0"
    BY <1>3, <1>4 DEF MapInv, CellsShared
  <2>2. \A u, v \in MapWorkers, b \in 1..Cells : Works(u, b)' /\ Works(v, b)' => u = v
    BY <1>4 DEF MapInv, CellsShared
  <2>3. \A b \in 1..Cells : b <= fed' /\ frame'[b] = "0" => \E v \in MapWorkers : Works(v, b)'
    <3> SUFFICES ASSUME NEW b \in 1..Cells, b <= fed', frame'[b] = "0" PROVE \E v \in MapWorkers : Works(v, b)'
      OBVIOUS
    <3>1. b # c /\ frame[b] = "0" /\ b <= fed
      BY <1>3
    <3>2. PICK v \in MapWorkers : Works(v, b)
      BY <3>1 DEF MapInv, CellsShared
    <3> QED BY <3>1, <3>2, <1>4, <1>5
  <2>4. \A b \in 1..Cells : b > fed' => frame'[b] = "0"
    BY <1>3 DEF MapInv, CellsShared, MapTypes
  <2> QED BY <2>1, <2>2, <2>3, <2>4 DEF CellsShared
<1> QED BY <1>3, <1>4, <1>6

LEMMA PredictedInv == ASSUME Maps!Sizes, MapInv, answer = None, NEW w \in MapWorkers, Maps!Predicted(w) PROVE MapInv'
<1> DEFINE c == worker[w].cell
<1>1. worker[w] \in Busy /\ c \in 1..Cells /\ Works(w, c) /\ worker[w].pc = "predict"
  BY BusyByPc, BusyFields DEF Maps!Predicted, Works, MapInv
<1>2. frame' = [frame EXCEPT ![c] = "percent"] /\ Maps!Goto(w, Maps!Idle) /\ UNCHANGED fed
  BY DEF Maps!Predicted
<1> HIDE DEF c
<1>3. /\ CellsShared'
      /\ \A v \in MapWorkers, b \in 1..Cells : Marks(v, b)' <=> Marks(v, b) /\ v # w
      /\ \A b \in 1..Cells : frame'[b] = IF b = c THEN "percent" ELSE frame[b]
  BY <1>1, <1>2, Written
<1>4. frame[c] = "0"
  BY <1>1 DEF MapInv, CellsShared
<1>5. \A b \in 1..Cells : ~Marks(w, b)
  BY <1>1 DEF Marks
<1>6. Failures' = Failures
  BY <1>3, <1>4, <1>5 DEF Failures
<1>7. FailuresCounted'
  BY <1>6 DEF Maps!Predicted, MapInv, FailuresCounted
<1>8. MapTypes'
  BY <1>1, <1>2 DEF Maps!Goto, Maps!Predicted, MapInv, MapTypes
<1>9. Closing' /\ Maps!MapWhole'
  BY Others DEF Maps!Predicted, MapInv, Closing, Maps!MapWhole, Maps!Sizes, Maps!Idle
<1> QED BY <1>3, <1>7, <1>8, <1>9 DEF MapInv

LEMMA MarkInv == ASSUME Maps!Sizes, MapInv, answer = None, NEW w \in MapWorkers, Maps!MarkFailure(w) PROVE MapInv'
<1> DEFINE c == worker[w].cell
<1>1. worker[w] \in Busy /\ c \in 1..Cells /\ Works(w, c) /\ Marks(w, c)
  BY BusyByPc, BusyFields DEF Maps!MarkFailure, Works, Marks, MapInv
<1>2. frame' = [frame EXCEPT ![c] = "n/a"] /\ Maps!Goto(w, Maps!Idle) /\ UNCHANGED fed
  BY DEF Maps!MarkFailure
<1>3. \A b \in 1..Cells : Marks(w, b) => b = c
  BY DEF Marks
<1> HIDE DEF c
<1>4. /\ CellsShared'
      /\ \A v \in MapWorkers, b \in 1..Cells : Marks(v, b)' <=> Marks(v, b) /\ v # w
      /\ \A b \in 1..Cells : frame'[b] = IF b = c THEN "n/a" ELSE frame[b]
  BY <1>1, <1>2, Written
<1>5. Failures' = Failures
  BY <1>1, <1>3, <1>4 DEF Failures
<1>6. FailuresCounted'
  BY <1>5 DEF Maps!MarkFailure, MapInv, FailuresCounted
<1>7. MapTypes'
  BY <1>1, <1>2 DEF Maps!Goto, Maps!MarkFailure, MapInv, MapTypes
<1>8. Closing' /\ Maps!MapWhole'
  BY Others DEF Maps!MarkFailure, MapInv, Closing, Maps!MapWhole, Maps!Sizes, Maps!Idle
<1> QED BY <1>4, <1>6, <1>7, <1>8 DEF MapInv

\* A failure is counted once: its cell was not among those that are marked or about to be.
LEMMA CountInv == ASSUME Maps!Sizes, MapInv, answer = None, NEW w \in MapWorkers, Maps!CountFailure(w) PROVE MapInv'
<1> DEFINE c == worker[w].cell
           to == [worker[w] EXCEPT !.pc = "mark"]
<1>1. worker[w] \in Busy /\ c \in 1..Cells /\ Works(w, c) /\ worker[w].pc = "predict"
  BY BusyByPc, BusyFields DEF Maps!CountFailure, Works, MapInv
<1>2. to \in Busy /\ to.pc = "mark" /\ to.cell = c
  BY <1>1 DEF Busy
<1>3. Maps!Goto(w, to)
  BY DEF Maps!CountFailure
<1> HIDE DEF c, to
<1>4. worker'[w] = to /\ \A v \in MapWorkers \ {w} : worker'[v] = worker[v]
  BY <1>3, Others DEF MapInv
<1>5. \A v \in MapWorkers, b \in 1..Cells :
         /\ Works(v, b)' <=> Works(v, b)
         /\ Marks(v, b)' <=> Marks(v, b) \/ (v = w /\ b = c)
  BY <1>1, <1>2, <1>4 DEF Works, Marks
<1>6. CellsShared'
  BY <1>5 DEF Maps!CountFailure, MapInv, CellsShared
<1>7. frame[c] = "0" /\ \A v \in MapWorkers : ~Marks(v, c)
  BY <1>1 DEF MapInv, CellsShared, Works, Marks
<1>8. Failures' = Failures \cup {c} /\ c \notin Failures
  BY <1>1, <1>5, <1>7 DEF Failures, Maps!CountFailure
<1>9. Cardinality(Failures') = Cardinality(Failures) + 1
  BY <1>8, FailuresFinite, FS_AddElement
<1>10. FailuresCounted'
  BY <1>1, <1>9 DEF Maps!CountFailure, MapInv, FailuresCounted, MapTypes, Maps!Sizes, c
<1>11. MapTypes'
  BY <1>1, <1>2, <1>3 DEF Maps!Goto, Maps!CountFailure, MapInv, MapTypes, c
<1>12. Closing' /\ Maps!MapWhole'
  BY <1>2, <1>4 DEF Maps!CountFailure, MapInv, Closing, Maps!MapWhole, Maps!Sizes
<1> QED BY <1>6, <1>10, <1>11, <1>12 DEF MapInv

LEMMA EndInv == ASSUME Maps!Sizes, MapInv, answer = None, NEW w \in MapWorkers, Maps!EndWorker(w) PROVE MapInv'
<1> DEFINE to == [pc |-> "ended"]
<1>1. worker'[w] = to /\ \A v \in MapWorkers \ {w} : worker'[v] = worker[v]
  BY Others DEF Maps!EndWorker, MapInv
<1>2. worker[w] \notin Busy /\ to \notin Busy
  BY BusyFields DEF Maps!EndWorker
<1>3. \A v \in MapWorkers, c \in 1..Cells : (Works(v, c)' <=> Works(v, c)) /\ (Marks(v, c)' <=> Marks(v, c))
  BY <1>1, <1>2 DEF Works, Marks
<1>4. CellsShared' /\ Failures' = Failures
  BY <1>3 DEF Maps!EndWorker, MapInv, CellsShared, Failures
<1>5. FailuresCounted'
  BY <1>4 DEF Maps!EndWorker, MapInv, FailuresCounted
<1>6. MapTypes'
  BY DEF Maps!Goto, Maps!EndWorker, MapInv, MapTypes
<1>7. Closing' /\ Maps!MapWhole'
  BY DEF Maps!EndWorker, MapInv, Closing, Maps!MapWhole, Maps!Sizes
<1> QED BY <1>4, <1>5, <1>6, <1>7 DEF MapInv

LEMMA MapsStep == ASSUME Maps!Sizes, MapInv, Maps!Next \/ UNCHANGED maps PROVE MapInv'
<1>1. CASE Maps!Next
  <2>1. answer = None
    BY <1>1, NothingAfter
  <2> QED BY <1>1, <2>1, CancelInv, CloseInv, ReturnInv, FeedInv, PredictedInv, CountInv, MarkInv, EndInv DEF Maps!Next
<1>2. CASE UNCHANGED maps
  <2>1. CellsShared' /\ FailuresCounted'
    BY <1>2, SameCells DEF maps
  <2>2. MapTypes' /\ Closing' /\ Maps!MapWhole'
    BY <1>2 DEF maps, MapInv, MapTypes, Closing, Maps!MapWhole, Maps!AllEnded
  <2> QED BY <2>1, <2>2 DEF MapInv
<1> QED BY <1>1, <1>2

\* A step of the services is one of the maps, or leaves them alone.
LEMMA FocusedMaps ==
  ASSUME [ServicesNext]_all
  PROVE  focus' = focus /\ (focus = "maps" => Maps!Next \/ UNCHANGED maps)
BY DEF ServicesNext, all, hf

\* hfMapCompute (web/hfmap.go) returns whole maps only, whatever order the goroutines finish in and whenever the
\* context ends.
THEOREM MapsWhole == ServicesSpec => []MapWhole
<1>1. ServicesInit => (focus = "maps" => MapInv)
  BY MapStart, ServicesGiven DEF ServicesInit
<1>2. (focus = "maps" => MapInv) /\ [ServicesNext]_all => (focus = "maps" => MapInv)'
  BY FocusedMaps, MapsStep, ServicesGiven
<1>3. (focus = "maps" => MapInv) => MapWhole
  BY DEF MapInv, MapWhole
<1> QED BY <1>1, <1>2, <1>3, PTL DEF ServicesSpec

-------------------------------------------------------------------------------
(***************************************************************************)
(* Predictions.  What a routine reads was computed for the run or is       *)
(* Optional: it follows from what the routines before it have written,     *)
(* which depends on the path alone.                                        *)
(***************************************************************************)
Names ==
    ControlPoints \cup
    {"distance", "season", "mp.hr", "dmax", "n0_F2", "n0_E", "BMUF", "muf", "OPMUF", "ptick", "ele", "Es", "El",
     "Ei", "long", "ref", "Pr", "Ep", "Grw", "DM", "noise", "SNR", "decile", "BCR", "spread", "SIR", "MIR", "OCRs",
     "SNRXX"}

Has(n) == val[<<"path", 0, n>>] # None
HasM(m, a) == val[<<m[1], m[2], a>>] # None

LEMMA Named == \A n \in Names : <<"path", 0, n>> \in Fields
BY DEF Names, Fields, Of

LEMMA Attributed == \A m \in Modes, a \in Attributes : <<m[1], m[2], a>> \in Fields
BY DEF Fields, Each

LEMMA InOf == \A S, n : <<"path", 0, n>> \in Of(S) <=> n \in S
BY DEF Of

LEMMA ModeIs == \A m \in Modes : m = <<m[1], m[2]>> /\ m[1] \in {"E", "F2"} /\ m[2] \in 0..5
BY DEF Modes, E, F2

LEMMA InEach ==
  ASSUME NEW S, S \subseteq Modes, NEW A, NEW m \in Modes, NEW a
  PROVE  <<m[1], m[2], a>> \in Each(S, A) <=> m \in S /\ a \in A
<1>1. <<m[1], m[2], a>> \in Each(S, A) <=> \E k \in S, b \in A : <<m[1], m[2], a>> = <<k[1], k[2], b>>
  BY DEF Each
<1>2. ASSUME NEW k \in S, NEW b \in A, <<m[1], m[2], a>> = <<k[1], k[2], b>> PROVE m \in S /\ a \in A
  <2>1. m[1] = k[1] /\ m[2] = k[2] /\ a = b
    BY <1>2
  <2>2. k \in Modes
    BY <1>2
  <2>3. m = k
    BY <2>1, <2>2, ModeIs
  <2> QED BY <2>1, <2>3
<1> QED BY <1>1, <1>2

LEMMA ApartFields ==
  ASSUME NEW S, S \subseteq Modes, NEW A, NEW X
  PROVE  /\ \A n : <<"path", 0, n>> \notin Each(S, A)
         /\ \A m \in Modes : \A a : <<m[1], m[2], a>> \notin Of(X)
<1>1. ASSUME NEW n, <<"path", 0, n>> \in Each(S, A) PROVE FALSE
  <2>1. PICK k \in S, b \in A : <<"path", 0, n>> = <<k[1], k[2], b>>
    BY <1>1 DEF Each
  <2>2. k[1] = "path" /\ k \in Modes
    BY <2>1
  <2> QED BY <2>2, ModeIs
<1>2. ASSUME NEW m \in Modes, NEW a, <<m[1], m[2], a>> \in Of(X) PROVE FALSE
  <2>1. m[1] = "path"
    BY <1>2 DEF Of
  <2> QED BY <2>1, ModeIs
<1> QED BY <1>1, <1>2

(***************************************************************************)
(* A routine.                                                              *)
(***************************************************************************)
Fine(f) == f \in Fields /\ (val[f] # None \/ f \in Optional)
Fresh == val \in [Fields -> {None, Now}] /\ Now # None /\ wrong = {}

LEMMA FineOf ==
  ASSUME NEW S, \A n \in S : n \in Names /\ (Has(n) \/ <<"path", 0, n>> \in Optional)
  PROVE  \A f \in Of(S) : Fine(f)
BY Named DEF Of, Fine, Has

LEMMA FineEach ==
  ASSUME NEW M, M \subseteq Modes, NEW A, A \subseteq Attributes,
         \A m \in M, a \in A : HasM(m, a) \/ <<m[1], m[2], a>> \in Optional
  PROVE  \A f \in Each(M, A) : Fine(f)
BY Attributed DEF Each, Fine, HasM

LEMMA ComputeStep ==
  ASSUME Fresh, NEW to, NEW reads, NEW writes, NEW by, by = Now, Compute(to, reads, writes, by), \A f \in reads : Fine(f)
  PROVE  /\ pc' = to /\ wrong' = {} /\ val' \in [Fields -> {None, Now}]
         /\ \A f \in Fields : val'[f] # None <=> val[f] # None \/ f \in writes
<1>1. PICK old : old = val
  OBVIOUS
<1>2. val' = [f \in Fields |-> IF f \in writes THEN by ELSE old[f]] /\ pc' = to
  BY <1>1 DEF Compute, Fresh
<1>3. \A f \in Fields : old[f] = None \/ old[f] = Now
  BY <1>1 DEF Fresh
<1>4. Now # None
  BY DEF Fresh
<1>5. PICK moment : moment = Now
  OBVIOUS
<1>6. val' \in [Fields -> {None, moment}] /\ \A f \in Fields : val'[f] # None <=> old[f] # None \/ f \in writes
  BY <1>2, <1>3, <1>4, <1>5
<1>7. {f \in reads : val[f] = None} \ Optional = {}
  BY DEF Fine
<1>8. {f \in reads \ {g \in reads : val[g] = None} : val[f] # Now} = {}
  BY <1>1, <1>3 DEF Fine
<1>9. wrong' = {}
  BY <1>7, <1>8 DEF Compute, Fresh
<1> QED BY <1>1, <1>2, <1>5, <1>6, <1>9

Grows == UNCHANGED path /\ \A f \in Fields : val[f] # None => val'[f] # None
SameModes == Existing' = Existing /\ (HasE' <=> HasE)
SameScreening == \A m \in Modes : HasM(m, "fs")' <=> HasM(m, "fs")

\* A routine reads R and writes the fields N of the path and the attributes A of the modes M.
Applied(to, R, N, M, A) ==
    /\ Compute(to, R, Of(N) \cup Each(M, A), Now) /\ UNCHANGED path
    /\ \A f \in R : Fine(f)
    /\ M \subseteq Modes

LEMMA Effect ==
  ASSUME NEW to, NEW R, NEW N, NEW M, NEW A, Fresh, Applied(to, R, N, M, A)
  PROVE  /\ pc' = to /\ wrong' = {} /\ val' \in [Fields -> {None, Now}]
         /\ Grows
         /\ "BMUF" \notin A /\ "n0_E" \notin N => SameModes
         /\ "fs" \notin A => SameScreening
         /\ \A n \in Names : Has(n)' <=> Has(n) \/ n \in N
         /\ \A m \in Modes, a \in Attributes : HasM(m, a)' <=> HasM(m, a) \/ (m \in M /\ a \in A)
<1>1. PICK writes : writes = Of(N) \cup Each(M, A)
  OBVIOUS
<1>2. /\ pc' = to /\ wrong' = {} /\ val' \in [Fields -> {None, Now}]
      /\ \A f \in Fields : val'[f] # None <=> val[f] # None \/ f \in writes
  <2>1. Compute(to, R, writes, Now) /\ \A f \in R : Fine(f)
    BY <1>1 DEF Applied
  <2> QED BY <2>1, ComputeStep
<1>3. \A n \in Names : Has(n)' <=> Has(n) \/ n \in N
  <2>1. \A n \in Names : <<"path", 0, n>> \in writes <=> n \in N
    BY <1>1, InOf, ApartFields DEF Applied
  <2> QED BY <1>2, <2>1, Named DEF Has
<1>4. \A m \in Modes, a \in Attributes : HasM(m, a)' <=> HasM(m, a) \/ (m \in M /\ a \in A)
  <2>1. \A m \in Modes, a \in Attributes : <<m[1], m[2], a>> \in writes <=> m \in M /\ a \in A
    BY <1>1, InEach, ApartFields DEF Applied
  <2> QED BY <1>2, <2>1, Attributed DEF HasM
<1>5. ASSUME "BMUF" \notin A, "n0_E" \notin N PROVE SameModes
  <2>1. \A m \in Modes : HasM(m, "BMUF")' <=> HasM(m, "BMUF")
    BY <1>4, <1>5 DEF Attributes
  <2>2. Has("n0_E")' <=> Has("n0_E")
    BY <1>3, <1>5 DEF Names
  <2> QED BY <2>1, <2>2 DEF SameModes, Existing, HasE, Has, HasM
<1>6. "fs" \notin A => SameScreening
  BY <1>4 DEF SameScreening, Attributes
<1>7. Grows
  BY <1>2 DEF Grows, Applied
<1> QED BY <1>2, <1>3, <1>4, <1>5, <1>6, <1>7

(***************************************************************************)
(* What applies to a path.                                                 *)
(***************************************************************************)
PathOK ==
    /\ path.distance \in Distances /\ path.digital \in BOOLEAN
    /\ path.horizon \in Horizons /\ path.dmax \in Dmaxes

Lays(h, n) == h * (n + 1) > d /\ \A k \in 0..(n - 1) : h * (k + 1) =< d

LEMMA HopsOf == ASSUME NEW h \in Nat, d \in Nat, NEW n \in Nat, h * n =< d, h * (n + 1) > d PROVE Lays(h, n)
<1>1. ASSUME NEW k \in 0..(n - 1) PROVE h * (k + 1) =< d
  <2>1. k \in Nat /\ k + 1 =< n
    OBVIOUS
  <2>2. h * (k + 1) =< h * n
    BY <2>1
  <2>3. h * (k + 1) \in Nat /\ h * n \in Nat
    BY <2>1
  <2> QED BY <2>2, <2>3
<1> QED BY <1>1 DEF Lays

LEMMA HopChosen ==
  ASSUME NEW h, NEW last, \E n \in 0..last : Lays(h, n)
  PROVE  FirstHop(h, last) \in 0..last /\ Lays(h, FirstHop(h, last))
BY DEF FirstHop, Lays

LEMMA HopsF2 == ASSUME d \in Nat, d =< 9000, NEW h \in Nat, 6 * h > 9000 PROVE FirstHop(h, 5) \in 0..5
<1>1. \/ h * 0 =< d /\ h * (0 + 1) > d
      \/ h * 1 =< d /\ h * (1 + 1) > d
      \/ h * 2 =< d /\ h * (2 + 1) > d
      \/ h * 3 =< d /\ h * (3 + 1) > d
      \/ h * 4 =< d /\ h * (4 + 1) > d
      \/ h * 5 =< d /\ h * (5 + 1) > d
  OBVIOUS
<1>2. Lays(h, 0) \/ Lays(h, 1) \/ Lays(h, 2) \/ Lays(h, 3) \/ Lays(h, 4) \/ Lays(h, 5)
  BY <1>1, HopsOf
<1> QED BY <1>2, HopChosen

LEMMA HopsE == ASSUME d \in Nat, d < 4000 PROVE FirstHop(1777, 2) \in 0..2 /\ Lays(1777, FirstHop(1777, 2))
<1>1. \/ 1777 * 0 =< d /\ 1777 * (0 + 1) > d
      \/ 1777 * 1 =< d /\ 1777 * (1 + 1) > d
      \/ 1777 * 2 =< d /\ 1777 * (2 + 1) > d
  OBVIOUS
<1>2. Lays(1777, 0) \/ Lays(1777, 1) \/ Lays(1777, 2)
  BY <1>1, HopsOf
<1> QED BY <1>2, HopChosen

LEMMA PathFacts ==
  ASSUME PathOK
  PROVE  /\ d \in Nat /\ path.dmax \in Nat /\ path.dmax >= 2000 /\ path.dmax =< 4000
         /\ WithinDmax <=> d =< path.dmax
         /\ d =< 9000 => n0_F2 \in 0..5 /\ LayerF2 \subseteq Modes
         /\ d < 4000 => n0_E \in 0..2 /\ d =< 2000 * (n0_E + 1) /\ {E(n) : n \in n0_E..2} \subseteq Modes
<1>1. d \in Nat /\ path.dmax \in Nat /\ path.dmax >= 2000 /\ path.dmax =< 4000 /\ path.horizon \in Nat /\ 6 * path.horizon > 9000
  <2>1. PICK h, x, y : h = path.horizon /\ x = path.distance /\ y = path.dmax
    OBVIOUS
  <2>2. h \in Horizons /\ x \in Distances /\ y \in Dmaxes
    BY <2>1 DEF PathOK
  <2>3. Distances \subseteq Nat /\ Dmaxes \subseteq 2000..4000 /\ \A z \in Horizons : z \in Nat /\ 6 * z > 9000
    BY RequestGiven
  <2>4. h \in Nat /\ 6 * h > 9000
    BY <2>2, <2>3
  <2>5. x \in Nat /\ y \in Nat /\ y >= 2000 /\ y =< 4000
    BY <2>2, <2>3
  <2> QED BY <2>1, <2>4, <2>5 DEF d
<1>2. ASSUME d =< 9000 PROVE n0_F2 \in 0..5
  BY <1>1, <1>2, HopsF2 DEF n0_F2
<1>3. n0_F2 \in 0..5 => LayerF2 \subseteq Modes
  BY DEF LayerF2, Modes
<1>4. ASSUME d < 4000 PROVE n0_E \in 0..2 /\ Lays(1777, n0_E)
  BY <1>1, <1>4, HopsE DEF n0_E, EHorizon
<1>5. n0_E \in 0..2 /\ Lays(1777, n0_E) => d =< 2000 * (n0_E + 1)
  BY <1>1 DEF Lays
<1>6. n0_E \in 0..2 => {E(n) : n \in n0_E..2} \subseteq Modes
  BY DEF Modes
<1> QED BY <1>1, <1>2, <1>3, <1>4, <1>5, <1>6 DEF WithinDmax

LEMMA SamePath ==
  ASSUME path' = path
  PROVE  d' = d /\ n0_F2' = n0_F2 /\ n0_E' = n0_E /\ LayerF2' = LayerF2 /\ (WithinDmax' <=> WithinDmax) /\ (PathOK' <=> PathOK)
<1>1. d' = d
  BY DEF d
<1>2. n0_F2' = n0_F2 /\ n0_E' = n0_E
  BY <1>1 DEF n0_F2, n0_E, FirstHop
<1> QED BY <1>1, <1>2 DEF LayerF2, WithinDmax, PathOK

\* The modes that exist once mufBasic has run.
There == (IF d =< 9000 THEN LayerF2 ELSE {}) \cup (IF d < 4000 THEN {E(n) : n \in n0_E..2} ELSE {})

LEMMA ModesThere == ASSUME PathOK PROVE There \subseteq Modes
BY PathFacts DEF There

\* With its lowest mode all E modes are considered.
LEMMA ConsideredModes ==
  ASSUME PathOK, Existing = There, HasE <=> d < 4000
  PROVE  /\ ConsideredE = (IF d < 4000 THEN {E(n) : n \in n0_E..2} ELSE {})
         /\ CalculatedE = ConsideredE
         /\ ConsideredE \subseteq Existing
         /\ d =< 9000 => ConsideredF2 \subseteq LayerF2 /\ Considered \subseteq Existing
<1>1. ConsideredE = (IF d < 4000 THEN {E(n) : n \in n0_E..2} ELSE {})
  BY PathFacts DEF ConsideredE, LayerE, There
<1>2. CalculatedE = ConsideredE
  <2>1. CASE d < 4000
    <3>1. \A n : E(n)[2] = n
      BY DEF E
    <3>2. ASSUME NEW n \in n0_E..2 PROVE \A k \in n0_E..E(n)[2] : E(k) \in ConsideredE
      BY <1>1, <2>1, <3>1, PathFacts
    <3> QED BY <1>1, <2>1, <3>2 DEF CalculatedE
  <2>2. CASE ~(d < 4000)
    BY <1>1, <2>2 DEF CalculatedE
  <2> QED BY <2>1, <2>2
<1>3. ConsideredE \subseteq Existing
  BY <1>1 DEF There
<1>4. ConsideredF2 \subseteq LayerF2
  BY DEF ConsideredF2, LayerF2
<1> QED BY <1>1, <1>2, <1>3, <1>4 DEF Considered, There

(***************************************************************************)
(* What each routine leaves to those after it.                             *)
(***************************************************************************)
LaidF2 == IF d =< 9000 THEN LayerF2 ELSE {}
LaidE == IF d < 4000 THEN {E(n) : n \in n0_E..2} ELSE {}

Located == Has("distance") /\ Has("season") /\ Has("mp") /\ (d >= 2000 => Has("t1k") /\ Has("r1k"))
BasicF2 ==
    d =< 9000 => /\ Has("mp.hr") /\ Has("n0_F2") /\ Has("dmax") /\ Has("BMUF")
                 /\ ~WithinDmax => Has("td02") /\ Has("rd02")
Laid == Existing = There /\ (HasE <=> d < 4000) /\ \A m \in LaidE : HasM(m, "hr")
Variability == d =< 9000 => Has("muf") /\ \A m \in There : HasM(m, "muf")
Operational == d =< 9000 => Has("OPMUF") /\ \A m \in There : HasM(m, "OPMUF")
Screening == d =< 4000 => \A m \in LaidF2 : HasM(m, "hr") /\ HasM(m, "fs")
FieldE == (d < 4000 => Has("ptick")) /\ \A m \in ConsideredE : HasM(m, "field")
FieldF2 == d =< 9000 => (ConsideredF2 # {} => Has("ptick")) /\ \A m \in ConsideredF2 : HasM(m, "field")
Sum == d =< 9000 => Has("Es")
LongLosses == d >= 7000 => Has("ptick") /\ Has("long")
LongReferences == d >= 7000 => Has("ref") /\ (d > 9000 => Has("BMUF") /\ Has("muf") /\ Has("OPMUF"))
LongFields == d >= 7000 => Has("El") /\ (d > 9000 => Has("ele") /\ Has("dmax"))
Interpolated == 7000 < d /\ d < 9000 => Has("Ei")
Received ==
    /\ Has("Pr") /\ Has("Ep")
    /\ d > 7000 \/ Considered # {} => Has("Grw") /\ Has("ele")
    /\ d =< 7000 => \A m \in Considered : HasM(m, "power")
Delays == path.digital => \A m \in There : HasM(m, "tau")
Reliability == Has("SNR") /\ Has("decile") /\ Has("BCR")

\* By which routine they hold.
ToModes == Located /\ BasicF2 /\ Laid
ToMUFs == ToModes /\ Variability /\ Operational
ToScreening == ToMUFs /\ Screening
ToShort == ToScreening /\ FieldE /\ FieldF2 /\ Sum
ToLong == ToShort /\ LongLosses /\ LongReferences /\ LongFields
ToReceiver == ToLong /\ Interpolated /\ Received
ToDelays == ToReceiver /\ Has("noise") /\ Delays

Short == path.digital /\ d =< 9000

Ready ==
    /\ pc = "mufBasic" => Located /\ Existing = {} /\ ~HasE
    /\ pc = "mufBasicE" => Located /\ BasicF2 /\ Existing = LaidF2 /\ ~HasE
    /\ pc = "mufVariability" => ToModes
    /\ pc = "mufOperational" => ToModes /\ Variability
    /\ pc = "eLayerScreening" => ToMUFs
    /\ pc = "shortE" => ToScreening
    /\ pc = "shortF2" => ToScreening /\ FieldE
    /\ pc = "shortSum" => ToScreening /\ FieldE /\ FieldF2
    /\ pc = "long" => ToShort
    /\ pc = "longMUF" => ToShort /\ LongLosses
    /\ pc = "longField" => ToShort /\ LongLosses /\ LongReferences
    /\ pc \in {"longMUF", "longField"} => d >= 7000
    /\ pc = "between" => ToLong
    /\ pc = "receiver" => ToLong /\ Interpolated
    /\ pc = "noise" => ToReceiver
    /\ pc = "digital" => ToReceiver /\ Has("noise") /\ path.digital
    /\ pc = "circuitReliability" => ToDelays
    /\ pc = "OCR" => ToDelays /\ Reliability /\ Short
    /\ pc = "equatorialScattering" => ToDelays /\ Reliability /\ Short /\ Has("MIR")
    /\ pc = "SNRXX" => ToDelays /\ Reliability /\ (Short => Has("MIR"))
    /\ pc = "newPoint" => ToDelays /\ Reliability /\ (IF Short THEN Has("MIR") ELSE Has("SNRXX"))

LEMMA SameLaid == ASSUME path' = path PROVE LaidF2' = LaidF2 /\ LaidE' = LaidE /\ There' = There
BY SamePath DEF LaidF2, LaidE, There

LEMMA SameConsidered ==
  ASSUME PathOK, path' = path, SameModes, SameScreening
  PROVE  /\ ConsideredE' = ConsideredE
         /\ d =< 9000 => ConsideredF2' = ConsideredF2 /\ Considered' = Considered
<1>1. d' = d /\ n0_E' = n0_E /\ n0_F2' = n0_F2 /\ Existing' = Existing /\ (HasE' <=> HasE)
  BY SamePath DEF SameModes
<1>2. LayerE' = LayerE
  BY <1>1 DEF LayerE
<1>3. ConsideredE' = ConsideredE
  BY <1>1, <1>2 DEF ConsideredE
<1>4. ASSUME d =< 9000 PROVE ConsideredF2' = ConsideredF2
  <2>1. n0_F2 \in 0..5
    BY <1>4, PathFacts
  <2>2. \A k \in n0_F2..5 : Screened(k)' <=> Screened(k)
    <3>1. \A k \in n0_F2..5 : F2(k) \in Modes /\ F2(k)[1] = "F2" /\ F2(k)[2] = k
      BY <2>1 DEF Modes, F2
    <3>2. \A k \in n0_F2..5 : (val[<<"F2", k, "fs">>] # None)' <=> val[<<"F2", k, "fs">>] # None
      BY <3>1 DEF SameScreening, HasM
    <3> QED BY <1>1, <3>2 DEF Screened
  <2>3. \A k \in n0_F2..5 :
          (~Screened(k) /\ (IF k = n0_F2 THEN d =< path.dmax * (k + 1) ELSE F2(k) \in Existing))'
          <=> ~Screened(k) /\ (IF k = n0_F2 THEN d =< path.dmax * (k + 1) ELSE F2(k) \in Existing)
    BY <1>1, <2>2
  <2> QED BY <1>1, <2>3 DEF ConsideredF2
<1> QED BY <1>3, <1>4 DEF Considered

LEMMA Kept ==
  ASSUME Grows
  PROVE  /\ \A n \in Names : Has(n) => Has(n)'
         /\ \A m \in Modes, a \in Attributes : HasM(m, a) => HasM(m, a)'
BY Named, Attributed DEF Grows, Has, HasM

\* What holds by a routine holds after the routines that follow, in the stages of the modes and of the screening.
LEMMA KeptPath ==
  ASSUME PathOK, Grows
  PROVE  /\ Located => Located'
         /\ BasicF2 => BasicF2'
         /\ Variability => Variability'
         /\ Operational => Operational'
         /\ Screening => Screening'
         /\ Sum => Sum'
         /\ LongLosses => LongLosses'
         /\ LongReferences => LongReferences'
         /\ LongFields => LongFields'
         /\ Interpolated => Interpolated'
         /\ Delays => Delays'
         /\ Reliability => Reliability'
<1>1. path' = path
  BY DEF Grows
<1>2. d' = d /\ (WithinDmax' <=> WithinDmax) /\ There' = There /\ LaidF2' = LaidF2
  BY <1>1, SamePath, SameLaid
<1>3. There \subseteq Modes
  BY ModesThere
<1>4. d =< 4000 => LaidF2 \subseteq Modes
  BY PathFacts DEF LaidF2
<1>5. \A n \in Names : Has(n) => Has(n)'
  BY Kept
<1>6. \A m \in Modes, a \in Attributes : HasM(m, a) => HasM(m, a)'
  BY Kept
<1>7. Located => Located'
  BY <1>2, <1>5 DEF Located, Names, ControlPoints
<1>8. BasicF2 => BasicF2'
  BY <1>2, <1>5 DEF BasicF2, Names, ControlPoints
<1>9. Variability => Variability'
  BY <1>2, <1>3, <1>5, <1>6 DEF Variability, Names, Attributes
<1>10. Operational => Operational'
  BY <1>2, <1>3, <1>5, <1>6 DEF Operational, Names, Attributes
<1>11. Screening => Screening'
  BY <1>2, <1>4, <1>6 DEF Screening, Attributes
<1>12. (Sum => Sum') /\ (LongLosses => LongLosses')
  BY <1>2, <1>5 DEF Sum, LongLosses, Names
<1>13. (LongReferences => LongReferences') /\ (LongFields => LongFields')
  BY <1>2, <1>5 DEF LongReferences, LongFields, Names
<1>14. (Interpolated => Interpolated') /\ (Reliability => Reliability')
  BY <1>2, <1>5 DEF Interpolated, Reliability, Names
<1>15. Delays => Delays'
  BY <1>1, <1>2, <1>3, <1>6 DEF Delays, Attributes
<1> QED BY <1>7, <1>8, <1>9, <1>10, <1>11, <1>12, <1>13, <1>14, <1>15

LEMMA KeptModes == ASSUME PathOK, Grows, SameModes, Laid PROVE Laid'
<1>1. d' = d /\ There' = There /\ LaidE' = LaidE
  BY SamePath, SameLaid DEF Grows
<1>2. LaidE \subseteq Modes
  BY PathFacts DEF LaidE
<1>3. \A m \in Modes : HasM(m, "hr") => HasM(m, "hr")'
  BY Kept DEF Attributes
<1> QED BY <1>1, <1>2, <1>3 DEF Laid, SameModes

LEMMA KeptConsidered ==
  ASSUME PathOK, Grows, SameModes, SameScreening, Laid
  PROVE  (FieldE => FieldE') /\ (FieldF2 => FieldF2') /\ (Received => Received')
<1>1. d' = d
  BY SamePath DEF Grows
<1>2. ConsideredE' = ConsideredE /\ (d =< 9000 => ConsideredF2' = ConsideredF2 /\ Considered' = Considered)
  BY SameConsidered DEF Grows
<1>3. d \in Nat
  BY PathFacts
<1>4. There \subseteq Modes
  BY ModesThere
<1>5. ConsideredE \subseteq Modes /\ (d =< 9000 => ConsideredF2 \subseteq Modes /\ Considered \subseteq Modes)
  BY <1>4, ConsideredModes, PathFacts DEF Laid
<1>6. \A n \in Names : Has(n) => Has(n)'
  BY Kept
<1>7. \A m \in Modes, a \in Attributes : HasM(m, a) => HasM(m, a)'
  BY Kept
<1>8. FieldE => FieldE'
  BY <1>1, <1>2, <1>5, <1>6, <1>7 DEF FieldE, Names, Attributes
<1>9. FieldF2 => FieldF2'
  BY <1>1, <1>2, <1>5, <1>6, <1>7 DEF FieldF2, Names, Attributes
<1>10. Received => Received'
  BY <1>1, <1>2, <1>3, <1>5, <1>6, <1>7 DEF Received, Names, Attributes
<1> QED BY <1>8, <1>9, <1>10

LEMMA KeptAll ==
  ASSUME PathOK, Grows, SameModes
  PROVE  /\ ToModes => ToModes'
         /\ ToMUFs => ToMUFs'
         /\ SameScreening =>
              /\ ToScreening => ToScreening'
              /\ ToScreening /\ FieldE => FieldE'
              /\ ToScreening /\ FieldF2 => FieldF2'
              /\ ToShort => ToShort'
              /\ ToLong => ToLong'
              /\ ToReceiver => ToReceiver'
              /\ ToDelays => ToDelays'
<1>1. ToModes => ToModes'
  BY KeptPath, KeptModes DEF ToModes
<1>2. ToMUFs => ToMUFs'
  BY <1>1, KeptPath DEF ToMUFs
<1>3. ToScreening => ToScreening'
  BY <1>2, KeptPath DEF ToScreening
<1>4. ToScreening => Laid
  BY DEF ToScreening, ToMUFs, ToModes
<1>5. ASSUME SameScreening, ToScreening PROVE (FieldE => FieldE') /\ (FieldF2 => FieldF2') /\ (Received => Received')
  BY <1>4, <1>5, KeptConsidered
<1>6. SameScreening /\ ToShort => ToShort'
  BY <1>3, <1>5, KeptPath DEF ToShort
<1>7. SameScreening /\ ToLong => ToLong'
  BY <1>6, KeptPath DEF ToLong
<1>8. SameScreening /\ ToReceiver => ToReceiver'
  BY <1>5, <1>7, KeptPath DEF ToReceiver, ToLong, ToShort
<1>9. Has("noise") => Has("noise")'
  BY Kept DEF Names
<1>10. SameScreening /\ ToDelays => ToDelays'
  BY <1>8, <1>9, KeptPath DEF ToDelays
<1> QED BY <1>1, <1>2, <1>3, <1>5, <1>6, <1>7, <1>8, <1>10

(***************************************************************************)
(* The routines, one by one: what they read is fine, and the next one is   *)
(* ready.                                                                  *)
(***************************************************************************)
Going == Ready /\ PathOK /\ Fresh
Gone == Ready' /\ wrong' = {} /\ val' \in [Fields -> {None, Now}] /\ UNCHANGED <<path, run, points>> /\ hour' = hour

LEMMA NoField == \A A : Each({}, A) = {} /\ Each(A, {}) = {}
BY DEF Each

LEMMA FirstModes == ASSUME Going, MufBasicF2 PROVE Gone
<1> DEFINE S == {"distance"} \cup Only(d =< 9000, {"mp"})
           N == Only(d =< 9000, {"mp.hr", "n0_F2", "dmax", "BMUF"} \cup Only(~WithinDmax, HopEnds))
           M == Only(d =< 9000, LayerF2)
<1> HIDE DEF S, N, M
<1>1. pc = "mufBasic" /\ UNCHANGED <<path, hour, run, points>>
  BY DEF MufBasicF2, Routine
<1>2. Located /\ Existing = {} /\ ~HasE
  BY <1>1 DEF Going, Ready
<1>3. M \subseteq Modes /\ M = LaidF2
  BY PathFacts DEF M, Only, Going, LaidF2
<1>4. Applied("mufBasicE", Of(S), N, M, {"BMUF"})
  <2>1. Compute("mufBasicE", Of(S), Of(N) \cup Each(M, {"BMUF"}), Now)
    BY DEF MufBasicF2, Routine, S, N, M
  <2>2. \A n \in S : n \in Names /\ Has(n)
    BY <1>2 DEF S, Only, Located, Names, ControlPoints
  <2>3. \A f \in Of(S) : Fine(f)
    BY <2>2, FineOf
  <2> QED BY <1>1, <1>3, <2>1, <2>3 DEF Applied
<1>5. /\ pc' = "mufBasicE" /\ wrong' = {} /\ val' \in [Fields -> {None, Now}] /\ Grows
      /\ \A n \in Names : Has(n)' <=> Has(n) \/ n \in N
      /\ \A m \in Modes, a \in Attributes : HasM(m, a)' <=> HasM(m, a) \/ (m \in M /\ a \in {"BMUF"})
  BY <1>4, Effect DEF Going
<1>6. d' = d /\ LaidF2' = LaidF2 /\ (WithinDmax' <=> WithinDmax)
  BY <1>1, SamePath, SameLaid
<1>7. Located'
  BY <1>2, <1>5, KeptPath DEF Going
<1>8. BasicF2'
  <2>1. d =< 9000 => {"mp.hr", "n0_F2", "dmax", "BMUF"} \subseteq N /\ (~WithinDmax => {"td02", "rd02"} \subseteq N)
    BY DEF N, Only, HopEnds
  <2> QED BY <1>5, <1>6, <2>1 DEF BasicF2, Names, ControlPoints
<1>9. Existing' = LaidF2'
  BY <1>2, <1>3, <1>5, <1>6 DEF Existing, HasM, Attributes
<1>10. ~HasE'
  <2>1. "n0_E" \notin N /\ "n0_E" \in Names
    BY DEF N, Only, HopEnds, Names
  <2> QED BY <1>2, <1>5, <2>1 DEF HasE, Has
<1>11. Ready'
  BY <1>5, <1>7, <1>8, <1>9, <1>10 DEF Ready
<1> QED BY <1>1, <1>5, <1>11 DEF Gone

LEMMA FirstModesE == ASSUME Going, MufBasicE PROVE Gone
<1> DEFINE S == Only(d < 4000, IF d < 2000 THEN {"mp"} ELSE Ends) \cup Only(d =< 9000, {"n0_F2"})
           N == Only(d < 4000, {"n0_E"}) \cup Only(d =< 9000, {"BMUF"})
           M == Only(d < 4000, {E(n) : n \in n0_E..2})
<1> HIDE DEF S, N, M
<1>1. pc = "mufBasicE" /\ UNCHANGED <<path, hour, run, points>>
  BY DEF MufBasicE, Routine
<1>2. Located /\ BasicF2 /\ Existing = LaidF2 /\ ~HasE
  BY <1>1 DEF Going, Ready
<1>3. M \subseteq Modes /\ M = LaidE /\ d \in Nat
  BY PathFacts DEF M, Only, Going, LaidE
<1>4. Applied("mufVariability", Of(S), N, M, {"hr", "BMUF"})
  <2>1. Compute("mufVariability", Of(S), Of(N) \cup Each(M, {"hr", "BMUF"}), Now)
    BY DEF MufBasicE, Routine, S, N, M
  <2>2. \A n \in S : n \in Names /\ Has(n)
    BY <1>2, <1>3 DEF S, Only, Ends, Located, BasicF2, Names, ControlPoints
  <2>3. \A f \in Of(S) : Fine(f)
    BY <2>2, FineOf
  <2> QED BY <1>1, <1>3, <2>1, <2>3 DEF Applied
<1>5. /\ pc' = "mufVariability" /\ wrong' = {} /\ val' \in [Fields -> {None, Now}] /\ Grows
      /\ \A n \in Names : Has(n)' <=> Has(n) \/ n \in N
      /\ \A m \in Modes, a \in Attributes : HasM(m, a)' <=> HasM(m, a) \/ (m \in M /\ a \in {"hr", "BMUF"})
  BY <1>4, Effect DEF Going
<1>6. d' = d /\ LaidE' = LaidE /\ There' = There
  BY <1>1, SamePath, SameLaid
<1>7. Located' /\ BasicF2'
  BY <1>2, <1>5, KeptPath DEF Going
<1>8. Existing' = There'
  <2>1. There = LaidF2 \cup LaidE
    BY DEF There, LaidF2, LaidE
  <2>2. \A m \in Modes : HasM(m, "BMUF")' <=> HasM(m, "BMUF") \/ m \in M
    BY <1>5 DEF Attributes
  <2> QED BY <1>2, <1>3, <1>6, <2>1, <2>2 DEF Existing, HasM
<1>9. HasE' <=> d' < 4000
  <2>1. "n0_E" \in N <=> d < 4000
    BY DEF N, Only
  <2> QED BY <1>2, <1>5, <1>6, <2>1 DEF HasE, Has, Names
<1>10. \A m \in LaidE : HasM(m, "hr")'
  BY <1>3, <1>5 DEF Attributes
<1>11. ToModes'
  BY <1>6, <1>7, <1>8, <1>9, <1>10 DEF ToModes, Laid
<1>12. Ready'
  BY <1>5, <1>11 DEF Ready
<1> QED BY <1>1, <1>5, <1>12 DEF Gone

LEMMA AllMUFs == ASSUME Going, MufVariability PROVE Gone
<1> DEFINE S == Only(d =< 9000, {"BMUF", "mp", "season"})
           N == Only(d =< 9000, {"muf"})
           M == Only(d =< 9000, Existing)
           R == Of(S) \cup Each(M, {"BMUF"})
<1> HIDE DEF S, N, M, R
<1>1. pc = "mufVariability" /\ UNCHANGED <<path, hour, run, points>>
  BY DEF MufVariability, Routine
<1>2. ToModes
  BY <1>1 DEF Going, Ready
<1>3. M \subseteq Modes /\ M \subseteq Existing
  BY DEF M, Only, Existing
<1>4. Applied("mufOperational", R, N, M, {"muf"})
  <2>1. Compute("mufOperational", R, Of(N) \cup Each(M, {"muf"}), Now)
    BY DEF MufVariability, Routine, R, S, N, M
  <2>2. \A n \in S : n \in Names /\ Has(n)
    BY <1>2 DEF S, Only, ToModes, Located, BasicF2, Names, ControlPoints
  <2>3. \A m \in M : HasM(m, "BMUF")
    BY <1>3 DEF Existing, HasM
  <2>4. \A f \in Of(S) : Fine(f)
    BY <2>2, FineOf
  <2>5. \A f \in Each(M, {"BMUF"}) : Fine(f)
    BY <1>3, <2>3, FineEach DEF Attributes
  <2> QED BY <1>1, <1>3, <2>1, <2>4, <2>5 DEF Applied, R
<1>5. /\ pc' = "mufOperational" /\ wrong' = {} /\ val' \in [Fields -> {None, Now}] /\ Grows /\ SameModes
      /\ \A n \in Names : Has(n)' <=> Has(n) \/ n \in N
      /\ \A m \in Modes, a \in Attributes : HasM(m, a)' <=> HasM(m, a) \/ (m \in M /\ a \in {"muf"})
  <2>1. "n0_E" \notin N
    BY DEF N, Only
  <2> QED BY <1>4, <2>1, Effect DEF Going
<1>6. d' = d /\ There' = There
  BY <1>1, SamePath, SameLaid
<1>7. ToModes'
  BY <1>2, <1>5, KeptAll DEF Going
<1>8. Variability'
  <2>1. d =< 9000 => "muf" \in N /\ M = There
    BY <1>2 DEF N, M, Only, ToModes, Laid
  <2> QED BY <1>3, <1>5, <1>6, <2>1 DEF Variability, Names, Attributes
<1>9. Ready'
  BY <1>5, <1>7, <1>8 DEF Ready
<1> QED BY <1>1, <1>5, <1>9 DEF Gone

LEMMA AllOperational == ASSUME Going, MufOperational PROVE Gone
<1> DEFINE S == Only(d =< 9000, {"mp", "season"})
           N == Only(d =< 9000, {"OPMUF"})
           M == Only(d =< 9000, Existing)
           R == Of(S) \cup Each(M, {"BMUF", "muf"})
<1> HIDE DEF S, N, M, R
<1>1. pc = "mufOperational" /\ UNCHANGED <<path, hour, run, points>>
  BY DEF MufOperational, Routine
<1>2. ToModes /\ Variability
  BY <1>1 DEF Going, Ready
<1>3. M \subseteq Modes /\ M \subseteq Existing /\ (d =< 9000 => M = There)
  BY <1>2 DEF M, Only, Existing, ToModes, Laid
<1>4. Applied("eLayerScreening", R, N, M, {"OPMUF"})
  <2>1. Compute("eLayerScreening", R, Of(N) \cup Each(M, {"OPMUF"}), Now)
    BY DEF MufOperational, Routine, R, S, N, M
  <2>2. \A n \in S : n \in Names /\ Has(n)
    BY <1>2 DEF S, Only, ToModes, Located, Names, ControlPoints
  <2>3. \A m \in M : HasM(m, "BMUF") /\ HasM(m, "muf")
    <3>1. \A m \in M : HasM(m, "BMUF")
      BY <1>3 DEF Existing, HasM
    <3>2. \A m \in M : HasM(m, "muf")
      BY <1>2, <1>3 DEF M, Only, Variability
    <3> QED BY <3>1, <3>2
  <2>4. \A f \in Of(S) : Fine(f)
    BY <2>2, FineOf
  <2>5. \A f \in Each(M, {"BMUF", "muf"}) : Fine(f)
    BY <1>3, <2>3, FineEach DEF Attributes
  <2> QED BY <1>1, <1>3, <2>1, <2>4, <2>5 DEF Applied, R
<1>5. /\ pc' = "eLayerScreening" /\ wrong' = {} /\ val' \in [Fields -> {None, Now}] /\ Grows /\ SameModes
      /\ \A n \in Names : Has(n)' <=> Has(n) \/ n \in N
      /\ \A m \in Modes, a \in Attributes : HasM(m, a)' <=> HasM(m, a) \/ (m \in M /\ a \in {"OPMUF"})
  <2>1. "n0_E" \notin N
    BY DEF N, Only
  <2> QED BY <1>4, <2>1, Effect DEF Going
<1>6. d' = d /\ There' = There
  BY <1>1, SamePath, SameLaid
<1>7. ToModes' /\ Variability'
  BY <1>2, <1>5, KeptAll, KeptPath DEF Going
<1>8. Operational'
  <2>1. d =< 9000 => "OPMUF" \in N
    BY DEF N, Only
  <2> QED BY <1>3, <1>5, <1>6, <2>1 DEF Operational, Names, Attributes
<1>9. Ready'
  BY <1>5, <1>7, <1>8 DEF Ready, ToMUFs
<1> QED BY <1>1, <1>5, <1>9 DEF Gone

LEMMA Screens == ASSUME Going, ELayerScreening PROVE Gone
<1> DEFINE S == Only(d =< 4000, {"n0_F2", "dmax", "mp"} \cup Only(d > 2000, Ends) \cup Only(~WithinDmax, HopEnds))
           M == Only(d =< 4000, LayerF2)
<1> HIDE DEF S, M
<1>1. pc = "eLayerScreening" /\ UNCHANGED <<path, hour, run, points>>
  BY DEF ELayerScreening, Routine
<1>2. ToMUFs
  BY <1>1 DEF Going, Ready
<1>3. d \in Nat /\ M \subseteq Modes /\ (d =< 4000 => M = LaidF2)
  BY PathFacts DEF Going, M, Only, LaidF2
<1>4. Applied("shortE", Of(S), {}, M, {"hr", "fs"})
  <2>1. Compute("shortE", Of(S), Each(M, {"hr", "fs"}), Now)
    BY DEF ELayerScreening, Routine, S, M
  <2>2. Of({}) \cup Each(M, {"hr", "fs"}) = Each(M, {"hr", "fs"})
    BY DEF Of
  <2>3. \A n \in S : n \in Names /\ Has(n)
    BY <1>2, <1>3 DEF S, Only, Ends, HopEnds, ToMUFs, ToModes, Located, BasicF2, Names, ControlPoints
  <2>4. \A f \in Of(S) : Fine(f)
    BY <2>3, FineOf
  <2> QED BY <1>1, <1>3, <2>1, <2>2, <2>4 DEF Applied
<1>5. /\ pc' = "shortE" /\ wrong' = {} /\ val' \in [Fields -> {None, Now}] /\ Grows /\ SameModes
      /\ \A m \in Modes, a \in Attributes : HasM(m, a)' <=> HasM(m, a) \/ (m \in M /\ a \in {"hr", "fs"})
  BY <1>4, Effect DEF Going
<1>6. d' = d /\ LaidF2' = LaidF2
  BY <1>1, SamePath, SameLaid
<1>7. ToMUFs'
  BY <1>2, <1>5, KeptAll DEF Going
<1>8. Screening'
  BY <1>3, <1>5, <1>6 DEF Screening, Attributes
<1>9. Ready'
  BY <1>5, <1>7, <1>8 DEF Ready, ToScreening
<1> QED BY <1>1, <1>5, <1>9 DEF Gone

\* What may be read at its default, field by field.
OptionalOfPath ==
    Of(Only(d >= 4000, {"n0_E"}) \cup Only(d =< 7000 /\ Considered = {}, {"Grw", "ele", "ptick"})
       \cup Only(d < 2000 /\ pc = "equatorialScattering", Ends))
OptionalHeights == Each(IF d > 4000 THEN Modes ELSE Modes \ Existing, {"hr", "fs"})
OptionalScreening == Each({E(n) : n \in 0..2}, {"fs"})
OptionalFields == Each(Modes \ Considered, {"field", "power"})
OptionalPower == Each(Only(d > 7000, Modes), {"power"})
OptionalDelays == Each(IF path.digital THEN Modes \ Existing ELSE Modes, {"tau"})

LEMMA OptionalParts ==
  /\ OptionalOfPath \subseteq Optional /\ OptionalHeights \subseteq Optional /\ OptionalScreening \subseteq Optional
  /\ OptionalFields \subseteq Optional /\ OptionalPower \subseteq Optional /\ OptionalDelays \subseteq Optional
<1>1. Optional = OptionalOfPath \cup OptionalHeights \cup OptionalScreening \cup OptionalFields \cup OptionalPower
                 \cup OptionalDelays
  BY DEF Optional, OptionalOfPath, OptionalHeights, OptionalScreening, OptionalFields, OptionalPower, OptionalDelays
<1> QED BY <1>1

LEMMA OptionalNames ==
  /\ d >= 4000 => <<"path", 0, "n0_E">> \in Optional
  /\ d =< 7000 /\ Considered = {} => \A n \in {"Grw", "ele", "ptick"} : <<"path", 0, n>> \in Optional
<1>1. OptionalOfPath \subseteq Optional
  BY OptionalParts
<1>2. d >= 4000 => <<"path", 0, "n0_E">> \in OptionalOfPath
  BY DEF Only, OptionalOfPath, Of
<1>3. d =< 7000 /\ Considered = {} => \A n \in {"Grw", "ele", "ptick"} : <<"path", 0, n>> \in OptionalOfPath
  BY DEF Only, OptionalOfPath, Of
<1> QED BY <1>1, <1>2, <1>3

LEMMA OptionalEnds ==
  ASSUME d < 2000, pc = "equatorialScattering", NEW n, n \in Ends
  PROVE  <<"path", 0, n>> \in Optional
<1>1. <<"path", 0, n>> \in OptionalOfPath
  BY DEF Only, OptionalOfPath, Of, Ends
<1> QED BY <1>1, OptionalParts

LEMMA OptionalHeight ==
  ASSUME NEW m \in Modes, d > 4000
  PROVE  /\ <<m[1], m[2], "hr">> \in Optional
         /\ <<m[1], m[2], "fs">> \in Optional
<1>1. <<m[1], m[2], "hr">> \in OptionalHeights /\ <<m[1], m[2], "fs">> \in OptionalHeights
  BY DEF OptionalHeights, Each
<1> QED BY <1>1, OptionalParts

LEMMA OptionalE == ASSUME NEW n \in 0..2, NEW m, m = E(n) PROVE <<m[1], m[2], "fs">> \in Optional
<1>1. <<m[1], m[2], "fs">> \in OptionalScreening
  BY DEF OptionalScreening, Each
<1> QED BY <1>1, OptionalParts

LEMMA OptionalField ==
  ASSUME NEW m \in Modes, m \notin Considered
  PROVE  <<m[1], m[2], "field">> \in Optional /\ <<m[1], m[2], "power">> \in Optional
<1>1. <<m[1], m[2], "field">> \in OptionalFields /\ <<m[1], m[2], "power">> \in OptionalFields
  BY DEF OptionalFields, Each
<1> QED BY <1>1, OptionalParts

LEMMA OptionalPowers == ASSUME NEW m \in Modes, d > 7000 PROVE <<m[1], m[2], "power">> \in Optional
<1>1. <<m[1], m[2], "power">> \in OptionalPower
  BY DEF OptionalPower, Only, Each
<1> QED BY <1>1, OptionalParts

LEMMA OptionalDelay == ASSUME NEW m \in Modes, ~path.digital \/ m \notin Existing PROVE <<m[1], m[2], "tau">> \in Optional
<1>1. <<m[1], m[2], "tau">> \in OptionalDelays
  BY DEF OptionalDelays, Each
<1> QED BY <1>1, OptionalParts

\* The modes when the field strength is computed.
LEMMA ModesOfField ==
  ASSUME PathOK, ToScreening
  PROVE  /\ d \in Nat /\ path.dmax \in Nat /\ path.dmax >= 2000 /\ path.dmax =< 4000 /\ (WithinDmax <=> d =< path.dmax)
         /\ ToModes /\ Laid /\ Located /\ BasicF2 /\ Screening /\ (HasE <=> d < 4000)
         /\ ConsideredE = LaidE /\ CalculatedE = LaidE /\ LayerE = LaidE /\ LaidE \subseteq Modes /\ LaidE \subseteq Existing
         /\ d < 4000 => LaidE # {}
         /\ LaidF2 \subseteq Modes /\ Existing = LaidF2 \cup LaidE
         /\ d =< 9000 => ConsideredF2 \subseteq LaidF2 /\ Considered \subseteq Existing /\ Considered = ConsideredE \cup ConsideredF2
<1>1. ToModes /\ Laid /\ Located /\ BasicF2 /\ Screening
  BY DEF ToScreening, ToMUFs, ToModes
<1>2. Existing = There /\ (HasE <=> d < 4000)
  BY <1>1 DEF Laid
<1>3. There = LaidF2 \cup LaidE
  BY DEF There, LaidF2, LaidE
<1>4. LaidE \subseteq Modes /\ LaidF2 \subseteq Modes
  BY PathFacts DEF LaidE, LaidF2
<1>5. ConsideredE = LaidE /\ CalculatedE = LaidE /\ (d =< 9000 => ConsideredF2 \subseteq LaidF2 /\ Considered \subseteq Existing)
  BY <1>2, ConsideredModes DEF LaidE, LaidF2
<1>6. LayerE = LaidE
  BY <1>2 DEF LayerE, LaidE
<1>7. d < 4000 => LaidE # {}
  BY PathFacts DEF LaidE
<1> QED BY <1>1, <1>2, <1>3, <1>4, <1>5, <1>6, <1>7, PathFacts DEF Considered

LEMMA ExistingModes == Existing \subseteq Modes /\ \A m \in Existing : HasM(m, "BMUF")
BY DEF Existing, HasM

LEMMA FieldsOfE == ASSUME Going, ShortE PROVE Gone
<1> DEFINE S == Only(d =< 9000, {"n0_E"}) \cup Only(CalculatedE # {}, {"mp"} \cup Only(d > 2000, Ends))
           N == Only(CalculatedE # {}, {"ptick"})
           M == CalculatedE
           R == Of(S) \cup Each(LayerE, {"BMUF"})
<1> HIDE DEF S, N, M, R
<1>1. pc = "shortE" /\ UNCHANGED <<path, hour, run, points>>
  BY DEF ShortE, Routine
<1>2. ToScreening
  BY <1>1 DEF Going, Ready
<1>3. /\ d \in Nat /\ Located /\ Laid /\ (HasE <=> d < 4000)
      /\ M = LaidE /\ ConsideredE = LaidE /\ LayerE = LaidE /\ LaidE \subseteq Modes /\ LaidE \subseteq Existing
      /\ d < 4000 => M # {}
  BY <1>2, ModesOfField DEF Going, M
<1>4. Applied("shortF2", R, N, M, {"field"})
  <2>1. Compute("shortF2", R, Of(N) \cup Each(M, {"field"}), Now)
    BY DEF ShortE, Routine, R, S, N, M
  <2>2. \A n \in S : n \in Names /\ (Has(n) \/ <<"path", 0, n>> \in Optional)
    <3>1. S \subseteq {"n0_E", "mp"} \cup Only(d > 2000, Ends)
      BY DEF S, Only
    <3>2. Has("n0_E") \/ <<"path", 0, "n0_E">> \in Optional
      BY <1>3, OptionalNames DEF HasE, Has
    <3>3. Has("mp") /\ \A n \in Only(d > 2000, Ends) : n \in Ends /\ Has(n)
      BY <1>3 DEF Located, Only, Ends
    <3> QED BY <3>1, <3>2, <3>3 DEF Names, ControlPoints, Ends
  <2>3. \A m \in LayerE : HasM(m, "BMUF")
    BY <1>3, ExistingModes
  <2>4. \A f \in Of(S) : Fine(f)
    BY <2>2, FineOf
  <2>5. \A f \in Each(LayerE, {"BMUF"}) : Fine(f)
    BY <1>3, <2>3, FineEach DEF Attributes
  <2> QED BY <1>1, <1>3, <2>1, <2>4, <2>5 DEF Applied, R
<1>5. /\ pc' = "shortF2" /\ wrong' = {} /\ val' \in [Fields -> {None, Now}] /\ Grows /\ SameModes /\ SameScreening
      /\ \A n \in Names : Has(n)' <=> Has(n) \/ n \in N
      /\ \A m \in Modes, a \in Attributes : HasM(m, a)' <=> HasM(m, a) \/ (m \in M /\ a \in {"field"})
  <2>1. "n0_E" \notin N
    BY DEF N, Only
  <2> QED BY <1>4, <2>1, Effect DEF Going
<1>6. d' = d /\ ConsideredE' = ConsideredE
  BY <1>1, <1>5, SamePath, SameConsidered DEF Going
<1>7. ToScreening'
  BY <1>2, <1>5, KeptAll DEF Going
<1>8. FieldE'
  <2>1. d < 4000 => "ptick" \in N
    BY <1>3 DEF N, M, Only
  <2> QED BY <1>3, <1>5, <1>6, <2>1 DEF FieldE, Names, Attributes
<1>9. Ready'
  BY <1>5, <1>7, <1>8 DEF Ready
<1> QED BY <1>1, <1>5, <1>9 DEF Gone

LEMMA FieldsOfF2 == ASSUME Going, ShortF2 PROVE Gone
<1> DEFINE heights == IF WithinDmax THEN {"mp.hr"} ELSE ControlPoints
           losses == {"mp"} \cup Only(d > 2000, Ends) \cup Only(d > 2000 /\ ~WithinDmax, HopEnds)
           M == Only(d =< 9000, ConsideredF2)
           N == Only(M # {}, {"ptick"})
           S == Only(d =< 9000, {"dmax", "n0_F2"} \cup heights) \cup Only(M # {}, losses)
           L == Only(d =< 9000, LayerF2)
           R == Of(S) \cup Each(L, {"BMUF", "fs"})
<1>1. pc = "shortF2" /\ UNCHANGED <<path, hour, run, points>>
  BY DEF ShortF2, Routine
<1>2. Compute("shortSum", R, Of(N) \cup Each(M, {"field"}), Now)
  BY DEF ShortF2, Routine
<1>3. M # {} => d =< 9000
  BY DEF Only
<1>4. S \subseteq Names
  BY DEF Only, Names, ControlPoints, Ends, HopEnds
<1>5. d =< 9000 => M = ConsideredF2 /\ L = LaidF2
  BY DEF Only, LaidF2
<1>6. ~(d =< 9000) => M = {} /\ L = {} /\ S = {}
  BY DEF Only
<1>7. S \subseteq {"dmax", "n0_F2", "mp.hr", "mp"} \cup Only(d > 2000, Ends) \cup Only(~WithinDmax, ControlPoints)
  BY DEF Only, ControlPoints, HopEnds
<1>8. M # {} => "ptick" \in N
  BY DEF Only
<1>9. "n0_E" \notin N
  BY DEF Only
<1> HIDE DEF heights, losses, M, N, S, L, R
<1>10. ToScreening /\ FieldE
  BY <1>1 DEF Going, Ready
<1>11. /\ d \in Nat /\ path.dmax \in Nat /\ path.dmax >= 2000 /\ path.dmax =< 4000 /\ (WithinDmax <=> d =< path.dmax)
       /\ Located /\ Laid /\ BasicF2 /\ Screening /\ LaidF2 \subseteq Modes /\ LaidF2 \subseteq Existing
       /\ d =< 9000 => ConsideredF2 \subseteq LaidF2
  BY <1>10, ModesOfField DEF Going
<1>12. M \subseteq Modes /\ L \subseteq Modes /\ L \subseteq Existing /\ (d =< 4000 => L = LaidF2)
  BY <1>5, <1>6, <1>11
<1>13. Applied("shortSum", R, N, M, {"field"})
  <2>1. ASSUME d =< 9000, NEW n \in S PROVE Has(n)
    <3>1. Has("dmax") /\ Has("n0_F2") /\ Has("mp.hr") /\ Has("mp")
      BY <1>11, <2>1 DEF Located, BasicF2
    <3>2. \A x \in Only(d > 2000, Ends) : Has(x)
      BY <1>11 DEF Located, Ends, Only
    <3>3. \A x \in Only(~WithinDmax, ControlPoints) : Has(x)
      <4>1. CASE WithinDmax
        BY <4>1 DEF Only
      <4>2. CASE ~WithinDmax
        <5>1. Has("t1k") /\ Has("r1k") /\ Has("td02") /\ Has("rd02") /\ Has("mp")
          BY <1>11, <2>1, <4>2 DEF Located, BasicF2
        <5>2. \A x \in ControlPoints : Has(x)
          BY <5>1, Zenon DEF ControlPoints
        <5>3. Only(~WithinDmax, ControlPoints) \subseteq ControlPoints
          BY DEF Only
        <5> QED BY <5>2, <5>3
      <4> QED BY <4>1, <4>2
    <3> QED BY <1>7, <2>1, <3>1, <3>2, <3>3
  <2>2. \A n \in S : n \in Names /\ Has(n)
    BY <1>4, <1>6, <2>1
  <2>3. \A m \in L : HasM(m, "BMUF") /\ (HasM(m, "fs") \/ <<m[1], m[2], "fs">> \in Optional)
    <3>1. \A m \in L : HasM(m, "BMUF")
      BY <1>12, ExistingModes
    <3>2. ASSUME NEW m \in L PROVE HasM(m, "fs") \/ <<m[1], m[2], "fs">> \in Optional
      <4>1. CASE d =< 4000
        BY <1>11, <1>12, <4>1 DEF Screening
      <4>2. CASE ~(d =< 4000)
        <5>1. d > 4000
          BY <1>11, <4>2
        <5>2. m \in Modes
          BY <1>12
        <5>3. <<m[1], m[2], "hr">> \in Optional /\ <<m[1], m[2], "fs">> \in Optional
          BY <5>1, <5>2, OptionalHeight
        <5> QED BY <5>3
      <4> QED BY <4>1, <4>2
    <3> QED BY <3>1, <3>2
  <2>4. \A f \in Of(S) : Fine(f)
    BY <2>2, FineOf
  <2>5. \A f \in Each(L, {"BMUF", "fs"}) : Fine(f)
    BY <1>12, <2>3, FineEach DEF Attributes
  <2> QED BY <1>1, <1>2, <1>12, <2>4, <2>5 DEF Applied, R
<1>14. /\ pc' = "shortSum" /\ wrong' = {} /\ val' \in [Fields -> {None, Now}] /\ Grows /\ SameModes /\ SameScreening
       /\ \A n \in Names : Has(n)' <=> Has(n) \/ n \in N
       /\ \A m \in Modes, a \in Attributes : HasM(m, a)' <=> HasM(m, a) \/ (m \in M /\ a \in {"field"})
  BY <1>9, <1>13, Effect DEF Going
<1>15. d' = d /\ (d =< 9000 => ConsideredF2' = ConsideredF2)
  BY <1>1, <1>14, SamePath, SameConsidered DEF Going
<1>16. ToScreening' /\ FieldE'
  BY <1>10, <1>14, KeptAll DEF Going
<1>17. FieldF2'
  BY <1>5, <1>8, <1>12, <1>14, <1>15 DEF FieldF2, Names, Attributes
<1>18. Ready'
  BY <1>14, <1>16, <1>17 DEF Ready
<1> QED BY <1>1, <1>14, <1>18 DEF Gone

LEMMA SumOfModes == ASSUME Going, ShortSum PROVE Gone
<1> DEFINE S == Only(d =< 9000, {"dmax", "n0_F2"})
           N == Only(d =< 9000, {"Es"})
           M == Only(d =< 9000, Considered)
           R == Of(S) \cup Each(M, {"field"})
<1> HIDE DEF S, N, M, R
<1>1. pc = "shortSum" /\ UNCHANGED <<path, hour, run, points>>
  BY DEF ShortSum, Routine
<1>2. ToScreening /\ FieldE /\ FieldF2
  BY <1>1 DEF Going, Ready
<1>3. BasicF2 /\ (d =< 9000 => Considered \subseteq Existing /\ Considered = ConsideredE \cup ConsideredF2)
  BY <1>2, ModesOfField DEF Going
<1>4. M \subseteq Modes /\ (d =< 9000 => M = Considered) /\ (~(d =< 9000) => M = {})
  BY <1>3, ExistingModes DEF M, Only
<1>5. Applied("long", R, N, M, {"MC"})
  <2>1. Compute("long", R, Of(N) \cup Each(M, {"MC"}), Now)
    BY DEF ShortSum, Routine, R, S, N, M
  <2>2. \A n \in S : n \in Names /\ Has(n)
    BY <1>3 DEF S, Only, BasicF2, Names
  <2>3. \A m \in M : HasM(m, "field")
    BY <1>2, <1>3, <1>4 DEF FieldE, FieldF2
  <2>4. \A f \in Of(S) : Fine(f)
    BY <2>2, FineOf
  <2>5. \A f \in Each(M, {"field"}) : Fine(f)
    BY <1>4, <2>3, FineEach DEF Attributes
  <2> QED BY <1>1, <1>4, <2>1, <2>4, <2>5 DEF Applied, R
<1>6. /\ pc' = "long" /\ wrong' = {} /\ val' \in [Fields -> {None, Now}] /\ Grows /\ SameModes /\ SameScreening
      /\ \A n \in Names : Has(n)' <=> Has(n) \/ n \in N
  <2>1. "n0_E" \notin N
    BY DEF N, Only
  <2> QED BY <1>5, <2>1, Effect DEF Going
<1>7. d' = d
  BY <1>1, SamePath
<1>8. ToScreening' /\ FieldE' /\ FieldF2'
  BY <1>2, <1>6, KeptAll DEF Going
<1>9. Sum'
  BY <1>6, <1>7 DEF Sum, N, Only, Names
<1>10. Ready'
  BY <1>6, <1>8, <1>9 DEF Ready, ToShort
<1> QED BY <1>1, <1>6, <1>10 DEF Gone

LEMMA PathEffect ==
  ASSUME NEW to, NEW R, NEW N, "n0_E" \notin N, Fresh, Compute(to, R, Of(N), Now), UNCHANGED path, \A f \in R : Fine(f)
  PROVE  /\ pc' = to /\ wrong' = {} /\ val' \in [Fields -> {None, Now}]
         /\ Grows /\ SameModes /\ SameScreening
         /\ \A n \in Names : Has(n)' <=> Has(n) \/ n \in N
<1>1. Of(N) \cup Each({}, {}) = Of(N)
  BY NoField
<1>2. Applied(to, R, N, {}, {})
  BY <1>1 DEF Applied
<1> QED BY <1>2, Effect

\* The table of the long routines is that of the hours.
TableOfHours == [j \in Index(Hours) |-> j]
Tabled ==
    /\ hour \in Index(Hours) /\ table \in {None, TableOfHours}
    /\ pc \in {"longMUF", "longField"} => table = TableOfHours

LEMMA LossesOfLong == ASSUME Going, Tabled, Long PROVE Gone /\ Tabled'
<1>1. pc = "long" /\ UNCHANGED <<path, run, points>>
  BY DEF Long
<1>2. ToShort
  BY <1>1 DEF Going, Ready
<1>3. Located
  BY <1>2 DEF ToShort, ToScreening, ToMUFs, ToModes
<1>4. d' = d /\ d \in Nat
  BY <1>1, SamePath, PathFacts DEF Going
<1>5. CASE d >= 7000
  <2>1. LongTable = TableOfHours /\ LongTable[hour] = hour
    BY DEF LongTable, TableOfHours, Tabled
  <2>2. <<LongTable[hour], Now[2]>> = Now
    BY <2>1 DEF Now
  <2>3. table' = TableOfHours /\ hour' = hour
    BY <1>5, <2>1 DEF Long, Restored
  <2>4. Compute("longMUF", Of({"distance", "mp"}), Of({"ptick", "long"}), Now)
    BY <1>5, <2>2 DEF Long
  <2>5. \A f \in Of({"distance", "mp"}) : Fine(f)
    BY <1>3, FineOf DEF Located, Names, ControlPoints
  <2>6. /\ pc' = "longMUF" /\ wrong' = {} /\ val' \in [Fields -> {None, Now}] /\ Grows /\ SameModes /\ SameScreening
        /\ \A n \in Names : Has(n)' <=> Has(n) \/ n \in {"ptick", "long"}
    BY <1>1, <2>4, <2>5, PathEffect DEF Going
  <2>7. ToShort'
    BY <1>2, <2>6, KeptAll DEF Going
  <2>8. LongLosses'
    BY <2>6 DEF LongLosses, Names
  <2>9. Ready'
    BY <1>4, <1>5, <2>6, <2>7, <2>8 DEF Ready
  <2> QED BY <1>1, <2>3, <2>6, <2>9 DEF Gone, Tabled
<1>6. CASE ~(d >= 7000)
  <2>1. table' = table /\ hour' = hour /\ Compute("between", {}, {}, Now)
    BY <1>6 DEF Long
  <2>2. Of({}) = {}
    BY DEF Of
  <2>3. /\ pc' = "between" /\ wrong' = {} /\ val' \in [Fields -> {None, Now}] /\ Grows /\ SameModes /\ SameScreening
    BY <1>1, <2>1, <2>2, PathEffect DEF Going
  <2>4. ToShort'
    BY <1>2, <2>3, KeptAll DEF Going
  <2>5. LongLosses' /\ LongReferences' /\ LongFields'
    BY <1>4, <1>6 DEF LongLosses, LongReferences, LongFields
  <2>6. Ready'
    BY <2>3, <2>4, <2>5 DEF Ready, ToLong
  <2> QED BY <1>1, <2>1, <2>3, <2>6 DEF Gone, Tabled
<1> QED BY <1>5, <1>6

LEMMA ReferencesOfLong == ASSUME Going, Tabled, LongMUF PROVE Gone /\ Tabled'
<1> DEFINE N == {"ref"} \cup Only(d > 9000, {"BMUF", "muf", "OPMUF"})
<1> HIDE DEF N
<1>1. pc = "longMUF" /\ UNCHANGED <<path, run, points, table>> /\ hour' = hour
  BY DEF LongMUF
<1>2. ToShort /\ LongLosses /\ d >= 7000
  BY <1>1 DEF Going, Ready
<1>3. Located
  BY <1>2 DEF ToShort, ToScreening, ToMUFs, ToModes
<1>4. d' = d
  BY <1>1, SamePath
<1>5. <<table[hour], Now[2]>> = Now
  BY <1>1 DEF Tabled, TableOfHours, Now
<1>6. Compute("longField", Of({"mp", "season", "long"}), Of(N), Now)
  BY <1>5 DEF LongMUF, N
<1>7. \A f \in Of({"mp", "season", "long"}) : Fine(f)
  BY <1>2, <1>3, FineOf DEF Located, LongLosses, Names, ControlPoints
<1>8. "n0_E" \notin N
  BY DEF N, Only
<1>9. /\ pc' = "longField" /\ wrong' = {} /\ val' \in [Fields -> {None, Now}] /\ Grows /\ SameModes /\ SameScreening
      /\ \A n \in Names : Has(n)' <=> Has(n) \/ n \in N
  BY <1>1, <1>6, <1>7, <1>8, PathEffect DEF Going
<1>10. ToShort' /\ LongLosses'
  BY <1>2, <1>9, KeptAll, KeptPath DEF Going
<1>11. LongReferences'
  <2>1. "ref" \in N /\ (d > 9000 => {"BMUF", "muf", "OPMUF"} \subseteq N)
    BY DEF N, Only
  <2> QED BY <1>4, <1>9, <2>1 DEF LongReferences, Names
<1>12. Ready'
  BY <1>2, <1>4, <1>9, <1>10, <1>11 DEF Ready
<1> QED BY <1>1, <1>9, <1>12 DEF Gone, Tabled

LEMMA FieldsOfLong == ASSUME Going, Tabled, LongField PROVE Gone /\ Tabled'
<1> DEFINE N == {"El"} \cup Only(d > 9000, {"ele", "dmax"} \cup HopEnds \cup Ends)
<1> HIDE DEF N
<1>1. pc = "longField" /\ UNCHANGED <<path, run, points, table>> /\ hour' = hour
  BY DEF LongField
<1>2. ToShort /\ LongLosses /\ LongReferences /\ d >= 7000
  BY <1>1 DEF Going, Ready
<1>3. d' = d
  BY <1>1, SamePath
<1>4. <<table[hour], Now[2]>> = Now
  BY <1>1 DEF Tabled, TableOfHours, Now
<1>5. Compute("between", Of({"ref", "long"}), Of(N), Now)
  BY <1>4 DEF LongField, N
<1>6. \A f \in Of({"ref", "long"}) : Fine(f)
  BY <1>2, FineOf DEF LongLosses, LongReferences, Names
<1>7. "n0_E" \notin N
  BY DEF N, Only, HopEnds, Ends
<1>8. /\ pc' = "between" /\ wrong' = {} /\ val' \in [Fields -> {None, Now}] /\ Grows /\ SameModes /\ SameScreening
      /\ \A n \in Names : Has(n)' <=> Has(n) \/ n \in N
  BY <1>1, <1>5, <1>6, <1>7, PathEffect DEF Going
<1>9. ToShort' /\ LongLosses' /\ LongReferences'
  BY <1>2, <1>8, KeptAll, KeptPath DEF Going
<1>10. LongFields'
  <2>1. "El" \in N /\ (d > 9000 => {"ele", "dmax"} \subseteq N)
    BY DEF N, Only
  <2> QED BY <1>3, <1>8, <2>1 DEF LongFields, Names
<1>11. Ready'
  BY <1>8, <1>9, <1>10 DEF Ready, ToLong
<1> QED BY <1>1, <1>8, <1>11 DEF Gone, Tabled

LEMMA Interpolates == ASSUME Going, Between PROVE Gone
<1> DEFINE S == Only(7000 < d /\ d < 9000, {"El", "Es", "n0_F2"} \cup HopEnds)
           N == Only(7000 < d /\ d < 9000, {"Ei", "BMUF"})
<1>1. pc = "between" /\ UNCHANGED <<path, hour, run, points>>
  BY DEF Between, Routine
<1>2. Compute("receiver", Of(S), Of(N), Now)
  BY DEF Between, Routine
<1>3. /\ "n0_E" \notin N
      /\ 7000 < d /\ d < 9000 => "Ei" \in N
      /\ ~(7000 < d /\ d < 9000) => S = {}
      /\ S \subseteq {"El", "Es", "n0_F2", "td02", "rd02"}
  BY DEF Only, HopEnds
<1> HIDE DEF S, N
<1>4. ToLong
  BY <1>1 DEF Going, Ready
<1>5. BasicF2 /\ Sum /\ LongFields
  BY <1>4 DEF ToLong, ToShort, ToScreening, ToMUFs, ToModes
<1>6. /\ d \in Nat /\ path.dmax \in Nat /\ path.dmax =< 4000 /\ (WithinDmax <=> d =< path.dmax) /\ d' = d
  BY <1>1, PathFacts, SamePath DEF Going
<1>7. \A n \in S : n \in Names /\ Has(n)
  <2>1. CASE 7000 < d /\ d < 9000
    <3>1. ~WithinDmax
      BY <1>6, <2>1
    <3>2. Has("td02") /\ Has("rd02") /\ Has("n0_F2")
      BY <1>5, <1>6, <2>1, <3>1 DEF BasicF2
    <3>3. Has("El") /\ Has("Es")
      BY <1>5, <1>6, <2>1 DEF LongFields, Sum
    <3> QED BY <1>3, <3>2, <3>3 DEF Names, ControlPoints
  <2> QED BY <1>3, <2>1
<1>8. \A f \in Of(S) : Fine(f)
  BY <1>7, FineOf
<1>9. /\ pc' = "receiver" /\ wrong' = {} /\ val' \in [Fields -> {None, Now}] /\ Grows /\ SameModes /\ SameScreening
      /\ \A n \in Names : Has(n)' <=> Has(n) \/ n \in N
  BY <1>1, <1>2, <1>3, <1>8, PathEffect DEF Going
<1>10. ToLong'
  BY <1>4, <1>9, KeptAll DEF Going
<1>11. Interpolated'
  BY <1>3, <1>6, <1>9 DEF Interpolated, Names
<1>12. Ready'
  BY <1>9, <1>10, <1>11 DEF Ready
<1> QED BY <1>1, <1>9, <1>12 DEF Gone

LEMMA PowerAtReceiver == ASSUME Going, Receiver PROVE Gone
<1> DEFINE S == IF d =< 7000 THEN {"n0_F2", "dmax", "Es"} ELSE IF d < 9000 THEN {"Ei"} ELSE {"El"}
           N == {"Pr", "Ep"} \cup Only(d > 7000, {"Grw", "ele"}) \cup Only(d =< 7000 /\ Considered # {}, {"DM", "Grw", "ele"})
           M == Only(d =< 7000, Considered)
           R == Of(S) \cup Each(M, {"field"})
<1>1. pc = "receiver" /\ UNCHANGED <<path, hour, run, points>>
  BY DEF Receiver, Routine
<1>2. Compute("noise", R, Of(N) \cup Each(M, {"power"}), Now)
  BY DEF Receiver, Routine
<1>3. /\ "n0_E" \notin N /\ "Pr" \in N /\ "Ep" \in N
      /\ d > 7000 => "Grw" \in N /\ "ele" \in N
      /\ d =< 7000 => M = Considered
      /\ ~(d =< 7000) => M = {}
      /\ S = (IF d =< 7000 THEN {"n0_F2", "dmax", "Es"} ELSE IF d < 9000 THEN {"Ei"} ELSE {"El"})
  BY DEF Only
<1>4. ASSUME d =< 7000, Considered # {} PROVE "Grw" \in N /\ "ele" \in N
  BY <1>4 DEF Only
<1> HIDE DEF S, N, M, R
<1>5. ToLong /\ Interpolated
  BY <1>1 DEF Going, Ready
<1>6. ToScreening /\ BasicF2 /\ FieldE /\ FieldF2 /\ Sum /\ LongFields
  BY <1>5 DEF ToLong, ToShort, ToScreening, ToMUFs, ToModes
<1>7. d \in Nat /\ d' = d /\ (d =< 9000 => Considered \subseteq Existing /\ Considered = ConsideredE \cup ConsideredF2)
  BY <1>1, <1>6, ModesOfField, SamePath DEF Going
<1>8. M \subseteq Modes
  BY <1>3, <1>7, ExistingModes
<1>9. \A f \in R : Fine(f)
  <2>1. \A n \in S : n \in Names /\ Has(n)
    BY <1>3, <1>5, <1>6, <1>7 DEF BasicF2, Sum, LongFields, Interpolated, Names
  <2>2. \A f \in Of(S) : Fine(f)
    BY <2>1, FineOf
  <2>3. \A m \in M : HasM(m, "field")
    BY <1>3, <1>6, <1>7 DEF FieldE, FieldF2
  <2>4. \A f \in Each(M, {"field"}) : Fine(f)
    BY <1>8, <2>3, FineEach DEF Attributes
  <2> QED BY <2>2, <2>4 DEF R
<1>10. Applied("noise", R, N, M, {"power"})
  BY <1>1, <1>2, <1>8, <1>9 DEF Applied
<1>11. /\ pc' = "noise" /\ wrong' = {} /\ val' \in [Fields -> {None, Now}] /\ Grows /\ SameModes /\ SameScreening
       /\ \A n \in Names : Has(n)' <=> Has(n) \/ n \in N
       /\ \A m \in Modes, a \in Attributes : HasM(m, a)' <=> HasM(m, a) \/ (m \in M /\ a \in {"power"})
  BY <1>3, <1>10, Effect DEF Going
<1>12. d =< 9000 => Considered' = Considered
  BY <1>1, <1>11, SameConsidered DEF Going
<1>13. ToLong' /\ Interpolated'
  BY <1>5, <1>11, KeptAll, KeptPath DEF Going
<1>14. Received'
  <2>1. Has("Pr")' /\ Has("Ep")'
    BY <1>3, <1>11 DEF Names
  <2>2. ASSUME d > 7000 \/ Considered' # {} PROVE Has("Grw")' /\ Has("ele")'
    <3>1. "Grw" \in N /\ "ele" \in N
      BY <1>3, <1>4, <1>7, <1>12, <2>2
    <3> QED BY <1>11, <3>1 DEF Names
  <2>3. ASSUME d =< 7000 PROVE \A m \in Considered' : HasM(m, "power")'
    BY <1>3, <1>7, <1>8, <1>11, <1>12, <2>3 DEF Attributes
  <2> QED BY <1>7, <2>1, <2>2, <2>3 DEF Received
<1>15. Ready'
  BY <1>11, <1>13, <1>14 DEF Ready, ToReceiver
<1> QED BY <1>1, <1>11, <1>15 DEF Gone

LEMMA NoiseComputed == ASSUME Going, Noise(TRUE) PROVE Gone
<1> DEFINE to == IF path.digital THEN "digital" ELSE "circuitReliability"
<1>1. pc = "noise" /\ UNCHANGED <<path, hour, run, points>> /\ Compute(to, {}, Of({"noise"}), Now)
  BY DEF Noise, Routine
<1> HIDE DEF to
<1>2. ToReceiver
  BY <1>1 DEF Going, Ready
<1>3. /\ pc' = to /\ wrong' = {} /\ val' \in [Fields -> {None, Now}] /\ Grows /\ SameModes /\ SameScreening
      /\ \A n \in Names : Has(n)' <=> Has(n) \/ n \in {"noise"}
  BY <1>1, PathEffect DEF Going
<1>4. ToReceiver' /\ Has("noise")'
  BY <1>2, <1>3, KeptAll DEF Going, Names
<1>5. path.digital \in BOOLEAN
  BY DEF Going, PathOK
<1>6. Ready'
  <2>1. CASE path.digital
    BY <1>1, <1>3, <1>4, <2>1 DEF Ready, to
  <2>2. CASE ~path.digital
    <3>1. Delays'
      BY <1>1, <2>2 DEF Delays
    <3>2. pc' = "circuitReliability"
      BY <1>3, <2>2 DEF to
    <3> QED BY <1>4, <3>1, <3>2 DEF Ready, ToDelays
  <2> QED BY <1>5, <2>1, <2>2
<1> QED BY <1>1, <1>3, <1>6 DEF Gone

LEMMA DelaysOfModes == ASSUME Going, Digital PROVE Gone
<1> DEFINE M == Only(d =< 9000, Existing)
           short == Of({"n0_E", "n0_F2", "Grw"}) \cup Each(Existing, {"BMUF", "field", "power"})
                    \cup Each(LayerF2 \cap Existing, {"hr"})
           R == IF d =< 9000 THEN short ELSE Of({"Pr"})
<1>1. pc = "digital" /\ UNCHANGED <<path, hour, run, points>>
  BY DEF Digital, Routine
<1>2. Compute("circuitReliability", R, Each(M, {"tau"}), Now)
  BY DEF Digital, Routine
<1>3. Of({}) \cup Each(M, {"tau"}) = Each(M, {"tau"})
  BY DEF Of
<1>4. (d =< 9000 => M = Existing /\ R = short) /\ (~(d =< 9000) => M = {} /\ R = Of({"Pr"}))
  BY DEF Only
<1> HIDE DEF M, R, short
<1>5. ToReceiver /\ Has("noise") /\ path.digital
  BY <1>1 DEF Going, Ready
<1>6. ToScreening /\ BasicF2 /\ FieldE /\ FieldF2 /\ Received
  BY <1>5 DEF ToReceiver, ToLong, ToShort, ToScreening, ToMUFs, ToModes
<1>7. /\ d \in Nat /\ Screening /\ Laid /\ (HasE <=> d < 4000)
      /\ d =< 9000 => Considered \subseteq Existing /\ Considered = ConsideredE \cup ConsideredF2
  BY <1>6, ModesOfField DEF Going
<1>8. M \subseteq Modes
  BY <1>4, ExistingModes
<1>9. \A f \in R : Fine(f)
  <2>1. CASE d =< 9000
    <3>1. \A n \in {"n0_E", "n0_F2", "Grw"} : n \in Names /\ (Has(n) \/ <<"path", 0, n>> \in Optional)
      <4>1. Has("n0_E") \/ <<"path", 0, "n0_E">> \in Optional
        BY <1>7, OptionalNames DEF HasE, Has
      <4>2. Has("n0_F2")
        BY <1>6, <2>1 DEF BasicF2
      <4>3. Has("Grw") \/ <<"path", 0, "Grw">> \in Optional
        <5>1. CASE d > 7000 \/ Considered # {}
          BY <1>6, <5>1 DEF Received
        <5>2. CASE ~(d > 7000 \/ Considered # {})
          BY <1>7, <5>2, OptionalNames
        <5> QED BY <5>1, <5>2
      <4> QED BY <4>1, <4>2, <4>3 DEF Names
    <3>2. ASSUME NEW m \in Existing
          PROVE  /\ HasM(m, "BMUF")
                 /\ HasM(m, "field") \/ <<m[1], m[2], "field">> \in Optional
                 /\ HasM(m, "power") \/ <<m[1], m[2], "power">> \in Optional
      <4>1. m \in Modes /\ HasM(m, "BMUF")
        BY ExistingModes
      <4>2. CASE m \notin Considered
        <5>1. <<m[1], m[2], "field">> \in Optional /\ <<m[1], m[2], "power">> \in Optional
          BY <4>1, <4>2, OptionalField
        <5> QED BY <4>1, <5>1
      <4>3. CASE m \in Considered
        <5>1. HasM(m, "field")
          BY <1>6, <1>7, <2>1, <4>3 DEF FieldE, FieldF2
        <5>2. CASE d =< 7000
          <6>1. HasM(m, "power")
            BY <1>6, <4>3, <5>2 DEF Received
          <6> QED BY <4>1, <5>1, <6>1
        <5>3. CASE ~(d =< 7000)
          <6>1. d > 7000
            BY <1>7, <5>3
          <6>2. <<m[1], m[2], "power">> \in Optional
            BY <4>1, <6>1, OptionalPowers
          <6> QED BY <4>1, <5>1, <6>2
        <5> QED BY <5>2, <5>3
      <4> QED BY <4>2, <4>3
    <3>3. ASSUME NEW m \in LayerF2 \cap Existing PROVE HasM(m, "hr") \/ <<m[1], m[2], "hr">> \in Optional
      <4>1. m \in Modes /\ m \in LaidF2
        BY <2>1, ExistingModes DEF LaidF2
      <4>2. CASE d =< 4000
        BY <1>7, <4>1, <4>2 DEF Screening
      <4>3. CASE ~(d =< 4000)
        <5>1. d > 4000
          BY <1>7, <4>3
        <5>2. <<m[1], m[2], "hr">> \in Optional /\ <<m[1], m[2], "fs">> \in Optional
          BY <4>1, <5>1, OptionalHeight
        <5> QED BY <5>2
      <4> QED BY <4>2, <4>3
    <3>4. \A f \in Of({"n0_E", "n0_F2", "Grw"}) : Fine(f)
      BY <3>1, FineOf
    <3>5. \A f \in Each(Existing, {"BMUF", "field", "power"}) : Fine(f)
      <4>1. \A m \in Existing, a \in {"BMUF", "field", "power"} : HasM(m, a) \/ <<m[1], m[2], a>> \in Optional
        BY <3>2
      <4> QED BY <4>1, ExistingModes, FineEach DEF Attributes
    <3>6. \A f \in Each(LayerF2 \cap Existing, {"hr"}) : Fine(f)
      <4>1. LayerF2 \cap Existing \subseteq Modes
        BY ExistingModes
      <4>2. \A m \in LayerF2 \cap Existing, a \in {"hr"} : HasM(m, a) \/ <<m[1], m[2], a>> \in Optional
        BY <3>3
      <4> QED BY <4>1, <4>2, FineEach DEF Attributes
    <3> QED BY <1>4, <2>1, <3>4, <3>5, <3>6 DEF short
  <2>2. CASE ~(d =< 9000)
    BY <1>4, <1>6, <2>2, FineOf DEF Received, Names
  <2> QED BY <2>1, <2>2
<1>10. Applied("circuitReliability", R, {}, M, {"tau"})
  BY <1>1, <1>2, <1>3, <1>8, <1>9 DEF Applied
<1>11. /\ pc' = "circuitReliability" /\ wrong' = {} /\ val' \in [Fields -> {None, Now}]
       /\ Grows /\ SameModes /\ SameScreening
       /\ \A m \in Modes, a \in Attributes : HasM(m, a)' <=> HasM(m, a) \/ (m \in M /\ a \in {"tau"})
  BY <1>10, Effect DEF Going
<1>12. ToReceiver' /\ Has("noise")'
  BY <1>5, <1>11, KeptAll, Kept DEF Going, Names
<1>13. Delays'
  <2>1. There' = There /\ There \subseteq Modes
    BY <1>1, SameLaid, ModesThere DEF Going
  <2>2. There \subseteq M
    BY <1>4, <1>7 DEF There, Laid
  <2> QED BY <1>11, <2>1, <2>2 DEF Delays, Attributes
<1>14. Ready'
  BY <1>11, <1>12, <1>13 DEF Ready, ToDelays
<1> QED BY <1>1, <1>11, <1>14 DEF Gone

\* All that is known when the performance is computed.
LEMMA AllKnown ==
  ASSUME PathOK, ToDelays
  PROVE  /\ ToScreening /\ Located /\ BasicF2 /\ Variability /\ Operational /\ Laid /\ Screening
         /\ FieldE /\ FieldF2 /\ Sum /\ LongLosses /\ LongReferences /\ LongFields /\ Interpolated /\ Received
         /\ Has("noise") /\ Delays
BY DEF ToDelays, ToReceiver, ToLong, ToShort, ToScreening, ToMUFs, ToModes

LEMMA ReliabilityComputed == ASSUME Going, NEW spread \in BOOLEAN, CircuitReliability(spread) PROVE Gone
<1> DEFINE S == {"noise", "BMUF"} \cup Only(~path.digital, {"Pr"}) \cup Only(d > 2000, {"mp"} \cup Ends)
           N == {"SNR", "decile", "BCR"} \cup Only(path.digital /\ spread, {"spread"})
           to == IF path.digital /\ d =< 9000 THEN "OCR" ELSE "SNRXX"
<1>1. pc = "circuitReliability" /\ UNCHANGED <<path, hour, run, points>>
  BY DEF CircuitReliability, Routine
<1>2. Compute(to, Of(S), Of(N), Now)
  BY DEF CircuitReliability, Routine
<1>3. "n0_E" \notin N /\ {"SNR", "decile", "BCR"} \subseteq N
  BY DEF Only
<1>4. S \subseteq {"noise", "BMUF", "Pr"} \cup Only(d > 2000, {"mp", "t1k", "r1k"})
  BY DEF Only, Ends
<1>5. to = (IF Short THEN "OCR" ELSE "SNRXX")
  BY DEF Short
<1> HIDE DEF S, N, to
<1>6. ToDelays
  BY <1>1 DEF Going, Ready
<1>7. Located /\ BasicF2 /\ LongReferences /\ Received /\ Has("noise")
  BY <1>6, AllKnown DEF Going
<1>8. d \in Nat /\ d' = d /\ path' = path
  BY <1>1, PathFacts, SamePath DEF Going
<1>9. \A n \in S : n \in Names /\ Has(n)
  <2>1. Has("noise") /\ Has("Pr")
    BY <1>7 DEF Received
  <2>2. Has("BMUF")
    BY <1>7, <1>8 DEF BasicF2, LongReferences
  <2>3. \A n \in Only(d > 2000, {"mp", "t1k", "r1k"}) : n \in {"mp", "t1k", "r1k"} /\ Has(n)
    BY <1>7, <1>8 DEF Located, Only
  <2> QED BY <1>4, <2>1, <2>2, <2>3 DEF Names, ControlPoints
<1>10. \A f \in Of(S) : Fine(f)
  BY <1>9, FineOf
<1>11. /\ pc' = to /\ wrong' = {} /\ val' \in [Fields -> {None, Now}] /\ Grows /\ SameModes /\ SameScreening
       /\ \A n \in Names : Has(n)' <=> Has(n) \/ n \in N
  BY <1>1, <1>2, <1>3, <1>10, PathEffect DEF Going
<1>12. ToDelays'
  BY <1>6, <1>11, KeptAll DEF Going
<1>13. Reliability'
  BY <1>3, <1>11 DEF Reliability, Names
<1>14. Short' <=> Short
  BY <1>8 DEF Short
<1>15. Ready'
  <2>1. CASE Short
    BY <1>5, <1>11, <1>12, <1>13, <1>14, <2>1 DEF Ready
  <2>2. CASE ~Short
    BY <1>5, <1>11, <1>12, <1>13, <1>14, <2>2 DEF Ready
  <2> QED BY <2>1, <2>2
<1> QED BY <1>1, <1>11, <1>15 DEF Gone

LEMMA InterferenceComputed == ASSUME Going, NEW interference \in BOOLEAN, OCR(interference) PROVE Gone
<1> DEFINE to == IF interference THEN "equatorialScattering" ELSE "newPoint"
           R == IF interference THEN Of({"BCR"}) \cup Each(Existing, {"power"}) ELSE Of({"BCR"})
           N == IF interference THEN {"SIR", "MIR"} ELSE {"MIR"}
<1>1. pc = "OCR" /\ UNCHANGED <<path, hour, run, points>>
  BY DEF OCR, Routine
<1>2. Compute(to, R, Of(N), Now)
  BY DEF OCR, Routine
<1>3. "n0_E" \notin N /\ "MIR" \in N /\ to \in {"equatorialScattering", "newPoint"}
      /\ R \subseteq Of({"BCR"}) \cup Each(Existing, {"power"})
  OBVIOUS
<1> HIDE DEF to, R, N
<1>4. ToDelays /\ Reliability /\ Short
  BY <1>1 DEF Going, Ready
<1>5. /\ ToScreening /\ Received
      /\ d \in Nat /\ path' = path /\ d' = d
  BY <1>1, <1>4, AllKnown, PathFacts, SamePath DEF Going
<1>6. \A f \in R : Fine(f)
  <2>1. \A f \in Of({"BCR"}) : Fine(f)
    BY <1>4, FineOf DEF Reliability, Names
  <2>2. ASSUME NEW m \in Existing PROVE HasM(m, "power") \/ <<m[1], m[2], "power">> \in Optional
    <3>1. m \in Modes
      BY ExistingModes
    <3>2. CASE m \notin Considered
      <4>1. <<m[1], m[2], "field">> \in Optional /\ <<m[1], m[2], "power">> \in Optional
        BY <3>1, <3>2, OptionalField
      <4> QED BY <4>1
    <3>3. CASE m \in Considered /\ d =< 7000
      BY <1>5, <3>3 DEF Received
    <3>4. CASE ~(d =< 7000)
      <4>1. d > 7000
        BY <1>5, <3>4
      <4> QED BY <3>1, <4>1, OptionalPowers
    <3> QED BY <3>2, <3>3, <3>4
  <2>3. \A f \in Each(Existing, {"power"}) : Fine(f)
    BY <2>2, ExistingModes, FineEach DEF Attributes
  <2> QED BY <1>3, <2>1, <2>3
<1>7. /\ pc' = to /\ wrong' = {} /\ val' \in [Fields -> {None, Now}] /\ Grows /\ SameModes /\ SameScreening
      /\ \A n \in Names : Has(n)' <=> Has(n) \/ n \in N
  BY <1>1, <1>2, <1>3, <1>6, PathEffect DEF Going
<1>8. ToDelays' /\ Reliability'
  BY <1>4, <1>7, KeptAll, KeptPath DEF Going
<1>9. Has("MIR")' /\ Short'
  BY <1>3, <1>4, <1>5, <1>7 DEF Names, Short
<1>10. Ready'
  BY <1>3, <1>7, <1>8, <1>9 DEF Ready
<1> QED BY <1>1, <1>7, <1>10 DEF Gone

LEMMA ScatteringComputed == ASSUME Going, NEW points1000 \in BOOLEAN, EquatorialScattering(points1000) PROVE Gone
<1> DEFINE S == {"BCR", "MIR", "n0_F2", "dmax"} \cup (IF WithinDmax THEN {"mp"} ELSE HopEnds)
                \cup Only(points1000, {"mp"} \cup Ends)
           R == Of(S) \cup Each(ScatteringModes, {"field", "tau"})
<1>1. pc = "equatorialScattering" /\ UNCHANGED <<path, hour, run, points>>
  BY DEF EquatorialScattering, Routine
<1>2. Compute("SNRXX", R, Of({"OCRs"}), Now)
  BY DEF EquatorialScattering, Routine
<1>3. S \subseteq {"BCR", "MIR", "n0_F2", "dmax", "mp"} \cup Ends \cup (IF WithinDmax THEN {} ELSE HopEnds)
  BY DEF Only
<1> HIDE DEF S, R
<1>4. ToDelays /\ Reliability /\ Short /\ Has("MIR")
  BY <1>1 DEF Going, Ready
<1>5. /\ ToScreening /\ Located /\ Laid /\ BasicF2 /\ FieldE /\ FieldF2 /\ Delays
      /\ d \in Nat /\ d =< 9000 /\ path.digital /\ path' = path /\ d' = d
  BY <1>1, <1>4, AllKnown, PathFacts, SamePath DEF Going, Short
<1>6. Considered \subseteq Existing /\ Considered = ConsideredE \cup ConsideredF2
  BY <1>5, ModesOfField DEF Going
<1>7. \A f \in R : Fine(f)
  <2>1. Has("BCR") /\ Has("MIR") /\ Has("n0_F2") /\ Has("dmax") /\ Has("mp")
    BY <1>4, <1>5 DEF Reliability, BasicF2, Located
  <2>2. ASSUME NEW n \in Ends PROVE Has(n) \/ <<"path", 0, n>> \in Optional
    <3>1. CASE d < 2000
      BY <1>1, <3>1, OptionalEnds
    <3>2. CASE ~(d < 2000)
      <4>1. d >= 2000
        BY <1>5, <3>2
      <4>2. Has("t1k") /\ Has("r1k")
        BY <1>5, <4>1 DEF Located
      <4> QED BY <4>2 DEF Ends
    <3> QED BY <3>1, <3>2
  <2>3. \A n \in (IF WithinDmax THEN {} ELSE HopEnds) : n \in HopEnds /\ Has(n)
    BY <1>5 DEF BasicF2, HopEnds
  <2>4. \A n \in S : n \in Names /\ (Has(n) \/ <<"path", 0, n>> \in Optional)
    BY <1>3, <2>1, <2>2, <2>3 DEF Names, ControlPoints, Ends, HopEnds
  <2>5. \A f \in Of(S) : Fine(f)
    BY <2>4, FineOf
  <2>6. ScatteringModes \subseteq Modes
    BY DEF ScatteringModes, Modes
  <2>7. ASSUME NEW m \in ScatteringModes
        PROVE  /\ HasM(m, "field") \/ <<m[1], m[2], "field">> \in Optional
               /\ HasM(m, "tau") \/ <<m[1], m[2], "tau">> \in Optional
    <3>1. m \in Modes
      BY <2>6
    <3>2. HasM(m, "field") \/ <<m[1], m[2], "field">> \in Optional
      <4>1. CASE m \in Considered
        BY <1>5, <1>6, <4>1 DEF FieldE, FieldF2
      <4>2. CASE m \notin Considered
        <5>1. <<m[1], m[2], "field">> \in Optional /\ <<m[1], m[2], "power">> \in Optional
          BY <3>1, <4>2, OptionalField
        <5> QED BY <5>1
      <4> QED BY <4>1, <4>2
    <3>3. HasM(m, "tau") \/ <<m[1], m[2], "tau">> \in Optional
      <4>1. CASE m \in Existing
        BY <1>5, <4>1 DEF Delays, Laid
      <4>2. CASE m \notin Existing
        BY <3>1, <4>2, OptionalDelay
      <4> QED BY <4>1, <4>2
    <3> QED BY <3>2, <3>3
  <2>8. \A f \in Each(ScatteringModes, {"field", "tau"}) : Fine(f)
    <3>1. \A m \in ScatteringModes, a \in {"field", "tau"} : HasM(m, a) \/ <<m[1], m[2], a>> \in Optional
      BY <2>7
    <3> QED BY <2>6, <3>1, FineEach DEF Attributes
  <2> QED BY <2>5, <2>8 DEF R
<1>8. /\ pc' = "SNRXX" /\ wrong' = {} /\ val' \in [Fields -> {None, Now}] /\ Grows /\ SameModes /\ SameScreening
      /\ \A n \in Names : Has(n)' <=> Has(n) \/ n \in {"OCRs"}
  BY <1>1, <1>2, <1>7, PathEffect DEF Going
<1>9. ToDelays' /\ Reliability' /\ Has("MIR")'
  BY <1>4, <1>8, KeptAll, KeptPath DEF Going, Names
<1>10. Ready'
  BY <1>8, <1>9 DEF Ready
<1> QED BY <1>1, <1>8, <1>10 DEF Gone

LEMMA RatioComputed == ASSUME Going, SNRXX PROVE Gone
<1>1. pc = "SNRXX" /\ UNCHANGED <<path, hour, run, points>> /\ Compute("newPoint", Of({"SNR", "decile"}), Of({"SNRXX"}), Now)
  BY DEF SNRXX, Routine
<1>2. ToDelays /\ Reliability /\ (Short => Has("MIR"))
  BY <1>1 DEF Going, Ready
<1>3. \A f \in Of({"SNR", "decile"}) : Fine(f)
  BY <1>2, FineOf DEF Reliability, Names
<1>4. /\ pc' = "newPoint" /\ wrong' = {} /\ val' \in [Fields -> {None, Now}] /\ Grows /\ SameModes /\ SameScreening
      /\ \A n \in Names : Has(n)' <=> Has(n) \/ n \in {"SNRXX"}
  BY <1>1, <1>3, PathEffect DEF Going
<1>5. ToDelays' /\ Reliability'
  BY <1>2, <1>4, KeptAll, KeptPath DEF Going
<1>6. Has("SNRXX")' /\ (Has("MIR") => Has("MIR")')
  BY <1>4 DEF Names
<1>7. Short' <=> Short
  BY <1>1, SamePath DEF Short
<1>8. Ready'
  BY <1>2, <1>4, <1>5, <1>6, <1>7 DEF Ready
<1> QED BY <1>1, <1>4, <1>8 DEF Gone

\* What the report reads of a mode.
LEMMA ModeReported ==
  ASSUME PathOK, ToDelays, NEW m \in Existing, NEW a \in Attributes \ {"MC"}
  PROVE  HasM(m, a) \/ <<m[1], m[2], a>> \in Optional
<1>1. m \in Modes /\ HasM(m, "BMUF")
  BY ExistingModes
<1>2. /\ ToScreening /\ Variability /\ Operational /\ Laid /\ Screening /\ FieldE /\ FieldF2 /\ Received /\ Delays
  BY AllKnown
<1>3. /\ d \in Nat /\ Existing = LaidF2 \cup LaidE /\ Existing = There
      /\ d =< 9000 => Considered \subseteq Existing /\ Considered = ConsideredE \cup ConsideredF2
  BY <1>2, ModesOfField DEF Laid
<1>4. d =< 9000
  BY <1>3 DEF LaidF2, LaidE
<1>5. HasM(m, "muf") /\ HasM(m, "OPMUF")
  BY <1>2, <1>3, <1>4 DEF Variability, Operational
<1>6. \/ HasM(m, "hr")
      \/ <<m[1], m[2], "hr">> \in Optional
  <2>1. CASE m \in LaidE
    BY <1>2, <2>1 DEF Laid
  <2>2. CASE m \in LaidF2 /\ d =< 4000
    BY <1>2, <2>2 DEF Screening
  <2>3. CASE ~(d =< 4000)
    <3>1. d > 4000
      BY <1>3, <2>3
    <3>2. <<m[1], m[2], "hr">> \in Optional /\ <<m[1], m[2], "fs">> \in Optional
      BY <1>1, <3>1, OptionalHeight
    <3> QED BY <3>2
  <2> QED BY <1>3, <2>1, <2>2, <2>3
<1>7. \/ HasM(m, "fs")
      \/ <<m[1], m[2], "fs">> \in Optional
  <2>1. CASE m \in LaidE
    <3>1. PICK n \in 0..2 : m = E(n)
      BY <1>3, <2>1, PathFacts DEF LaidE
    <3> QED BY <3>1, OptionalE
  <2>2. CASE m \in LaidF2 /\ d =< 4000
    BY <1>2, <2>2 DEF Screening
  <2>3. CASE ~(d =< 4000)
    <3>1. d > 4000
      BY <1>3, <2>3
    <3>2. <<m[1], m[2], "hr">> \in Optional /\ <<m[1], m[2], "fs">> \in Optional
      BY <1>1, <3>1, OptionalHeight
    <3> QED BY <3>2
  <2> QED BY <1>3, <2>1, <2>2, <2>3
<1>8. /\ HasM(m, "field") \/ <<m[1], m[2], "field">> \in Optional
      /\ HasM(m, "power") \/ <<m[1], m[2], "power">> \in Optional
  <2>1. CASE m \notin Considered
    <3>1. <<m[1], m[2], "field">> \in Optional /\ <<m[1], m[2], "power">> \in Optional
      BY <1>1, <2>1, OptionalField
    <3> QED BY <3>1
  <2>2. CASE m \in Considered
    <3>1. HasM(m, "field")
      BY <1>2, <1>3, <1>4, <2>2 DEF FieldE, FieldF2
    <3>2. CASE d =< 7000
      <4>1. HasM(m, "power")
        BY <1>2, <2>2, <3>2 DEF Received
      <4> QED BY <3>1, <4>1
    <3>3. CASE ~(d =< 7000)
      <4>1. d > 7000
        BY <1>3, <3>3
      <4>2. <<m[1], m[2], "power">> \in Optional
        BY <1>1, <4>1, OptionalPowers
      <4> QED BY <3>1, <4>2
    <3> QED BY <3>2, <3>3
  <2> QED BY <2>1, <2>2
<1>9. \/ HasM(m, "tau")
      \/ <<m[1], m[2], "tau">> \in Optional
  <2>1. CASE path.digital
    BY <1>2, <1>3, <2>1 DEF Delays
  <2>2. CASE ~path.digital
    BY <1>1, <2>2, OptionalDelay
  <2> QED BY <2>1, <2>2
<1>10. a \in {"BMUF", "muf", "OPMUF", "hr", "fs", "field", "power", "tau"}
  BY DEF Attributes
<1> QED BY <1>1, <1>5, <1>6, <1>7, <1>8, <1>9, <1>10

\* What the report reads of the path.
LEMMA PathReported ==
  ASSUME PathOK, ToDelays, Reliability
  PROVE  \A n \in {"distance", "dmax", "ptick", "ele", "Grw", "BMUF", "muf", "OPMUF", "Pr", "Ep", "noise", "SNR", "decile",
                   "BCR"} : Has(n) \/ <<"path", 0, n>> \in Optional
<1>1. /\ ToScreening /\ Located /\ BasicF2 /\ Variability /\ Operational /\ FieldE /\ FieldF2
      /\ LongLosses /\ LongReferences /\ LongFields /\ Received /\ Has("noise")
  BY AllKnown
<1>2. /\ d \in Nat
      /\ d =< 9000 => Considered = ConsideredE \cup ConsideredF2
      /\ ConsideredE = LaidE
  BY <1>1, ModesOfField
<1>3. Has("distance") /\ Has("Pr") /\ Has("Ep") /\ Has("noise") /\ Has("SNR") /\ Has("decile") /\ Has("BCR")
  BY <1>1 DEF Located, Received, Reliability
<1>4. Has("BMUF") /\ Has("muf") /\ Has("OPMUF")
  BY <1>1, <1>2 DEF BasicF2, Variability, Operational, LongReferences
<1>5. Has("dmax")
  BY <1>1, <1>2 DEF BasicF2, LongFields
<1>6. CASE d =< 7000 /\ Considered = {}
  <2>1. \A n \in {"Grw", "ele", "ptick"} : <<"path", 0, n>> \in Optional
    BY <1>6, OptionalNames
  <2> QED BY <1>3, <1>4, <1>5, <2>1
<1>7. CASE ~(d =< 7000 /\ Considered = {})
  <2>1. d > 7000 \/ Considered # {}
    BY <1>2, <1>7
  <2>2. Has("Grw") /\ Has("ele")
    BY <1>1, <2>1 DEF Received
  <2>3. Has("ptick")
    <3>1. CASE d >= 7000
      BY <1>1, <3>1 DEF LongLosses
    <3>2. CASE ~(d >= 7000)
      <4>1. d =< 9000 /\ Considered # {}
        BY <1>2, <2>1, <3>2
      <4>2. LaidE # {} => d < 4000
        BY DEF LaidE
      <4>3. ConsideredE # {} \/ ConsideredF2 # {}
        BY <1>2, <4>1
      <4> QED BY <1>1, <1>2, <4>1, <4>2, <4>3 DEF FieldE, FieldF2
    <3> QED BY <3>1, <3>2
  <2> QED BY <1>3, <1>4, <1>5, <2>2, <2>3
<1> QED BY <1>6, <1>7

LEMMA PointOfRun == ASSUME Going, NewPoint PROVE pc' = "next" /\ wrong' = {} /\ val' \in [Fields -> {None, Now}]
<1> DEFINE main == {"distance", "dmax", "ptick", "ele", "Grw", "BMUF", "muf", "OPMUF", "Pr", "Ep", "noise", "SNR", "decile", "BCR"}
           S == main \cup Only(d =< 9000, {"Es", "n0_F2", "n0_E"}) \cup Only(d >= 7000, {"El", "long", "ref"})
                \cup Only(7000 < d /\ d < 9000, {"Ei"})
                \cup (IF path.digital /\ d =< 9000 THEN {"MIR"} ELSE {"SNRXX"})
<1>1. pc = "newPoint" /\ Compute("next", Reported, {}, Now)
  BY DEF NewPoint
<1>2. Reported = Of(S) \cup Each(Existing, Attributes \ {"MC"})
  BY DEF Reported
<1>3. S \subseteq main \cup Only(d =< 9000, {"Es", "n0_F2", "n0_E"}) \cup Only(d >= 7000, {"El", "long", "ref"})
                  \cup Only(7000 < d /\ d < 9000, {"Ei"}) \cup (IF Short THEN {"MIR"} ELSE {"SNRXX"})
  BY DEF Short
<1>4. main \subseteq Names
  BY DEF Names
<1>5. /\ ToDelays /\ Reliability
      /\ IF Short THEN Has("MIR") ELSE Has("SNRXX")
  BY <1>1 DEF Going, Ready
<1>6. PathOK
  BY DEF Going
<1>7. \A n \in main : Has(n) \/ <<"path", 0, n>> \in Optional
  BY <1>5, <1>6, PathReported
<1> HIDE DEF S, main
<1>8. /\ ToScreening /\ BasicF2 /\ Sum /\ LongLosses /\ LongReferences /\ LongFields /\ Interpolated
  BY <1>5, <1>6, AllKnown
<1>9. d \in Nat /\ (HasE <=> d < 4000)
  BY <1>6, <1>8, ModesOfField
<1>10. \A n \in Only(d =< 9000, {"Es", "n0_F2", "n0_E"}) :
         n \in {"Es", "n0_F2", "n0_E"} /\ (Has(n) \/ <<"path", 0, n>> \in Optional)
  <2>1. Has("n0_E") \/ <<"path", 0, "n0_E">> \in Optional
    BY <1>9, OptionalNames DEF HasE, Has
  <2>2. d =< 9000 => Has("Es") /\ Has("n0_F2")
    BY <1>8 DEF Sum, BasicF2
  <2> QED BY <2>1, <2>2 DEF Only
<1>11. \A n \in Only(d >= 7000, {"El", "long", "ref"}) : n \in {"El", "long", "ref"} /\ Has(n)
  BY <1>8 DEF LongLosses, LongReferences, LongFields, Only
<1>12. \A n \in Only(7000 < d /\ d < 9000, {"Ei"}) : n = "Ei" /\ Has(n)
  BY <1>8 DEF Interpolated, Only
<1>13. \A n \in (IF Short THEN {"MIR"} ELSE {"SNRXX"}) : n \in {"MIR", "SNRXX"} /\ Has(n)
  BY <1>5
<1>14. ASSUME NEW n \in S PROVE n \in Names /\ (Has(n) \/ <<"path", 0, n>> \in Optional)
  <2>1. CASE n \in main
    BY <1>4, <1>7, <2>1
  <2>2. CASE n \in Only(d =< 9000, {"Es", "n0_F2", "n0_E"})
    BY <1>10, <2>2 DEF Names
  <2>3. CASE n \in Only(d >= 7000, {"El", "long", "ref"})
    BY <1>11, <2>3 DEF Names
  <2>4. CASE n \in Only(7000 < d /\ d < 9000, {"Ei"})
    BY <1>12, <2>4 DEF Names
  <2>5. CASE n \in (IF Short THEN {"MIR"} ELSE {"SNRXX"})
    BY <1>13, <2>5 DEF Names
  <2> QED BY <1>3, <2>1, <2>2, <2>3, <2>4, <2>5
<1>15. \A f \in Of(S) : Fine(f)
  BY <1>14, FineOf
<1>16. \A f \in Each(Existing, Attributes \ {"MC"}) : Fine(f)
  <2>1. Attributes \ {"MC"} \subseteq Attributes
    OBVIOUS
  <2>2. \A m \in Existing, a \in Attributes \ {"MC"} : HasM(m, a) \/ <<m[1], m[2], a>> \in Optional
    BY <1>5, <1>6, ModeReported
  <2> QED BY <2>1, <2>2, ExistingModes, FineEach
<1>17. \A f \in Reported : Fine(f)
  BY <1>2, <1>15, <1>16
<1> QED BY <1>1, <1>17, ComputeStep DEF Going

(***************************************************************************)
(* The runs.                                                               *)
(***************************************************************************)
LEMMA RunOf ==
  ASSUME NEW H \in Nat, NEW F \in Nat, NEW k \in 1..(H * F)
  PROVE  ((k - 1) \div F) + 1 \in 1..H /\ ((k - 1) % F) + 1 \in 1..F
<1>1. F > 0 /\ H > 0
  <2>1. F # 0
    BY SMT
  <2>2. H # 0
    BY SMT
  <2> QED BY <2>1, <2>2
<1>2. PICK i \in Nat : i = k - 1 /\ i < H * F
  OBVIOUS
<1>3. i % F \in 0..(F - 1)
  BY <1>1, <1>2
<1>4. PICK q \in Int : q = i \div F
  BY <1>1, <1>2
<1>5. F * q =< i /\ i < F * (q + 1)
  BY <1>1, <1>2, <1>4
<1>6. q >= 0
  <2>1. ASSUME q < 0 PROVE FALSE
    <3>1. q + 1 =< 0
      BY <2>1
    <3>2. F * (q + 1) =< 0
      BY <1>1, <3>1
    <3> QED BY <1>2, <1>5, <3>2
  <2> QED BY <2>1
<1>7. q < H
  <2>1. ASSUME q >= H PROVE FALSE
    <3>1. F * q >= F * H
      BY <2>1
    <3>2. F * H = H * F
      OBVIOUS
    <3> QED BY <1>2, <1>5, <3>1, <3>2
  <2> QED BY <2>1
<1> QED BY <1>2, <1>3, <1>4, <1>6, <1>7

LEMMA RunPlaced ==
  ASSUME NEW k \in 1..Runs
  PROVE  HourOf(k) \in Index(Hours) /\ FrequencyOf(k) \in Index(Frequencies) /\ <<HourOf(k), FrequencyOf(k)>> # None
<1>1. Len(Hours) \in Nat /\ Len(Frequencies) \in Nat
  BY RequestGiven
<1>2. ((k - 1) \div Len(Frequencies)) + 1 \in 1..Len(Hours) /\ ((k - 1) % Len(Frequencies)) + 1 \in 1..Len(Frequencies)
  BY <1>1, RunOf DEF Runs
<1>3. HourOf(k) \in Index(Hours) /\ FrequencyOf(k) \in Index(Frequencies)
  BY <1>2 DEF HourOf, FrequencyOf, Index
<1> QED BY <1>3, RequestGiven

-------------------------------------------------------------------------------
(***************************************************************************)
(* All runs of a request.  The runs are counted, the points are those of   *)
(* the runs that ended, and what the routines before pc leave to those     *)
(* after it (Ready) was computed for the run that is under way.            *)
(***************************************************************************)
Routines ==
    {"mufBasic", "mufBasicE", "mufVariability", "mufOperational", "eLayerScreening", "shortE", "shortF2", "shortSum", "long",
     "longMUF", "longField", "between", "receiver", "noise", "digital", "circuitReliability", "OCR", "equatorialScattering",
     "SNRXX", "newPoint"}
Within == {"validatePath", "initializePath"} \cup Routines

Counted ==
    /\ wrong = {}
    /\ points \in Seq(Index(Hours) \X Index(Frequencies))
    /\ \A k \in 1..Len(points) : points[k] = <<HourOf(k), FrequencyOf(k)>>
    /\ run \in 0..Runs
    /\ pc \in {"idle", "month"} => run = 0 /\ points = <<>>
    /\ pc = "next" => Len(points) = run
    /\ pc \in Within => run # 0 /\ hour = HourOf(run) /\ Len(points) = run - 1
    /\ table \in {None, TableOfHours}
    /\ pc \in {"longMUF", "longField"} => table = TableOfHours

RunInv ==
    /\ pc \in {"idle", "month", "next"} \cup Within
    /\ Counted
    /\ pc # "idle" => path.distance \in Distances /\ path.digital \in BOOLEAN /\ DOMAIN val = Fields
    /\ pc \in Routines => PathOK /\ val \in [Fields -> {None, Now}] /\ Ready

LEMMA InRun ==
  ASSUME RunInv, pc \in Within
  PROVE  Now \in Index(Hours) \X Index(Frequencies) /\ Now # None /\ hour \in Index(Hours)
<1>1. run \in 1..Runs
  BY RequestGiven DEF RunInv, Counted, Runs
<1>2. Now = <<HourOf(run), FrequencyOf(run)>> /\ hour = HourOf(run)
  BY DEF RunInv, Counted, Now
<1> QED BY <1>1, <1>2, RunPlaced

LEMMA InRoutine == ASSUME RunInv, pc \in Routines PROVE Going /\ Tabled
<1>1. pc \in Within
  BY DEF Within
<1>2. Now # None /\ hour \in Index(Hours)
  BY <1>1, InRun
<1>3. Fresh
  BY <1>2 DEF RunInv, Counted, Fresh
<1>4. Tabled
  BY <1>2 DEF RunInv, Counted, Tabled
<1> QED BY <1>3, <1>4 DEF RunInv, Going

\* A routine that does its part keeps the invariant.
LEMMA RoutineInv ==
  ASSUME RunInv, pc \in Routines, pc' \in Routines, Gone, Tabled'
  PROVE  RunInv'
<1>1. /\ path' = path /\ run' = run /\ points' = points /\ hour' = hour /\ wrong' = {}
      /\ val' \in [Fields -> {None, Now}] /\ Ready'
  BY DEF Gone
<1>2. Now' = Now
  BY <1>1 DEF Now
<1>3. Counted'
  <2>1. pc \in Within /\ pc' \in Within /\ pc' \notin {"idle", "month", "next"}
    BY DEF Within, Routines
  <2> QED BY <1>1, <2>1 DEF RunInv, Counted, Tabled
<1>4. PathOK'
  BY <1>1, SamePath DEF RunInv
<1> QED BY <1>1, <1>2, <1>3, <1>4 DEF RunInv, Within, Routines

LEMMA PlainInv ==
  ASSUME RunInv, pc \in Routines, Gone, table' = table, pc' \in Routines \ {"longMUF", "longField"}
  PROVE  RunInv'
<1>1. Tabled'
  BY InRoutine DEF Tabled, Gone
<1> QED BY <1>1, RoutineInv

LEMMA ShortInv ==
  ASSUME RunInv, MufBasicF2 \/ MufBasicE \/ MufVariability \/ MufOperational \/ ELayerScreening \/ ShortE \/ ShortF2 \/ ShortSum
  PROVE  RunInv'
<1>1. CASE MufBasicF2
  <2>1. pc = "mufBasic" /\ pc' = "mufBasicE" /\ table' = table
    BY <1>1 DEF MufBasicF2, Routine, Compute
  <2> QED BY <1>1, <2>1, InRoutine, FirstModes, PlainInv DEF Routines
<1>2. CASE MufBasicE
  <2>1. pc = "mufBasicE" /\ pc' = "mufVariability" /\ table' = table
    BY <1>2 DEF MufBasicE, Routine, Compute
  <2> QED BY <1>2, <2>1, InRoutine, FirstModesE, PlainInv DEF Routines
<1>3. CASE MufVariability
  <2>1. pc = "mufVariability" /\ pc' = "mufOperational" /\ table' = table
    BY <1>3 DEF MufVariability, Routine, Compute
  <2> QED BY <1>3, <2>1, InRoutine, AllMUFs, PlainInv DEF Routines
<1>4. CASE MufOperational
  <2>1. pc = "mufOperational" /\ pc' = "eLayerScreening" /\ table' = table
    BY <1>4 DEF MufOperational, Routine, Compute
  <2> QED BY <1>4, <2>1, InRoutine, AllOperational, PlainInv DEF Routines
<1>5. CASE ELayerScreening
  <2>1. pc = "eLayerScreening" /\ pc' = "shortE" /\ table' = table
    BY <1>5 DEF ELayerScreening, Routine, Compute
  <2> QED BY <1>5, <2>1, InRoutine, Screens, PlainInv DEF Routines
<1>6. CASE ShortE
  <2>1. pc = "shortE" /\ pc' = "shortF2" /\ table' = table
    BY <1>6 DEF ShortE, Routine, Compute
  <2> QED BY <1>6, <2>1, InRoutine, FieldsOfE, PlainInv DEF Routines
<1>7. CASE ShortF2
  <2>1. pc = "shortF2" /\ pc' = "shortSum" /\ table' = table
    BY <1>7 DEF ShortF2, Routine, Compute
  <2> QED BY <1>7, <2>1, InRoutine, FieldsOfF2, PlainInv DEF Routines
<1>8. CASE ShortSum
  <2>1. pc = "shortSum" /\ pc' = "long" /\ table' = table
    BY <1>8 DEF ShortSum, Routine, Compute
  <2> QED BY <1>8, <2>1, InRoutine, SumOfModes, PlainInv DEF Routines
<1> QED BY <1>1, <1>2, <1>3, <1>4, <1>5, <1>6, <1>7, <1>8

LEMMA LongInv ==
  ASSUME RunInv, Long \/ LongMUF \/ LongField \/ Between \/ Receiver
  PROVE  RunInv'
<1>1. CASE Long
  <2>1. pc = "long" /\ pc' \in {"longMUF", "between"}
    BY <1>1 DEF Long, Compute
  <2> QED BY <1>1, <2>1, InRoutine, LossesOfLong, RoutineInv DEF Routines
<1>2. CASE LongMUF
  <2>1. pc = "longMUF" /\ pc' = "longField"
    BY <1>2 DEF LongMUF, Compute
  <2> QED BY <1>2, <2>1, InRoutine, ReferencesOfLong, RoutineInv DEF Routines
<1>3. CASE LongField
  <2>1. pc = "longField" /\ pc' = "between"
    BY <1>3 DEF LongField, Compute
  <2> QED BY <1>3, <2>1, InRoutine, FieldsOfLong, RoutineInv DEF Routines
<1>4. CASE Between
  <2>1. pc = "between" /\ pc' = "receiver" /\ table' = table
    BY <1>4 DEF Between, Routine, Compute
  <2> QED BY <1>4, <2>1, InRoutine, Interpolates, PlainInv DEF Routines
<1>5. CASE Receiver
  <2>1. pc = "receiver" /\ pc' = "noise" /\ table' = table
    BY <1>5 DEF Receiver, Routine, Compute
  <2> QED BY <1>5, <2>1, InRoutine, PowerAtReceiver, PlainInv DEF Routines
<1> QED BY <1>1, <1>2, <1>3, <1>4, <1>5

LEMMA PerformanceInv ==
  ASSUME RunInv,
         \/ Noise(TRUE) \/ Digital \/ SNRXX
         \/ \E spread \in BOOLEAN : CircuitReliability(spread)
         \/ \E interference \in BOOLEAN : OCR(interference)
         \/ \E points1000 \in BOOLEAN : EquatorialScattering(points1000)
  PROVE  RunInv'
<1>1. CASE Noise(TRUE)
  <2>1. pc = "noise" /\ pc' \in {"digital", "circuitReliability"} /\ table' = table
    BY <1>1 DEF Noise, Routine, Compute
  <2> QED BY <1>1, <2>1, InRoutine, NoiseComputed, PlainInv DEF Routines
<1>2. CASE Digital
  <2>1. pc = "digital" /\ pc' = "circuitReliability" /\ table' = table
    BY <1>2 DEF Digital, Routine, Compute
  <2> QED BY <1>2, <2>1, InRoutine, DelaysOfModes, PlainInv DEF Routines
<1>3. CASE SNRXX
  <2>1. pc = "SNRXX" /\ pc' = "newPoint" /\ table' = table
    BY <1>3 DEF SNRXX, Routine, Compute
  <2> QED BY <1>3, <2>1, InRoutine, RatioComputed, PlainInv DEF Routines
<1>4. ASSUME NEW spread \in BOOLEAN, CircuitReliability(spread) PROVE RunInv'
  <2>1. pc = "circuitReliability" /\ pc' \in {"OCR", "SNRXX"} /\ table' = table
    BY <1>4 DEF CircuitReliability, Routine, Compute
  <2>2. Gone
    BY <1>4, <2>1, InRoutine, ReliabilityComputed DEF Routines
  <2> QED BY <2>1, <2>2, PlainInv DEF Routines
<1>5. ASSUME NEW interference \in BOOLEAN, OCR(interference) PROVE RunInv'
  <2>1. pc = "OCR" /\ pc' \in {"equatorialScattering", "newPoint"} /\ table' = table
    BY <1>5 DEF OCR, Routine, Compute
  <2>2. Gone
    BY <1>5, <2>1, InRoutine, InterferenceComputed DEF Routines
  <2> QED BY <2>1, <2>2, PlainInv DEF Routines
<1>6. ASSUME NEW points1000 \in BOOLEAN, EquatorialScattering(points1000) PROVE RunInv'
  <2>1. pc = "equatorialScattering" /\ pc' = "SNRXX" /\ table' = table
    BY <1>6 DEF EquatorialScattering, Routine, Compute
  <2>2. Gone
    BY <1>6, <2>1, InRoutine, ScatteringComputed DEF Routines
  <2> QED BY <2>1, <2>2, PlainInv DEF Routines
<1> QED BY <1>1, <1>2, <1>3, <1>4, <1>5, <1>6

LEMMA RunReturned == ASSUME RunInv, Return PROVE RunInv'
<1>1. pc' = "idle" /\ points' = <<>> /\ run' = 0 /\ table' = None /\ wrong' = {}
  BY DEF Return, RunInv, Counted
<1>2. 0 \in 0..Runs
  BY RequestGiven DEF Runs
<1>3. "idle" \notin Within /\ "idle" \notin Routines
  BY DEF Within, Routines
<1>4. points' \in Seq(Index(Hours) \X Index(Frequencies)) /\ Len(points') = 0
  BY <1>1
<1>5. Counted'
  BY <1>1, <1>2, <1>3, <1>4 DEF Counted
<1> QED BY <1>1, <1>3, <1>5 DEF RunInv

\* Requests and the steps between the runs compute nothing.
LEMMA ControlInv ==
  ASSUME RunInv,
         \/ \E distance \in Distances, digital \in BOOLEAN : Request(distance, digital)
         \/ \E foF2Read, coeffRead \in BOOLEAN : Month(foF2Read, coeffRead)
         \/ NextRun
         \/ \E ok \in BOOLEAN : ValidatePath(ok)
  PROVE  RunInv'
<1>1. /\ "month" \notin Within /\ "month" \notin Routines /\ "next" \notin Within /\ "next" \notin Routines
      /\ "validatePath" \in Within /\ "validatePath" \notin Routines
      /\ "initializePath" \in Within /\ "initializePath" \notin Routines
  BY DEF Within, Routines
<1>2. ASSUME NEW distance \in Distances, NEW digital \in BOOLEAN, Request(distance, digital) PROVE RunInv'
  <2>1. pc = "idle" /\ pc' = "month" /\ UNCHANGED <<hour, run, table, points, wrong>>
    BY <1>2 DEF Request
  <2>2. path'.distance = distance /\ path'.digital = digital /\ DOMAIN val' = Fields
    BY <1>2 DEF Request
  <2>3. Counted'
    BY <1>1, <2>1 DEF RunInv, Counted
  <2> QED BY <1>1, <1>2, <2>1, <2>2, <2>3 DEF RunInv
<1>3. ASSUME NEW foF2Read \in BOOLEAN, NEW coeffRead \in BOOLEAN, Month(foF2Read, coeffRead) PROVE RunInv'
  <2>1. CASE Return
    BY <2>1, RunReturned
  <2>2. CASE ~Return
    <3>1. pc = "month" /\ pc' = "next" /\ UNCHANGED <<path, hour, run, val, table, points, wrong>>
      BY <1>3, <2>2 DEF Month
    <3>2. Len(points') = run'
      BY <3>1 DEF RunInv, Counted
    <3>3. Counted'
      BY <1>1, <3>1, <3>2 DEF RunInv, Counted
    <3> QED BY <1>1, <3>1, <3>3 DEF RunInv
  <2> QED BY <2>1, <2>2
<1>4. CASE NextRun
  <2>1. CASE run = Runs
    BY <1>4, <2>1, RunReturned DEF NextRun
  <2>2. CASE run # Runs
    <3>1. /\ pc = "next" /\ pc' = "validatePath" /\ run' = run + 1 /\ hour' = HourOf(run + 1)
          /\ UNCHANGED <<path, val, table, points, wrong>>
      BY <1>4, <2>2 DEF NextRun
    <3>2. Runs \in Nat
      BY RequestGiven DEF Runs
    <3>3. run' \in 0..Runs /\ run' # 0 /\ Len(points') = run' - 1
      BY <2>2, <3>1, <3>2 DEF RunInv, Counted
    <3>4. Counted'
      BY <1>1, <3>1, <3>3 DEF RunInv, Counted
    <3> QED BY <1>1, <3>1, <3>4 DEF RunInv
  <2> QED BY <2>1, <2>2
<1>5. ASSUME NEW ok \in BOOLEAN, ValidatePath(ok) PROVE RunInv'
  <2>1. CASE Return
    BY <2>1, RunReturned
  <2>2. CASE ~Return
    <3>1. pc = "validatePath" /\ pc' = "initializePath" /\ UNCHANGED <<path, hour, run, val, table, points, wrong>>
      BY <1>5, <2>2 DEF ValidatePath
    <3>2. Counted'
      BY <1>1, <3>1 DEF RunInv, Counted
    <3> QED BY <1>1, <3>1, <3>2 DEF RunInv
  <2> QED BY <2>1, <2>2
<1> QED BY <1>2, <1>3, <1>4, <1>5

LEMMA InitializeInv ==
  ASSUME RunInv, NEW horizon \in Horizons, NEW dmax \in Dmaxes, NEW screened \in {0, 1, 6},
         InitializePath(horizon, dmax, screened)
  PROVE  RunInv'
<1> DEFINE A == {"mp"} \cup Only(d >= 2000, Ends)
           B == {"distance", "season"}
           known == CalculatedCPs \cup Of({"distance", "season"})
           reset == ResetOutputs \cup ResetModes \cup ResetCPs
<1>1. /\ pc = "initializePath" /\ pc' = "mufBasic" /\ UNCHANGED <<hour, run, table, points, wrong>>
      /\ path' = [distance |-> d, digital |-> path.digital, horizon |-> horizon, dmax |-> dmax, screened |-> screened]
      /\ val' = [f \in DOMAIN val |-> IF f \in known THEN Now ELSE IF f \in reset THEN None ELSE val[f]]
  BY DEF InitializePath
<1>2. \A f \in Fields : f \in reset
  BY DEF ResetOutputs
<1>3. known = Of(A) \cup Of(B)
  BY DEF CalculatedCPs
<1> HIDE DEF A, B, known, reset
<1>4. path.distance \in Distances /\ path.digital \in BOOLEAN /\ DOMAIN val = Fields
  BY <1>1 DEF RunInv
<1>5. val' = [f \in Fields |-> IF f \in known THEN Now ELSE None]
  BY <1>1, <1>2, <1>4
<1>6. pc \in Within /\ pc' \in Within /\ pc' \in Routines
  BY <1>1 DEF Within, Routines
<1>7. Now # None
  BY <1>6, InRun
<1>8. Now' = Now /\ d' = d
  BY <1>1 DEF Now, d
<1>9. Counted'
  BY <1>1, <1>6 DEF RunInv, Counted
<1>10. PathOK'
  BY <1>1, <1>4 DEF PathOK, d
<1>11. val' \in [Fields -> {None, Now}]
  BY <1>5
<1>12. \A f \in Fields : val'[f] # None <=> f \in known
  BY <1>5, <1>7
<1>13. \A n \in Names : Has(n)' <=> n \in A \/ n \in B
  <2>1. \A n : <<"path", 0, n>> \in known <=> n \in A \/ n \in B
    BY <1>3, InOf
  <2> QED BY <1>12, <2>1, Named DEF Has
<1>14. \A m \in Modes, a \in Attributes : ~HasM(m, a)'
  <2>1. \A X : \A m \in Modes, a \in Attributes : <<m[1], m[2], a>> \notin Of(X)
    <3>1. {} \subseteq Modes
      OBVIOUS
    <3> QED BY <3>1, ApartFields
  <2>2. \A m \in Modes, a \in Attributes : <<m[1], m[2], a>> \notin known
    BY <1>3, <2>1
  <2> QED BY <1>12, <2>2, Attributed DEF HasM
<1>15. Located'
  <2>1. /\ "mp" \in A /\ "distance" \in B /\ "season" \in B
        /\ d >= 2000 => "t1k" \in A /\ "r1k" \in A
    BY DEF A, B, Only, Ends
  <2> QED BY <1>8, <1>13, <2>1 DEF Located, Names, ControlPoints
<1>16. Existing' = {}
  BY <1>14 DEF Existing, HasM, Attributes
<1>17. ~HasE'
  <2>1. "n0_E" \notin A /\ "n0_E" \notin B /\ "n0_E" \in Names
    BY DEF A, B, Only, Ends, Names
  <2>2. ~Has("n0_E")'
    BY <1>13, <2>1
  <2> QED BY <2>2 DEF HasE, Has
<1>18. Ready'
  BY <1>1, <1>15, <1>16, <1>17 DEF Ready
<1>19. path'.distance \in Distances /\ path'.digital \in BOOLEAN /\ DOMAIN val' = Fields
  BY <1>10, <1>11 DEF PathOK
<1> QED BY <1>1, <1>6, <1>8, <1>9, <1>10, <1>11, <1>18, <1>19 DEF RunInv

LEMMA PointInv == ASSUME RunInv, NewPoint PROVE RunInv'
<1>1. pc = "newPoint" /\ points' = Append(points, Now) /\ UNCHANGED <<path, hour, run, table>>
  BY DEF NewPoint
<1>2. pc \in Routines /\ pc \in Within
  BY <1>1 DEF Within, Routines
<1>3. pc' = "next" /\ wrong' = {} /\ val' \in [Fields -> {None, Now}]
  BY <1>2, InRoutine, PointOfRun
<1>4. "next" \notin Within /\ "next" \notin Routines
  BY DEF Within, Routines
<1>5. Now \in Index(Hours) \X Index(Frequencies)
  BY <1>2, InRun
<1>6. /\ points \in Seq(Index(Hours) \X Index(Frequencies)) /\ Len(points) = run - 1 /\ run \in 0..Runs
      /\ \A k \in 1..Len(points) : points[k] = <<HourOf(k), FrequencyOf(k)>>
      /\ Now = <<HourOf(run), FrequencyOf(run)>> /\ table \in {None, TableOfHours}
  BY <1>2 DEF RunInv, Counted, Now
<1>7. points' \in Seq(Index(Hours) \X Index(Frequencies)) /\ Len(points') = run
  BY <1>1, <1>5, <1>6
<1>8. \A k \in 1..Len(points') : points'[k] = <<HourOf(k), FrequencyOf(k)>>
  <2>1. \A k \in 1..(run - 1) : points'[k] = points[k]
    BY <1>1, <1>5, <1>6
  <2>2. points'[run] = Now
    BY <1>1, <1>5, <1>6
  <2>3. ASSUME NEW k \in 1..run, k # run PROVE k \in 1..(run - 1)
    BY <1>6, <2>3
  <2> QED BY <1>6, <1>7, <2>1, <2>2, <2>3
<1>9. Counted'
  BY <1>1, <1>3, <1>4, <1>6, <1>7, <1>8 DEF Counted
<1>10. path'.distance \in Distances /\ path'.digital \in BOOLEAN /\ DOMAIN val' = Fields
  BY <1>1, <1>3 DEF RunInv
<1> QED BY <1>3, <1>4, <1>9, <1>10 DEF RunInv

LEMMA StutterInv == ASSUME RunInv, UNCHANGED vars PROVE RunInv'
<1>1. /\ pc' = pc /\ path' = path /\ hour' = hour /\ run' = run /\ val' = val /\ table' = table
      /\ points' = points /\ wrong' = wrong
  BY DEF vars
<1>2. CASE pc \notin Routines
  BY <1>1, <1>2 DEF RunInv, Counted
<1>3. CASE pc \in Routines
  <2>1. Going /\ Tabled
    BY <1>3, InRoutine
  <2>2. Grows
    BY <1>1 DEF Grows
  <2>3. SameModes /\ SameScreening
    BY <1>1 DEF SameModes, SameScreening, Existing, HasE, HasM
  <2>4. \A n \in Names : Has(n) => Has(n)'
    BY <1>1 DEF Has
  <2>5. d' = d /\ LaidF2' = LaidF2 /\ (Short' <=> Short) /\ path' = path
    BY <1>1, SamePath, SameLaid DEF Short
  <2>6. /\ Located => Located'
        /\ BasicF2 => BasicF2'
        /\ Variability => Variability'
        /\ LongLosses => LongLosses'
        /\ LongReferences => LongReferences'
        /\ Interpolated => Interpolated'
        /\ Reliability => Reliability'
    BY <2>1, <2>2, KeptPath DEF Going
  <2>7. /\ ToModes => ToModes'
        /\ ToMUFs => ToMUFs'
        /\ ToScreening => ToScreening'
        /\ ToScreening /\ FieldE => FieldE'
        /\ ToScreening /\ FieldF2 => FieldF2'
        /\ ToShort => ToShort'
        /\ ToLong => ToLong'
        /\ ToReceiver => ToReceiver'
        /\ ToDelays => ToDelays'
    BY <2>1, <2>2, <2>3, KeptAll DEF Going
  <2>8. "noise" \in Names /\ "MIR" \in Names /\ "SNRXX" \in Names
    BY DEF Names
  <2>9. Ready
    BY <2>1 DEF Going
  <2>10. Ready'
    BY <1>1, <2>3, <2>4, <2>5, <2>6, <2>7, <2>8, <2>9 DEF Ready, SameModes
  <2>11. Gone
    BY <1>1, <2>1, <2>10 DEF Gone, Going, Fresh
  <2>12. Tabled'
    BY <1>1, <2>1 DEF Tabled
  <2> QED BY <1>1, <1>3, <2>11, <2>12, RoutineInv
<1> QED BY <1>2, <1>3

LEMMA RunStep == ASSUME RunInv, Next \/ UNCHANGED vars PROVE RunInv'
<1>1. CASE Next
  <2>1. ASSUME NEW ok \in BOOLEAN, Noise(ok) PROVE RunInv'
    <3>1. CASE ok = TRUE
      BY <2>1, <3>1, PerformanceInv
    <3>2. CASE ok = FALSE
      BY <2>1, <3>2, RunReturned DEF Noise
    <3> QED BY <3>1, <3>2
  <2>2. ASSUME NEW horizon \in Horizons, NEW dmax \in Dmaxes, NEW screened \in {0, 1, 6},
               InitializePath(horizon, dmax, screened)
        PROVE  RunInv'
    BY <2>2, InitializeInv
  <2> QED BY <1>1, <2>1, <2>2, ControlInv, ShortInv, LongInv, PerformanceInv, PointInv DEF Next
<1>2. CASE UNCHANGED vars
  BY <1>2, StutterInv
<1> QED BY <1>1, <1>2

LEMMA RunStart == Init => RunInv
<1> SUFFICES ASSUME Init PROVE RunInv
  OBVIOUS
<1>1. 0 \in 0..Runs
  BY RequestGiven DEF Runs
<1>2. "idle" \notin Within /\ "idle" \notin Routines
  BY DEF Within, Routines
<1>3. points \in Seq(Index(Hours) \X Index(Frequencies)) /\ Len(points) = 0
  BY DEF Init
<1>4. Counted
  BY <1>1, <1>2, <1>3 DEF Init, Counted
<1> QED BY <1>2, <1>4 DEF Init, RunInv

LEMMA FocusedRuns == ASSUME [ServicesNext]_all PROVE Next \/ UNCHANGED vars
BY DEF ServicesNext, all, hf

\* The routines of calculate (p533_run.go) read what was computed for the hour and the frequency of the run, for every
\* request, length of the path and ionosphere, and Predict (hf.go) returns its points in their order.
THEOREM ValuesAlwaysOfThisRun == ServicesSpec => []ValuesOfThisRun
<1>1. ServicesInit => RunInv
  BY RunStart DEF ServicesInit
<1>2. RunInv /\ [ServicesNext]_all => RunInv'
  BY FocusedRuns, RunStep
<1>3. RunInv => ValuesOfThisRun
  BY DEF RunInv, Counted, ValuesOfThisRun
<1> QED BY <1>1, <1>2, <1>3, PTL DEF ServicesSpec
================================================================================

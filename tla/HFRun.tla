--------------------------------- MODULE HFRun ---------------------------------
(***************************************************************************)
(* One prediction of the HF model (internal/hf): hf.Predict runs calculate *)
(* for every hour and frequency of a request on one path structure, which  *)
(* is reused by all runs, and the routines of calculate hand their results *)
(* on in it.  They decide by the distance what applies to the path, each   *)
(* with limits of its own: 2000, 4000, 7000 and 9000 km and dmax.          *)
(*                                                                         *)
(* What a routine computes is left out; the model keeps for which run a    *)
(* field was computed last, and None for the default that initializePath   *)
(* gave it.  Fields that are always written together are one field:        *)
(*   muf      MUF50, MUF10, MUF90 (and of a mode deltal, deltau, Fprob)     *)
(*   field    ele, Lb and Ew of a mode     power  Grw and Prw of a mode    *)
(*   long     E0, Gtl, Gap, Ly, fH, F      ref    K, fM and fL             *)
(*   decile   DuSN and DlSN                spread RSN, RT and RF           *)
(*   MIR      MIR, OCR, DuSI and DlSI      OCRs   OCRs and probocc         *)
(* Distances are in kilometres.                                            *)
(***************************************************************************)
EXTENDS Naturals, Sequences

CONSTANTS
    Hours, Frequencies,  \* the hours and frequencies of a request, in order
    Distances,           \* lengths of paths
    Dmaxes, Horizons,    \* what mufBasic may find from the mid-point, at most 4000
    None

VARIABLES
    loaded,  \* the data of the month is in memory
    path,    \* the circuit, and what the ionosphere of this run is like
    hour,    \* p.hour
    run,     \* number of the run, hours in the outer loop
    pc,      \* next routine
    val,     \* val[f]: hour and frequency of the run that computed f
    table,   \* p.longCP: table[j] is the hour its entry j was computed for
    points,  \* res.Points
    wrong    \* history: fields that were read and not computed for the run

vars == <<loaded, path, hour, run, pc, val, table, points, wrong>>

Index(s) == {s[i] : i \in 1..Len(s)}
ControlPoints == {"t1k", "td02", "mp", "rd02", "r1k"}
Ends == {"t1k", "r1k"}
HopEnds == {"td02", "rd02"}
E(n) == <<"E", n>>
F2(n) == <<"F2", n>>
Modes == {E(n) : n \in 0..2} \cup {F2(n) : n \in 0..5}
Each(modes, attributes) == {<<m[1], m[2], a>> : m \in modes, a \in attributes}
Of(names) == {<<"path", 0, name>> : name \in names}
Attributes == {"BMUF", "muf", "OPMUF", "hr", "fs", "field", "power", "tau", "MC"}
Fields ==
    Each(Modes, Attributes) \cup Of(ControlPoints) \cup
    Of({"distance", "season", "mp.hr", "dmax", "n0_F2", "n0_E", "BMUF", "muf", "OPMUF", "ptick", "ele", "Es", "El",
          "Ei", "long", "ref", "Pr", "Ep", "Grw", "DM", "noise", "SNR", "decile", "BCR", "spread", "SIR", "MIR", "OCRs",
          "SNRXX"})

Runs == Len(Hours) * Len(Frequencies)
HourOf(k) == Hours[((k - 1) \div Len(Frequencies)) + 1]
FrequencyOf(k) == Frequencies[((k - 1) % Len(Frequencies)) + 1]
Now == <<hour, FrequencyOf(run)>>

\* What is assumed of the constants.  For every M(3000)F2 below 5.3, and measured ones are, mufBasic finds a hop that
\* carries 9000 km in at most six, and a dmax above 2000 km, which it limits to 4000.  None is not a run.
ASSUME RequestGiven ==
    /\ Len(Hours) \in Nat /\ Len(Frequencies) \in Nat
    /\ Distances \subseteq Nat
    /\ \A h \in Horizons : h \in Nat /\ 6 * h > 9000
    /\ Dmaxes \subseteq 2000..4000
    /\ \A h \in Index(Hours), x \in Index(Frequencies) : None # <<h, x>>

Init ==
    /\ loaded = FALSE /\ path = None /\ hour = None /\ run = 0 /\ pc = "idle"
    /\ val = None /\ table = None /\ points = <<>> /\ wrong = {}

(***************************************************************************)
(* What applies to the path.                                               *)
(***************************************************************************)
d == path.distance
\* Nothing, if it does not apply to the path.
Only(applies, fields) == IF applies THEN fields ELSE {}
EHorizon == 1777  \* hop of the E layer at 3 degrees, its height is fixed

\* The lowest-order mode: the first n with hops below the horizon.
FirstHop(horizon, last) ==
    CHOOSE n \in 0..last : horizon * (n + 1) > d /\ \A k \in 0..(n - 1) : horizon * (k + 1) =< d
n0_F2 == FirstHop(path.horizon, 5)
n0_E == FirstHop(EHorizon, 2)
HasE == val[<<"path", 0, "n0_E">>] # None
LayerF2 == {F2(n) : n \in n0_F2..5}
LayerE == IF HasE THEN {E(n) : n \in n0_E..2} ELSE {}
Existing == {m \in Modes : val[<<m[1], m[2], "BMUF">>] # None}
WithinDmax == d =< path.dmax

\* A screened mode: fs is not below the frequency.  fs decreases with the hops, its default is 0.
Screened(n) == val[<<"F2", n, "fs">>] # None /\ n < n0_F2 + path.screened
ConsideredF2 == {F2(n) : n \in {k \in n0_F2..5 : ~Screened(k) /\ (IF k = n0_F2 THEN d =< path.dmax * (k + 1)
                                                                 ELSE F2(k) \in Existing)}}
ConsideredE == {m \in LayerE : IF m = E(n0_E) THEN d =< 2000 * (n0_E + 1) ELSE m \in Existing}
Considered == ConsideredE \cup ConsideredF2

(***************************************************************************)
(* What may be read at its default, because it does not apply:             *)
(*   - E modes of paths from 4000 km, screening and heights beyond 4000 km *)
(*     (the delays of digital modulation are computed with a height of 0   *)
(*     there, although its comment says that it was calculated);           *)
(*   - field and power of a mode that is not considered, the power of all  *)
(*     modes beyond 7000 km, and the gain if there is no mode;             *)
(*   - the points 1000 km from the ends of paths below 2000 km, and E      *)
(*     modes in place of F2 modes, in equatorialScattering (modeAt keeps   *)
(*     an index error of the C program).                                   *)
(***************************************************************************)
Optional ==
    Of(Only(d >= 4000, {"n0_E"}) \cup Only(d =< 7000 /\ Considered = {}, {"Grw", "ele", "ptick"})
       \cup Only(d < 2000 /\ pc = "equatorialScattering", Ends))
    \cup Each(IF d > 4000 THEN Modes ELSE Modes \ Existing, {"hr", "fs"})
    \cup Each({E(n) : n \in 0..2}, {"fs"})
    \cup Each(Modes \ Considered, {"field", "power"})
    \cup Each(Only(d > 7000, Modes), {"power"})
    \cup Each(IF path.digital THEN Modes \ Existing ELSE Modes, {"tau"})

(***************************************************************************)
(* A routine reads fields, writes fields for the run `by', and is followed *)
(* by another one.                                                         *)
(***************************************************************************)
Compute(next, reads, writes, by) ==
    /\ pc' = next
    /\ val' = [f \in DOMAIN val |-> IF f \in writes THEN by ELSE val[f]]
    /\ LET unset == {f \in reads : val[f] = None}
           stale == {f \in reads \ unset : val[f] # Now}
       IN  wrong' = wrong \cup stale \cup (IF unset = {} THEN {} ELSE unset \ Optional)

Routine(next, reads, writes) ==
    /\ Compute(next, reads, writes, Now)
    /\ UNCHANGED <<loaded, path, hour, run, table, points>>

(***************************************************************************)
(* Predict and the runs.                                                   *)
(***************************************************************************)
\* validate and newPath: a fresh path, without the table of an earlier request.
Request(distance, digital) ==
    /\ pc = "idle" /\ pc' = "month"
    /\ path' = [distance |-> distance, digital |-> digital]
    /\ val' = [f \in Fields |-> None]
    /\ UNCHANGED <<loaded, hour, run, table, points, wrong>>

\* Predict returns its points, or the error of one run alone; the path is gone.
Return ==
    /\ pc' = "idle" /\ path' = None /\ val' = None /\ table' = None /\ points' = <<>> /\ run' = 0 /\ hour' = None
    /\ UNCHANGED wrong

\* month: only a complete load is kept; the request fails with a read that fails.
Month(foF2Read, coeffRead) ==
    /\ pc = "month"
    /\ loaded' = (loaded \/ (foF2Read /\ coeffRead))
    /\ IF loaded' THEN pc' = "next" /\ UNCHANGED <<path, hour, run, val, table, points, wrong>> ELSE Return

NextRun ==
    /\ pc = "next"
    /\ IF run = Runs THEN Return
       ELSE /\ pc' = "validatePath" /\ run' = run + 1 /\ hour' = HourOf(run + 1)
            /\ UNCHANGED <<path, val, table, points, wrong>>
    /\ UNCHANGED loaded

\* The checks of validatePath that the request has not made, and the noise: an error ends the request.
ValidatePath(ok) ==
    /\ pc = "validatePath"
    /\ IF ok THEN pc' = "initializePath" /\ UNCHANGED <<path, hour, run, val, table, points, wrong>> ELSE Return
    /\ UNCHANGED loaded

Noise(ok) ==
    /\ pc = "noise"
    /\ IF ok THEN Routine(IF path.digital THEN "digital" ELSE "circuitReliability", {}, Of({"noise"}))
       ELSE Return /\ UNCHANGED loaded

\* The fields that initializePath, initializeModes and initializeCPs reset.
ResetCPs == Of(ControlPoints \cup {"mp.hr"})
ResetModes == Each(Modes, Attributes)
ResetOutputs == Fields \ (ResetCPs \cup ResetModes)
\* The bug of an end point that mufBasic needs and initializeCPs leaves out, at 2000 km.
CalculatedCPsBeyond == Of({"mp"} \cup Only(d > 2000, Ends))
CalculatedCPs == Of({"mp"} \cup Only(d >= 2000, Ends))

\* The ionosphere of the hour decides the horizon and dmax; the frequency, how many modes are screened.
InitializePath(horizon, dmax, screened) ==
    /\ pc = "initializePath" /\ pc' = "mufBasic"
    /\ path' = [distance |-> d, digital |-> path.digital, horizon |-> horizon, dmax |-> dmax, screened |-> screened]
    /\ LET known == CalculatedCPs \cup Of({"distance", "season"})
           reset == ResetOutputs \cup ResetModes \cup ResetCPs
       IN  val' = [f \in DOMAIN val |-> IF f \in known THEN Now ELSE IF f \in reset THEN None ELSE val[f]]
    /\ UNCHANGED <<loaded, hour, run, table, points, wrong>>

(***************************************************************************)
(* Part 1: frequency availability, for paths up to 9000 km.                *)
(***************************************************************************)
MufBasicF2 ==
    /\ pc = "mufBasic"
    /\ Routine("mufBasicE", Of({"distance"} \cup Only(d =< 9000, {"mp"})),
               Of(Only(d =< 9000, {"mp.hr", "n0_F2", "dmax", "BMUF"} \cup Only(~WithinDmax, HopEnds)))
               \cup Each(Only(d =< 9000, LayerF2), {"BMUF"}))

MufBasicE ==
    LET modes == Only(d < 4000, {E(n) : n \in n0_E..2}) IN
    /\ pc = "mufBasicE"
    /\ Routine("mufVariability",
               Of(Only(d < 4000, IF d < 2000 THEN {"mp"} ELSE Ends) \cup Only(d =< 9000, {"n0_F2"})),
               Of(Only(d < 4000, {"n0_E"}) \cup Only(d =< 9000, {"BMUF"})) \cup Each(modes, {"hr", "BMUF"}))

MufVariability ==
    /\ pc = "mufVariability"
    /\ Routine("mufOperational",
               Of(Only(d =< 9000, {"BMUF", "mp", "season"})) \cup Each(Only(d =< 9000, Existing), {"BMUF"}),
               Of(Only(d =< 9000, {"muf"})) \cup Each(Only(d =< 9000, Existing), {"muf"}))

MufOperational ==
    /\ pc = "mufOperational"
    /\ Routine("eLayerScreening",
               Of(Only(d =< 9000, {"mp", "season"})) \cup Each(Only(d =< 9000, Existing), {"BMUF", "muf"}),
               Of(Only(d =< 9000, {"OPMUF"})) \cup Each(Only(d =< 9000, Existing), {"OPMUF"}))

ELayerScreening ==
    /\ pc = "eLayerScreening"
    /\ Routine("shortE",
               Of(Only(d =< 4000, {"n0_F2", "dmax", "mp"} \cup Only(d > 2000, Ends) \cup Only(~WithinDmax, HopEnds))),
               Each(Only(d =< 4000, LayerF2), {"hr", "fs"}))

(***************************************************************************)
(* Part 2: the field strength of short paths (up to 9000 km), of long ones *)
(* (from 7000 km), between the two, and the power at the receiver.         *)
(***************************************************************************)
\* The loop ends with the first E mode that is not considered.
CalculatedE == {m \in ConsideredE : \A k \in n0_E..m[2] : E(k) \in ConsideredE}

ShortE ==
    /\ pc = "shortE"
    /\ Routine("shortF2",
               Of(Only(d =< 9000, {"n0_E"}) \cup Only(CalculatedE # {}, {"mp"} \cup Only(d > 2000, Ends)))
               \cup Each(LayerE, {"BMUF"}),
               Of(Only(CalculatedE # {}, {"ptick"})) \cup Each(CalculatedE, {"field"}))

\* smallestCPfoF2 looks at all five points.
ShortF2 ==
    LET heights == IF WithinDmax THEN {"mp.hr"} ELSE ControlPoints
        losses == {"mp"} \cup Only(d > 2000, Ends) \cup Only(d > 2000 /\ ~WithinDmax, HopEnds)
        modes == Only(d =< 9000, ConsideredF2)
    IN  /\ pc = "shortF2"
        /\ Routine("shortSum",
                   Of(Only(d =< 9000, {"dmax", "n0_F2"} \cup heights) \cup Only(modes # {}, losses))
                   \cup Each(Only(d =< 9000, LayerF2), {"BMUF", "fs"}),
                   Of(Only(modes # {}, {"ptick"})) \cup Each(modes, {"field"}))

\* The sum considers the modes anew.
ShortSum ==
    /\ pc = "shortSum"
    /\ Routine("long",
               Of(Only(d =< 9000, {"dmax", "n0_F2"})) \cup Each(Only(d =< 9000, Considered), {"field"}),
               Of(Only(d =< 9000, {"Es"})) \cup Each(Only(d =< 9000, Considered), {"MC"}))

\* The table of all hours is computed at each of them, p.hour is changed and restored.
LongTable == IF table = None THEN [j \in Index(Hours) |-> j] ELSE table
Restored == hour

Long ==
    /\ pc = "long"
    /\ IF d >= 7000 THEN /\ table' = LongTable /\ hour' = Restored
                         /\ Compute("longMUF", Of({"distance", "mp"}), Of({"ptick", "long"}), <<LongTable[hour], Now[2]>>)
                    ELSE Compute("between", {}, {}, Now) /\ UNCHANGED <<table, hour>>
    /\ UNCHANGED <<loaded, path, run, points>>

\* findMUFsandfM and findfL; the MUFs of the path beyond 9000 km.
LongMUF ==
    /\ pc = "longMUF"
    /\ Compute("longField", Of({"mp", "season", "long"}),
               Of({"ref"} \cup Only(d > 9000, {"BMUF", "muf", "OPMUF"})), <<table[hour], Now[2]>>)
    /\ UNCHANGED <<loaded, path, hour, run, table, points>>

LongField ==
    /\ pc = "longField"
    /\ Compute("between", Of({"ref", "long"}),
               Of({"El"} \cup Only(d > 9000, {"ele", "dmax"} \cup HopEnds \cup Ends)), <<table[hour], Now[2]>>)
    /\ UNCHANGED <<loaded, path, hour, run, table, points>>

Between ==
    LET applies == 7000 < d /\ d < 9000 IN
    /\ pc = "between"
    /\ Routine("receiver",
               Of(Only(applies, {"El", "Es", "n0_F2"} \cup HopEnds)), Of(Only(applies, {"Ei", "BMUF"})))

\* medianAvailableReceiverPower and dominantMode.
Receiver ==
    /\ pc = "receiver"
    /\ Routine("noise",
               Of(IF d =< 7000 THEN {"n0_F2", "dmax", "Es"} ELSE IF d < 9000 THEN {"Ei"} ELSE {"El"})
               \cup Each(Only(d =< 7000, Considered), {"field"}),
               Of({"Pr", "Ep"} \cup Only(d > 7000, {"Grw", "ele"}) \cup Only(d =< 7000 /\ Considered # {}, {"DM", "Grw", "ele"}))
               \cup Each(Only(d =< 7000, Considered), {"power"}))

(***************************************************************************)
(* Part 3: the performance of the system.                                  *)
(***************************************************************************)
\* The delays of all modes, the order of the modes, and the signal.
Digital ==
    /\ pc = "digital"
    /\ Routine("circuitReliability",
               IF d =< 9000 THEN Of({"n0_E", "n0_F2", "Grw"}) \cup Each(Existing, {"BMUF", "field", "power"})
                              \cup Each(LayerF2 \cap Existing, {"hr"})
               ELSE Of({"Pr"}),
               Each(Only(d =< 9000, Existing), {"tau"}))

CircuitReliability(spread) ==
    /\ pc = "circuitReliability"
    /\ Routine(IF path.digital /\ d =< 9000 THEN "OCR" ELSE "SNRXX",
               Of({"noise", "BMUF"} \cup Only(~path.digital, {"Pr"}) \cup Only(d > 2000, {"mp"} \cup Ends)),
               Of({"SNR", "decile", "BCR"} \cup Only(path.digital /\ spread, {"spread"})))

\* With all modes as signal there is no interference, and the routine returns before SNRXX.
OCR(interference) ==
    /\ pc = "OCR"
    /\ IF interference
       THEN Routine("equatorialScattering", Of({"BCR"}) \cup Each(Existing, {"power"}), Of({"SIR", "MIR"}))
       ELSE Routine("newPoint", Of({"BCR"}), Of({"MIR"}))

\* The signal modes that equatorialScattering finds by modeAt: F2[3..5], then the E modes.
ScatteringModes == {F2(n) : n \in 3..5} \cup {E(n) : n \in 0..2}

EquatorialScattering(points1000) ==
    /\ pc = "equatorialScattering"
    /\ Routine("SNRXX",
               Of({"BCR", "MIR", "n0_F2", "dmax"} \cup (IF WithinDmax THEN {"mp"} ELSE HopEnds)
                  \cup Only(points1000, {"mp"} \cup Ends)) \cup Each(ScatteringModes, {"field", "tau"}),
               Of({"OCRs"}))

SNRXX ==
    /\ pc = "SNRXX"
    /\ Routine("newPoint", Of({"SNR", "decile"}), Of({"SNRXX"}))

(***************************************************************************)
(* newPoint: what the point of a path reports.                             *)
(***************************************************************************)
Reported ==
    Of({"distance", "dmax", "ptick", "ele", "Grw", "BMUF", "muf", "OPMUF", "Pr", "Ep", "noise", "SNR", "decile", "BCR"}
       \cup Only(d =< 9000, {"Es", "n0_F2", "n0_E"}) \cup Only(d >= 7000, {"El", "long", "ref"})
       \cup Only(7000 < d /\ d < 9000, {"Ei"})
       \cup (IF path.digital /\ d =< 9000 THEN {"MIR"} ELSE {"SNRXX"}))
    \cup Each(Existing, Attributes \ {"MC"})

NewPoint ==
    /\ pc = "newPoint"
    /\ Compute("next", Reported, {}, Now)
    /\ points' = Append(points, Now)
    /\ UNCHANGED <<loaded, path, hour, run, table>>

Next ==
    \/ \E distance \in Distances, digital \in BOOLEAN : Request(distance, digital)
    \/ \E foF2Read, coeffRead \in BOOLEAN : Month(foF2Read, coeffRead)
    \/ NextRun
    \/ \E ok \in BOOLEAN : ValidatePath(ok) \/ Noise(ok)
    \/ \E horizon \in Horizons, dmax \in Dmaxes, screened \in {0, 1, 6} : InitializePath(horizon, dmax, screened)
    \/ MufBasicF2 \/ MufBasicE \/ MufVariability \/ MufOperational \/ ELayerScreening
    \/ ShortE \/ ShortF2 \/ ShortSum \/ Long \/ LongMUF \/ LongField \/ Between \/ Receiver
    \/ Digital \/ SNRXX
    \/ \E spread \in BOOLEAN : CircuitReliability(spread)
    \/ \E interference \in BOOLEAN : OCR(interference)
    \/ \E points1000 \in BOOLEAN : EquatorialScattering(points1000)
    \/ NewPoint

Spec == Init /\ [][Next]_vars

(***************************************************************************)
(* The routines "have to run in this order" (p533_run.go) and the path is  *)
(* reused for all runs: whatever a routine or the report reads was         *)
(* computed for the hour and the frequency of the run, by routines whose   *)
(* limits agree, except where a default stands for what does not apply     *)
(* (Optional).  The points come in the order of the hours and, within an   *)
(* hour, of the frequencies, each computed for the hour it names.          *)
(***************************************************************************)
ValuesOfThisRun ==
    /\ wrong = {}
    /\ \A k \in 1..Len(points) : points[k] = <<HourOf(k), FrequencyOf(k)>>
================================================================================

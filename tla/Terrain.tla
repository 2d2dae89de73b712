-------------------------------- MODULE Terrain --------------------------------
(***************************************************************************)
(* Terrain tiles in a worker process (internal/dem) and the calculations   *)
(* that read them: link analyses (internal/link) and coverages             *)
(* (internal/coverage).  All of them share one cache, the tiles used last  *)
(* kept in memory.  The cache is locked while a tile is loaded, so a get   *)
(* is one step, and so is a look at the spacing; calculations interleave   *)
(* between them.                                                           *)
(*                                                                         *)
(* The spacing is that of the tile that was loaded last, by whomever, and  *)
(* a hit does not move it.  Heights and losses are left out.               *)
(***************************************************************************)
EXTENDS Naturals, Sequences, FiniteSets, Functions

CONSTANTS
    TileNames,
    Spacings,   \* of the tiles there may be
    Default,    \* defaultSpacingM, the spacing before any tile was loaded
    MaxTiles,   \* RADIOPATH_DEM_CACHE_TILES
    Paths,      \* the tiles that paths and radials may cross, as sequences
    Radials,    \* bearings of a coverage
    Links,      \* link analyses
    Coverages,  \* and computations of coverages, one at a time each
    None

VARIABLES
    ground,     \* ground[t]: spacing of the tile t of the store, None for sea
    tiles,      \* tileCache: the cached tiles, the one used last first
    spacing,    \* tileCache.spacing
    calc,       \* calc[c]: the calculation c
    loaded      \* history: the tiles that were ever loaded

Calcs == Links \cup Coverages
vars == <<ground, tiles, spacing, calc, loaded>>

Idle == [pc |-> "idle"]
Goto(c, next) == calc' = [calc EXCEPT ![c] = next]

Init ==
    /\ ground \in [TileNames -> Spacings \cup {None}]
    /\ tiles = << >> /\ spacing = Default
    /\ calc = [c \in Calcs |-> Idle]
    /\ loaded = {}

(***************************************************************************)
(* tileCache.get                                                           *)
(***************************************************************************)
Front(t) == <<t>> \o SelectSeq(tiles, LAMBDA u : u # t)
Hit(t) == t \in Range(tiles) /\ tiles' = Front(t) /\ UNCHANGED <<spacing, loaded>>

\* The tile is loaded and the one used least recently makes room.
Load(t) ==
    /\ t \notin Range(tiles) /\ ground[t] # None
    /\ tiles' = SubSeq(Front(t), 1, IF Len(tiles) < MaxTiles THEN Len(tiles) + 1 ELSE MaxTiles)
    /\ spacing' = ground[t]
    /\ loaded' = loaded \cup {t}

Got(t) == Hit(t) \/ Load(t)

\* No such tile, or the store does not answer: nothing is kept.
Missing(t) == t \notin Range(tiles) /\ UNCHANGED <<tiles, spacing, loaded>>

(***************************************************************************)
(* link.Calculator: the height of site A comes first, then the number of   *)
(* samples from the spacing, then the heights along the path.              *)
(***************************************************************************)
BeginLinkAtOnce(c, path) ==
    /\ calc[c] = Idle
    /\ Goto(c, [pc |-> "spacing", kind |-> "link", path |-> path])
    /\ UNCHANGED <<ground, tiles, spacing, loaded>>

BeginLink(c, path) ==
    /\ calc[c] = Idle
    /\ Goto(c, [pc |-> "site", kind |-> "link", path |-> path])
    /\ UNCHANGED <<ground, tiles, spacing, loaded>>

Elevation(c) ==
    /\ calc[c].pc = "site"
    /\ LET t == Head(calc[c].path)
       IN \/ Got(t) /\ Goto(c, [calc[c] EXCEPT !.pc = IF calc[c].kind = "link" THEN "spacing" ELSE "radials"])
          \/ Missing(t) /\ Goto(c, Idle)
    /\ UNCHANGED ground

ResolutionM(c) ==
    /\ calc[c].pc = "spacing"
    /\ Goto(c, [pc |-> "samples", kind |-> "link", todo |-> calc[c].path, step |-> spacing])
    /\ UNCHANGED <<ground, tiles, spacing, loaded>>

\* Of the samples within one tile the first is a get that matters.  A gap ends the analysis.
Samples(c) ==
    /\ calc[c].pc = "samples" /\ calc[c].todo # << >>
    /\ LET t == Head(calc[c].todo)
       IN \/ Got(t) /\ Goto(c, [calc[c] EXCEPT !.todo = Tail(@)])
          \/ Missing(t) /\ Goto(c, Idle)
    /\ UNCHANGED ground

Analyzed(c) ==
    /\ calc[c].pc = "samples" /\ calc[c].todo = << >>
    /\ Goto(c, [pc |-> "analyzed", step |-> calc[c].step])
    /\ UNCHANGED <<ground, tiles, spacing, loaded>>

(***************************************************************************)
(* coverage.Calculator: radials in parallel.  One that finds its context   *)
(* cancelled returns what it has, without an error.                        *)
(***************************************************************************)
BeginCoverage(c, site, route) ==
    /\ calc[c] = Idle
    /\ \A a \in Radials : Head(route[a]) = site
    /\ Goto(c, [pc |-> "site", kind |-> "coverage", path |-> <<site>>, todo |-> route, fed |-> {}, out |-> [a \in Radials |-> None], cancelled |-> FALSE])
    /\ UNCHANGED <<ground, tiles, spacing, loaded>>

Computing(c) == calc[c].pc = "radials"
Running(c, a) == a \in calc[c].fed /\ calc[c].out[a] = None

\* The radials are fed one after the other, as long as the context lives.
Feed(c, a) ==
    /\ Computing(c) /\ a \notin calc[c].fed /\ ~calc[c].cancelled
    /\ Goto(c, [calc[c] EXCEPT !.fed = @ \cup {a}])
    /\ UNCHANGED <<ground, tiles, spacing, loaded>>

Ended(c, a, how) == Goto(c, [calc[c] EXCEPT !.out[a] = how])

\* The steps of a radial within one tile; a gap cuts the radial short.
Radial(c, a) ==
    /\ Computing(c) /\ Running(c, a)
    /\ IF calc[c].todo[a] = << >>
       THEN Ended(c, a, "whole") /\ UNCHANGED <<tiles, spacing, loaded>>
       ELSE LET t == Head(calc[c].todo[a])
            IN \/ Got(t) /\ Goto(c, [calc[c] EXCEPT !.todo[a] = Tail(@)])
               \/ Missing(t) /\ Ended(c, a, "cut")
    /\ UNCHANGED ground

RadialCancelled(c, a) ==
    /\ Computing(c) /\ Running(c, a) /\ calc[c].cancelled
    /\ Ended(c, a, "partial")
    /\ UNCHANGED <<ground, tiles, spacing, loaded>>

\* A shutdown, or the deadline of the job.
Cancel(c) ==
    /\ Computing(c) /\ ~calc[c].cancelled
    /\ Goto(c, [calc[c] EXCEPT !.cancelled = TRUE])
    /\ UNCHANGED <<ground, tiles, spacing, loaded>>

\* The bug of taking the radials for complete once they have ended.
EndsAnyway(c) == \A a \in calc[c].fed : calc[c].out[a] # None

Ends(c) == ~calc[c].cancelled /\ \A a \in calc[c].fed : calc[c].out[a] # None

\* After the wait for the radials the context is looked at once more.
Compute(c) ==
    /\ Computing(c)
    /\ calc[c].fed = Radials /\ Ends(c)
    /\ Goto(c, [pc |-> "computed", out |-> calc[c].out])
    /\ UNCHANGED <<ground, tiles, spacing, loaded>>

ComputeCancelled(c) ==
    /\ Computing(c) /\ calc[c].cancelled
    /\ \A a \in calc[c].fed : calc[c].out[a] # None
    /\ Goto(c, Idle)
    /\ UNCHANGED <<ground, tiles, spacing, loaded>>

Leave(c) ==
    /\ calc[c].pc \in {"analyzed", "computed", "samples"}
    /\ Goto(c, Idle)
    /\ UNCHANGED <<ground, tiles, spacing, loaded>>

Next ==
    \E c \in Calcs :
        \/ c \in Links /\ \E path \in Paths : BeginLink(c, path)
        \/ c \in Coverages /\ \E site \in TileNames, route \in [Radials -> Paths] : BeginCoverage(c, site, route)
        \/ \E a \in Radials : Feed(c, a) \/ Radial(c, a) \/ RadialCancelled(c, a)
        \/ Elevation(c) \/ ResolutionM(c) \/ Samples(c) \/ Analyzed(c)
        \/ Cancel(c) \/ Compute(c) \/ ComputeCancelled(c) \/ Leave(c)

Spec == Init /\ [][Next]_vars

\* "Terrain is sampled at the resolution the elevation model reports": an analysis never counts its samples by the
\* spacing that is assumed before any tile was loaded, however tiles come and go in the cache.
StepMeasured ==
    \A c \in Calcs : calc[c].pc = "analyzed" => calc[c].step \in {ground[t] : t \in loaded}

\* A coverage that was computed has every radial, to its end or to the first gap of the terrain, and none that gave up
\* because the context ended while it ran.
WholeCoverage ==
    \A c \in Calcs : calc[c].pc = "computed" => \A a \in Radials : calc[c].out[a] \in {"whole", "cut"}
================================================================================

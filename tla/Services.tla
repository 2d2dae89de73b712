------------------------------- MODULE Services -------------------------------
(***************************************************************************)
(* The small machines, side by side: they share no state, so that one of   *)
(* them runs in a behaviour, `focus', and the others stay where they are.  *)
(***************************************************************************)
EXTENDS HFRun

CONSTANTS
    IPs, Subjects, Attempts, Mixes, Max, LimitWindow, Day, Owner,                   \* RateLimits
    SessionIdle, MaxAge, Slack, Skews, Horizon,                                     \* SessionClock
    Owners, Coverages, ShareTokens, Visits,                                         \* Shares
    TokenIds, Resources, Calls, MaxTokens,                                          \* ApiTokens
    TileKeys, Addresses, Fetches, Budget, MissWindow,                               \* Tiles
    Refreshers, Every, Retry,                                                       \* Sunspot
    TileNames, Spacings, Default, MaxTiles, Paths, Radials, Analyses, Computations, \* Terrain
    Instances, Releases, Goroutines, Handlers,                                      \* Processes
    Cells, MapWorkers                                                               \* HFMaps

VARIABLES
    focus,
    rate, att, mix, watch, since, seen, slipped, lost,
    now, session, used, skew,
    row, drawn, revoked, visit,
    token, closed, call, stopped,
    cached, counter, fetch, client, clientSince, fetched, unbounded,
    files, proc, values, calm,
    ground, tiles, spacing, calc, surface,
    applied, lock, inst, alive, open, faulty,
    fed, closedCh, worker, frame, failed, firstErr, cancelled, answer

limits == <<rate, att, mix, watch, since, seen, slipped, lost>>
clock == <<now, session, used, skew>>
shares == <<row, drawn, revoked, visit>>
tokens == <<token, closed, call, stopped>>
proxy == <<cached, counter, fetch, client, clientSince, fetched, unbounded>>
sunspots == <<files, proc, values, calm>>
terrain == <<ground, tiles, spacing, calc, surface>>
processes == <<applied, lock, inst, alive, open, faulty>>
maps == <<fed, closedCh, worker, frame, failed, firstErr, cancelled, answer>>
hf == <<vars, maps>>
all == <<focus, limits, clock, shares, tokens, proxy, sunspots, terrain, processes, hf>>

Limits == INSTANCE RateLimits WITH Window <- LimitWindow
Clock == INSTANCE SessionClock WITH row <- session, Idle <- SessionIdle
Shared == INSTANCE Shares WITH used <- drawn, req <- visit, Tokens <- ShareTokens, Requests <- Visits
Tokens == INSTANCE ApiTokens WITH req <- call, Requests <- Calls
Proxy == INSTANCE Tiles WITH
    cache <- cached, req <- fetch, since <- clientSince, seen <- fetched, watch <- client, Requests <- Fetches,
    Window <- MissWindow
Spots == INSTANCE Sunspot WITH cache <- files, Processes <- Refreshers
Ground == INSTANCE Terrain WITH loaded <- surface, Links <- Analyses, Coverages <- Computations
Servers == INSTANCE Processes
Maps == INSTANCE HFMaps WITH Workers <- MapWorkers

ASSUME ServicesGiven ==
    /\ Limits!Bounds /\ Clock!Times /\ Shared!Apart /\ Tokens!Apart /\ Proxy!Lives
    /\ Spots!Pauses /\ Servers!Apart /\ Maps!Sizes

(***************************************************************************)
(* One of them runs.  Where there are many initial states, a machine that  *)
(* does not run has none of them.                                          *)
(***************************************************************************)
ServicesInit ==
    /\ focus \in {"limits", "clock", "shares", "tokens", "proxy", "sunspots", "terrain", "processes",
                  "predict", "maps"}
    /\ IF focus = "limits" THEN Limits!Init
       ELSE rate = None /\ att = None /\ mix = None /\ watch = None /\ since = None /\ seen = None /\ slipped = None /\ lost = None
    /\ IF focus = "terrain" THEN Ground!Init
       ELSE ground = None /\ tiles = None /\ spacing = None /\ calc = None /\ surface = None
    /\ Clock!Init /\ Shared!Init /\ Tokens!Init /\ Proxy!Init /\ Spots!Init /\ Servers!Init
    /\ Init
    /\ Maps!Init

ServicesNext ==
    /\ UNCHANGED focus
    /\ \/ /\ focus = "limits" /\ Limits!Next
          /\ UNCHANGED <<hf, clock, shares, tokens, proxy, sunspots, terrain, processes>>
       \/ /\ focus = "clock" /\ Clock!Next
          /\ UNCHANGED <<hf, limits, shares, tokens, proxy, sunspots, terrain, processes>>
       \/ /\ focus = "shares" /\ Shared!Next
          /\ UNCHANGED <<hf, limits, clock, tokens, proxy, sunspots, terrain, processes>>
       \/ /\ focus = "tokens" /\ Tokens!Next
          /\ UNCHANGED <<hf, limits, clock, shares, proxy, sunspots, terrain, processes>>
       \/ /\ focus = "proxy" /\ Proxy!Next
          /\ UNCHANGED <<hf, limits, clock, shares, tokens, sunspots, terrain, processes>>
       \/ /\ focus = "sunspots" /\ Spots!Next
          /\ UNCHANGED <<hf, limits, clock, shares, tokens, proxy, terrain, processes>>
       \/ /\ focus = "terrain" /\ Ground!Next
          /\ UNCHANGED <<hf, limits, clock, shares, tokens, proxy, sunspots, processes>>
       \/ /\ focus = "processes" /\ Servers!Next
          /\ UNCHANGED <<hf, limits, clock, shares, tokens, proxy, sunspots, terrain>>
       \/ /\ UNCHANGED <<limits, clock, shares, tokens, proxy, sunspots, terrain, processes>>
          /\ \/ focus = "predict" /\ Next /\ UNCHANGED maps
             \/ focus = "maps" /\ Maps!Next /\ UNCHANGED vars

ServicesSpec == ServicesInit /\ [][ServicesNext]_all

(***************************************************************************)
(* Their properties, which their modules explain.                          *)
(***************************************************************************)
\* RateLimits: no two windows' worth above the maximum for the routes that hit first.
BurstBounded == focus = "limits" => Limits!BurstBounded
\* RateLimits: the attempts in flight come on top where the comparison is in between.
GuessesBounded == focus = "limits" => Limits!GuessesBounded
\* RateLimits: what one address can count against a name.
NameCharged == focus = "limits" => Limits!NameCharged
\* SessionClock: a session ends by its idle time and its maximal age.
SessionEnds == focus = "clock" => Clock!SessionEnds
\* SessionClock: a session in use is not lost.
SessionLasts == focus = "clock" => Clock!SessionLasts
\* Shares: a visitor sees what was released to him.
SeesReleased == focus = "shares" => Shared!SeesReleased
\* Shares: a URL that was taken back does not come back.
RevokedStays == focus = "shares" => Shared!RevokedStays
\* Shares: publishing panics only if it races with taking back.
PanicOnlyRaced == focus = "shares" => Shared!PanicOnlyRaced
\* ApiTokens: a token that ended, or maintenance, stops what was not let in before.
StoppedAtOnce == focus = "tokens" => Tokens!StoppedAtOnce
\* ApiTokens: write scopes bring their read scope, and the limit of tokens is nearly kept.
TokensListed == focus = "tokens" => Tokens!TokensListed
\* Tiles: downloads of an address are bounded, and a refused address is admitted again.
MissBudget == focus = "proxy" => Proxy!MissBudget
\* Sunspot: a bad file does no lasting harm.
ValuesRecover == focus = "sunspots" => Spots!ValuesRecover
\* Terrain: samples are counted by the spacing of a tile.
StepMeasured == focus = "terrain" => Ground!StepMeasured
\* Terrain: a coverage that was cancelled is no result.
WholeCoverage == focus = "terrain" => Ground!WholeCoverage
\* Processes: processes that start together do not fail each other.
StartsClean == focus = "processes" => Servers!StartsClean
\* Processes: nothing is cleaned up below a goroutine that runs.
CleanupLast == focus = "processes" => Servers!CleanupLast
\* HFMaps: a map that is returned is whole.
MapWhole == focus = "maps" => Maps!MapWhole
================================================================================

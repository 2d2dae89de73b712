------------------------------- MODULE Catalog -------------------------------
(***************************************************************************)
(* What a user draws on the map: sites, antennas, and the links and        *)
(* coverages that refer to them (internal/store/{sites,antennas,links,     *)
(* coverages}.go behind internal/web/{sites,antennas,links,coverages}.go). *)
(*                                                                         *)
(* The gain of an antenna is copied into the rows that use it: a handler   *)
(* reads it (GetAntenna) before the statement that writes the row, and     *)
(* UpdateAntenna writes it into the rows that exist by then.  A coverage   *)
(* keeps the result of a computation that read the row, the place of its   *)
(* site and, later, the pattern of its antenna.                            *)
(*                                                                         *)
(* One SQL statement, or one transaction, is one action.  A design stands  *)
(* for the gain and the pattern of an antenna, which are edited together,  *)
(* or for a gain that was typed in; a place for the position and height of *)
(* a site.  The other columns are compared by nothing and left out; jobs   *)
(* are the subject of Coverages.                                           *)
(***************************************************************************)
EXTENDS Naturals, FiniteSets

CONSTANTS
    Owners, SiteIds, AntennaIds, LinkIds, CoverageIds,
    Places,      \* positions of sites
    Designs,     \* what an antenna can be
    Requests,    \* requests in flight
    MaxSites,    \* MaxSitesPerUser
    MaxCoverages,\* MaxCoveragesPerUser
    Scenes,      \* what is looked at together: owners, sites, items, antennas, places,
                 \* designs, requests, and the coverages that are computed
    None

VARIABLES
    site,     \* site[i]: owner and place, or None
    antenna,  \* antenna[a]: owner, design, and whether it was described by hand, or None
    item,     \* item[i]: row of links or coverages, or None
    work,     \* work[c]: what the worker that computes coverage c has read, or None
    req,      \* req[r]: the handler r is in, with what it has read
    scene    \* the owners, sites, items and so on of this behaviour

vars == <<site, antenna, item, work, req, scene>>

Items == LinkIds \cup CoverageIds
Ends(i) == IF i \in LinkIds THEN {"tx", "rx"} ELSE {"tx"}
Sides == {"tx", "rx"}

Site == [owner : Owners, place : Places]
Antenna == [owner : Owners, design : Designs, manual : BOOLEAN]

(***************************************************************************)
(* raced: history, the gain was read before the antenna got its design of  *)
(* now, or could not be read.  touched: history, something the computation *)
(* had read was changed since, by anything but an update of the coverage.  *)
(***************************************************************************)
Result == [place : Places, gain : Designs, pattern : Designs \cup {None}, touched : BOOLEAN]
Item == [owner : Owners, sites : SUBSET SiteIds, uses : [Sides -> AntennaIds \cup {None}],
         gain : [Sides -> Designs], raced : BOOLEAN, result : Result \cup {None}]
Work == [place : Places, gain : Designs, uses : AntennaIds \cup {None},
         pattern : Designs \cup {None}, ready : BOOLEAN, touched : BOOLEAN]

Idle == [pc |-> "idle"]
Pcs == {"idle", "site", "gain", "count", "write", "edit"}

\* The types, and that a row refers to rows that exist and belong to the same user.
TypeOK ==
    /\ site \in [SiteIds -> Site \cup {None}]
    /\ antenna \in [AntennaIds -> Antenna \cup {None}]
    /\ item \in [Items -> Item \cup {None}]
    /\ work \in [CoverageIds -> Work \cup {None}]
    /\ \A r \in Requests : req[r].pc \in Pcs
    /\ \A i \in Items : item[i] # None =>
         /\ item[i].sites # {} /\ \A s \in item[i].sites : site[s] # None
         /\ \A e \in Sides : item[i].uses[e] # None => antenna[item[i].uses[e]] # None

Init ==
    /\ site = [i \in SiteIds |-> None]
    /\ antenna = [a \in AntennaIds |-> None]
    /\ item = [i \in Items |-> None]
    /\ work = [c \in CoverageIds |-> None]
    /\ req = [r \in Requests |-> Idle]
    /\ scene \in Scenes

SitesOf(o) == {i \in SiteIds : site[i] # None /\ site[i].owner = o}
CoveragesOf(o) == {c \in CoverageIds : item[c] # None /\ item[c].owner = o}
AntennasOf(o) == {a \in AntennaIds : antenna[a] # None /\ antenna[a].owner = o}
UsersOf(a) == {i \in Items : item[i] # None /\ \E e \in Sides : item[i].uses[e] = a}

Done(r) == req' = [req EXCEPT ![r] = Idle]

\* What is assumed of the constants: None is no value of a table, ids are of one kind, and what a behaviour
\* looks at is among them.
Given ==
  /\ None \notin Designs \cup AntennaIds
  /\ None \notin Site /\ None \notin Antenna /\ None \notin Item /\ None \notin Work /\ None \notin Result
  /\ IsFiniteSet(SiteIds) /\ IsFiniteSet(CoverageIds)
  /\ MaxSites \in Nat \ {0} /\ MaxCoverages \in Nat \ {0}
  /\ LinkIds \cap CoverageIds = {}
  /\ \A s \in Scenes :
       /\ s.owners \subseteq Owners /\ s.sites \subseteq SiteIds /\ s.items \subseteq Items /\ s.antennas \subseteq AntennaIds
       /\ s.places \subseteq Places /\ s.designs \subseteq Designs
       /\ s.requests \subseteq Requests /\ IsFiniteSet(s.requests)
       /\ s.computed \subseteq CoverageIds

\* What the reader of a result cannot see: something it was computed from is not what it was.
Touch(row) == IF row # None /\ row.result # None THEN [row EXCEPT !.result.touched = TRUE] ELSE row
TouchWork(cs) == [c \in CoverageIds |-> IF c \in cs /\ work[c] # None THEN [work[c] EXCEPT !.touched = TRUE] ELSE work[c]]

(***************************************************************************)
(* Sites.                                                                  *)
(***************************************************************************)
\* CreateSite counts, then inserts.
\* The bug of allowing one more.
CountSitesMore(r, o) ==
    /\ req[r] = Idle
    /\ Cardinality(SitesOf(o)) <= MaxSites
    /\ req' = [req EXCEPT ![r] = [pc |-> "site", owner |-> o]]
    /\ UNCHANGED <<site, antenna, item, work, scene>>

CountSites(r, o) ==
    /\ req[r] = Idle
    /\ Cardinality(SitesOf(o)) < MaxSites
    /\ req' = [req EXCEPT ![r] = [pc |-> "site", owner |-> o]]
    /\ UNCHANGED <<site, antenna, item, work, scene>>

CreateSite(r, i, p) ==
    /\ req[r].pc = "site"
    /\ site[i] = None
    /\ site' = [site EXCEPT ![i] = [owner |-> req[r].owner, place |-> p]]
    /\ Done(r)
    /\ UNCHANGED <<antenna, item, work, scene>>

\* The results of the coverages on the site stay.
UpdateSite(i, p) ==
    /\ site[i] # None /\ p # site[i].place
    /\ site' = [site EXCEPT ![i].place = p]
    /\ LET on == {c \in CoverageIds : item[c] # None /\ i \in item[c].sites}
       IN /\ item' = [j \in Items |-> IF j \in on THEN Touch(item[j]) ELSE item[j]]
          /\ work' = TouchWork(on)
    /\ UNCHANGED <<antenna, req, scene>>

\* The bug of a reference that does not restrict.
DeleteSiteAnyway(i) ==
    /\ site[i] # None
    /\ site' = [site EXCEPT ![i] = None]
    /\ UNCHANGED <<antenna, item, work, req, scene>>

\* ON DELETE RESTRICT: ErrInUse while a row refers to the site.
DeleteSite(i) ==
    /\ site[i] # None
    /\ \A j \in Items : item[j] # None => i \notin item[j].sites
    /\ site' = [site EXCEPT ![i] = None]
    /\ UNCHANGED <<antenna, item, work, req, scene>>

(***************************************************************************)
(* Antennas: imported from a file or described by hand, any number.        *)
(***************************************************************************)
CreateAntenna(o, a, d, manual) ==
    /\ antenna[a] = None
    /\ antenna' = [antenna EXCEPT ![a] = [owner |-> o, design |-> d, manual |-> manual]]
    /\ UNCHANGED <<site, item, work, req, scene>>

\* The handler looks whether the antenna may be edited; 409 for an imported one.
MayEdit(r, o, a) ==
    /\ req[r] = Idle
    /\ a \in AntennasOf(o) /\ antenna[a].manual
    /\ req' = [req EXCEPT ![r] = [pc |-> "edit", owner |-> o, antenna |-> a]]
    /\ UNCHANGED <<site, antenna, item, work, scene>>

\* The bug of copying it to the sending end only.
CopiedTx(row, a, d) ==
    IF row = None THEN None
    ELSE [row EXCEPT !.gain = [e \in Sides |-> IF e = "tx" /\ row.uses[e] = a THEN d ELSE row.gain[e]]]

\* The rows that use a take over its design; who read the old one holds a stale copy.
Copied(row, a, d) ==
    IF row = None THEN None
    ELSE [row EXCEPT !.gain = [e \in Sides |-> IF row.uses[e] = a THEN d ELSE row.gain[e]]]

Stale(q, a) ==
    [r \in Requests |-> IF q[r].pc \in {"gain", "count", "write"} /\ \E e \in q[r].read : q[r].uses[e] = a
                        THEN [q[r] EXCEPT !.raced = TRUE] ELSE q[r]]

\* One transaction; the kind of the antenna never changes, and one that is gone by now is ErrNotFound.
UpdateAntenna(r, d) ==
    /\ req[r].pc = "edit"
    /\ LET a == req[r].antenna
       IN /\ antenna' = [antenna EXCEPT ![a].design = d]
          /\ item' = [i \in Items |-> IF i \in UsersOf(a) THEN Touch(Copied(item[i], a, d)) ELSE item[i]]
          /\ work' = TouchWork({c \in CoverageIds : work[c] # None /\ work[c].uses = a} \cup UsersOf(a))
          /\ req' = [Stale(req, a) EXCEPT ![r] = Idle]
    /\ UNCHANGED <<site, scene>>

\* ON DELETE SET NULL: the rows become omnidirectional and keep the gain.
Unused(row, a) ==
    IF row = None THEN None ELSE [row EXCEPT !.uses = [e \in Sides |-> IF row.uses[e] = a THEN None ELSE row.uses[e]]]

\* A request that holds the id of a row that is gone finds nothing: ids are not used again.
Forgotten(q, a) ==
    [r \in Requests |-> IF q[r].pc = "edit" /\ q[r].antenna = a THEN Idle
                        ELSE IF q[r].pc \in {"gain", "count", "write"} /\ \E e \in Sides : q[r].uses[e] = a THEN Idle
                        ELSE q[r]]

DeleteAntenna(a) ==
    /\ antenna[a] # None
    /\ antenna' = [antenna EXCEPT ![a] = None]
    /\ item' = [i \in Items |-> IF i \in UsersOf(a) THEN Touch(Unused(item[i], a)) ELSE item[i]]
    /\ work' = [c \in CoverageIds |->
                  IF work[c] # None /\ work[c].uses = a
                  THEN [work[c] EXCEPT !.uses = None, !.touched = TRUE] ELSE work[c]]
    /\ req' = Forgotten(req, a)
    /\ UNCHANGED <<site, scene>>

(***************************************************************************)
(* Links and coverages.  A request brings sites and antennas by their ids, *)
(* which may be anybody's, and a gain for each end.                        *)
(***************************************************************************)
Chosen(i) ==
    {s \in SUBSET SiteIds : Cardinality(s) = Cardinality(Ends(i))}
Choice(i) == {u \in [Sides -> AntennaIds \cup {None}] : \A e \in Sides \ Ends(i) : u[e] = None}

BeginWrite(r, o, i, s, u, d) ==
    /\ req[r] = Idle
    /\ s \in Chosen(i) /\ u \in Choice(i)
    /\ req' = [req EXCEPT ![r] = [pc |-> "gain", owner |-> o, item |-> i, new |-> item[i] = None, sites |-> s,
                                  uses |-> u, gain |-> [e \in Sides |-> d], read |-> {}, raced |-> FALSE]]
    /\ UNCHANGED <<site, antenna, item, work, scene>>

\* antennaGain, once for each end: the gain of the antenna, or the one entered when it cannot be read.
Read(r, e, d, missed) ==
    req' = [req EXCEPT ![r].gain[e] = d, ![r].read = @ \cup {e}, ![r].raced = @ \/ missed]

AntennaGain(r, e) ==
    /\ req[r].pc = "gain"
    /\ e \in Ends(req[r].item) \ req[r].read
    /\ e = "rx" => "tx" \in req[r].read
    /\ LET a == req[r].uses[e]
       IN \/ a \in AntennasOf(req[r].owner) /\ Read(r, e, antenna[a].design, FALSE)
          \/ Read(r, e, req[r].gain[e], a # None)
    /\ UNCHANGED <<site, antenna, item, work, scene>>

\* The bug of allowing one more.
CountCoveragesMore(r) ==
    /\ req[r].pc = "gain" /\ req[r].read = Ends(req[r].item)
    /\ IF req[r].item \in CoverageIds /\ req[r].new /\ Cardinality(CoveragesOf(req[r].owner)) > MaxCoverages
       THEN Done(r)
       ELSE req' = [req EXCEPT ![r].pc = "write"]
    /\ UNCHANGED <<site, antenna, item, work, scene>>

\* A new coverage is counted; a link or an update is not.
CountCoverages(r) ==
    /\ req[r].pc = "gain" /\ req[r].read = Ends(req[r].item)
    /\ IF req[r].item \in CoverageIds /\ req[r].new /\ Cardinality(CoveragesOf(req[r].owner)) >= MaxCoverages
       THEN Done(r)
       ELSE req' = [req EXCEPT ![r].pc = "write"]
    /\ UNCHANGED <<site, antenna, item, work, scene>>

\* The bug of checking that they exist, not whose they are.
RefsExist(r) ==
    /\ \A i \in req[r].sites : site[i] # None
    /\ \A e \in Sides : req[r].uses[e] # None => antenna[req[r].uses[e]] # None

\* linkRefsOwned and coverageRefsOwned, in the statement that writes.
RefsOwned(r) ==
    /\ req[r].sites \subseteq SitesOf(req[r].owner)
    /\ \A e \in Sides : req[r].uses[e] \in AntennasOf(req[r].owner) \cup {None}

Row(r) == [owner |-> req[r].owner, sites |-> req[r].sites, uses |-> req[r].uses, gain |-> req[r].gain,
           raced |-> req[r].raced, result |-> None]

\* INSERT ... SELECT ... WHERE.
CreateItem(r) ==
    /\ req[r].pc = "write" /\ req[r].new
    /\ item[req[r].item] = None
    /\ IF RefsOwned(r) THEN item' = [item EXCEPT ![req[r].item] = Row(r)] ELSE UNCHANGED item
    /\ Done(r)
    /\ UNCHANGED <<site, antenna, work, scene>>

\* The bug of leaving the result in place.
UpdateKeeps(r) ==
    /\ req[r].pc = "write" /\ ~req[r].new
    /\ LET i == req[r].item
       IN IF item[i] # None /\ item[i].owner = req[r].owner /\ RefsOwned(r)
          THEN /\ item' = [item EXCEPT ![i] = [Row(r) EXCEPT !.result = item[i].result]]
               /\ work' = TouchWork({i} \cap CoverageIds)
          ELSE UNCHANGED <<item, work>>
    /\ Done(r)
    /\ UNCHANGED <<site, antenna, scene>>

\* UPDATE ... WHERE: clears the result of a coverage, not the computation that is under way.
UpdateItem(r) ==
    /\ req[r].pc = "write" /\ ~req[r].new
    /\ LET i == req[r].item
       IN IF item[i] # None /\ item[i].owner = req[r].owner /\ RefsOwned(r)
          THEN /\ item' = [item EXCEPT ![i] = Row(r)]
               /\ work' = TouchWork({i} \cap CoverageIds)
          ELSE UNCHANGED <<item, work>>
    /\ Done(r)
    /\ UNCHANGED <<site, antenna, scene>>

\* An id that was deleted is not used again: requests about it find nothing, the worker stores nothing.
DropItems(gone) ==
    /\ item' = [i \in Items |-> IF i \in gone THEN None ELSE item[i]]
    /\ work' = [c \in CoverageIds |-> IF c \in gone THEN None ELSE work[c]]

DeleteItem(i) ==
    /\ item[i] # None
    /\ DropItems({i})
    /\ req' = [r \in Requests |-> IF req[r].pc \in {"gain", "count", "write"} /\ req[r].item = i THEN Idle ELSE req[r]]
    /\ UNCHANGED <<site, antenna, scene>>

\* DELETE FROM users: everything of the user goes in one statement; its requests find nothing.
DeleteOwner(o) ==
    /\ site' = [i \in SiteIds |-> IF i \in SitesOf(o) THEN None ELSE site[i]]
    /\ antenna' = [a \in AntennaIds |-> IF a \in AntennasOf(o) THEN None ELSE antenna[a]]
    /\ DropItems({i \in Items : item[i] # None /\ item[i].owner = o})
    /\ req' = [r \in Requests |-> IF req[r] # Idle /\ req[r].owner = o THEN Idle ELSE req[r]]
    /\ UNCHANGED scene

\* A statement fails.
Fail(r) ==
    /\ req[r] # Idle
    /\ Done(r)
    /\ UNCHANGED <<site, antenna, item, work, scene>>

(***************************************************************************)
(* runCoverage: the row with its site, then the pattern, then the result.  *)
(***************************************************************************)
LoadCoverage(c) ==
    /\ item[c] # None /\ work[c] = None
    /\ \E i \in item[c].sites :
         work' = [work EXCEPT ![c] = [place |-> site[i].place, gain |-> item[c].gain["tx"], uses |-> item[c].uses["tx"],
                                      pattern |-> None, ready |-> FALSE, touched |-> FALSE]]
    /\ UNCHANGED <<site, antenna, item, req, scene>>

\* Without the antenna, or with an error, the computation goes on omnidirectional.
LoadPattern(c) ==
    /\ work[c] # None /\ ~work[c].ready
    /\ LET a == work[c].uses
       IN work' = [work EXCEPT ![c].ready = TRUE, ![c].pattern = IF a = None THEN None ELSE antenna[a].design]
    /\ UNCHANGED <<site, antenna, item, req, scene>>

PatternError(c) ==
    /\ work[c] # None /\ ~work[c].ready /\ work[c].uses # None
    /\ work' = [work EXCEPT ![c].ready = TRUE, ![c].touched = TRUE]
    /\ UNCHANGED <<site, antenna, item, req, scene>>

\* FinishCoverageJob, on the row as it is by then.
FinishCoverage(c) ==
    /\ work[c] # None /\ work[c].ready
    /\ item' = [item EXCEPT ![c].result = [place |-> work[c].place, gain |-> work[c].gain,
                                          pattern |-> work[c].pattern, touched |-> work[c].touched]]
    /\ work' = [work EXCEPT ![c] = None]
    /\ UNCHANGED <<site, antenna, req, scene>>

AbandonCoverage(c) ==
    /\ work[c] # None
    /\ work' = [work EXCEPT ![c] = None]
    /\ UNCHANGED <<site, antenna, item, req, scene>>

Handler(r) ==
    \/ \E o \in scene.owners :
         \/ CountSites(r, o)
         \/ \E a \in scene.antennas : MayEdit(r, o, a)
         \/ \E i \in scene.items, s \in SUBSET scene.sites, u \in [Sides -> scene.antennas \cup {None}], d \in scene.designs :
              BeginWrite(r, o, i, s, u, d)
    \/ \E i \in scene.sites, p \in scene.places : CreateSite(r, i, p)
    \/ \E d \in scene.designs : UpdateAntenna(r, d)
    \/ \E e \in Sides : AntennaGain(r, e)
    \/ CountCoverages(r) \/ CreateItem(r) \/ UpdateItem(r) \/ Fail(r)

Statement ==
    \/ \E i \in scene.sites : DeleteSite(i) \/ \E p \in scene.places : UpdateSite(i, p)
    \/ \E o \in scene.owners, a \in scene.antennas, d \in scene.designs, manual \in BOOLEAN : CreateAntenna(o, a, d, manual)
    \/ \E a \in scene.antennas : DeleteAntenna(a)
    \/ \E i \in scene.items : DeleteItem(i)
    \/ \E o \in scene.owners : DeleteOwner(o)

Worker(c) == LoadCoverage(c) \/ LoadPattern(c) \/ PatternError(c) \/ FinishCoverage(c) \/ AbandonCoverage(c)

Next == (\E r \in scene.requests : Handler(r)) \/ Statement \/ (\E c \in scene.computed : Worker(c))

Spec == Init /\ [][Next]_vars

(***************************************************************************)
(* Properties.                                                             *)
(***************************************************************************)

\* A link or coverage refers to sites and antennas that exist and are its owner's, whatever is deleted, updated or
\* created by others between the checks of a request and its statement.
RefsStay ==
    \A i \in Items : item[i] # None =>
        /\ item[i].sites \subseteq SitesOf(item[i].owner)
        /\ \A e \in Ends(i) : item[i].uses[e] \in AntennasOf(item[i].owner) \cup {None}

\* The limits of sites and coverages are counted before the insert: every request but one can add a row above them.
LimitsOvershoot ==
    \A o \in Owners :
        /\ Cardinality(SitesOf(o)) <= MaxSites + Cardinality(scene.requests) - 1
        /\ Cardinality(CoveragesOf(o)) <= MaxCoverages + Cardinality(scene.requests) - 1

\* "Links and coverages using the antenna take over the new gain": unless the write of the row was overtaken by an
\* edit of the antenna, or could not read it, the gain in the row is that of the antenna.
GainCopied ==
    \A i \in Items : item[i] # None /\ ~item[i].raced =>
        \A e \in Ends(i) : item[i].uses[e] # None => item[i].gain[e] = antenna[item[i].uses[e]].design

\* A result belongs to the row, the site and the antenna that are there now, unless a site was moved or an antenna
\* edited or deleted since the computation began, or the row was updated or its antenna unreadable during it.
ResultOfNow ==
    \A c \in CoverageIds : item[c] # None /\ item[c].result # None /\ ~item[c].result.touched =>
        /\ \A i \in item[c].sites : item[c].result.place = site[i].place
        /\ item[c].result.gain = item[c].gain["tx"]
        /\ item[c].result.pattern = IF item[c].uses["tx"] = None THEN None ELSE antenna[item[c].uses["tx"]].design
=============================================================================

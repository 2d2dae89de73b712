-------------------------------- MODULE Shares --------------------------------
(***************************************************************************)
(* Public links to coverages (internal/store/share.go, internal/web/       *)
(* share.go, and the share and view operations of web/coverages.go).  A    *)
(* link is shared by the same statements, without overlays.                *)
(*                                                                         *)
(* The row of a coverage keeps the token of its URL, when it expires, and  *)
(* the view: the overlays the owner saved with it.  A visitor's request is *)
(* ShareExists, RateHit, GetSharedCoverage and the read of the rasters,    *)
(* one statement each; the owner publishes, revokes, edits and deletes     *)
(* between them.                                                           *)
(***************************************************************************)
EXTENDS Naturals, FiniteSets

CONSTANTS
    Owners,
    Coverages,  \* ids of coverages
    Tokens,     \* what randomToken may draw
    Requests,   \* requests in flight, of owners and of visitors
    None

Row == [owner : Owners, computed : BOOLEAN, overlays : SUBSET Coverages, token : Tokens \cup {None}, live : BOOLEAN]

\* What is assumed of the constants: None is NULL, and nothing else.
Apart == None \notin Tokens /\ None \notin Row

VARIABLES
    row,      \* row[c]: row of coverages, or None
    used,     \* tokens that were drawn: they are drawn once
    revoked,  \* history: tokens the owner took back
    req       \* req[r]: the request r and what it has read

vars == <<row, used, revoked, req>>

Idle == [pc |-> "idle"]

Init ==
    /\ row = [c \in Coverages |-> None]
    /\ used = {} /\ revoked = {}
    /\ req = [r \in Requests |-> Idle]

Computed(o) == {c \in Coverages : row[c] # None /\ row[c].owner = o /\ row[c].computed}
SharedBy(t) == {c \in Coverages : row[c] # None /\ row[c].token = t /\ row[c].live}
Goto(r, next) == req' = [req EXCEPT ![r] = next]
Done(r) == Goto(r, Idle)

(***************************************************************************)
(* What the owner does to a row, one statement each.                       *)
(***************************************************************************)
\* History: what may be shown under the token of c from now on, for the visitors that are reading.
Released(c) == {c} \cup row[c].overlays
Widen(q, c, shown) ==
    [r \in Requests |-> IF q[r].pc \in {"found", "raster"} /\ q[r].shared = c
                        THEN [q[r] EXCEPT !.released = @ \cup shown] ELSE q[r]]

Create(c, o) ==
    /\ row[c] = None
    /\ row' = [row EXCEPT ![c] = [owner |-> o, computed |-> FALSE, overlays |-> {}, token |-> None, live |-> FALSE]]
    /\ UNCHANGED <<used, revoked, req>>

\* FinishCoverageJob, and UpdateCoverage, which clears the result and leaves view and share alone.
SetResult(c, computed) ==
    /\ row[c] # None
    /\ row' = [row EXCEPT ![c].computed = computed]
    /\ UNCHANGED <<used, revoked, req>>

\* The ids are narrowed to the owner's other computed coverages of now.
SetCoverageView(c, ids) ==
    /\ row[c] # None
    /\ LET kept == (ids \cap Computed(row[c].owner)) \ {c}
       IN /\ row' = [row EXCEPT ![c].overlays = kept]
          /\ req' = Widen(req, c, kept)
    /\ UNCHANGED <<used, revoked>>

\* The bug of moving the expiry only.
ShareExtends(r, c, t) ==
    /\ req[r] = Idle
    /\ row[c] # None /\ t \notin used
    /\ row' = [row EXCEPT ![c].live = TRUE]
    /\ used' = used \cup {t}
    /\ Goto(r, [pc |-> "answer", shared |-> c, raced |-> FALSE])
    /\ UNCHANGED revoked

\* COALESCE keeps the token there is, and the expiry moves.
ShareCoverage(r, c, t) ==
    /\ req[r] = Idle
    /\ row[c] # None /\ t \notin used
    /\ row' = [row EXCEPT ![c].token = IF @ = None THEN t ELSE @, ![c].live = TRUE]
    /\ used' = used \cup {t}
    /\ Goto(r, [pc |-> "answer", shared |-> c, raced |-> FALSE])
    /\ UNCHANGED revoked

\* coverageOut loads the row for the answer and dereferences its share: the handler panics when it is gone by then.
ShareAnswer(r) ==
    /\ req[r].pc = "answer"
    /\ LET c == req[r].shared
       IN IF row[c] # None /\ row[c].token = None
          THEN Goto(r, [req[r] EXCEPT !.pc = "panic"])
          ELSE Done(r)
    /\ UNCHANGED <<row, used, revoked>>

Taken(c) == revoked' = IF row[c].token = None THEN revoked ELSE revoked \cup {row[c].token}
Raced(c) == req' = [r \in Requests |-> IF req[r].pc = "answer" /\ req[r].shared = c THEN [req[r] EXCEPT !.raced = TRUE] ELSE req[r]]

\* The bug of ending the share without dropping its token.
UnshareKeeps(c) ==
    /\ row[c] # None
    /\ row' = [row EXCEPT ![c].live = FALSE]
    /\ Taken(c) /\ Raced(c)
    /\ UNCHANGED used

UnshareCoverage(c) ==
    /\ row[c] # None
    /\ row' = [row EXCEPT ![c].token = None, ![c].live = FALSE]
    /\ Taken(c) /\ Raced(c)
    /\ UNCHANGED used

DeleteCoverage(c) ==
    /\ row[c] # None
    /\ row' = [row EXCEPT ![c] = None]
    /\ Taken(c) /\ Raced(c)
    /\ UNCHANGED used

\* share_expires_at passes.
Expire(c) ==
    /\ row[c] # None /\ row[c].live
    /\ row' = [row EXCEPT ![c].live = FALSE]
    /\ UNCHANGED <<used, revoked, req>>

(***************************************************************************)
(* A visitor.                                                              *)
(***************************************************************************)
\* shareHit: 404 for a token nobody has, which is not counted.
ShareExists(r, t) ==
    /\ req[r] = Idle
    /\ SharedBy(t) # {}
    /\ Goto(r, [pc |-> "hit", token |-> t])
    /\ UNCHANGED <<row, used, revoked>>

RateHit(r) ==
    /\ req[r].pc = "hit"
    /\ Goto(r, [req[r] EXCEPT !.pc = "get"])
    /\ UNCHANGED <<row, used, revoked>>

\* The row, with the overlays it shows.
GetSharedCoverage(r) ==
    /\ req[r].pc = "get"
    /\ IF SharedBy(req[r].token) = {}
       THEN Done(r)
       ELSE \E c \in SharedBy(req[r].token) :
              Goto(r, [pc |-> "found", token |-> req[r].token, shared |-> c, owner |-> row[c].owner,
                       overlays |-> row[c].overlays, released |-> Released(c)])
    /\ UNCHANGED <<row, used, revoked>>

\* The page lists the overlays that are still computed (CoveragesByID).
SharedPage(r) ==
    /\ req[r].pc = "found"
    /\ Goto(r, [req[r] EXCEPT !.pc = "served", !.shared = {req[r].shared} \cup (req[r].overlays \cap Computed(req[r].owner))])
    /\ UNCHANGED <<row, used, revoked>>

\* The bug of taking any id of the owner.
AskRastersOfOwner(r, ids) ==
    /\ req[r].pc = "found"
    /\ Goto(r, [req[r] EXCEPT !.pc = "raster", !.overlays = ids])
    /\ UNCHANGED <<row, used, revoked>>

\* sharedCoverageImage and sharedCoverageComposite: ids that are not in the view are not found.
AskRasters(r, ids) ==
    /\ req[r].pc = "found"
    /\ ids \subseteq req[r].overlays
    /\ Goto(r, [req[r] EXCEPT !.pc = "raster", !.overlays = ids])
    /\ UNCHANGED <<row, used, revoked>>

\* The composite of ids and the coverage itself; 404 when an asked one has no result by now, or none has.
Composite(r) ==
    /\ req[r].pc = "raster"
    /\ LET rasters == (req[r].overlays \cup {req[r].shared}) \cap Computed(req[r].owner)
       IN IF req[r].overlays \subseteq rasters /\ rasters # {}
          THEN Goto(r, [req[r] EXCEPT !.pc = "served", !.shared = rasters])
          ELSE Done(r)
    /\ UNCHANGED <<row, used, revoked>>

\* An image of one raster: an overlay, or the coverage itself.
Image(r) ==
    /\ req[r].pc = "raster"
    /\ \E id \in IF req[r].overlays = {} THEN {req[r].shared} ELSE req[r].overlays :
         IF id \in Computed(req[r].owner)
         THEN Goto(r, [req[r] EXCEPT !.pc = "served", !.shared = {id}])
         ELSE Done(r)
    /\ UNCHANGED <<row, used, revoked>>

\* The answer is out, or a statement failed, or the limit of the token was reached.
Leave(r) ==
    /\ req[r] # Idle
    /\ Done(r)
    /\ UNCHANGED <<row, used, revoked>>

Next ==
    \/ \E c \in Coverages :
         \/ \E o \in Owners : Create(c, o)
         \/ \E on \in BOOLEAN : SetResult(c, on)
         \/ \E ids \in SUBSET Coverages : SetCoverageView(c, ids)
         \/ \E r \in Requests, t \in Tokens : ShareCoverage(r, c, t)
         \/ UnshareCoverage(c) \/ DeleteCoverage(c) \/ Expire(c)
    \/ \E r \in Requests :
         \/ \E t \in Tokens : ShareExists(r, t)
         \/ \E ids \in SUBSET Coverages : AskRasters(r, ids)
         \/ ShareAnswer(r) \/ RateHit(r) \/ GetSharedCoverage(r) \/ SharedPage(r) \/ Composite(r) \/ Image(r) \/ Leave(r)

Spec == Init /\ [][Next]_vars

(***************************************************************************)
(* Properties.                                                             *)
(***************************************************************************)

\* "The visitor sees no other object of the owner": what a request is served is the shared coverage or an overlay the
\* owner had released for it since the request found the row, however views, results and rows change in between.
SeesReleased ==
    \A r \in Requests : req[r].pc = "served" => req[r].shared \subseteq req[r].released

\* "Revoke kills it": a token that was taken back leads nowhere, also after the coverage is published again.
RevokedStays == \A t \in revoked : SharedBy(t) = {}

\* The share handler panics on nothing but a share that was taken back while it answered.
PanicOnlyRaced == \A r \in Requests : req[r].pc = "panic" => req[r].raced
=============================================================================

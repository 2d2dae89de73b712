-------------------------------- MODULE Tables --------------------------------
(***************************************************************************)
(* The tables of the users: Accounts and Catalog side by side.  They share *)
(* no state here, so that one of them runs in a behaviour, `focus', and    *)
(* the other stays where it is.                                            *)
(***************************************************************************)
EXTENDS Accounts

CONSTANTS
    Owners, SiteIds, AntennaIds, LinkIds, CoverageIds, Places, Designs,   \* Catalog
    Edits, MaxSites, MaxCoverages, Scenes

VARIABLES focus, site, antenna, item, work, edit, scene

catalog == <<site, antenna, item, work, edit, scene>>

Map == INSTANCE Catalog WITH req <- edit, Requests <- Edits

ASSUME TablesGiven == Map!Given

TablesInit ==
    /\ Init /\ Map!Init
    /\ focus \in {"accounts", "catalog"}
    /\ focus = "accounts" => scene = CHOOSE x \in Scenes : TRUE

TablesNext ==
    /\ UNCHANGED focus
    /\ \/ focus = "accounts" /\ Next /\ UNCHANGED catalog
       \/ focus = "catalog" /\ Map!Next /\ UNCHANGED vars

TablesSpec == TablesInit /\ [][TablesNext]_<<vars, catalog, focus>>

\* Catalog: rows refer to rows of the same user.
RefsStay == focus = "catalog" => Map!RefsStay
\* Catalog: every request but one can add a row above a limit.
LimitsOvershoot == focus = "catalog" => Map!LimitsOvershoot
\* Catalog: rows have the gain of their antenna.
GainCopied == focus = "catalog" => Map!GainCopied
\* Catalog: results are those of the row, its site and its antenna.
ResultOfNow == focus = "catalog" => Map!ResultOfNow
===============================================================================

------------------------------- MODULE MCTables -------------------------------
(***************************************************************************)
(* Tables with few users, rows and requests.                               *)
(***************************************************************************)
EXTENDS Tables, TLC

CONSTANTS i1, i2, r1, r2, r3, o1, o2, o3, ant, l1, c1, c2, c3, p1, p2, p3, d3

(***************************************************************************)
(* Two requests race for the limits of sites and coverages, with one id of *)
(* each more than the race can fill; a link is written while its antenna   *)
(* is edited; two users name each other's rows; a coverage is computed     *)
(* while its site is moved and its antenna edited.  Sites and sessions,    *)
(* designs and accounts share their model values, for the symmetry.        *)
(***************************************************************************)
Scene(os, ss, is, as, ps, ds, rs, cs) ==
    [owners |-> os, sites |-> ss, items |-> is, antennas |-> as, places |-> ps, designs |-> ds, requests |-> rs, computed |-> cs]

ScenesOf ==
    {Scene({o3}, SiteIds, {c1, c2, c3}, {}, {p3}, {d3}, {r1, r2}, {}),
     Scene({o3}, Sids, {l1}, {ant}, {p3}, {i1, i2}, {r1, r2}, {}),
     Scene({o1, o2}, Sids, {c3}, {ant}, {p3}, {d3}, {r1, r2}, {}),
     Scene({o3}, Sids, {c3}, {ant}, {p1, p2}, {i1, i2}, {r3}, {c3})}

Symmetry == Permutations(Ids) \cup Permutations(Sids) \cup Permutations(Requests)
===============================================================================

---------------------------- MODULE TablesProofs ----------------------------
(***************************************************************************)
(* Links and coverages keep to the sites and antennas of their owner, a    *)
(* gain is that of the antenna unless its write was overtaken, and a       *)
(* result is that of the row, the site and the antenna of now unless one   *)
(* of them was changed under it: for any number of users, rows, antennas   *)
(* and requests.                                                           *)
(***************************************************************************)
EXTENDS Tables, FiniteSetTheorems, TLAPS

(***************************************************************************)
(* Requests by what they hold.                                             *)
(***************************************************************************)
Counting == [pc : {"site"}, owner : Owners]
Editing == [pc : {"edit"}, owner : Owners, antenna : AntennaIds]
Writing == [pc : {"gain", "write"}, owner : Owners, item : Map!Items, new : BOOLEAN, sites : SUBSET SiteIds,
            uses : [Map!Sides -> AntennaIds \cup {None}], gain : [Map!Sides -> Designs], read : SUBSET Map!Sides, raced : BOOLEAN]
Held == {Map!Idle} \cup Counting \cup Editing \cup Writing

Types ==
  /\ site \in [SiteIds -> Map!Site \cup {None}]
  /\ antenna \in [AntennaIds -> Map!Antenna \cup {None}]
  /\ item \in [Map!Items -> Map!Item \cup {None}]
  /\ work \in [CoverageIds -> Map!Work \cup {None}]
  /\ edit \in [Edits -> Held]
  /\ scene \in Scenes

(***************************************************************************)
(* What the tables S of sites and A of antennas say of a request, a row, a *)
(* result and a computation.                                               *)
(***************************************************************************)
\* A coverage has one site.
Single(i, sites) == i \in CoverageIds => \A s, t \in sites : s = t

\* An antenna of the owner o.
Belongs(A, a, o) == A[a] # None /\ A[a].owner = o

PatternOf(A, a) == IF a = None THEN None ELSE A[a].design

\* A request edits an antenna of its user; one that writes a row reads the gain of every end before, and unless it was
\* overtaken they are those of its antennas.
RequestOK(q, A) ==
  /\ q \in Editing => Belongs(A, q.antenna, q.owner)
  /\ q \in Writing =>
    /\ Single(q.item, q.sites)
    /\ q.pc = "write" => Map!Ends(q.item) \subseteq q.read
    /\ \A e \in Map!Sides \ Map!Ends(q.item) : q.uses[e] = None
    /\ ~q.raced => \A e \in q.read : q.uses[e] # None => /\ Belongs(A, q.uses[e], q.owner)
                                                         /\ q.gain[e] = A[q.uses[e]].design

RowOK(i, row, S, A) ==
  row # None =>
    /\ \A s \in row.sites : S[s] # None /\ S[s].owner = row.owner
    /\ Single(i, row.sites)
    /\ \A e \in Map!Sides : row.uses[e] # None => Belongs(A, row.uses[e], row.owner)
    /\ \A e \in Map!Sides \ Map!Ends(i) : row.uses[e] = None
    /\ ~row.raced => \A e \in Map!Sides : row.uses[e] # None => row.gain[e] = A[row.uses[e]].design

ResultOK(row, S, A) ==
  row # None /\ row.result # None /\ ~row.result.touched =>
    /\ \A s \in row.sites : row.result.place = S[s].place
    /\ row.result.gain = row.gain["tx"]
    /\ row.result.pattern = PatternOf(A, row.uses["tx"])

WorkOK(w, row, S, A) ==
  w # None =>
    /\ row # None
    /\ w.uses # None => Belongs(A, w.uses, row.owner)
    /\ ~w.touched => /\ \A s \in row.sites : w.place = S[s].place
                     /\ w.gain = row.gain["tx"]
                     /\ w.uses = row.uses["tx"]
                     /\ w.ready => w.pattern = PatternOf(A, w.uses)

Inv ==
  /\ Types
  /\ \A r \in Edits : RequestOK(edit[r], antenna)
  /\ \A i \in Map!Items : RowOK(i, item[i], site, antenna)
  /\ \A c \in CoverageIds : ResultOK(item[c], site, antenna) /\ WorkOK(work[c], item[c], site, antenna)

-------------------------------------------------------------------------------
(***************************************************************************)
(* Requests, rows and computations that a change does not concern.         *)
(***************************************************************************)
LEMMA SameFinite == ASSUME NEW S PROVE Map!IsFiniteSet(S) <=> IsFiniteSet(S)
BY DEF IsFiniteSet, Map!IsFiniteSet

LEMMA SameCardinality == ASSUME NEW S PROVE Map!Cardinality(S) = Cardinality(S)
BY DEF Cardinality, Map!Cardinality

LEMMA Sided == "tx" \in Map!Sides /\ \A i : Map!Ends(i) \subseteq Map!Sides
BY DEF Map!Sides, Map!Ends

LEMMA WriterFields ==
  ASSUME NEW q \in Writing
  PROVE  /\ q.pc \in {"gain", "write"} /\ q.owner \in Owners /\ q.item \in Map!Items /\ q.new \in BOOLEAN
         /\ q.sites \in SUBSET SiteIds /\ q.uses \in [Map!Sides -> AntennaIds \cup {None}]
         /\ q.gain \in [Map!Sides -> Designs] /\ q.read \in SUBSET Map!Sides /\ q.raced \in BOOLEAN
BY DEF Writing

LEMMA ByPc ==
  ASSUME NEW q \in Held
  PROVE  /\ q.pc = "site" => q \in Counting
         /\ q.pc = "edit" => q \in Editing
         /\ q.pc \in {"gain", "write"} => q \in Writing
         /\ q \in Writing => q.pc \in {"gain", "write"}
         /\ q \in Editing => q.pc = "edit" /\ q.owner \in Owners /\ q.antenna \in AntennaIds
         /\ q.pc # "count"
         /\ q # Map!Idle => q.owner \in Owners
BY DEF Held, Counting, Editing, Writing, Map!Idle

LEMMA RowFields ==
  ASSUME NEW row \in Map!Item
  PROVE  /\ row.owner \in Owners /\ row.sites \in SUBSET SiteIds
         /\ row.uses \in [Map!Sides -> AntennaIds \cup {None}]
         /\ row.gain \in [Map!Sides -> Designs] /\ row.raced \in BOOLEAN /\ row.result \in Map!Result \cup {None}
BY DEF Map!Item

LEMMA SameRequest ==
  ASSUME NEW q, NEW A, NEW B, RequestOK(q, A),
         q \in Editing => B[q.antenna] = A[q.antenna],
         q \in Writing => \A e \in Map!Sides : q.uses[e] # None /\ Belongs(A, q.uses[e], q.owner) =>
                            B[q.uses[e]] = A[q.uses[e]]
  PROVE  RequestOK(q, B)
<1>1. q \in Writing => q.read \in SUBSET Map!Sides
  BY WriterFields
<1> QED BY <1>1 DEF RequestOK, Belongs

LEMMA SameRow ==
  ASSUME NEW i, NEW row, NEW S, NEW T, NEW A, NEW B, RowOK(i, row, S, A),
         row # None => /\ \A s \in row.sites : T[s] = S[s]
                       /\ \A e \in Map!Sides : row.uses[e] # None => B[row.uses[e]] = A[row.uses[e]]
  PROVE  RowOK(i, row, T, B) /\ (ResultOK(row, S, A) => ResultOK(row, T, B))
<1>1. RowOK(i, row, T, B)
  BY DEF RowOK, Belongs
<1>2. ResultOK(row, S, A) => ResultOK(row, T, B)
  BY Sided DEF ResultOK, PatternOf
<1> QED BY <1>1, <1>2

LEMMA SameWork ==
  ASSUME NEW w, NEW row, NEW S, NEW T, NEW A, NEW B, WorkOK(w, row, S, A),
         w # None => /\ \A s \in row.sites : T[s] = S[s]
                     /\ w.uses # None => B[w.uses] = A[w.uses]
  PROVE  WorkOK(w, row, T, B)
BY DEF WorkOK, Belongs, PatternOf

-------------------------------------------------------------------------------
(***************************************************************************)
(* Steps of one request that write nothing.                                *)
(***************************************************************************)
LEMMA AskStep ==
  ASSUME Inv, NEW r \in Edits, NEW n \in Held, RequestOK(n, antenna), edit' = [edit EXCEPT ![r] = n],
         UNCHANGED <<site, antenna, item, work, scene>>
  PROVE  Inv'
BY DEF Inv, Types

LEMMA IdleOK == ASSUME NEW A PROVE Map!Idle \in Held /\ RequestOK(Map!Idle, A)
BY ByPc DEF Held, RequestOK, Map!Idle

LEMMA DoneStep ==
  ASSUME Inv, NEW r \in Edits, Map!Done(r), UNCHANGED <<site, antenna, item, work, scene>>
  PROVE  Inv'
BY AskStep, IdleOK DEF Map!Done

LEMMA SceneFields ==
  ASSUME Map!Given, Types
  PROVE  /\ scene.owners \subseteq Owners /\ scene.sites \subseteq SiteIds /\ scene.items \subseteq Map!Items
         /\ scene.antennas \subseteq AntennaIds /\ scene.places \subseteq Places /\ scene.designs \subseteq Designs
         /\ scene.requests \subseteq Edits /\ scene.computed \subseteq CoverageIds
BY DEF Map!Given, Types

LEMMA CountSitesStep ==
  ASSUME Inv, NEW r \in Edits, NEW o \in Owners, Map!CountSites(r, o) PROVE Inv'
<1> DEFINE n == [pc |-> "site", owner |-> o]
<1>1. n \in Counting /\ n.pc = "site"
  BY DEF Counting
<1>2. n \in Held /\ RequestOK(n, antenna)
  BY <1>1, ByPc DEF Held, RequestOK
<1> QED BY <1>2, AskStep DEF Map!CountSites

LEMMA MayEditStep ==
  ASSUME Inv, NEW r \in Edits, NEW o \in Owners, NEW a \in AntennaIds, Map!MayEdit(r, o, a) PROVE Inv'
<1> DEFINE n == [pc |-> "edit", owner |-> o, antenna |-> a]
<1>1. n \in Editing /\ n.pc = "edit"
  BY DEF Editing
<1>2. n.antenna = a /\ n.owner = o /\ Belongs(antenna, a, o)
  BY DEF Map!MayEdit, Map!AntennasOf, Belongs
<1>3. edit' = [edit EXCEPT ![r] = n] /\ UNCHANGED <<site, antenna, item, work, scene>>
  BY DEF Map!MayEdit
<1> HIDE DEF n
<1>4. n \in Held /\ RequestOK(n, antenna)
  BY <1>1, <1>2, ByPc DEF Held, RequestOK
<1> QED BY <1>3, <1>4, AskStep

\* A set as large as {"tx"} has one member.
LEMMA ChosenSingle ==
  ASSUME Map!Given, NEW i \in Map!Items, NEW S \in Map!Chosen(i)
  PROVE  Single(i, S)
<1> SUFFICES ASSUME i \in CoverageIds PROVE \A s, t \in S : s = t
  BY DEF Single
<1>1. Map!Ends(i) = {"tx"}
  BY DEF Map!Ends, Map!Given
<1>2. Cardinality({"tx"}) = 1
  BY FS_Singleton
<1>3. IsFiniteSet(S) /\ Cardinality(S) = 1
  <2>1. S \subseteq SiteIds /\ Cardinality(S) = Cardinality({"tx"})
    BY <1>1, SameCardinality DEF Map!Chosen
  <2>2. IsFiniteSet(SiteIds)
    BY SameFinite DEF Map!Given
  <2> QED BY <1>2, <2>1, <2>2, FS_Subset
<1>4. \E x : S = {x}
  BY <1>3, FS_Singleton
<1> QED BY <1>4

LEMMA BeginWriteStep ==
  ASSUME Map!Given, Inv, NEW r \in Edits, NEW o \in Owners, NEW i \in Map!Items, NEW s, NEW u, NEW d \in Designs,
         Map!BeginWrite(r, o, i, s, u, d)
  PROVE  Inv'
<1> DEFINE n == [pc |-> "gain", owner |-> o, item |-> i, new |-> item[i] = None, sites |-> s,
                 uses |-> u, gain |-> [e \in Map!Sides |-> d], read |-> {}, raced |-> FALSE]
<1>1. /\ s \in Map!Chosen(i) /\ u \in Map!Choice(i) /\ edit' = [edit EXCEPT ![r] = n]
      /\ UNCHANGED <<site, antenna, item, work, scene>>
  BY DEF Map!BeginWrite
<1>2. /\ s \in SUBSET SiteIds /\ u \in [Map!Sides -> AntennaIds \cup {None}]
      /\ \A e \in Map!Sides \ Map!Ends(i) : u[e] = None
  BY <1>1 DEF Map!Chosen, Map!Choice
<1>3. /\ n \in Writing /\ n.pc = "gain" /\ n.item = i /\ n.sites = s /\ n.uses = u /\ n.read = {}
  BY <1>2 DEF Writing
<1>4. Single(i, s)
  BY <1>1, ChosenSingle
<1> HIDE DEF n
<1>5. n \in Held /\ RequestOK(n, antenna)
  BY <1>2, <1>3, <1>4, ByPc DEF Held, RequestOK
<1> QED BY <1>1, <1>5, AskStep

LEMMA AntennaGainStep ==
  ASSUME Map!Given, Inv, NEW r \in Edits, NEW e \in Map!Sides, Map!AntennaGain(r, e)
  PROVE  Inv'
<1> DEFINE q == edit[r]
           a == q.uses[e]
<1>1. /\ q.pc = "gain" /\ e \in Map!Ends(q.item) \ q.read
      /\ UNCHANGED <<site, antenna, item, work, scene>>
  BY DEF Map!AntennaGain
<1>2. q \in Writing /\ RequestOK(q, antenna)
  BY <1>1, ByPc DEF Inv, Types
<1>3. ASSUME NEW d \in Designs, NEW missed \in BOOLEAN, Map!Read(r, e, d, missed),
             a # None /\ ~missed => Belongs(antenna, a, q.owner) /\ antenna[a].design = d
      PROVE  Inv'
  <2> DEFINE n == [q EXCEPT !.gain[e] = d, !.read = q.read \cup {e}, !.raced = q.raced \/ missed]
  <2>1. edit' = [edit EXCEPT ![r] = n]
    BY <1>3, <1>2 DEF Map!Read, Inv, Types
  <2>2. /\ n \in Writing /\ n.pc = q.pc /\ n.owner = q.owner /\ n.item = q.item /\ n.sites = q.sites
        /\ n.uses = q.uses /\ n.read = q.read \cup {e} /\ n.raced = (q.raced \/ missed)
        /\ n.gain = [q.gain EXCEPT ![e] = d]
    BY <1>2 DEF Writing
  <2>3. \A f \in Map!Sides : n.gain[f] = IF f = e THEN d ELSE q.gain[f]
    BY <1>2, <2>2, WriterFields
  <2>4. q.read \in SUBSET Map!Sides
    BY <1>2, WriterFields
  <2> HIDE DEF n
  <2>5. n \in Held /\ RequestOK(n, antenna)
    BY <1>1, <1>2, <1>3, <2>2, <2>3, <2>4, ByPc DEF Held, RequestOK
  <2> QED BY <1>1, <2>1, <2>5, AskStep
<1>4. CASE a \in Map!AntennasOf(q.owner) /\ Map!Read(r, e, antenna[a].design, FALSE)
  <2>1. Belongs(antenna, a, q.owner) /\ antenna[a].design \in Designs
    BY <1>4 DEF Map!AntennasOf, Belongs, Inv, Types, Map!Antenna
  <2> QED BY <1>3, <1>4, <2>1
<1>5. CASE Map!Read(r, e, q.gain[e], a # None)
  <2>1. q.gain[e] \in Designs
    BY <1>2, WriterFields
  <2> QED BY <1>3, <1>5, <2>1
<1> QED BY <1>4, <1>5 DEF Map!AntennaGain

LEMMA CountCoveragesStep ==
  ASSUME Inv, NEW r \in Edits, Map!CountCoverages(r) PROVE Inv'
<1> DEFINE q == edit[r]
           n == [q EXCEPT !.pc = "write"]
<1>1. q.pc = "gain" /\ q.read = Map!Ends(q.item) /\ UNCHANGED <<site, antenna, item, work, scene>>
  BY DEF Map!CountCoverages
<1>2. q \in Writing /\ RequestOK(q, antenna)
  BY <1>1, ByPc DEF Inv, Types
<1>3. /\ n \in Writing /\ n.pc = "write" /\ n.owner = q.owner /\ n.item = q.item /\ n.sites = q.sites
      /\ n.uses = q.uses /\ n.read = q.read /\ n.raced = q.raced /\ n.gain = q.gain
  BY <1>2 DEF Writing
<1>4. CASE edit' = [edit EXCEPT ![r] = n]
  <2> HIDE DEF n
  <2>1. n \in Held /\ RequestOK(n, antenna)
    BY <1>1, <1>2, <1>3, ByPc DEF Held, RequestOK
  <2> QED BY <1>1, <1>4, <2>1, AskStep
<1> QED BY <1>1, <1>4, DoneStep DEF Map!CountCoverages

LEMMA FailStep == ASSUME Inv, NEW r \in Edits, Map!Fail(r) PROVE Inv'
BY DoneStep DEF Map!Fail

-------------------------------------------------------------------------------
(***************************************************************************)
(* Sites.                                                                  *)
(***************************************************************************)
LEMMA CreateSiteStep ==
  ASSUME Map!Given, Inv, NEW r \in Edits, NEW i \in SiteIds, NEW p \in Places, Map!CreateSite(r, i, p)
  PROVE  Inv'
<1> DEFINE n == [owner |-> edit[r].owner, place |-> p]
<1>1. /\ edit[r].pc = "site" /\ site[i] = None /\ site' = [site EXCEPT ![i] = n]
      /\ edit' = [edit EXCEPT ![r] = Map!Idle] /\ UNCHANGED <<antenna, item, work, scene>>
  BY DEF Map!CreateSite, Map!Done
<1>2. edit[r] \in Counting
  BY <1>1, ByPc DEF Inv, Types
<1>3. n \in Map!Site
  BY <1>2 DEF Counting, Map!Site
<1> HIDE DEF n
<1>4. Types'
  BY <1>1, <1>3, IdleOK DEF Inv, Types
<1>5. \A s \in SiteIds : site[s] # None => site'[s] = site[s]
  BY <1>1 DEF Inv, Types
<1>6. ASSUME NEW q \in Edits PROVE RequestOK(edit'[q], antenna')
  BY <1>1, IdleOK DEF Inv, Types
<1>7. ASSUME NEW j \in Map!Items, item[j] # None PROVE \A s \in item[j].sites : site'[s] = site[s]
  BY <1>5, <1>7, RowFields DEF Inv, Types, RowOK
<1>8. ASSUME NEW j \in Map!Items
      PROVE  /\ RowOK(j, item'[j], site', antenna')
             /\ ResultOK(item[j], site, antenna) => ResultOK(item'[j], site', antenna')
  BY <1>1, <1>7, SameRow DEF Inv
<1>9. ASSUME NEW c \in CoverageIds PROVE WorkOK(work'[c], item'[c], site', antenna')
  <2>1. work[c] # None => item[c] # None /\ c \in Map!Items
    BY DEF Inv, WorkOK, Map!Items
  <2> QED BY <1>1, <1>7, <2>1, SameWork DEF Inv
<1> QED BY <1>4, <1>6, <1>8, <1>9 DEF Inv, Map!Items

\* A row whose result was touched is the row it was, and its result is accounted for whatever the tables become.
LEMMA Touched ==
  ASSUME NEW row \in Map!Item \cup {None}, None \notin Map!Item
  PROVE  /\ Map!Touch(row) \in Map!Item \cup {None}
         /\ Map!Touch(row) = None <=> row = None
         /\ row # None => /\ Map!Touch(row).owner = row.owner /\ Map!Touch(row).sites = row.sites
                          /\ Map!Touch(row).uses = row.uses /\ Map!Touch(row).gain = row.gain
                          /\ Map!Touch(row).raced = row.raced
         /\ \A S, A : ResultOK(Map!Touch(row), S, A)
<1>1. CASE row = None \/ row.result = None
  BY <1>1 DEF Map!Touch, ResultOK
<1>2. CASE row # None /\ row.result # None
  <2> DEFINE t == [row EXCEPT !.result.touched = TRUE]
  <2>1. row.result \in Map!Result
    BY <1>2, RowFields
  <2>2. [row.result EXCEPT !.touched = TRUE] \in Map!Result
    BY <2>1 DEF Map!Result
  <2>3. /\ t \in Map!Item /\ t.result = [row.result EXCEPT !.touched = TRUE]
        /\ t.owner = row.owner /\ t.sites = row.sites /\ t.uses = row.uses /\ t.gain = row.gain /\ t.raced = row.raced
    BY <1>2, <2>2 DEF Map!Item
  <2>4. t.result.touched = TRUE
    BY <2>1, <2>3 DEF Map!Result
  <2>5. Map!Touch(row) = t
    BY <1>2 DEF Map!Touch
  <2> HIDE DEF t
  <2> QED BY <1>2, <2>3, <2>4, <2>5 DEF ResultOK
<1> QED BY <1>1, <1>2

\* A computation that was touched promises nothing but the antenna it will read.
LEMMA TouchedWork ==
  ASSUME NEW w \in Map!Work
  PROVE  LET v == [w EXCEPT !.touched = TRUE]
         IN v \in Map!Work /\ v.touched /\ v.uses = w.uses
BY DEF Map!Work

LEMMA TouchWorkAt ==
  ASSUME Types, NEW cs, NEW c \in CoverageIds, None \notin Map!Work
  PROVE  /\ Map!TouchWork(cs) \in [CoverageIds -> Map!Work \cup {None}]
         /\ Map!TouchWork(cs)[c] = None <=> work[c] = None
         /\ work[c] # None => Map!TouchWork(cs)[c].uses = work[c].uses
         /\ work[c] # None /\ c \in cs => Map!TouchWork(cs)[c].touched
         /\ c \notin cs => Map!TouchWork(cs)[c] = work[c]
<1>1. \A b \in CoverageIds : work[b] # None => [work[b] EXCEPT !.touched = TRUE] \in Map!Work
  BY TouchedWork DEF Types
<1>2. work[c] # None => LET v == [work[c] EXCEPT !.touched = TRUE] IN v \in Map!Work /\ v.touched /\ v.uses = work[c].uses
  BY TouchedWork DEF Types
<1> QED BY <1>1, <1>2 DEF Map!TouchWork, Types

LEMMA UpdateSiteStep ==
  ASSUME Map!Given, Inv, NEW i \in SiteIds, NEW p \in Places, Map!UpdateSite(i, p)
  PROVE  Inv'
<1> DEFINE n == [site[i] EXCEPT !.place = p]
           on == {c \in CoverageIds : item[c] # None /\ i \in item[c].sites}
<1>1. /\ site[i] # None /\ site' = [site EXCEPT ![i] = n]
      /\ item' = [j \in Map!Items |-> IF j \in on THEN Map!Touch(item[j]) ELSE item[j]]
      /\ work' = Map!TouchWork(on) /\ UNCHANGED <<antenna, edit, scene>>
  BY DEF Map!UpdateSite
<1>2. site[i] \in Map!Site
  BY <1>1 DEF Inv, Types
<1>3. n \in Map!Site /\ n.owner = site[i].owner
  BY <1>2 DEF Map!Site
<1>4. n # None
  BY <1>3 DEF Map!Given
<1> HIDE DEF n
<1>5. \A s \in SiteIds : /\ s # i => site'[s] = site[s]
                         /\ site[s] # None => site'[s] # None /\ site'[s].owner = site[s].owner
  BY <1>1, <1>3, <1>4 DEF Inv, Types
<1>6. ASSUME NEW j \in Map!Items, j \in on
      PROVE  /\ item'[j] \in Map!Item \cup {None}
             /\ item'[j] = None <=> item[j] = None
             /\ item[j] # None => /\ item'[j].owner = item[j].owner /\ item'[j].sites = item[j].sites
                                  /\ item'[j].uses = item[j].uses /\ item'[j].gain = item[j].gain
                                  /\ item'[j].raced = item[j].raced
             /\ ResultOK(item'[j], site', antenna')
  <2>1. item'[j] = Map!Touch(item[j]) /\ item[j] \in Map!Item \cup {None}
    BY <1>1, <1>6 DEF Inv, Types
  <2> QED BY <2>1, Touched DEF Map!Given
<1>7. ASSUME NEW j \in Map!Items, j \notin on PROVE item'[j] = item[j]
  BY <1>1, <1>7
<1>8. Types'
  <2>1. work' \in [CoverageIds -> Map!Work \cup {None}]
    BY <1>1, TouchWorkAt DEF Map!Given, Inv, Map!TouchWork
  <2>2. item' \in [Map!Items -> Map!Item \cup {None}]
    <3>1. \A j \in Map!Items : item'[j] \in Map!Item \cup {None}
      BY <1>6, <1>7 DEF Inv, Types
    <3> HIDE DEF on
    <3> QED BY <1>1, <3>1
  <2> QED BY <1>1, <1>3, <2>1, <2>2 DEF Inv, Types
<1>9. ASSUME NEW q \in Edits PROVE RequestOK(edit'[q], antenna')
  BY <1>1 DEF Inv
<1>10. ASSUME NEW j \in Map!Items, item[j] # None
       PROVE  item[j].sites \in SUBSET SiteIds
  BY <1>10, RowFields DEF Inv, Types
<1>11. ASSUME NEW j \in Map!Items PROVE RowOK(j, item'[j], site', antenna')
  <2>1. RowOK(j, item[j], site, antenna)
    BY DEF Inv
  <2>2. RowOK(j, item[j], site', antenna')
    BY <1>1, <1>5, <1>10, <2>1 DEF RowOK, Belongs
  <2>3. CASE j \in on
    BY <1>6, <2>2, <2>3 DEF RowOK
  <2> QED BY <1>7, <2>2, <2>3
<1>12. ASSUME NEW c \in CoverageIds
       PROVE  ResultOK(item'[c], site', antenna') /\ WorkOK(work'[c], item'[c], site', antenna')
  <2>1. c \in Map!Items /\ RowOK(c, item[c], site, antenna) /\ ResultOK(item[c], site, antenna)
        /\ WorkOK(work[c], item[c], site, antenna)
    BY DEF Inv, Map!Items
  <2>2. /\ work'[c] = None <=> work[c] = None
        /\ work[c] # None => work'[c].uses = work[c].uses
        /\ work[c] # None /\ c \in on => work'[c].touched
        /\ c \notin on => work'[c] = work[c]
    BY <1>1, TouchWorkAt DEF Map!Given, Inv
  <2>3. CASE c \in on
    BY <1>1, <1>6, <2>1, <2>2, <2>3 DEF WorkOK, Belongs
  <2>4. CASE c \notin on
    <3>1. item[c] # None => \A s \in item[c].sites : site'[s] = site[s]
      BY <1>5, <1>10, <2>1, <2>4
    <3>2. work[c] # None => item[c] # None
      BY <2>1 DEF WorkOK
    <3>3. ResultOK(item[c], site', antenna')
      BY <1>1, <2>1, <3>1, SameRow
    <3>4. WorkOK(work[c], item[c], site', antenna')
      BY <1>1, <2>1, <3>1, <3>2, SameWork
    <3> QED BY <1>7, <2>1, <2>2, <2>4, <3>3, <3>4
  <2> QED BY <2>3, <2>4
<1> QED BY <1>8, <1>9, <1>11, <1>12 DEF Inv

LEMMA DeleteSiteStep ==
  ASSUME Map!Given, Inv, NEW i \in SiteIds, Map!DeleteSite(i)
  PROVE  Inv'
<1>1. /\ \A j \in Map!Items : item[j] # None => i \notin item[j].sites
      /\ site' = [site EXCEPT ![i] = None] /\ UNCHANGED <<antenna, item, work, edit, scene>>
  BY DEF Map!DeleteSite
<1>2. Types'
  BY <1>1 DEF Inv, Types
<1>3. ASSUME NEW j \in Map!Items, item[j] # None PROVE \A s \in item[j].sites : site'[s] = site[s]
  BY <1>1, <1>3, RowFields DEF Inv, Types
<1>4. ASSUME NEW q \in Edits PROVE RequestOK(edit'[q], antenna')
  BY <1>1 DEF Inv
<1>5. ASSUME NEW j \in Map!Items
      PROVE  /\ RowOK(j, item'[j], site', antenna')
             /\ ResultOK(item[j], site, antenna) => ResultOK(item'[j], site', antenna')
  BY <1>1, <1>3, SameRow DEF Inv
<1>6. ASSUME NEW c \in CoverageIds PROVE WorkOK(work'[c], item'[c], site', antenna')
  <2>1. work[c] # None => item[c] # None /\ c \in Map!Items
    BY DEF Inv, WorkOK, Map!Items
  <2> QED BY <1>1, <1>3, <2>1, SameWork DEF Inv
<1> QED BY <1>2, <1>4, <1>5, <1>6 DEF Inv, Map!Items

-------------------------------------------------------------------------------
(***************************************************************************)
(* Antennas.                                                               *)
(***************************************************************************)
LEMMA CreateAntennaStep ==
  ASSUME Map!Given, Inv, NEW o \in Owners, NEW a \in AntennaIds, NEW d \in Designs, NEW manual \in BOOLEAN,
         Map!CreateAntenna(o, a, d, manual)
  PROVE  Inv'
<1> DEFINE n == [owner |-> o, design |-> d, manual |-> manual]
<1>1. /\ antenna[a] = None /\ antenna' = [antenna EXCEPT ![a] = n]
      /\ UNCHANGED <<site, item, work, edit, scene>>
  BY DEF Map!CreateAntenna
<1>2. n \in Map!Antenna
  BY DEF Map!Antenna
<1> HIDE DEF n
<1>3. Types'
  BY <1>1, <1>2 DEF Inv, Types
<1>4. \A x \in AntennaIds : antenna[x] # None => antenna'[x] = antenna[x]
  BY <1>1 DEF Inv, Types
<1>5. ASSUME NEW q \in Edits PROVE RequestOK(edit'[q], antenna')
  <2>1. RequestOK(edit[q], antenna)
    BY DEF Inv
  <2>2. edit[q] \in Editing => antenna'[edit[q].antenna] = antenna[edit[q].antenna]
    BY <1>4, <2>1 DEF RequestOK, Belongs, Editing
  <2>3. edit[q] \in Writing => \A e \in Map!Sides :
                                edit[q].uses[e] # None /\ Belongs(antenna, edit[q].uses[e], edit[q].owner) =>
                                  antenna'[edit[q].uses[e]] = antenna[edit[q].uses[e]]
    BY <1>4, WriterFields DEF Belongs
  <2> QED BY <1>1, <2>1, <2>2, <2>3, SameRequest
<1>6. ASSUME NEW j \in Map!Items, item[j] # None
      PROVE  \A e \in Map!Sides : item[j].uses[e] # None => antenna'[item[j].uses[e]] = antenna[item[j].uses[e]]
  BY <1>4, <1>6, RowFields DEF Inv, Types, RowOK, Belongs
<1>7. ASSUME NEW j \in Map!Items
      PROVE  /\ RowOK(j, item'[j], site', antenna')
             /\ ResultOK(item[j], site, antenna) => ResultOK(item'[j], site', antenna')
  BY <1>1, <1>6, SameRow DEF Inv
<1>8. ASSUME NEW c \in CoverageIds PROVE WorkOK(work'[c], item'[c], site', antenna')
  <2>1. work[c] # None /\ work[c].uses # None => antenna'[work[c].uses] = antenna[work[c].uses]
    BY <1>4 DEF Inv, Types, Map!Work, WorkOK, Belongs
  <2> QED BY <1>1, <2>1, SameWork DEF Inv
<1> QED BY <1>3, <1>5, <1>7, <1>8 DEF Inv, Map!Items

LEMMA CopiedRow ==
  ASSUME NEW row \in Map!Item, NEW a, NEW d \in Designs, None \notin Map!Item
  PROVE  LET n == Map!Copied(row, a, d)
         IN /\ n \in Map!Item
            /\ n.owner = row.owner /\ n.sites = row.sites /\ n.uses = row.uses /\ n.raced = row.raced
            /\ n.result = row.result
            /\ \A e \in Map!Sides : n.gain[e] = IF row.uses[e] = a THEN d ELSE row.gain[e]
<1>1. row # None
  OBVIOUS
<1>2. [e \in Map!Sides |-> IF row.uses[e] = a THEN d ELSE row.gain[e]] \in [Map!Sides -> Designs]
  BY RowFields
<1> QED BY <1>1, <1>2 DEF Map!Copied, Map!Item

LEMMA Staled ==
  ASSUME NEW q, NEW a, NEW r \in Edits, q \in [Edits -> Held]
  PROVE  /\ Map!Stale(q, a)[r] \in Held
         /\ q[r] \notin Writing => Map!Stale(q, a)[r] = q[r]
         /\ q[r] \in Writing =>
              /\ Map!Stale(q, a)[r] \in Writing
              /\ Map!Stale(q, a)[r].pc = q[r].pc /\ Map!Stale(q, a)[r].item = q[r].item
              /\ Map!Stale(q, a)[r].owner = q[r].owner /\ Map!Stale(q, a)[r].sites = q[r].sites
              /\ Map!Stale(q, a)[r].uses = q[r].uses /\ Map!Stale(q, a)[r].read = q[r].read
              /\ Map!Stale(q, a)[r].gain = q[r].gain
              /\ ~Map!Stale(q, a)[r].raced => ~q[r].raced /\ \A e \in q[r].read : q[r].uses[e] # a
<1>1. q[r] \in Held
  OBVIOUS
<1>2. CASE q[r] \notin Writing
  <2>1. q[r].pc \notin {"gain", "count", "write"}
    BY <1>1, <1>2, ByPc
  <2> QED BY <1>1, <1>2, <2>1 DEF Map!Stale
<1>3. CASE q[r] \in Writing /\ \E e \in q[r].read : q[r].uses[e] = a
  <2> DEFINE n == [q[r] EXCEPT !.raced = TRUE]
  <2>1. n \in Writing /\ n.raced = TRUE /\ n.pc = q[r].pc /\ n.item = q[r].item /\ n.owner = q[r].owner
        /\ n.sites = q[r].sites /\ n.uses = q[r].uses /\ n.read = q[r].read /\ n.gain = q[r].gain
    BY <1>3 DEF Writing
  <2>2. Map!Stale(q, a)[r] = n
    BY <1>1, <1>3, ByPc DEF Map!Stale
  <2> HIDE DEF n
  <2> QED BY <1>3, <2>1, <2>2 DEF Held
<1>4. CASE q[r] \in Writing /\ ~ \E e \in q[r].read : q[r].uses[e] = a
  <2>1. Map!Stale(q, a)[r] = q[r]
    BY <1>4 DEF Map!Stale
  <2>2. q[r].raced \in BOOLEAN
    BY <1>4, WriterFields
  <2> QED BY <1>1, <1>4, <2>1
<1> QED BY <1>2, <1>3, <1>4

LEMMA LikeRow ==
  ASSUME NEW i, NEW old, NEW row, NEW S, NEW A, NEW B, RowOK(i, old, S, A), old # None,
         row.owner = old.owner, row.sites = old.sites, row.uses = old.uses, row.raced = old.raced,
         \A e \in Map!Sides : old.uses[e] # None =>
           /\ Belongs(B, old.uses[e], old.owner)
           /\ ~old.raced => row.gain[e] = B[old.uses[e]].design
  PROVE  RowOK(i, row, S, B)
BY DEF RowOK

LEMMA UpdateAntennaStep ==
  ASSUME Map!Given, Inv, NEW r \in Edits, NEW d \in Designs, Map!UpdateAntenna(r, d)
  PROVE  Inv'
<1> DEFINE a == edit[r].antenna
           n == [antenna[a] EXCEPT !.design = d]
           ran == {c \in CoverageIds : work[c] # None /\ work[c].uses = a} \cup Map!UsersOf(a)
<1>1. /\ edit[r].pc = "edit" /\ antenna' = [antenna EXCEPT ![a] = n]
      /\ item' = [i \in Map!Items |-> IF i \in Map!UsersOf(a) THEN Map!Touch(Map!Copied(item[i], a, d)) ELSE item[i]]
      /\ work' = Map!TouchWork(ran)
      /\ edit' = [Map!Stale(edit, a) EXCEPT ![r] = Map!Idle]
      /\ UNCHANGED <<site, scene>>
  BY DEF Map!UpdateAntenna
<1>2. /\ a \in AntennaIds /\ antenna[a] # None
  <2>1. edit[r] \in Editing /\ RequestOK(edit[r], antenna)
    BY <1>1, ByPc DEF Inv, Types
  <2> QED BY <2>1 DEF RequestOK, Belongs, Editing
<1>3. antenna[a] \in Map!Antenna
  BY <1>2 DEF Inv, Types
<1>4. n \in Map!Antenna /\ n.owner = antenna[a].owner /\ n.design = d
  BY <1>3 DEF Map!Antenna
<1> HIDE DEF n, a
<1>5. /\ \A x \in AntennaIds : x # a => antenna'[x] = antenna[x]
      /\ antenna'[a] # None /\ antenna'[a].owner = antenna[a].owner /\ antenna'[a].design = d
  BY <1>1, <1>2, <1>4 DEF Map!Given, Inv, Types
<1>6. \A x \in AntennaIds : \A o : Belongs(antenna, x, o) => Belongs(antenna', x, o)
  BY <1>5 DEF Belongs
<1>7. ASSUME NEW j \in Map!UsersOf(a)
      PROVE  /\ item[j] # None /\ item'[j] # None /\ item'[j] \in Map!Item
             /\ item'[j].owner = item[j].owner /\ item'[j].sites = item[j].sites
             /\ item'[j].uses = item[j].uses /\ item'[j].raced = item[j].raced
             /\ \A e \in Map!Sides : item'[j].gain[e] = IF item[j].uses[e] = a THEN d ELSE item[j].gain[e]
             /\ ResultOK(item'[j], site', antenna')
  <2> DEFINE m == Map!Copied(item[j], a, d)
  <2>1. j \in Map!Items /\ item[j] # None /\ item'[j] = Map!Touch(m)
    BY <1>1, <1>7 DEF Map!UsersOf
  <2>2. item[j] \in Map!Item /\ None \notin Map!Item
    BY <2>1 DEF Map!Given, Inv, Types
  <2>3. /\ m \in Map!Item /\ m # None
        /\ m.owner = item[j].owner /\ m.sites = item[j].sites /\ m.uses = item[j].uses /\ m.raced = item[j].raced
        /\ \A e \in Map!Sides : m.gain[e] = IF item[j].uses[e] = a THEN d ELSE item[j].gain[e]
    BY <2>2, CopiedRow
  <2> HIDE DEF m
  <2> QED BY <2>1, <2>2, <2>3, Touched
<1>8. ASSUME NEW j \in Map!Items, j \notin Map!UsersOf(a)
      PROVE  item'[j] = item[j] /\ (item[j] # None => \A e \in Map!Sides : item[j].uses[e] # a)
  BY <1>1, <1>8 DEF Map!UsersOf
<1>9. Types'
  <2>1. work' \in [CoverageIds -> Map!Work \cup {None}]
    BY <1>1, TouchWorkAt DEF Map!Given, Inv, Map!TouchWork
  <2>2. item' \in [Map!Items -> Map!Item \cup {None}]
    <3>1. \A j \in Map!Items : item'[j] \in Map!Item \cup {None}
      BY <1>7, <1>8 DEF Inv, Types
    <3> QED BY <1>1, <3>1
  <2>3. edit' \in [Edits -> Held]
    <3>1. Map!Stale(edit, a) \in [Edits -> Held]
      <4>1. \A q \in Edits : Map!Stale(edit, a)[q] \in Held
        BY Staled DEF Inv, Types
      <4>2. Map!Stale(edit, a) = [q \in Edits |-> Map!Stale(edit, a)[q]]
        BY DEF Map!Stale
      <4> QED BY <4>1, <4>2
    <3> QED BY <1>1, <3>1, IdleOK
  <2> QED BY <1>1, <1>4, <2>1, <2>2, <2>3 DEF Inv, Types
<1>10. ASSUME NEW q \in Edits PROVE RequestOK(edit'[q], antenna')
  <2>1. RequestOK(edit[q], antenna) /\ edit[q] \in Held /\ edit \in [Edits -> Held]
    BY DEF Inv, Types
  <2>2. CASE q = r
    BY <1>1, <2>2, IdleOK DEF Map!Stale
  <2>3. CASE q # r /\ edit[q] \notin Writing
    <3>1. edit'[q] = edit[q]
      BY <1>1, <2>1, <2>3, Staled
    <3> QED BY <1>6, <2>1, <2>3, <3>1 DEF RequestOK, Editing
  <2>4. CASE q # r /\ edit[q] \in Writing
    <3> DEFINE w == Map!Stale(edit, a)[q]
    <3>1. /\ w \in Writing /\ w.pc = edit[q].pc /\ w.item = edit[q].item /\ w.owner = edit[q].owner
          /\ w.sites = edit[q].sites /\ w.uses = edit[q].uses /\ w.read = edit[q].read /\ w.gain = edit[q].gain
          /\ ~w.raced => ~edit[q].raced /\ \A e \in edit[q].read : edit[q].uses[e] # a
      BY <2>1, <2>4, Staled
    <3>2. edit'[q] = w
      BY <1>1, <2>4 DEF Map!Stale
    <3>3. /\ edit[q].uses \in [Map!Sides -> AntennaIds \cup {None}]
          /\ edit[q].read \in SUBSET Map!Sides
      BY <2>4, WriterFields
    <3> HIDE DEF w
    <3>4. w \notin Editing
      BY <3>1, ByPc DEF Held, Writing, Editing
    <3>5. ~w.raced => \A e \in w.read : w.uses[e] # None => /\ Belongs(antenna', w.uses[e], w.owner)
                                                            /\ w.gain[e] = antenna'[w.uses[e]].design
      BY <1>5, <1>6, <2>1, <2>4, <3>1, <3>3 DEF RequestOK
    <3>6. RequestOK(w, antenna')
      BY <2>1, <2>4, <3>1, <3>4, <3>5 DEF RequestOK
    <3> QED BY <3>2, <3>6
  <2> QED BY <2>2, <2>3, <2>4
<1>11. ASSUME NEW j \in Map!Items, item[j] # None
       PROVE  item[j].uses \in [Map!Sides -> AntennaIds \cup {None}]
  BY <1>11, RowFields DEF Inv, Types
<1>12. ASSUME NEW j \in Map!Items
       PROVE  /\ RowOK(j, item'[j], site', antenna')
              /\ ResultOK(item[j], site, antenna) => ResultOK(item'[j], site', antenna')
  <2>1. RowOK(j, item[j], site, antenna)
    BY DEF Inv
  <2>2. CASE j \in Map!UsersOf(a)
    <3>1. \A e \in Map!Sides : item[j].uses[e] # None =>
            /\ Belongs(antenna', item[j].uses[e], item[j].owner)
            /\ ~item[j].raced => item'[j].gain[e] = antenna'[item[j].uses[e]].design
      <4> SUFFICES ASSUME NEW e \in Map!Sides, item[j].uses[e] # None
                   PROVE  /\ Belongs(antenna', item[j].uses[e], item[j].owner)
                          /\ ~item[j].raced => item'[j].gain[e] = antenna'[item[j].uses[e]].design
        OBVIOUS
      <4>1. item[j].uses[e] \in AntennaIds
        BY <1>7, <1>11, <2>2
      <4>2. Belongs(antenna, item[j].uses[e], item[j].owner)
        BY <1>7, <2>1, <2>2 DEF RowOK
      <4>3. item[j].uses[e] # a /\ ~item[j].raced => item[j].gain[e] = antenna[item[j].uses[e]].design
        BY <1>7, <2>1, <2>2 DEF RowOK
      <4> QED BY <1>5, <1>6, <1>7, <2>2, <4>1, <4>2, <4>3
    <3>2. RowOK(j, item'[j], site', antenna')
      <4>1. site' = site
        BY <1>1
      <4>2. /\ item[j] # None
            /\ item'[j].owner = item[j].owner /\ item'[j].sites = item[j].sites
            /\ item'[j].uses = item[j].uses /\ item'[j].raced = item[j].raced
        BY <1>7, <2>2
      <4>3. RowOK(j, item'[j], site, antenna')
        BY <2>1, <3>1, <4>2, LikeRow
      <4> QED BY <4>1, <4>3
    <3> QED BY <1>7, <2>2, <3>2
  <2>3. CASE j \notin Map!UsersOf(a)
    <3>1. item[j] # None => \A e \in Map!Sides : item[j].uses[e] # None => antenna'[item[j].uses[e]] = antenna[item[j].uses[e]]
      BY <1>5, <1>8, <1>11, <2>3
    <3> QED BY <1>1, <1>8, <2>1, <2>3, <3>1, SameRow
  <2> QED BY <2>2, <2>3
<1>13. ASSUME NEW c \in CoverageIds PROVE WorkOK(work'[c], item'[c], site', antenna')
  <2>1. c \in Map!Items /\ WorkOK(work[c], item[c], site, antenna)
    BY DEF Inv, Map!Items
  <2>2. /\ work'[c] = None <=> work[c] = None
        /\ work[c] # None => work'[c].uses = work[c].uses
        /\ work[c] # None /\ c \in ran => work'[c].touched
        /\ c \notin ran => work'[c] = work[c]
    BY <1>1, TouchWorkAt DEF Map!Given, Inv
  <2>3. work[c] # None => work[c].uses \in AntennaIds \cup {None} /\ item[c] # None
    BY <2>1 DEF Inv, Types, Map!Work, WorkOK
  <2>4. item[c] # None => item'[c] # None /\ item'[c].owner = item[c].owner
    BY <1>7, <1>8, <2>1
  <2>5. CASE c \in ran
    BY <1>6, <2>1, <2>2, <2>3, <2>4, <2>5 DEF WorkOK
  <2>6. CASE c \notin ran
    <3>1. item'[c] = item[c]
      BY <1>8, <2>1, <2>6
    <3>2. work[c] # None /\ work[c].uses # None => antenna'[work[c].uses] = antenna[work[c].uses]
      BY <1>5, <2>3, <2>6
    <3> QED BY <1>1, <2>1, <2>2, <2>6, <3>1, <3>2, SameWork
  <2> QED BY <2>5, <2>6
<1> QED BY <1>9, <1>10, <1>12, <1>13 DEF Inv, Map!Items

LEMMA UnusedRow ==
  ASSUME NEW row \in Map!Item, NEW a, None \notin Map!Item
  PROVE  LET n == Map!Unused(row, a)
         IN /\ n \in Map!Item
            /\ n.owner = row.owner /\ n.sites = row.sites /\ n.gain = row.gain /\ n.raced = row.raced
            /\ \A e \in Map!Sides : n.uses[e] = IF row.uses[e] = a THEN None ELSE row.uses[e]
<1>1. row # None
  OBVIOUS
<1>2. [e \in Map!Sides |-> IF row.uses[e] = a THEN None ELSE row.uses[e]] \in [Map!Sides -> AntennaIds \cup {None}]
  BY RowFields
<1> QED BY <1>1, <1>2 DEF Map!Unused, Map!Item

LEMMA UnusedLike ==
  ASSUME NEW i, NEW old, NEW row, NEW S, NEW A, NEW B, NEW a, RowOK(i, old, S, A), old # None,
         row.owner = old.owner, row.sites = old.sites, row.gain = old.gain, row.raced = old.raced,
         \A e \in Map!Sides : old.uses[e] = a => row.uses[e] = None,
         \A e \in Map!Sides : old.uses[e] # a => row.uses[e] = old.uses[e],
         \A e \in Map!Sides : old.uses[e] # None /\ old.uses[e] # a => B[old.uses[e]] = A[old.uses[e]]
  PROVE  RowOK(i, row, S, B)
BY DEF RowOK, Belongs

LEMMA DeleteAntennaStep ==
  ASSUME Map!Given, Inv, NEW a \in AntennaIds, Map!DeleteAntenna(a)
  PROVE  Inv'
<1>1. /\ antenna' = [antenna EXCEPT ![a] = None]
      /\ item' = [i \in Map!Items |-> IF i \in Map!UsersOf(a) THEN Map!Touch(Map!Unused(item[i], a)) ELSE item[i]]
      /\ work' = [c \in CoverageIds |->
                    IF work[c] # None /\ work[c].uses = a
                    THEN [work[c] EXCEPT !.uses = None, !.touched = TRUE] ELSE work[c]]
      /\ edit' = Map!Forgotten(edit, a)
      /\ UNCHANGED <<site, scene>>
  BY DEF Map!DeleteAntenna
<1>2. \A x \in AntennaIds : x # a => antenna'[x] = antenna[x]
  BY <1>1 DEF Inv, Types
<1>3. site' = site /\ None # a
  BY <1>1 DEF Map!Given
<1>4. ASSUME NEW j \in Map!UsersOf(a)
      PROVE  /\ item[j] # None /\ item'[j] # None /\ item'[j] \in Map!Item
             /\ item'[j].owner = item[j].owner /\ item'[j].sites = item[j].sites
             /\ item'[j].gain = item[j].gain /\ item'[j].raced = item[j].raced
             /\ \A e \in Map!Sides : item'[j].uses[e] = IF item[j].uses[e] = a THEN None ELSE item[j].uses[e]
             /\ ResultOK(item'[j], site', antenna')
  <2> DEFINE m == Map!Unused(item[j], a)
  <2>1. j \in Map!Items /\ item[j] # None /\ item'[j] = Map!Touch(m)
    BY <1>1, <1>4 DEF Map!UsersOf
  <2>2. item[j] \in Map!Item /\ None \notin Map!Item
    BY <2>1 DEF Map!Given, Inv, Types
  <2>3. /\ m \in Map!Item /\ m # None
        /\ m.owner = item[j].owner /\ m.sites = item[j].sites /\ m.gain = item[j].gain /\ m.raced = item[j].raced
        /\ \A e \in Map!Sides : m.uses[e] = IF item[j].uses[e] = a THEN None ELSE item[j].uses[e]
    BY <2>2, UnusedRow
  <2> HIDE DEF m
  <2> QED BY <2>1, <2>2, <2>3, Touched
<1>5. ASSUME NEW j \in Map!Items, j \notin Map!UsersOf(a)
      PROVE  item'[j] = item[j] /\ (item[j] # None => \A e \in Map!Sides : item[j].uses[e] # a)
  BY <1>1, <1>5 DEF Map!UsersOf
<1>6. ASSUME NEW c \in CoverageIds, work[c] # None, work[c].uses = a
      PROVE  work'[c] \in Map!Work /\ work'[c].uses = None /\ work'[c].touched
  <2>1. work[c] \in Map!Work
    BY <1>6 DEF Inv, Types
  <2> DEFINE v == [work[c] EXCEPT !.uses = None, !.touched = TRUE]
  <2>2. v \in Map!Work /\ v.uses = None /\ v.touched
    BY <2>1 DEF Map!Work
  <2>3. work'[c] = v
    BY <1>1, <1>6
  <2> HIDE DEF v
  <2> QED BY <2>2, <2>3
<1>7. Types'
  <2>1. work' \in [CoverageIds -> Map!Work \cup {None}]
    <3>1. \A c \in CoverageIds : work'[c] \in Map!Work \cup {None}
      BY <1>1, <1>6 DEF Inv, Types
    <3> QED BY <1>1, <3>1
  <2>2. item' \in [Map!Items -> Map!Item \cup {None}]
    <3>1. \A j \in Map!Items : item'[j] \in Map!Item \cup {None}
      BY <1>4, <1>5 DEF Inv, Types
    <3> QED BY <1>1, <3>1
  <2>3. edit' \in [Edits -> Held]
    BY <1>1, IdleOK DEF Map!Forgotten, Inv, Types
  <2> QED BY <1>1, <2>1, <2>2, <2>3 DEF Inv, Types
<1>8. ASSUME NEW q \in Edits PROVE RequestOK(edit'[q], antenna')
  <2>1. RequestOK(edit[q], antenna) /\ edit[q] \in Held
    BY DEF Inv, Types
  <2>2. CASE edit'[q] = Map!Idle
    BY <2>2, IdleOK
  <2>3. CASE edit'[q] # Map!Idle
    <3>1. edit'[q] = edit[q] /\ (edit[q].pc = "edit" => edit[q].antenna # a)
          /\ (edit[q].pc \in {"gain", "count", "write"} => \A e \in Map!Sides : edit[q].uses[e] # a)
      BY <1>1, <2>3 DEF Map!Forgotten
    <3>2. edit[q] \in Editing => antenna'[edit[q].antenna] = antenna[edit[q].antenna]
      BY <1>2, <2>1, <3>1, ByPc
    <3>3. edit[q] \in Writing => \A e \in Map!Sides : edit[q].uses[e] # None => antenna'[edit[q].uses[e]] = antenna[edit[q].uses[e]]
      BY <1>2, <2>1, <3>1, WriterFields
    <3> QED BY <2>1, <3>1, <3>2, <3>3, SameRequest
  <2> QED BY <2>2, <2>3
<1>9. ASSUME NEW j \in Map!Items, item[j] # None
      PROVE  item[j].uses \in [Map!Sides -> AntennaIds \cup {None}]
  BY <1>9, RowFields DEF Inv, Types
<1>10. ASSUME NEW j \in Map!Items
       PROVE  /\ RowOK(j, item'[j], site', antenna')
              /\ ResultOK(item[j], site, antenna) => ResultOK(item'[j], site', antenna')
  <2>1. RowOK(j, item[j], site, antenna)
    BY DEF Inv
  <2>2. CASE j \in Map!UsersOf(a)
    <3>1. \A e \in Map!Sides : item[j].uses[e] # None /\ item[j].uses[e] # a =>
                             antenna'[item[j].uses[e]] = antenna[item[j].uses[e]]
      BY <1>2, <1>4, <1>9, <2>2
    <3>2. /\ item[j] # None
          /\ item'[j].owner = item[j].owner /\ item'[j].sites = item[j].sites
          /\ item'[j].gain = item[j].gain /\ item'[j].raced = item[j].raced
          /\ \A e \in Map!Sides : item[j].uses[e] = a => item'[j].uses[e] = None
          /\ \A e \in Map!Sides : item[j].uses[e] # a => item'[j].uses[e] = item[j].uses[e]
      BY <1>4, <2>2
    <3>3. RowOK(j, item'[j], site, antenna')
      <4>1. PICK old, row, B : old = item[j] /\ row = item'[j] /\ B = antenna'
        OBVIOUS
      <4>2. /\ RowOK(j, old, site, antenna) /\ old # None
            /\ row.owner = old.owner /\ row.sites = old.sites /\ row.gain = old.gain /\ row.raced = old.raced
        BY <2>1, <3>2, <4>1
      <4>3. /\ \A e \in Map!Sides : old.uses[e] = a => row.uses[e] = None
            /\ \A e \in Map!Sides : old.uses[e] # a => row.uses[e] = old.uses[e]
        BY <3>2, <4>1
      <4>4. \A e \in Map!Sides : old.uses[e] # None /\ old.uses[e] # a => B[old.uses[e]] = antenna[old.uses[e]]
        BY <3>1, <4>1
      <4>5. RowOK(j, row, site, B)
        BY <4>2, <4>3, <4>4, SMTT(30) DEF RowOK, Belongs
      <4> QED BY <4>1, <4>5
    <3> QED BY <1>3, <1>4, <2>2, <3>3
  <2>3. CASE j \notin Map!UsersOf(a)
    <3>1. item[j] # None => \A e \in Map!Sides : item[j].uses[e] # None => antenna'[item[j].uses[e]] = antenna[item[j].uses[e]]
      BY <1>2, <1>5, <1>9, <2>3
    <3> QED BY <1>3, <1>5, <2>1, <2>3, <3>1, SameRow
  <2> QED BY <2>2, <2>3
<1>11. ASSUME NEW c \in CoverageIds PROVE WorkOK(work'[c], item'[c], site', antenna')
  <2>1. c \in Map!Items /\ WorkOK(work[c], item[c], site, antenna) /\ RowOK(c, item[c], site, antenna)
    BY DEF Inv, Map!Items
  <2>2. work[c] # None => work[c].uses \in AntennaIds \cup {None} /\ item[c] # None
    BY <2>1 DEF Inv, Types, Map!Work, WorkOK
  <2>3. item[c] # None => item'[c] # None /\ item'[c].owner = item[c].owner
    BY <1>4, <1>5, <2>1
  <2>4. CASE work[c] # None /\ work[c].uses = a
    BY <1>6, <2>2, <2>3, <2>4 DEF WorkOK
  <2>5. CASE work[c] = None
    BY <1>1, <2>5 DEF WorkOK
  <2>6. CASE work[c] # None /\ work[c].uses # a
    <3>1. work'[c] = work[c]
      BY <1>1, <2>6
    <3>2. work[c].uses # None => antenna'[work[c].uses] = antenna[work[c].uses]
      BY <1>2, <2>2, <2>6
    <3>3. CASE work[c].touched
      BY <2>1, <2>3, <2>6, <3>1, <3>2, <3>3 DEF WorkOK, Belongs
    <3>4. CASE ~work[c].touched
      <4>1. \A e \in Map!Sides : item[c].uses[e] # a
        <5>1. Map!Sides \ Map!Ends(c) = {"rx"}
          BY DEF Map!Given, Map!Ends, Map!Sides
        <5>2. item[c].uses["tx"] # a /\ item[c].uses["rx"] = None
          BY <2>1, <2>2, <2>6, <3>4, <5>1 DEF WorkOK, RowOK
        <5> QED BY <1>3, <5>2 DEF Map!Sides
      <4>2. item'[c] = item[c]
        BY <1>5, <2>1, <4>1 DEF Map!UsersOf
      <4> QED BY <1>3, <2>1, <3>1, <3>2, <4>2, SameWork
    <3> QED BY <3>3, <3>4
  <2> QED BY <2>4, <2>5, <2>6
<1> QED BY <1>7, <1>8, <1>10, <1>11 DEF Inv, Map!Items

-------------------------------------------------------------------------------
(***************************************************************************)
(* Links and coverages.                                                    *)
(***************************************************************************)
\* The row a request writes where its sites and antennas belong to its user.
LEMMA NewRow ==
  ASSUME Map!Given, Inv, NEW r \in Edits, edit[r].pc = "write", Map!RefsOwned(r)
  PROVE  /\ edit[r].item \in Map!Items /\ Map!Row(r) \in Map!Item /\ Map!Row(r) # None
         /\ Map!Row(r).owner = edit[r].owner /\ Map!Row(r).result = None
         /\ RowOK(edit[r].item, Map!Row(r), site, antenna)
<1> DEFINE q == edit[r]
<1>1. q \in Writing /\ RequestOK(q, antenna)
  BY ByPc DEF Inv, Types
<1>2. /\ q.owner \in Owners /\ q.item \in Map!Items /\ q.sites \in SUBSET SiteIds
      /\ q.uses \in [Map!Sides -> AntennaIds \cup {None}] /\ q.gain \in [Map!Sides -> Designs]
      /\ q.read \in SUBSET Map!Sides /\ q.raced \in BOOLEAN
  BY <1>1, WriterFields
<1>3. /\ Map!Row(r) \in Map!Item
      /\ Map!Row(r).owner = q.owner /\ Map!Row(r).sites = q.sites /\ Map!Row(r).uses = q.uses /\ Map!Row(r).gain = q.gain
      /\ Map!Row(r).raced = q.raced /\ Map!Row(r).result = None
  BY <1>2 DEF Map!Row, Map!Item
<1>4. \A s \in q.sites : site[s] # None /\ site[s].owner = q.owner
  BY DEF Map!RefsOwned, Map!SitesOf
<1>5. \A e \in Map!Sides : q.uses[e] # None => Belongs(antenna, q.uses[e], q.owner)
  BY DEF Map!RefsOwned, Map!AntennasOf, Belongs
<1>6. ~q.raced => \A e \in Map!Sides : q.uses[e] # None => q.gain[e] = antenna[q.uses[e]].design
  BY <1>1 DEF RequestOK
<1>7. RowOK(q.item, Map!Row(r), site, antenna)
  BY <1>1, <1>3, <1>4, <1>5, <1>6 DEF RequestOK, RowOK
<1> QED BY <1>2, <1>3, <1>7 DEF Map!Given

LEMMA CreateItemStep ==
  ASSUME Map!Given, Inv, NEW r \in Edits, Map!CreateItem(r)
  PROVE  Inv'
<1> DEFINE j == edit[r].item
<1>1. /\ edit[r].pc = "write" /\ item[j] = None
      /\ IF Map!RefsOwned(r) THEN item' = [item EXCEPT ![j] = Map!Row(r)] ELSE UNCHANGED item
      /\ Map!Done(r) /\ UNCHANGED <<site, antenna, work, scene>>
  BY DEF Map!CreateItem
<1>2. CASE ~Map!RefsOwned(r)
  BY <1>1, <1>2, DoneStep
<1>3. CASE Map!RefsOwned(r)
  <2> DEFINE n == Map!Row(r)
  <2>1. /\ j \in Map!Items /\ n \in Map!Item /\ n # None /\ n.result = None
        /\ RowOK(j, n, site, antenna)
    BY <1>1, <1>3, NewRow
  <2> HIDE DEF n, j
  <2>2. item' = [item EXCEPT ![j] = n] /\ edit' = [edit EXCEPT ![r] = Map!Idle] /\ UNCHANGED <<site, antenna, work, scene>>
    BY <1>1, <1>3 DEF Map!Done, n
  <2>3. /\ item'[j] = n
        /\ \A i \in Map!Items : i # j => item'[i] = item[i]
    BY <2>1, <2>2 DEF Inv, Types
  <2>4. Types'
    BY <2>1, <2>2, IdleOK DEF Inv, Types
  <2>5. \A q \in Edits : RequestOK(edit'[q], antenna')
    BY <2>2, IdleOK DEF Inv, Types
  <2>6. \A i \in Map!Items : RowOK(i, item'[i], site', antenna')
    BY <2>1, <2>2, <2>3 DEF Inv
  <2>7. \A c \in CoverageIds : ResultOK(item'[c], site', antenna')
    <3>1. ResultOK(n, site, antenna)
      BY <2>1 DEF ResultOK
    <3> QED BY <2>2, <2>3, <3>1 DEF Inv, Map!Items
  <2>8. \A c \in CoverageIds : WorkOK(work'[c], item'[c], site', antenna')
    <3>1. j \in CoverageIds => work[j] = None
      BY <1>1 DEF Inv, WorkOK, j
    <3> QED BY <2>2, <2>3, <3>1 DEF Inv, Map!Items, WorkOK
  <2> QED BY <2>4, <2>5, <2>6, <2>7, <2>8 DEF Inv
<1> QED BY <1>2, <1>3

LEMMA UpdateItemStep ==
  ASSUME Map!Given, Inv, NEW r \in Edits, Map!UpdateItem(r)
  PROVE  Inv'
<1> DEFINE j == edit[r].item
           found == item[j] # None /\ item[j].owner = edit[r].owner /\ Map!RefsOwned(r)
           mine == {j} \cap CoverageIds
<1>1. /\ edit[r].pc = "write"
      /\ IF found THEN item' = [item EXCEPT ![j] = Map!Row(r)] /\ work' = Map!TouchWork(mine) ELSE UNCHANGED <<item, work>>
      /\ Map!Done(r) /\ UNCHANGED <<site, antenna, scene>>
  BY DEF Map!UpdateItem
<1>2. CASE ~found
  BY <1>1, <1>2, DoneStep
<1>3. CASE found
  <2> DEFINE n == Map!Row(r)
  <2>1. /\ j \in Map!Items /\ n \in Map!Item /\ n # None /\ n.result = None /\ n.owner = item[j].owner
        /\ RowOK(j, n, site, antenna)
    BY <1>1, <1>3, NewRow
  <2>2. /\ item' = [item EXCEPT ![j] = n] /\ work' = Map!TouchWork(mine) /\ edit' = [edit EXCEPT ![r] = Map!Idle]
        /\ UNCHANGED <<site, antenna, scene>>
    BY <1>1, <1>3 DEF Map!Done
  <2> HIDE DEF n, j, found
  <2>3. /\ item'[j] = n
        /\ \A i \in Map!Items : i # j => item'[i] = item[i]
    BY <2>1, <2>2 DEF Inv, Types
  <2>4. Types'
    <3>1. work' \in [CoverageIds -> Map!Work \cup {None}]
      BY <2>2, TouchWorkAt DEF Map!Given, Inv, Map!TouchWork
    <3>2. item' \in [Map!Items -> Map!Item \cup {None}] /\ edit' \in [Edits -> Held]
      BY <2>1, <2>2, IdleOK DEF Inv, Types
    <3> QED BY <2>2, <3>1, <3>2 DEF Inv, Types
  <2>5. \A q \in Edits : RequestOK(edit'[q], antenna')
    BY <2>2, IdleOK DEF Inv, Types
  <2>6. \A i \in Map!Items : RowOK(i, item'[i], site', antenna')
    BY <2>1, <2>2, <2>3 DEF Inv
  <2>7. \A c \in CoverageIds : ResultOK(item'[c], site', antenna')
    <3>1. ResultOK(n, site, antenna)
      BY <2>1 DEF ResultOK
    <3> QED BY <2>2, <2>3, <3>1 DEF Inv, Map!Items
  <2>8. ASSUME NEW c \in CoverageIds PROVE WorkOK(work'[c], item'[c], site', antenna')
    <3>1. /\ work'[c] = None <=> work[c] = None
          /\ work[c] # None => work'[c].uses = work[c].uses
          /\ work[c] # None /\ c \in mine => work'[c].touched
          /\ c \notin mine => work'[c] = work[c]
      BY <2>2, TouchWorkAt DEF Map!Given, Inv
    <3>2. WorkOK(work[c], item[c], site, antenna)
      BY DEF Inv
    <3>3. CASE c = j
      BY <2>1, <2>2, <2>3, <3>1, <3>2, <3>3 DEF WorkOK
    <3>4. CASE c # j
      BY <2>2, <2>3, <3>1, <3>2, <3>4 DEF Map!Items
    <3> QED BY <3>3, <3>4
  <2> QED BY <2>4, <2>5, <2>6, <2>7, <2>8 DEF Inv
<1> QED BY <1>2, <1>3

LEMMA DeleteItemStep ==
  ASSUME Map!Given, Inv, NEW i \in Map!Items, Map!DeleteItem(i)
  PROVE  Inv'
<1>1. /\ item' = [j \in Map!Items |-> IF j \in {i} THEN None ELSE item[j]]
      /\ work' = [c \in CoverageIds |-> IF c \in {i} THEN None ELSE work[c]]
      /\ \A r \in Edits : edit'[r] \in {Map!Idle, edit[r]}
      /\ edit' = [r \in Edits |-> edit'[r]]
      /\ UNCHANGED <<site, antenna, scene>>
  BY DEF Map!DeleteItem, Map!DropItems
<1>2. Types'
  <2>1. edit' \in [Edits -> Held]
    BY <1>1, IdleOK DEF Inv, Types
  <2> QED BY <1>1, <2>1 DEF Inv, Types
<1>3. \A q \in Edits : RequestOK(edit'[q], antenna')
  BY <1>1, IdleOK DEF Inv
<1>4. \A j \in Map!Items : RowOK(j, item'[j], site', antenna')
  BY <1>1 DEF Inv, RowOK
<1>5. \A c \in CoverageIds : ResultOK(item'[c], site', antenna') /\ WorkOK(work'[c], item'[c], site', antenna')
  BY <1>1 DEF Inv, Map!Items, ResultOK, WorkOK
<1> QED BY <1>2, <1>3, <1>4, <1>5 DEF Inv

LEMMA DeleteOwnerStep ==
  ASSUME Map!Given, Inv, NEW o \in Owners, Map!DeleteOwner(o)
  PROVE  Inv'
<1> DEFINE gone == {i \in Map!Items : item[i] # None /\ item[i].owner = o}
<1>1. /\ site' = [i \in SiteIds |-> IF i \in Map!SitesOf(o) THEN None ELSE site[i]]
      /\ antenna' = [a \in AntennaIds |-> IF a \in Map!AntennasOf(o) THEN None ELSE antenna[a]]
      /\ item' = [i \in Map!Items |-> IF i \in gone THEN None ELSE item[i]]
      /\ work' = [c \in CoverageIds |-> IF c \in gone THEN None ELSE work[c]]
      /\ edit' = [r \in Edits |-> IF edit[r] # Map!Idle /\ edit[r].owner = o THEN Map!Idle ELSE edit[r]]
      /\ UNCHANGED scene
  BY DEF Map!DeleteOwner, Map!DropItems
<1>2. Types'
  BY <1>1, IdleOK DEF Inv, Types
<1>3. /\ \A s \in SiteIds : site[s] # None /\ site[s].owner # o => site'[s] = site[s]
      /\ \A a \in AntennaIds : antenna[a] # None /\ antenna[a].owner # o => antenna'[a] = antenna[a]
  BY <1>1 DEF Map!SitesOf, Map!AntennasOf
<1>4. ASSUME NEW q \in Edits PROVE RequestOK(edit'[q], antenna')
  <2>1. RequestOK(edit[q], antenna)
    BY DEF Inv
  <2>2. CASE edit'[q] = Map!Idle
    BY <2>2, IdleOK
  <2>3. CASE edit'[q] # Map!Idle
    <3>1. edit'[q] = edit[q] /\ edit[q].owner # o
      BY <1>1, <2>3
    <3>2. edit[q] \in Editing => antenna'[edit[q].antenna] = antenna[edit[q].antenna]
      BY <1>3, <2>1, <3>1 DEF RequestOK, Editing, Belongs
    <3>3. edit[q] \in Writing => \A e \in Map!Sides :
            edit[q].uses[e] # None /\ Belongs(antenna, edit[q].uses[e], edit[q].owner) =>
              antenna'[edit[q].uses[e]] = antenna[edit[q].uses[e]]
      BY <1>3, <3>1, WriterFields DEF Belongs
    <3> QED BY <2>1, <3>1, <3>2, <3>3, SameRequest
  <2> QED BY <2>2, <2>3
<1>5. ASSUME NEW j \in Map!Items
      PROVE  \/ item'[j] = None
             \/ /\ item'[j] = item[j]
                /\ item[j] # None
                /\ item[j].owner # o
                /\ \A s \in item[j].sites : site'[s] = site[s]
                /\ \A e \in Map!Sides : item[j].uses[e] # None => antenna'[item[j].uses[e]] = antenna[item[j].uses[e]]
  <2>1. CASE item'[j] # None
    <3>1. item'[j] = item[j] /\ item[j] # None /\ item[j].owner # o
      BY <1>1, <2>1
    <3>2. /\ item[j].sites \in SUBSET SiteIds
          /\ item[j].uses \in [Map!Sides -> AntennaIds \cup {None}]
          /\ RowOK(j, item[j], site, antenna)
      BY <3>1, RowFields DEF Inv, Types
    <3>3. \A s \in item[j].sites : site'[s] = site[s]
      BY <1>3, <3>1, <3>2 DEF RowOK
    <3>4. \A e \in Map!Sides : item[j].uses[e] # None => antenna'[item[j].uses[e]] = antenna[item[j].uses[e]]
      BY <1>3, <3>1, <3>2 DEF RowOK, Belongs
    <3> QED BY <3>1, <3>3, <3>4
  <2> QED BY <2>1
<1>6. ASSUME NEW j \in Map!Items
      PROVE  /\ RowOK(j, item'[j], site', antenna')
             /\ ResultOK(item[j], site, antenna) => ResultOK(item'[j], site', antenna')
  <2>1. CASE item'[j] = None
    BY <2>1 DEF RowOK, ResultOK
  <2>2. CASE item'[j] # None
    <3>1. RowOK(j, item[j], site, antenna)
      BY DEF Inv
    <3> QED BY <1>5, <2>2, <3>1, SameRow
  <2> QED BY <2>1, <2>2
<1>7. ASSUME NEW c \in CoverageIds PROVE WorkOK(work'[c], item'[c], site', antenna')
  <2>1. c \in Map!Items /\ WorkOK(work[c], item[c], site, antenna)
    BY DEF Inv, Map!Items
  <2>2. CASE work'[c] = None
    BY <2>2 DEF WorkOK
  <2>3. CASE work'[c] # None
    <3>1. work'[c] = work[c] /\ c \notin gone
      BY <1>1, <2>3
    <3>2. item[c] # None /\ item[c].owner # o /\ item'[c] = item[c]
      BY <1>1, <2>1, <2>3, <3>1 DEF WorkOK
    <3>3. work[c].uses # None => work[c].uses \in AntennaIds /\ Belongs(antenna, work[c].uses, item[c].owner)
      BY <2>1, <2>3, <3>1 DEF WorkOK, Inv, Types, Map!Work
    <3>4. work[c].uses # None => antenna'[work[c].uses] = antenna[work[c].uses]
      BY <1>3, <3>2, <3>3 DEF Belongs
    <3>5. \A s \in item[c].sites : site'[s] = site[s]
      BY <1>5, <2>1, <3>2
    <3> QED BY <2>1, <3>1, <3>2, <3>4, <3>5, SameWork
  <2> QED BY <2>2, <2>3
<1> QED BY <1>2, <1>4, <1>6, <1>7 DEF Inv, Map!Items

-------------------------------------------------------------------------------
(***************************************************************************)
(* The computation of a coverage.                                          *)
(***************************************************************************)
LEMMA WorkStep ==
  ASSUME Inv, NEW c \in CoverageIds, NEW w \in Map!Work \cup {None}, work' = [work EXCEPT ![c] = w],
         WorkOK(w, item[c], site, antenna), UNCHANGED <<site, antenna, item, edit, scene>>
  PROVE  Inv'
BY DEF Inv, Types

LEMMA WorkFields ==
  ASSUME NEW w \in Map!Work
  PROVE  /\ w.place \in Places /\ w.gain \in Designs /\ w.uses \in AntennaIds \cup {None}
         /\ w.pattern \in Designs \cup {None} /\ w.ready \in BOOLEAN /\ w.touched \in BOOLEAN
BY DEF Map!Work

LEMMA LoadCoverageStep ==
  ASSUME Map!Given, Inv, NEW c \in CoverageIds, Map!LoadCoverage(c)
  PROVE  Inv'
<1>1. PICK i \in item[c].sites :
        work' = [work EXCEPT ![c] = [place |-> site[i].place, gain |-> item[c].gain["tx"], uses |-> item[c].uses["tx"],
                                     pattern |-> None, ready |-> FALSE, touched |-> FALSE]]
  BY DEF Map!LoadCoverage
<1> DEFINE w == [place |-> site[i].place, gain |-> item[c].gain["tx"], uses |-> item[c].uses["tx"],
                 pattern |-> None, ready |-> FALSE, touched |-> FALSE]
<1>2. c \in Map!Items /\ item[c] # None /\ RowOK(c, item[c], site, antenna) /\ item[c] \in Map!Item
  BY DEF Map!LoadCoverage, Inv, Map!Items, Types
<1>3. /\ i \in SiteIds /\ site[i] \in Map!Site
      /\ item[c].gain["tx"] \in Designs /\ item[c].uses["tx"] \in AntennaIds \cup {None}
  BY <1>2, RowFields, Sided DEF RowOK, Inv, Types
<1>4. w \in Map!Work
  BY <1>3 DEF Map!Work, Map!Site
<1>5. /\ w.uses # None => Belongs(antenna, w.uses, item[c].owner)
      /\ \A s \in item[c].sites : w.place = site[s].place
  BY <1>2, <1>3, Sided DEF RowOK, Single
<1>6. WorkOK(w, item[c], site, antenna)
  BY <1>2, <1>5 DEF WorkOK
<1> HIDE DEF w
<1>7. work' = [work EXCEPT ![c] = w] /\ UNCHANGED <<site, antenna, item, edit, scene>>
  BY <1>1 DEF Map!LoadCoverage, w
<1> QED BY <1>4, <1>6, <1>7, WorkStep

LEMMA LoadPatternStep ==
  ASSUME Map!Given, Inv, NEW c \in CoverageIds, Map!LoadPattern(c)
  PROVE  Inv'
<1> DEFINE p == IF work[c].uses = None THEN None ELSE antenna[work[c].uses].design
           w == [work[c] EXCEPT !.ready = TRUE, !.pattern = p]
<1>1. /\ work[c] # None /\ work' = [work EXCEPT ![c] = w] /\ UNCHANGED <<site, antenna, item, edit, scene>>
  BY DEF Map!LoadPattern
<1>2. work[c] \in Map!Work /\ WorkOK(work[c], item[c], site, antenna)
  BY <1>1 DEF Inv, Types
<1>3. p \in Designs \cup {None} /\ p = PatternOf(antenna, work[c].uses)
  BY <1>1, <1>2 DEF WorkOK, Belongs, PatternOf, Map!Work, Inv, Types, Map!Antenna
<1> HIDE DEF p
<1>4. /\ w \in Map!Work /\ w.place = work[c].place /\ w.gain = work[c].gain /\ w.uses = work[c].uses
      /\ w.touched = work[c].touched /\ w.pattern = p
  BY <1>2, <1>3 DEF Map!Work
<1> HIDE DEF w
<1>5. WorkOK(w, item[c], site, antenna)
  BY <1>1, <1>2, <1>3, <1>4 DEF WorkOK
<1> QED BY <1>1, <1>4, <1>5, WorkStep

LEMMA PatternErrorStep ==
  ASSUME Map!Given, Inv, NEW c \in CoverageIds, Map!PatternError(c)
  PROVE  Inv'
<1> DEFINE w == [work[c] EXCEPT !.ready = TRUE, !.touched = TRUE]
<1>1. /\ work[c] # None /\ work' = [work EXCEPT ![c] = w] /\ UNCHANGED <<site, antenna, item, edit, scene>>
  BY DEF Map!PatternError
<1>2. work[c] \in Map!Work /\ WorkOK(work[c], item[c], site, antenna)
  BY <1>1 DEF Inv, Types
<1>3. w \in Map!Work /\ w.uses = work[c].uses /\ w.touched
  BY <1>2 DEF Map!Work
<1> HIDE DEF w
<1>4. WorkOK(w, item[c], site, antenna)
  BY <1>1, <1>2, <1>3 DEF WorkOK
<1> QED BY <1>1, <1>3, <1>4, WorkStep

LEMMA FinishCoverageStep ==
  ASSUME Map!Given, Inv, NEW c \in CoverageIds, Map!FinishCoverage(c)
  PROVE  Inv'
<1> DEFINE res == [place |-> work[c].place, gain |-> work[c].gain,
                   pattern |-> work[c].pattern, touched |-> work[c].touched]
           n == [item[c] EXCEPT !.result = res]
<1>1. /\ work[c] # None /\ work[c].ready
      /\ item' = [item EXCEPT ![c] = n] /\ work' = [work EXCEPT ![c] = None]
      /\ UNCHANGED <<site, antenna, edit, scene>>
  BY DEF Map!FinishCoverage
<1>2. /\ work[c] \in Map!Work /\ WorkOK(work[c], item[c], site, antenna) /\ c \in Map!Items
      /\ RowOK(c, item[c], site, antenna)
  BY <1>1 DEF Inv, Types, Map!Items
<1>3. item[c] # None /\ item[c] \in Map!Item
  BY <1>1, <1>2 DEF WorkOK, Inv, Types
<1>4. res \in Map!Result /\ res # None
  BY <1>2, WorkFields DEF Map!Result, Map!Given
<1>5. /\ res.place = work[c].place /\ res.gain = work[c].gain /\ res.pattern = work[c].pattern
      /\ res.touched = work[c].touched
  OBVIOUS
<1> HIDE DEF res
<1>6. /\ n \in Map!Item /\ n # None /\ n.owner = item[c].owner /\ n.sites = item[c].sites /\ n.uses = item[c].uses
      /\ n.gain = item[c].gain /\ n.raced = item[c].raced /\ n.result = res
  BY <1>3, <1>4 DEF Map!Item, Map!Given
<1> HIDE DEF n
<1>7. RowOK(c, n, site, antenna)
  BY <1>2, <1>3, <1>6 DEF RowOK
<1>8. ResultOK(n, site, antenna)
  BY <1>1, <1>2, <1>5, <1>6 DEF WorkOK, ResultOK
<1>9. Types'
  BY <1>1, <1>6 DEF Inv, Types
<1>10. \A j \in Map!Items : item'[j] = IF j = c THEN n ELSE item[j]
  BY <1>1 DEF Inv, Types
<1>11. \A b \in CoverageIds : work'[b] = IF b = c THEN None ELSE work[b]
  BY <1>1 DEF Inv, Types
<1>12. \A q \in Edits : RequestOK(edit'[q], antenna')
  BY <1>1 DEF Inv
<1>13. \A j \in Map!Items : RowOK(j, item'[j], site', antenna')
  BY <1>1, <1>7, <1>10 DEF Inv
<1>14. \A b \in CoverageIds : ResultOK(item'[b], site', antenna')
  BY <1>1, <1>8, <1>10 DEF Inv, Map!Items
<1>15. \A b \in CoverageIds : WorkOK(work'[b], item'[b], site', antenna')
  <2>1. WorkOK(None, n, site, antenna)
    BY DEF WorkOK
  <2> QED BY <1>1, <1>10, <1>11, <2>1 DEF Inv, Map!Items
<1> QED BY <1>9, <1>12, <1>13, <1>14, <1>15 DEF Inv

LEMMA AbandonCoverageStep ==
  ASSUME Inv, NEW c \in CoverageIds, Map!AbandonCoverage(c)
  PROVE  Inv'
<1>1. WorkOK(None, item[c], site, antenna)
  BY DEF WorkOK
<1> QED BY <1>1, WorkStep DEF Map!AbandonCoverage

-------------------------------------------------------------------------------
(***************************************************************************)
(* The invariant.                                                          *)
(***************************************************************************)
LEMMA Start == ASSUME Map!Given, Map!Init PROVE Inv
<1>1. Types
  BY IdleOK DEF Map!Init, Types
<1>2. \A r \in Edits : RequestOK(edit[r], antenna)
  BY IdleOK DEF Map!Init
<1> QED BY <1>1, <1>2 DEF Map!Init, Inv, Map!Items, RowOK, ResultOK, WorkOK

LEMMA HandlerStep ==
  ASSUME Map!Given, Inv, NEW r \in Edits, Map!Handler(r)
  PROVE  Inv'
<1>1. /\ scene.owners \subseteq Owners /\ scene.sites \subseteq SiteIds /\ scene.items \subseteq Map!Items
      /\ scene.antennas \subseteq AntennaIds /\ scene.places \subseteq Places /\ scene.designs \subseteq Designs
  BY SceneFields DEF Inv
<1>2. CASE \E o \in scene.owners : Map!CountSites(r, o)
  BY <1>1, <1>2, CountSitesStep
<1>3. CASE \E o \in scene.owners, a \in scene.antennas : Map!MayEdit(r, o, a)
  BY <1>1, <1>3, MayEditStep
<1>4. CASE \E o \in scene.owners, i \in scene.items, s \in SUBSET scene.sites, u \in [Map!Sides -> scene.antennas \cup {None}],
              d \in scene.designs : Map!BeginWrite(r, o, i, s, u, d)
  BY <1>1, <1>4, BeginWriteStep
<1>5. CASE \E i \in scene.sites, p \in scene.places : Map!CreateSite(r, i, p)
  BY <1>1, <1>5, CreateSiteStep
<1>6. CASE \E d \in scene.designs : Map!UpdateAntenna(r, d)
  BY <1>1, <1>6, UpdateAntennaStep
<1>7. CASE \E e \in Map!Sides : Map!AntennaGain(r, e)
  BY <1>7, AntennaGainStep
<1>8. CASE Map!CountCoverages(r) \/ Map!CreateItem(r) \/ Map!UpdateItem(r) \/ Map!Fail(r)
  BY <1>8, CountCoveragesStep, CreateItemStep, UpdateItemStep, FailStep
<1> QED BY <1>2, <1>3, <1>4, <1>5, <1>6, <1>7, <1>8 DEF Map!Handler

LEMMA StatementStep ==
  ASSUME Map!Given, Inv, Map!Statement
  PROVE  Inv'
<1>1. /\ scene.owners \subseteq Owners /\ scene.sites \subseteq SiteIds /\ scene.items \subseteq Map!Items
      /\ scene.antennas \subseteq AntennaIds /\ scene.places \subseteq Places /\ scene.designs \subseteq Designs
  BY SceneFields DEF Inv
<1>2. CASE \E i \in scene.sites : Map!DeleteSite(i)
  BY <1>1, <1>2, DeleteSiteStep
<1>3. CASE \E i \in scene.sites, p \in scene.places : Map!UpdateSite(i, p)
  BY <1>1, <1>3, UpdateSiteStep
<1>4. CASE \E o \in scene.owners, a \in scene.antennas, d \in scene.designs, manual \in BOOLEAN :
             Map!CreateAntenna(o, a, d, manual)
  BY <1>1, <1>4, CreateAntennaStep
<1>5. CASE \E a \in scene.antennas : Map!DeleteAntenna(a)
  BY <1>1, <1>5, DeleteAntennaStep
<1>6. CASE \E i \in scene.items : Map!DeleteItem(i)
  BY <1>1, <1>6, DeleteItemStep
<1>7. CASE \E o \in scene.owners : Map!DeleteOwner(o)
  BY <1>1, <1>7, DeleteOwnerStep
<1> QED BY <1>2, <1>3, <1>4, <1>5, <1>6, <1>7 DEF Map!Statement

LEMMA Step == ASSUME Map!Given, Inv, Map!Next \/ UNCHANGED catalog PROVE Inv'
<1>1. CASE \E r \in scene.requests : Map!Handler(r)
  BY <1>1, HandlerStep, SceneFields DEF Inv
<1>2. CASE Map!Statement
  BY <1>2, StatementStep
<1>3. CASE \E c \in scene.computed : Map!Worker(c)
  <2>1. PICK c \in CoverageIds : Map!Worker(c)
    BY <1>3, SceneFields DEF Inv
  <2> QED BY <2>1, LoadCoverageStep, LoadPatternStep, PatternErrorStep, FinishCoverageStep, AbandonCoverageStep DEF Map!Worker
<1>4. CASE UNCHANGED catalog
  BY <1>4 DEF catalog, Inv, Types
<1> QED BY <1>1, <1>2, <1>3, <1>4 DEF Map!Next

\* The catalog takes a step of its own, or stays.
LEMMA FocusedCatalog ==
  ASSUME [TablesNext]_<<vars, catalog, focus>>
  PROVE  focus' = focus /\ (focus = "catalog" => Map!Next \/ UNCHANGED catalog)
BY DEF TablesNext

LEMMA Invariance == TablesSpec => [](focus = "catalog" => Inv)
<1>1. TablesInit => (focus = "catalog" => Inv)
  BY Start, TablesGiven DEF TablesInit
<1>2. (focus = "catalog" => Inv) /\ [TablesNext]_<<vars, catalog, focus>> => (focus = "catalog" => Inv)'
  BY FocusedCatalog, Step, TablesGiven
<1> QED BY <1>1, <1>2, PTL DEF TablesSpec

\* Links and coverages refer to sites and antennas that exist and are of their owner: the statements check it again.
THEOREM RefsAlwaysStay == TablesSpec => []RefsStay
<1>1. Inv => Map!RefsStay
  BY Sided, RowFields DEF Inv, Types, Map!RefsStay, RowOK, Belongs, Map!SitesOf, Map!AntennasOf
<1>2. (focus = "catalog" => Inv) => RefsStay
  BY <1>1 DEF RefsStay
<1> QED BY <1>2, Invariance, PTL

\* "Links and coverages using the antenna take over the new gain": a gain that is not that of the antenna was read
\* before the antenna was edited, or in spite of an error.
THEOREM GainsFollow == TablesSpec => []GainCopied
<1>1. Inv => Map!GainCopied
  BY Sided DEF Inv, Map!GainCopied, RowOK
<1>2. (focus = "catalog" => Inv) => GainCopied
  BY <1>1 DEF GainCopied
<1> QED BY <1>2, Invariance, PTL

\* A result that nothing has touched is that of the row, the site and the antenna as they are.
THEOREM ResultsAreOfNow == TablesSpec => []ResultOfNow
<1>1. Inv => Map!ResultOfNow
  BY DEF Inv, Map!ResultOfNow, ResultOK, PatternOf
<1>2. (focus = "catalog" => Inv) => ResultOfNow
  BY <1>1 DEF ResultOfNow
<1> QED BY <1>2, Invariance, PTL

-------------------------------------------------------------------------------
(***************************************************************************)
(* The limits.  The rows of a user and the requests that have counted them *)
(* and not yet inserted are together at most the limit and every request   *)
(* but one: a request that counts finds one row less than the limit, and   *)
(* at most every request is then on its way.                               *)
(***************************************************************************)
SitesWaiting(o) == {r \in scene.requests : edit[r].pc = "site" /\ edit[r].owner = o}
CoveragesWaiting(o) ==
    {r \in scene.requests : /\ edit[r].pc = "write" /\ edit[r].owner = o
                            /\ edit[r].new /\ edit[r].item \in CoverageIds}

Room(rows, waiting, all, max) ==
    /\ IsFiniteSet(rows) /\ IsFiniteSet(all) /\ waiting \subseteq all
    /\ Cardinality(rows) + Cardinality(waiting) <= max + Cardinality(all) - 1

SiteRooms == \A o \in Owners : Room(Map!SitesOf(o), SitesWaiting(o), scene.requests, MaxSites)
CoverageRooms == \A o \in Owners : Room(Map!CoveragesOf(o), CoveragesWaiting(o), scene.requests, MaxCoverages)

LEMMA RoomCounts ==
  ASSUME NEW rows, NEW waiting, NEW all, IsFiniteSet(rows), IsFiniteSet(all), waiting \subseteq all
  PROVE  /\ Cardinality(rows) \in Nat /\ Cardinality(waiting) \in Nat /\ Cardinality(all) \in Nat
         /\ IsFiniteSet(waiting) /\ Cardinality(waiting) <= Cardinality(all)
BY FS_Subset, FS_CardinalityType

LEMMA RoomHolds ==
  ASSUME NEW rows, NEW waiting, NEW all, NEW max \in Nat, Room(rows, waiting, all, max)
  PROVE  Cardinality(rows) <= max + Cardinality(all) - 1
<1>1. /\ Cardinality(rows) \in Nat /\ Cardinality(waiting) \in Nat /\ Cardinality(all) \in Nat
  BY RoomCounts DEF Room
<1> QED BY <1>1 DEF Room

\* Rows go, requests give up.
LEMMA RoomLess ==
  ASSUME NEW rows, NEW waiting, NEW all, NEW max \in Nat, Room(rows, waiting, all, max),
         NEW fewer, fewer \subseteq rows, NEW less, less \subseteq waiting
  PROVE  Room(fewer, less, all, max)
<1>1. /\ Cardinality(rows) \in Nat /\ Cardinality(waiting) \in Nat /\ Cardinality(all) \in Nat
      /\ IsFiniteSet(waiting) /\ IsFiniteSet(rows) /\ IsFiniteSet(all)
  BY RoomCounts DEF Room
<1>2. IsFiniteSet(fewer) /\ Cardinality(fewer) \in Nat /\ Cardinality(fewer) <= Cardinality(rows)
  BY <1>1, FS_Subset, FS_CardinalityType
<1>3. IsFiniteSet(less) /\ Cardinality(less) \in Nat /\ Cardinality(less) <= Cardinality(waiting)
  BY <1>1, FS_Subset, FS_CardinalityType
<1> QED BY <1>1, <1>2, <1>3 DEF Room

\* A request finds room.
LEMMA RoomEnters ==
  ASSUME NEW rows, NEW all, NEW max \in Nat, IsFiniteSet(rows), IsFiniteSet(all), Cardinality(rows) < max,
         NEW waiting, waiting \subseteq all
  PROVE  Room(rows, waiting, all, max)
BY RoomCounts DEF Room

\* A request inserts its row.
LEMMA RoomInserts ==
  ASSUME NEW rows, NEW waiting, NEW all, NEW max \in Nat, Room(rows, waiting, all, max),
         NEW i, NEW r \in waiting
  PROVE  Room(rows \cup {i}, waiting \ {r}, all, max)
<1>1. /\ Cardinality(rows) \in Nat /\ Cardinality(waiting) \in Nat /\ Cardinality(all) \in Nat
      /\ IsFiniteSet(waiting) /\ IsFiniteSet(rows) /\ IsFiniteSet(all)
  BY RoomCounts DEF Room
<1>2. IsFiniteSet(rows \cup {i}) /\ Cardinality(rows \cup {i}) \in Nat /\ Cardinality(rows \cup {i}) <= Cardinality(rows) + 1
  <2>1. IsFiniteSet(rows \cup {i})
        /\ (Cardinality(rows \cup {i}) = Cardinality(rows) \/ Cardinality(rows \cup {i}) = Cardinality(rows) + 1)
    BY <1>1, FS_AddElement
  <2> QED BY <1>1, <2>1
<1>3. IsFiniteSet(waiting \ {r}) /\ Cardinality(waiting \ {r}) = Cardinality(waiting) - 1
  BY <1>1, FS_RemoveElement
<1> QED BY <1>1, <1>2, <1>3 DEF Room

LEMMA Maxima == ASSUME Map!Given PROVE MaxSites \in Nat \ {0} /\ MaxCoverages \in Nat \ {0}
BY DEF Map!Given

LEMMA FewRequests == ASSUME Map!Given, Types PROVE IsFiniteSet(scene.requests) /\ scene.requests \subseteq Edits
BY SameFinite DEF Map!Given, Types

LEMMA RowsFinite ==
  ASSUME Map!Given
  PROVE  \A o : IsFiniteSet(Map!SitesOf(o)) /\ IsFiniteSet(Map!CoveragesOf(o))
<1>1. IsFiniteSet(SiteIds) /\ IsFiniteSet(CoverageIds)
  BY SameFinite DEF Map!Given
<1>2. \A o : Map!SitesOf(o) \subseteq SiteIds /\ Map!CoveragesOf(o) \subseteq CoverageIds
  BY DEF Map!SitesOf, Map!CoveragesOf
<1> QED BY <1>1, <1>2, FS_Subset

LEMMA RoomsStart == ASSUME Map!Given, Map!Init PROVE SiteRooms /\ CoverageRooms
<1>1. Types
  BY Start DEF Inv
<1>2. \A o \in Owners : Map!SitesOf(o) = {} /\ SitesWaiting(o) = {} /\ Map!CoveragesOf(o) = {} /\ CoveragesWaiting(o) = {}
  BY <1>1, FewRequests DEF Map!Init, Map!SitesOf, Map!CoveragesOf, SitesWaiting, CoveragesWaiting, Map!Idle, Map!Items
<1>3. IsFiniteSet({}) /\ Cardinality({}) = 0
  BY FS_EmptySet
<1>4. Room({}, {}, scene.requests, MaxSites) /\ Room({}, {}, scene.requests, MaxCoverages)
  BY <1>1, <1>3, Maxima, FewRequests, RoomEnters
<1> QED BY <1>2, <1>4 DEF SiteRooms, CoverageRooms

(***************************************************************************)
(* Steps that neither insert nor find room.                                *)
(***************************************************************************)
SitesQuiet ==
    /\ \A i \in SiteIds : site'[i] # None => site[i] # None /\ site'[i].owner = site[i].owner
    /\ \A r \in Edits : edit'[r].pc = "site" => edit[r].pc = "site" /\ edit'[r].owner = edit[r].owner

CoveragesQuiet ==
    /\ \A c \in CoverageIds : item'[c] # None => item[c] # None /\ item'[c].owner = item[c].owner
    /\ \A r \in Edits : edit'[r].pc = "write" =>
         /\ edit[r].pc = "write" /\ edit'[r].owner = edit[r].owner
         /\ edit'[r].new = edit[r].new /\ edit'[r].item = edit[r].item

LEMMA QuietSites == ASSUME Map!Given, Types, SiteRooms, SitesQuiet, scene' = scene PROVE SiteRooms'
<1>1. scene.requests \subseteq Edits /\ MaxSites \in Nat
  BY FewRequests, Maxima
<1>2. ASSUME NEW o \in Owners PROVE Map!SitesOf(o)' \subseteq Map!SitesOf(o) /\ SitesWaiting(o)' \subseteq SitesWaiting(o)
  BY <1>1 DEF SitesQuiet, Map!SitesOf, SitesWaiting
<1> QED BY <1>1, <1>2, RoomLess DEF SiteRooms

LEMMA QuietCoverages == ASSUME Map!Given, Types, CoverageRooms, CoveragesQuiet, scene' = scene PROVE CoverageRooms'
<1>1. scene.requests \subseteq Edits /\ MaxCoverages \in Nat
  BY FewRequests, Maxima
<1>2. ASSUME NEW o \in Owners
      PROVE  Map!CoveragesOf(o)' \subseteq Map!CoveragesOf(o) /\ CoveragesWaiting(o)' \subseteq CoveragesWaiting(o)
  BY <1>1 DEF CoveragesQuiet, Map!CoveragesOf, CoveragesWaiting
<1> QED BY <1>1, <1>2, RoomLess DEF CoverageRooms

\* One request goes on to where it neither inserts nor is about to.
LEMMA QuietEdit ==
  ASSUME Types, NEW r \in Edits, NEW n, edit' = [edit EXCEPT ![r] = n]
  PROVE  /\ n.pc # "site" => \A q \in Edits : edit'[q].pc = "site" => edit[q].pc = "site" /\ edit'[q].owner = edit[q].owner
         /\ n.pc # "write" => \A q \in Edits : edit'[q].pc = "write" =>
              /\ edit[q].pc = "write" /\ edit'[q].owner = edit[q].owner
              /\ edit'[q].new = edit[q].new /\ edit'[q].item = edit[q].item
BY DEF Types

\* Rows that are touched, copied to or cleared keep their owner.
LEMMA TouchedOwner ==
  ASSUME NEW row \in Map!Item \cup {None}, None \notin Map!Item
  PROVE  Map!Touch(row) # None => row # None /\ Map!Touch(row).owner = row.owner
BY Touched

LEMMA CopiedOwner ==
  ASSUME Map!Given, NEW row \in Map!Item \cup {None}, NEW a, NEW d \in Designs
  PROVE  LET n == Map!Touch(Map!Copied(row, a, d)) IN n # None => row # None /\ n.owner = row.owner
<1>1. None \notin Map!Item
  BY DEF Map!Given
<1>2. CASE row = None
  BY <1>1, <1>2, TouchedOwner DEF Map!Copied
<1>3. CASE row \in Map!Item
  <2>1. PICK n : n = Map!Copied(row, a, d)
    OBVIOUS
  <2>2. n \in Map!Item /\ n.owner = row.owner
    BY <1>1, <1>3, <2>1, CopiedRow
  <2> QED BY <1>1, <1>3, <2>1, <2>2, TouchedOwner
<1> QED BY <1>2, <1>3

LEMMA UnusedOwner ==
  ASSUME Map!Given, NEW row \in Map!Item \cup {None}, NEW a
  PROVE  LET n == Map!Touch(Map!Unused(row, a)) IN n # None => row # None /\ n.owner = row.owner
<1>1. None \notin Map!Item
  BY DEF Map!Given
<1>2. CASE row = None
  BY <1>1, <1>2, TouchedOwner DEF Map!Unused
<1>3. CASE row \in Map!Item
  <2>1. PICK n : n = Map!Unused(row, a)
    OBVIOUS
  <2>2. n \in Map!Item /\ n.owner = row.owner
    BY <1>1, <1>3, <2>1, UnusedRow
  <2> QED BY <1>1, <1>3, <2>1, <2>2, TouchedOwner
<1> QED BY <1>2, <1>3

LEMMA QuietRequest ==
  ASSUME Map!Given, Inv, NEW r \in Edits,
         \/ \E o \in Owners, a \in AntennaIds : Map!MayEdit(r, o, a)
         \/ \E o \in Owners, i \in Map!Items : \E s, u, d : Map!BeginWrite(r, o, i, s, u, d)
         \/ \E e \in Map!Sides : Map!AntennaGain(r, e)
         \/ Map!Fail(r)
  PROVE  SitesQuiet /\ CoveragesQuiet /\ scene' = scene
<1>1. Types
  BY DEF Inv
<1>2. ASSUME NEW n, n.pc \notin {"site", "write"}, edit' = [edit EXCEPT ![r] = n], UNCHANGED <<site, item, scene>>
      PROVE  SitesQuiet /\ CoveragesQuiet /\ scene' = scene
  BY <1>1, <1>2, QuietEdit DEF SitesQuiet, CoveragesQuiet
<1>3. CASE \E o \in Owners, a \in AntennaIds : Map!MayEdit(r, o, a)
  BY <1>2, <1>3 DEF Map!MayEdit
<1>4. CASE \E o \in Owners, i \in Map!Items : \E s, u, d : Map!BeginWrite(r, o, i, s, u, d)
  BY <1>2, <1>4 DEF Map!BeginWrite
<1>5. CASE \E e \in Map!Sides : Map!AntennaGain(r, e)
  <2>1. PICK e \in Map!Sides : Map!AntennaGain(r, e)
    BY <1>5
  <2>2. edit[r].pc = "gain" /\ edit[r] \in Writing /\ UNCHANGED <<site, item, scene>>
    BY <1>1, <2>1, ByPc DEF Map!AntennaGain, Types
  <2>3. PICK d, missed : Map!Read(r, e, d, missed)
    BY <2>1 DEF Map!AntennaGain
  <2>4. PICK n : n = [edit[r] EXCEPT !.gain[e] = d, !.read = edit[r].read \cup {e}, !.raced = edit[r].raced \/ missed]
    OBVIOUS
  <2>5. edit' = [edit EXCEPT ![r] = n]
    BY <1>1, <2>2, <2>3, <2>4 DEF Map!Read, Types
  <2>6. n.pc = "gain"
    BY <2>2, <2>4 DEF Writing
  <2> QED BY <1>2, <2>2, <2>5, <2>6
<1>6. CASE Map!Fail(r)
  BY <1>2, <1>6 DEF Map!Fail, Map!Done, Map!Idle
<1> QED BY <1>3, <1>4, <1>5, <1>6

LEMMA QuietUpdateItem ==
  ASSUME Map!Given, Inv, NEW r \in Edits, Map!UpdateItem(r)
  PROVE  SitesQuiet /\ CoveragesQuiet /\ scene' = scene
<1>1. /\ edit[r].pc = "write" /\ edit' = [edit EXCEPT ![r] = Map!Idle] /\ UNCHANGED <<site, scene>> /\ Types
  BY DEF Map!UpdateItem, Map!Done, Inv
<1>2. SitesQuiet
  BY <1>1, QuietEdit DEF SitesQuiet, Map!Idle
<1>3. \A c \in CoverageIds : item'[c] # None => item[c] # None /\ item'[c].owner = item[c].owner
  <2>1. PICK j, row : j = edit[r].item /\ row = Map!Row(r)
    OBVIOUS
  <2>2. CASE item[j] # None /\ item[j].owner = edit[r].owner /\ Map!RefsOwned(r)
    <3>1. item' = [item EXCEPT ![j] = row]
      BY <2>1, <2>2 DEF Map!UpdateItem
    <3>2. row.owner = edit[r].owner
      BY <1>1, <2>1, <2>2, NewRow
    <3> QED BY <1>1, <2>2, <3>1, <3>2 DEF Types
  <2>3. CASE ~(item[j] # None /\ item[j].owner = edit[r].owner /\ Map!RefsOwned(r))
    <3>1. item' = item
      BY <2>1, <2>3 DEF Map!UpdateItem
    <3> QED BY <3>1
  <2> QED BY <2>2, <2>3
<1> QED BY <1>1, <1>2, <1>3, QuietEdit DEF CoveragesQuiet, Map!Idle

LEMMA QuietUpdateAntenna ==
  ASSUME Map!Given, Inv, NEW r \in Edits, NEW d \in Designs, Map!UpdateAntenna(r, d)
  PROVE  SitesQuiet /\ CoveragesQuiet /\ scene' = scene
<1>1. PICK a : a = edit[r].antenna
  OBVIOUS
<1>2. /\ item' = [i \in Map!Items |-> IF i \in Map!UsersOf(a) THEN Map!Touch(Map!Copied(item[i], a, d)) ELSE item[i]]
      /\ edit' = [Map!Stale(edit, a) EXCEPT ![r] = Map!Idle] /\ UNCHANGED <<site, scene>> /\ Types
  BY <1>1 DEF Map!UpdateAntenna, Inv
<1>3. ASSUME NEW c \in CoverageIds, item'[c] # None PROVE item[c] # None /\ item'[c].owner = item[c].owner
  <2>1. c \in Map!Items /\ item[c] \in Map!Item \cup {None}
    BY <1>2 DEF Map!Items, Types
  <2>2. item'[c] = item[c] \/ item'[c] = Map!Touch(Map!Copied(item[c], a, d))
    BY <1>2, <2>1
  <2> QED BY <1>3, <2>1, <2>2, CopiedOwner
<1>4. ASSUME NEW q \in Edits
      PROVE  edit'[q] = Map!Idle \/ edit'[q] = edit[q] \/ edit'[q] = [edit[q] EXCEPT !.raced = TRUE]
  BY <1>2 DEF Map!Stale
<1>5. ASSUME NEW q \in Edits, edit[q].pc \in {"site", "write"}, edit'[q] # Map!Idle
      PROVE  /\ edit'[q].pc = edit[q].pc /\ edit'[q].owner = edit[q].owner
             /\ edit[q].pc = "write" => edit'[q].new = edit[q].new /\ edit'[q].item = edit[q].item
  <2>1. edit[q] \in Counting \cup Writing
    BY <1>2, <1>5, ByPc DEF Types
  <2>2. PICK w : w = edit[q]
    OBVIOUS
  <2>3. w \in Writing => LET n == [w EXCEPT !.raced = TRUE]
                         IN n.pc = w.pc /\ n.owner = w.owner /\ n.new = w.new /\ n.item = w.item
    BY DEF Writing
  <2>4. w \in Counting => edit'[q] = edit[q]
    <3>1. w \in Counting => w.pc = "site"
      BY DEF Counting
    <3> QED BY <1>2, <1>5, <2>2, <3>1 DEF Map!Stale
  <2> QED BY <1>4, <1>5, <2>1, <2>2, <2>3, <2>4
<1>6. ASSUME NEW q \in Edits, edit'[q].pc \in {"site", "write"} PROVE edit[q].pc = edit'[q].pc
  <2>1. edit'[q] # Map!Idle
    BY <1>6 DEF Map!Idle
  <2>2. CASE edit[q] \in Writing
    <3>1. edit[q].pc \in {"gain", "write"}
      BY <2>2, WriterFields
    <3>2. PICK w : w = edit[q]
      OBVIOUS
    <3>3. [w EXCEPT !.raced = TRUE].pc = w.pc
      BY <2>2, <3>2 DEF Writing
    <3> QED BY <1>4, <2>1, <3>2, <3>3
  <2>3. CASE edit[q] \notin Writing
    <3>1. edit[q].pc \notin {"gain", "count", "write"}
      BY <1>2, <2>3, ByPc DEF Types
    <3>2. edit'[q] = edit[q]
      BY <1>2, <2>1, <3>1 DEF Map!Stale
    <3> QED BY <3>2
  <2> QED BY <2>2, <2>3
<1>7. ASSUME NEW q \in Edits, edit'[q].pc \in {"site", "write"}
      PROVE  /\ edit[q].pc = edit'[q].pc /\ edit'[q].owner = edit[q].owner
             /\ edit[q].pc = "write" => edit'[q].new = edit[q].new /\ edit'[q].item = edit[q].item
  <2>1. edit'[q] # Map!Idle
    BY <1>7 DEF Map!Idle
  <2> QED BY <1>5, <1>6, <1>7, <2>1
<1>8. SitesQuiet
  BY <1>2, <1>7 DEF SitesQuiet
<1>9. CoveragesQuiet
  BY <1>3, <1>7 DEF CoveragesQuiet
<1> QED BY <1>2, <1>8, <1>9

LEMMA QuietDeletes ==
  ASSUME Map!Given, Inv,
         \/ \E a \in AntennaIds : Map!DeleteAntenna(a)
         \/ \E i \in Map!Items : Map!DeleteItem(i)
         \/ \E o \in Owners : Map!DeleteOwner(o)
  PROVE  SitesQuiet /\ CoveragesQuiet /\ scene' = scene
<1>1. Types
  BY DEF Inv
<1>2. CASE \E a \in AntennaIds : Map!DeleteAntenna(a)
  <2>1. PICK a \in AntennaIds : Map!DeleteAntenna(a)
    BY <1>2
  <2>2. /\ item' = [i \in Map!Items |-> IF i \in Map!UsersOf(a) THEN Map!Touch(Map!Unused(item[i], a)) ELSE item[i]]
        /\ edit' = Map!Forgotten(edit, a) /\ UNCHANGED <<site, scene>>
    BY <2>1 DEF Map!DeleteAntenna
  <2>3. ASSUME NEW c \in CoverageIds, item'[c] # None PROVE item[c] # None /\ item'[c].owner = item[c].owner
    <3>1. c \in Map!Items /\ item[c] \in Map!Item \cup {None}
      BY <1>1 DEF Map!Items, Types
    <3>2. item'[c] = item[c] \/ item'[c] = Map!Touch(Map!Unused(item[c], a))
      BY <2>2, <3>1
    <3> QED BY <2>3, <3>1, <3>2, UnusedOwner
  <2>4. \A q \in Edits : edit'[q] = Map!Idle \/ edit'[q] = edit[q]
    BY <2>2 DEF Map!Forgotten
  <2> QED BY <2>2, <2>3, <2>4 DEF SitesQuiet, CoveragesQuiet, Map!Idle
<1>3. CASE \E i \in Map!Items : Map!DeleteItem(i)
  BY <1>3 DEF Map!DeleteItem, Map!DropItems, Map!Items, SitesQuiet, CoveragesQuiet, Map!Idle
<1>4. CASE \E o \in Owners : Map!DeleteOwner(o)
  BY <1>4 DEF Map!DeleteOwner, Map!DropItems, Map!Items, SitesQuiet, CoveragesQuiet, Map!Idle
<1> QED BY <1>2, <1>3, <1>4

LEMMA QuietStatements ==
  ASSUME Map!Given, Inv,
         \/ \E i \in SiteIds : Map!DeleteSite(i) \/ \E p \in Places : Map!UpdateSite(i, p)
         \/ \E o \in Owners, a \in AntennaIds, d \in Designs, manual \in BOOLEAN : Map!CreateAntenna(o, a, d, manual)
         \/ \E c \in CoverageIds : Map!Worker(c)
  PROVE  SitesQuiet /\ CoveragesQuiet /\ scene' = scene
<1>1. Types
  BY DEF Inv
<1>2. CASE \E i \in SiteIds : Map!DeleteSite(i)
  BY <1>1, <1>2 DEF Map!DeleteSite, SitesQuiet, CoveragesQuiet, Types
<1>3. CASE \E i \in SiteIds, p \in Places : Map!UpdateSite(i, p)
  <2>1. PICK i \in SiteIds, p \in Places : Map!UpdateSite(i, p)
    BY <1>3
  <2>2. PICK on : item' = [j \in Map!Items |-> IF j \in on THEN Map!Touch(item[j]) ELSE item[j]]
    BY <2>1 DEF Map!UpdateSite
  <2>3. site[i] \in Map!Site
    BY <1>1, <2>1 DEF Map!UpdateSite, Types
  <2>4. PICK n : n = [site[i] EXCEPT !.place = p]
    OBVIOUS
  <2>5. site' = [site EXCEPT ![i] = n] /\ n.owner = site[i].owner /\ UNCHANGED <<edit, scene>> /\ site[i] # None
    BY <2>1, <2>3, <2>4 DEF Map!UpdateSite, Map!Site
  <2>6. ASSUME NEW c \in CoverageIds, item'[c] # None PROVE item[c] # None /\ item'[c].owner = item[c].owner
    <3>1. c \in Map!Items /\ item[c] \in Map!Item \cup {None} /\ None \notin Map!Item
      BY <1>1 DEF Map!Items, Types, Map!Given
    <3>2. item'[c] = item[c] \/ item'[c] = Map!Touch(item[c])
      BY <2>2, <3>1
    <3> QED BY <2>6, <3>1, <3>2, TouchedOwner
  <2> QED BY <1>1, <2>5, <2>6 DEF SitesQuiet, CoveragesQuiet, Types
<1>4. CASE \E o \in Owners, a \in AntennaIds, d \in Designs, manual \in BOOLEAN : Map!CreateAntenna(o, a, d, manual)
  BY <1>4 DEF Map!CreateAntenna, SitesQuiet, CoveragesQuiet
<1>5. CASE \E c \in CoverageIds : Map!FinishCoverage(c)
  <2>1. PICK c \in CoverageIds : Map!FinishCoverage(c)
    BY <1>5
  <2>2. PICK res : item' = [item EXCEPT ![c].result = res]
    BY <2>1 DEF Map!FinishCoverage
  <2>3. item[c] # None /\ item[c] \in Map!Item
    <3>1. WorkOK(work[c], item[c], site, antenna) /\ work[c] # None /\ c \in Map!Items
      BY <2>1 DEF Map!FinishCoverage, Inv, Map!Items
    <3> QED BY <1>1, <3>1 DEF WorkOK, Types
  <2>4. PICK n : n = [item[c] EXCEPT !.result = res]
    OBVIOUS
  <2>5. n.owner = item[c].owner /\ item' = [item EXCEPT ![c] = n]
    BY <2>2, <2>3, <2>4 DEF Map!Item
  <2>6. UNCHANGED <<site, edit, scene>>
    BY <2>1 DEF Map!FinishCoverage
  <2> QED BY <1>1, <2>3, <2>5, <2>6 DEF SitesQuiet, CoveragesQuiet, Types, Map!Items
<1>6. CASE \E c \in CoverageIds :
             Map!LoadCoverage(c) \/ Map!LoadPattern(c) \/ Map!PatternError(c) \/ Map!AbandonCoverage(c)
  BY <1>6 DEF Map!LoadCoverage, Map!LoadPattern, Map!PatternError, Map!AbandonCoverage, SitesQuiet, CoveragesQuiet
<1> QED BY <1>2, <1>3, <1>4, <1>5, <1>6 DEF Map!Worker

(***************************************************************************)
(* Requests that find room, and those that insert.                         *)
(***************************************************************************)
LEMMA CountSitesRoom ==
  ASSUME Map!Given, Inv, SiteRooms, CoverageRooms, NEW r \in Edits, r \in scene.requests, NEW o \in Owners, Map!CountSites(r, o)
  PROVE  SiteRooms' /\ CoverageRooms'
<1>1. PICK n : n = [pc |-> "site", owner |-> o]
  OBVIOUS
<1>2. /\ edit' = [edit EXCEPT ![r] = n] /\ n.pc = "site" /\ n.owner = o /\ UNCHANGED <<site, item, scene>> /\ Types
      /\ Cardinality(Map!SitesOf(o)) < MaxSites
  BY <1>1, SameCardinality DEF Map!CountSites, Inv
<1>3. CoverageRooms'
  BY <1>2, QuietEdit, QuietCoverages DEF CoveragesQuiet
<1>4. ASSUME NEW p \in Owners PROVE Room(Map!SitesOf(p), SitesWaiting(p)', scene.requests, MaxSites)
  <2>1. CASE p = o
    <3>1. SitesWaiting(p)' \subseteq scene.requests
      BY <1>2 DEF SitesWaiting
    <3> QED BY <1>2, <2>1, <3>1, RowsFinite, FewRequests, Maxima, RoomEnters
  <2>2. CASE p # o
    <3>1. SitesWaiting(p)' \subseteq SitesWaiting(p)
      BY <1>2, <2>2, FewRequests DEF SitesWaiting, Types
    <3> QED BY <3>1, RoomLess, Maxima DEF SiteRooms
  <2> QED BY <2>1, <2>2
<1>5. \A p \in Owners : Map!SitesOf(p)' = Map!SitesOf(p)
  BY <1>2 DEF Map!SitesOf
<1>6. SiteRooms'
  BY <1>2, <1>4, <1>5 DEF SiteRooms
<1> QED BY <1>3, <1>6

LEMMA CreateSiteRoom ==
  ASSUME Map!Given, Inv, SiteRooms, CoverageRooms, NEW r \in Edits, r \in scene.requests,
         NEW i \in SiteIds, NEW p \in Places, Map!CreateSite(r, i, p)
  PROVE  SiteRooms' /\ CoverageRooms'
<1>1. PICK n : n = [owner |-> edit[r].owner, place |-> p]
  OBVIOUS
<1>2. /\ edit' = [edit EXCEPT ![r] = Map!Idle] /\ edit[r].pc = "site" /\ UNCHANGED <<item, scene>> /\ Types
      /\ site' = [site EXCEPT ![i] = n] /\ n.owner = edit[r].owner
  BY <1>1 DEF Map!CreateSite, Map!Done, Inv
<1>3. CoverageRooms'
  BY <1>2, QuietEdit, QuietCoverages DEF CoveragesQuiet, Map!Idle
<1>4. ASSUME NEW o \in Owners PROVE Room(Map!SitesOf(o)', SitesWaiting(o)', scene.requests, MaxSites)
  <2>1. SitesWaiting(o)' \subseteq SitesWaiting(o) \ {r}
    BY <1>2, FewRequests DEF SitesWaiting, Types, Map!Idle
  <2>2. CASE o = edit[r].owner
    <3>1. r \in SitesWaiting(o)
      BY <1>2, <2>2 DEF SitesWaiting
    <3>2. Map!SitesOf(o)' \subseteq Map!SitesOf(o) \cup {i}
      BY <1>2 DEF Map!SitesOf, Types
    <3>3. Room(Map!SitesOf(o), SitesWaiting(o), scene.requests, MaxSites) /\ MaxSites \in Nat
      BY Maxima DEF SiteRooms
    <3>4. PICK rows, waiting, more, less : /\ rows = Map!SitesOf(o) /\ waiting = SitesWaiting(o)
                                          /\ more = Map!SitesOf(o)' /\ less = SitesWaiting(o)'
      OBVIOUS
    <3>5. /\ Room(rows, waiting, scene.requests, MaxSites) /\ r \in waiting
          /\ more \subseteq rows \cup {i} /\ less \subseteq waiting \ {r}
      BY <2>1, <3>1, <3>2, <3>3, <3>4
    <3>6. Room(more, less, scene.requests, MaxSites)
      <4>1. Room(rows \cup {i}, waiting \ {r}, scene.requests, MaxSites)
        BY <3>3, <3>5, RoomInserts
      <4> QED BY <3>3, <3>5, <4>1, RoomLess
    <3> QED BY <3>4, <3>6
  <2>3. CASE o # edit[r].owner
    <3>1. Map!SitesOf(o)' \subseteq Map!SitesOf(o)
      BY <1>2, <2>3 DEF Map!SitesOf, Types
    <3> QED BY <2>1, <3>1, RoomLess, Maxima DEF SiteRooms
  <2> QED BY <2>2, <2>3
<1>5. SiteRooms'
  BY <1>2, <1>4 DEF SiteRooms
<1> QED BY <1>3, <1>5

LEMMA CountCoveragesRoom ==
  ASSUME Map!Given, Inv, SiteRooms, CoverageRooms, NEW r \in Edits, r \in scene.requests, Map!CountCoverages(r)
  PROVE  SiteRooms' /\ CoverageRooms'
<1>1. PICK n : n = [edit[r] EXCEPT !.pc = "write"]
  OBVIOUS
<1>2. edit[r].pc = "gain" /\ UNCHANGED <<site, item, scene>> /\ Types
  BY DEF Map!CountCoverages, Inv
<1>3. edit[r] \in Writing
  BY <1>2, ByPc DEF Types
<1>4. /\ n.pc = "write" /\ n.owner = edit[r].owner /\ n.new = edit[r].new /\ n.item = edit[r].item /\ n.owner \in Owners
  BY <1>1, <1>3 DEF Writing
<1>5. \/ edit' = [edit EXCEPT ![r] = Map!Idle]
      \/ /\ edit' = [edit EXCEPT ![r] = n]
         /\ ~(n.item \in CoverageIds /\ n.new /\ Cardinality(Map!CoveragesOf(n.owner)) >= MaxCoverages)
  BY <1>1, <1>4, SameCardinality DEF Map!CountCoverages, Map!Done
<1>6. CASE edit' = [edit EXCEPT ![r] = Map!Idle]
  BY <1>2, <1>6, QuietEdit, QuietSites, QuietCoverages DEF SitesQuiet, CoveragesQuiet, Map!Idle
<1>7. CASE /\ edit' = [edit EXCEPT ![r] = n]
           /\ ~(n.item \in CoverageIds /\ n.new /\ Cardinality(Map!CoveragesOf(n.owner)) >= MaxCoverages)
  <2>1. SiteRooms'
    BY <1>2, <1>4, <1>7, QuietEdit, QuietSites DEF SitesQuiet
  <2>2. ASSUME NEW o \in Owners PROVE Room(Map!CoveragesOf(o), CoveragesWaiting(o)', scene.requests, MaxCoverages)
    <3>1. CASE n.item \in CoverageIds /\ n.new /\ n.owner = o
      <4>1. CoveragesWaiting(o)' \subseteq scene.requests
        BY <1>2 DEF CoveragesWaiting
      <4>2. IsFiniteSet(Map!CoveragesOf(o)) /\ IsFiniteSet(scene.requests) /\ MaxCoverages \in Nat
        BY <1>2, RowsFinite, FewRequests, Maxima
      <4>3. Cardinality(Map!CoveragesOf(o)) < MaxCoverages
        BY <1>7, <3>1, <4>2, FS_CardinalityType
      <4> QED BY <4>1, <4>2, <4>3, RoomEnters
    <3>2. CASE ~(n.item \in CoverageIds /\ n.new /\ n.owner = o)
      <4>1. CoveragesWaiting(o)' \subseteq CoveragesWaiting(o)
        BY <1>2, <1>7, <3>2, FewRequests DEF CoveragesWaiting, Types
      <4> QED BY <4>1, RoomLess, Maxima DEF CoverageRooms
    <3> QED BY <3>1, <3>2
  <2>3. \A o \in Owners : Map!CoveragesOf(o)' = Map!CoveragesOf(o)
    BY <1>2 DEF Map!CoveragesOf
  <2>4. CoverageRooms'
    BY <1>2, <2>2, <2>3 DEF CoverageRooms
  <2> QED BY <2>1, <2>4
<1> QED BY <1>5, <1>6, <1>7

LEMMA CreateItemRoom ==
  ASSUME Map!Given, Inv, SiteRooms, CoverageRooms, NEW r \in Edits, r \in scene.requests, Map!CreateItem(r)
  PROVE  SiteRooms' /\ CoverageRooms'
<1>1. PICK j, row : j = edit[r].item /\ row = Map!Row(r)
  OBVIOUS
<1>2. /\ edit[r].pc = "write" /\ edit[r].new /\ edit' = [edit EXCEPT ![r] = Map!Idle] /\ UNCHANGED <<site, scene>>
      /\ (Map!RefsOwned(r) /\ item' = [item EXCEPT ![j] = row]) \/ item' = item
      /\ Types
  BY <1>1 DEF Map!CreateItem, Map!Done, Inv
<1>3. SiteRooms'
  BY <1>2, QuietEdit, QuietSites DEF SitesQuiet, Map!Idle
<1>4. CASE item' = item
  BY <1>2, <1>3, <1>4, QuietEdit, QuietCoverages DEF CoveragesQuiet, Map!Idle
<1>5. CASE Map!RefsOwned(r) /\ item' = [item EXCEPT ![j] = row]
  <2>1. row.owner = edit[r].owner
    BY <1>1, <1>2, <1>5, NewRow
  <2>2. ASSUME NEW o \in Owners PROVE Room(Map!CoveragesOf(o)', CoveragesWaiting(o)', scene.requests, MaxCoverages)
    <3>1. CoveragesWaiting(o)' \subseteq CoveragesWaiting(o) \ {r}
      BY <1>2, FewRequests DEF CoveragesWaiting, Types, Map!Idle
    <3>2. CASE o = edit[r].owner /\ j \in CoverageIds
      <4>1. r \in CoveragesWaiting(o)
        BY <1>1, <1>2, <3>2 DEF CoveragesWaiting
      <4>2. Map!CoveragesOf(o)' \subseteq Map!CoveragesOf(o) \cup {j}
        BY <1>2, <1>5 DEF Map!CoveragesOf, Types, Map!Items
      <4>3. Room(Map!CoveragesOf(o), CoveragesWaiting(o), scene.requests, MaxCoverages) /\ MaxCoverages \in Nat
        BY Maxima DEF CoverageRooms
      <4>4. PICK rows, waiting, more, less : /\ rows = Map!CoveragesOf(o) /\ waiting = CoveragesWaiting(o)
                                            /\ more = Map!CoveragesOf(o)' /\ less = CoveragesWaiting(o)'
        OBVIOUS
      <4>5. /\ Room(rows, waiting, scene.requests, MaxCoverages) /\ r \in waiting
            /\ more \subseteq rows \cup {j} /\ less \subseteq waiting \ {r}
        BY <3>1, <4>1, <4>2, <4>3, <4>4
      <4>6. Room(more, less, scene.requests, MaxCoverages)
        <5>1. Room(rows \cup {j}, waiting \ {r}, scene.requests, MaxCoverages)
          BY <4>3, <4>5, RoomInserts
        <5> QED BY <4>3, <4>5, <5>1, RoomLess
      <4> QED BY <4>4, <4>6
    <3>3. CASE ~(o = edit[r].owner /\ j \in CoverageIds)
      <4>1. Map!CoveragesOf(o)' \subseteq Map!CoveragesOf(o)
        BY <1>2, <1>5, <2>1, <3>3 DEF Map!CoveragesOf, Types, Map!Items
      <4> QED BY <3>1, <4>1, RoomLess, Maxima DEF CoverageRooms
    <3> QED BY <3>2, <3>3
  <2>3. CoverageRooms'
    BY <1>2, <2>2 DEF CoverageRooms
  <2> QED BY <1>3, <2>3
<1> QED BY <1>2, <1>4, <1>5

LEMMA RoomsStep ==
  ASSUME Map!Given, Inv, SiteRooms, CoverageRooms, Map!Next \/ UNCHANGED catalog
  PROVE  SiteRooms' /\ CoverageRooms'
<1>1. /\ Types /\ scene.requests \subseteq Edits /\ scene.computed \subseteq CoverageIds
      /\ scene.owners \subseteq Owners /\ scene.sites \subseteq SiteIds /\ scene.items \subseteq Map!Items
      /\ scene.antennas \subseteq AntennaIds /\ scene.places \subseteq Places /\ scene.designs \subseteq Designs
  BY SceneFields DEF Inv
<1>2. SitesQuiet /\ CoveragesQuiet /\ scene' = scene => SiteRooms' /\ CoverageRooms'
  BY <1>1, QuietSites, QuietCoverages
<1>3. CASE UNCHANGED catalog
  BY <1>2, <1>3 DEF catalog, SitesQuiet, CoveragesQuiet
<1>4. CASE Map!Statement
  BY <1>1, <1>2, <1>4, QuietDeletes, QuietStatements DEF Map!Statement
<1>5. CASE \E c \in scene.computed : Map!Worker(c)
  BY <1>1, <1>2, <1>5, QuietStatements
<1>6. ASSUME NEW r \in scene.requests, Map!Handler(r) PROVE SiteRooms' /\ CoverageRooms'
  <2>1. r \in Edits
    BY <1>1
  <2>2. CASE \E o \in scene.owners : Map!CountSites(r, o)
    BY <1>1, <2>1, <2>2, CountSitesRoom
  <2>3. CASE \E i \in scene.sites, p \in scene.places : Map!CreateSite(r, i, p)
    BY <1>1, <2>1, <2>3, CreateSiteRoom
  <2>4. CASE Map!CountCoverages(r) \/ Map!CreateItem(r)
    BY <2>1, <2>4, CountCoveragesRoom, CreateItemRoom
  <2>5. CASE (\E d \in scene.designs : Map!UpdateAntenna(r, d)) \/ Map!UpdateItem(r)
    BY <1>1, <1>2, <2>1, <2>5, QuietUpdateAntenna, QuietUpdateItem
  <2>6. CASE \/ \E o \in scene.owners, a \in scene.antennas : Map!MayEdit(r, o, a)
             \/ \E o \in scene.owners, i \in scene.items, s \in SUBSET scene.sites, u \in [Map!Sides -> scene.antennas \cup {None}],
                  d \in scene.designs : Map!BeginWrite(r, o, i, s, u, d)
             \/ \E e \in Map!Sides : Map!AntennaGain(r, e)
             \/ Map!Fail(r)
    BY <1>1, <1>2, <2>1, <2>6, QuietRequest
  <2> QED BY <1>6, <2>2, <2>3, <2>4, <2>5, <2>6 DEF Map!Handler
<1> QED BY <1>3, <1>4, <1>5, <1>6 DEF Map!Next

\* CreateSite and CreateCoverage (store/sites.go, store/coverages.go) count, then insert: every request but one that is
\* in flight can bring a row above the limit, and no more than that.
THEOREM LimitsOvershootAtMost == TablesSpec => []LimitsOvershoot
<1>1. TablesInit => (focus = "catalog" => Inv /\ SiteRooms /\ CoverageRooms)
  BY Start, RoomsStart, TablesGiven DEF TablesInit
<1>2. (focus = "catalog" => Inv /\ SiteRooms /\ CoverageRooms) /\ [TablesNext]_<<vars, catalog, focus>>
        => (focus = "catalog" => Inv /\ SiteRooms /\ CoverageRooms)'
  BY FocusedCatalog, Step, RoomsStep, TablesGiven
<1>3. (focus = "catalog" => Inv /\ SiteRooms /\ CoverageRooms) => LimitsOvershoot
  <2> SUFFICES ASSUME Inv, SiteRooms, CoverageRooms, NEW o \in Owners
               PROVE  /\ Map!Cardinality(Map!SitesOf(o)) <= MaxSites + Map!Cardinality(scene.requests) - 1
                      /\ Map!Cardinality(Map!CoveragesOf(o)) <= MaxCoverages + Map!Cardinality(scene.requests) - 1
    BY DEF LimitsOvershoot, Map!LimitsOvershoot
  <2>1. Cardinality(Map!SitesOf(o)) <= MaxSites + Cardinality(scene.requests) - 1
    <3>1. Room(Map!SitesOf(o), SitesWaiting(o), scene.requests, MaxSites) /\ MaxSites \in Nat
      BY Maxima, TablesGiven DEF SiteRooms
    <3> QED BY <3>1, RoomHolds
  <2>2. Cardinality(Map!CoveragesOf(o)) <= MaxCoverages + Cardinality(scene.requests) - 1
    <3>1. Room(Map!CoveragesOf(o), CoveragesWaiting(o), scene.requests, MaxCoverages) /\ MaxCoverages \in Nat
      BY Maxima, TablesGiven DEF CoverageRooms
    <3> QED BY <3>1, RoomHolds
  <2> QED BY <2>1, <2>2, SameCardinality
<1> QED BY <1>1, <1>2, <1>3, PTL DEF TablesSpec
===============================================================================

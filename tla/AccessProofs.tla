----------------------------- MODULE AccessProofs -----------------------------
(***************************************************************************)
(* What limits, sessions, shares and tokens guarantee, for every value of  *)
(* the constants.                                                          *)
(***************************************************************************)
EXTENDS Services, FiniteSetTheorems, TLAPS

(***************************************************************************)
(* The machine in focus takes a step of its own, or all stay.              *)
(***************************************************************************)
LEMMA Focused ==
  ASSUME [ServicesNext]_all
  PROVE  /\ focus' = focus
         /\ focus = "limits" => Limits!Next \/ UNCHANGED limits
         /\ focus = "clock" => Clock!Next \/ UNCHANGED clock
         /\ focus = "shares" => Shared!Next \/ UNCHANGED shares
         /\ focus = "tokens" => Tokens!Next \/ UNCHANGED tokens
<1>1. CASE ServicesNext
  BY <1>1 DEF ServicesNext
<1>2. CASE UNCHANGED all
  BY <1>2 DEF all
<1> QED BY <1>1, <1>2

-------------------------------------------------------------------------------
(***************************************************************************)
(* The clocks of a session.  The expiry of a row lies between the target   *)
(* of its last use, less the slack within which SessionUser leaves it      *)
(* alone, and the maximal age.                                             *)
(***************************************************************************)
ClockTypes ==
    /\ now \in Nat /\ used \in Nat /\ skew \in (0 - Slack) .. Slack
    /\ session \in [created : Nat, expires : Int] \cup {None}

ExpiryBetween ==
    session # None =>
        /\ session.created <= used /\ used <= now
        /\ session.expires <= session.created + MaxAge
        /\ session.expires <= used + SessionIdle + skew
        /\ \/ used + SessionIdle - Slack <= session.expires
           \/ session.created + MaxAge - Slack <= session.expires

ClockInv == ClockTypes /\ ExpiryBetween

LEMMA ClockInit == Clock!Init => ClockInv
BY ServicesGiven DEF Clock!Times, Clock!Init, ClockInv, ClockTypes, ExpiryBetween

\* A row that is written by CreateSession.
LEMMA CreateSessionStep == ASSUME ClockInv, Clock!CreateSession PROVE ClockInv'
<1>1. PICK ahead \in Skews : /\ session' = [created |-> now, expires |-> now + ahead + SessionIdle]
                            /\ skew' = ahead
  BY DEF Clock!CreateSession
<1>2. ahead \in (0 - Slack) .. Slack /\ now = 0 /\ used' = now /\ now' = now
  BY ServicesGiven DEF Clock!Times, Clock!CreateSession
<1>3. session' \in [created : Nat, expires : Int] /\ session'.created = 0 /\ session'.expires = ahead + SessionIdle
  BY <1>1, <1>2, ServicesGiven DEF Clock!Times
<1> QED BY <1>1, <1>2, <1>3, ServicesGiven DEF Clock!Times, ClockInv, ClockTypes, ExpiryBetween

\* A use moves the expiry to the target, or finds it within the slack below it.
LEMMA SessionUserStep == ASSUME ClockInv, Clock!SessionUser PROVE ClockInv'
<1>1. session \in [created : Nat, expires : Int] /\ session # None /\ used' = now /\ now' = now
  BY DEF ClockInv, ClockTypes, Clock!SessionUser, Clock!Live
<1>2. /\ Clock!Target \in Int /\ Clock!Target <= now + SessionIdle /\ Clock!Target <= session.created + MaxAge
      /\ Clock!Target = now + SessionIdle \/ Clock!Target = session.created + MaxAge
  BY <1>1, ServicesGiven DEF Clock!Target, Clock!Times, ClockInv, ClockTypes
<1>3. CASE Clock!Due(session.expires)
  <2>1. session' = [session EXCEPT !.expires = Clock!Target] /\ skew' = 0
    BY <1>3 DEF Clock!SessionUser
  <2>2. session' \in [created : Nat, expires : Int] /\ session'.created = session.created /\ session'.expires = Clock!Target
    BY <1>1, <1>2, <2>1
  <2> QED BY <1>1, <1>2, <2>1, <2>2, ServicesGiven DEF Clock!Times, ClockInv, ClockTypes, ExpiryBetween
<1>4. CASE ~Clock!Due(session.expires)
  <2>1. session' = session /\ skew' = skew /\ Clock!Target - Slack <= session.expires
    BY <1>4 DEF Clock!SessionUser, Clock!Due
  <2> QED BY <1>1, <1>2, <2>1, ServicesGiven DEF Clock!Times, ClockInv, ClockTypes, ExpiryBetween
<1> QED BY <1>3, <1>4

LEMMA ClockStep == ASSUME ClockInv, Clock!Next \/ UNCHANGED clock PROVE ClockInv'
<1>1. CASE Clock!DeleteExpiredSessions
  BY <1>1 DEF Clock!DeleteExpiredSessions, ClockInv, ClockTypes, ExpiryBetween
<1>2. CASE Clock!Tick
  BY <1>2, ServicesGiven DEF Clock!Tick, Clock!Times, ClockInv, ClockTypes, ExpiryBetween
<1>3. CASE UNCHANGED clock
  BY <1>3 DEF clock, ClockInv, ClockTypes, ExpiryBetween
<1> QED BY <1>1, <1>2, <1>3, CreateSessionStep, SessionUserStep DEF Clock!Next

LEMMA ClockAlways == ServicesSpec => [](focus = "clock" => ClockInv)
<1>1. ServicesInit => (focus = "clock" => ClockInv)
  BY ClockInit DEF ServicesInit
<1>2. (focus = "clock" => ClockInv) /\ [ServicesNext]_all => (focus = "clock" => ClockInv)'
  BY Focused, ClockStep
<1> QED BY <1>1, <1>2, PTL DEF ServicesSpec

\* SessionUser and newSession (store/users.go, web/auth.go): no use keeps a session beyond its maximal age, and without
\* use it is gone after the idle time.
THEOREM SessionEndsAlways == ServicesSpec => []SessionEnds
<1>1. (focus = "clock" => ClockInv) => SessionEnds
  BY ServicesGiven DEF Clock!Times, ClockInv, ClockTypes, ExpiryBetween, SessionEnds, Clock!SessionEnds, Clock!Live
<1> QED BY <1>1, ClockAlways, PTL

\* SessionUser (store/users.go): skipping the updates of an hour never costs a user the session.
THEOREM SessionLastsAlways == ServicesSpec => []SessionLasts
<1>1. (focus = "clock" => ClockInv) => SessionLasts
  BY ServicesGiven DEF Clock!Times, ClockInv, ClockTypes, ExpiryBetween, SessionLasts, Clock!SessionLasts, Clock!Live
<1> QED BY <1>1, ClockAlways, PTL

-------------------------------------------------------------------------------
(***************************************************************************)
(* Shares.  A token leads to one row at most and is never drawn again.     *)
(***************************************************************************)
Asking == [pc : {"hit", "get"}, token : ShareTokens]
Answering == [pc : {"answer", "panic"}, shared : Coverages, raced : BOOLEAN]
Reading == [pc : {"found", "raster"}, token : ShareTokens, shared : Coverages, owner : Owners,
            overlays : SUBSET Coverages, released : SUBSET Coverages]
Served == [pc : {"served"}, token : ShareTokens, shared : SUBSET Coverages, owner : Owners,
           overlays : SUBSET Coverages, released : SUBSET Coverages]
Visit == {Shared!Idle} \cup Asking \cup Answering \cup Reading \cup Served

Rows ==
    /\ row \in [Coverages -> Shared!Row \cup {None}]
    /\ drawn \subseteq ShareTokens /\ revoked \subseteq drawn
    /\ \A c \in Coverages : row[c] # None /\ row[c].token # None =>
         /\ row[c].token \in drawn \ revoked
         /\ \A e \in Coverages : row[e] # None /\ row[e].token = row[c].token => e = c

\* What a request may rely on, or was shown, while the rows are those of R.
VisitOK(q, R) ==
    /\ q \in Visit
    /\ q.pc = "answer" /\ ~q.raced => R[q.shared] # None /\ R[q.shared].token # None
    /\ q.pc = "panic" => q.raced
    /\ q.pc \in {"found", "raster"} => q.shared \in q.released /\ q.overlays \subseteq q.released
    /\ q.pc = "served" => q.shared \subseteq q.released

SharesInv ==
    /\ Rows
    /\ visit \in [Visits -> Visit]
    /\ \A r \in Visits : VisitOK(visit[r], row)

LEMMA IdleVisit == ASSUME NEW R PROVE VisitOK(Shared!Idle, R)
BY DEF VisitOK, Visit, Shared!Idle

LEMMA SharesInit == Shared!Init => SharesInv
<1> SUFFICES ASSUME Shared!Init PROVE SharesInv
  OBVIOUS
<1>1. Rows
  BY DEF Shared!Init, Rows
<1>2. visit \in [Visits -> Visit]
  BY DEF Shared!Init, Visit
<1>3. ASSUME NEW r \in Visits PROVE VisitOK(visit[r], row)
  BY IdleVisit DEF Shared!Init
<1> QED BY <1>1, <1>2, <1>3 DEF SharesInv

\* One request goes on, and the rows stay.
LEMMA OneVisit ==
  ASSUME SharesInv, NEW r \in Visits, NEW q, VisitOK(q, row'), visit' = [visit EXCEPT ![r] = q], Rows',
         \A c \in Coverages : row[c] # None /\ row[c].token # None => row'[c] # None /\ row'[c].token # None
  PROVE  SharesInv'
<1>1. visit' \in [Visits -> Visit]
  BY DEF SharesInv, VisitOK
<1>2. ASSUME NEW s \in Visits PROVE VisitOK(visit'[s], row')
  <2>1. CASE s = r
    BY <2>1 DEF SharesInv
  <2>2. CASE s # r
    <3>1. visit'[s] = visit[s] /\ VisitOK(visit[s], row) /\ visit[s] \in Visit
      BY <2>2 DEF SharesInv
    <3>2. visit[s].pc = "answer" => visit[s].shared \in Coverages
      BY <3>1 DEF Visit, Asking, Answering, Reading, Served, Shared!Idle
    <3> QED BY <3>1, <3>2 DEF VisitOK
  <2> QED BY <2>1, <2>2
<1> QED BY <1>1, <1>2 DEF SharesInv

\* The shapes of what a request is, by where it is.
LEMMA Shapes ==
  ASSUME NEW q \in Visit
  PROVE  /\ q.pc = "idle" => q = Shared!Idle
         /\ q.pc \in {"hit", "get"} => q \in Asking
         /\ q.pc \in {"answer", "panic"} => q \in Answering
         /\ q.pc \in {"found", "raster"} => q \in Reading
         /\ q.pc = "served" => q \in Served
BY DEF Visit, Asking, Answering, Reading, Served, Shared!Idle

\* A row that is there after the step keeps its token.
TokensKept ==
    \A c \in Coverages : row[c] # None /\ row[c].token # None => row'[c] # None /\ row'[c].token # None

LEMMA CreateStep ==
  ASSUME SharesInv, NEW c \in Coverages, NEW o \in Owners, Shared!Create(c, o)
  PROVE  SharesInv'
<1> DEFINE n == [owner |-> o, computed |-> FALSE, overlays |-> {}, token |-> None, live |-> FALSE]
<1>1. row[c] = None /\ row' = [row EXCEPT ![c] = n] /\ drawn' = drawn /\ revoked' = revoked /\ visit' = visit
  BY DEF Shared!Create
<1>2. n \in Shared!Row /\ n.token = None
  BY DEF Shared!Row
<1> HIDE DEF n
<1>3. Rows'
  BY <1>1, <1>2, ServicesGiven DEF SharesInv, Rows, Shared!Apart
<1>4. ASSUME NEW r \in Visits PROVE VisitOK(visit'[r], row')
  <2>1. VisitOK(visit[r], row) /\ visit[r] \in Visit /\ visit' = visit
    BY <1>1 DEF SharesInv
  <2>2. visit[r].pc = "answer" => visit[r].shared \in Coverages
    BY <2>1, Shapes DEF Answering
  <2> QED BY <1>1, <2>1, <2>2 DEF SharesInv, Rows, VisitOK
<1> QED BY <1>1, <1>3, <1>4 DEF SharesInv

LEMMA SetResultStep ==
  ASSUME SharesInv, NEW c \in Coverages, NEW on \in BOOLEAN, Shared!SetResult(c, on)
  PROVE  SharesInv'
<1>1. row[c] # None /\ row' = [row EXCEPT ![c].computed = on] /\ drawn' = drawn /\ revoked' = revoked /\ visit' = visit
  BY DEF Shared!SetResult
<1>2. row[c] \in Shared!Row
  BY <1>1 DEF SharesInv, Rows
<1>3. row'[c] \in Shared!Row /\ row'[c].token = row[c].token /\ row'[c] # None
  BY <1>1, <1>2, ServicesGiven DEF Shared!Row, Shared!Apart, SharesInv, Rows
<1>4. Rows'
  BY <1>1, <1>3 DEF SharesInv, Rows
<1>5. ASSUME NEW r \in Visits PROVE VisitOK(visit'[r], row')
  <2>1. VisitOK(visit[r], row) /\ visit[r] \in Visit /\ visit' = visit
    BY <1>1 DEF SharesInv
  <2>2. visit[r].pc = "answer" => visit[r].shared \in Coverages
    BY <2>1, Shapes DEF Answering
  <2> QED BY <1>1, <1>3, <2>1, <2>2 DEF SharesInv, Rows, VisitOK
<1> QED BY <1>1, <1>4, <1>5 DEF SharesInv

LEMMA SetViewStep ==
  ASSUME SharesInv, NEW c \in Coverages, NEW ids \in SUBSET Coverages, Shared!SetCoverageView(c, ids)
  PROVE  SharesInv'
<1> DEFINE kept == (ids \cap Shared!Computed(row[c].owner)) \ {c}
<1>1. /\ row[c] # None /\ row' = [row EXCEPT ![c].overlays = kept] /\ drawn' = drawn /\ revoked' = revoked
      /\ visit' = Shared!Widen(visit, c, kept)
  BY DEF Shared!SetCoverageView
<1>2. kept \subseteq Coverages
  OBVIOUS
<1> HIDE DEF kept
<1>3. row[c] \in Shared!Row
  BY <1>1 DEF SharesInv, Rows
<1>4. row'[c] \in Shared!Row /\ row'[c].token = row[c].token /\ row'[c] # None
  BY <1>1, <1>2, <1>3, ServicesGiven DEF Shared!Row, Shared!Apart, SharesInv, Rows
<1>5. Rows'
  BY <1>1, <1>4 DEF SharesInv, Rows
<1>6. ASSUME NEW r \in Visits PROVE VisitOK(visit'[r], row')
  <2>1. VisitOK(visit[r], row) /\ visit[r] \in Visit
    BY DEF SharesInv
  <2>2. visit[r].pc = "answer" => visit[r].shared \in Coverages
    BY <2>1, Shapes DEF Answering
  <2>3. CASE visit[r].pc \in {"found", "raster"} /\ visit[r].shared = c
    <3>1. visit'[r] = [visit[r] EXCEPT !.released = @ \cup kept] /\ visit[r] \in Reading
      BY <1>1, <2>1, <2>3, Shapes DEF Shared!Widen
    <3> QED BY <1>2, <2>1, <2>3, <3>1 DEF VisitOK, Visit, Reading
  <2>4. CASE ~(visit[r].pc \in {"found", "raster"} /\ visit[r].shared = c)
    <3>1. visit'[r] = visit[r]
      BY <1>1, <2>4 DEF Shared!Widen
    <3> QED BY <1>1, <1>4, <2>1, <2>2, <3>1 DEF SharesInv, Rows, VisitOK
  <2> QED BY <2>3, <2>4
<1>7. visit' \in [Visits -> Visit]
  BY <1>1, <1>6 DEF Shared!Widen, VisitOK
<1> QED BY <1>5, <1>6, <1>7 DEF SharesInv

LEMMA ShareStep ==
  ASSUME SharesInv, NEW r \in Visits, NEW c \in Coverages, NEW t \in ShareTokens, Shared!ShareCoverage(r, c, t)
  PROVE  SharesInv'
<1>1. /\ row[c] # None /\ t \notin drawn /\ drawn' = drawn \cup {t} /\ revoked' = revoked
      /\ row' = [row EXCEPT ![c].token = IF @ = None THEN t ELSE @, ![c].live = TRUE]
      /\ visit' = [visit EXCEPT ![r] = [pc |-> "answer", shared |-> c, raced |-> FALSE]]
  BY DEF Shared!ShareCoverage, Shared!Goto
<1>2. row[c] \in Shared!Row /\ t # None
  BY <1>1, ServicesGiven DEF SharesInv, Rows, Shared!Apart
<1>3. /\ row'[c] \in Shared!Row /\ row'[c].token = (IF row[c].token = None THEN t ELSE row[c].token) /\ row'[c] # None
      /\ \A e \in Coverages : e # c => row'[e] = row[e]
  BY <1>1, <1>2, ServicesGiven DEF Shared!Row, Shared!Apart, SharesInv, Rows
<1>4. Rows'
  <2>1. row' \in [Coverages -> Shared!Row \cup {None}] /\ drawn' \subseteq ShareTokens /\ revoked' \subseteq drawn'
    BY <1>1, <1>3 DEF SharesInv, Rows
  <2>2. \A e \in Coverages : e # c /\ row[e] # None => row[e].token # t
    BY <1>1, <1>2 DEF SharesInv, Rows
  <2> QED BY <1>1, <1>2, <1>3, <2>1, <2>2 DEF SharesInv, Rows
<1>5. TokensKept
  BY <1>2, <1>3 DEF TokensKept
<1>6. VisitOK([pc |-> "answer", shared |-> c, raced |-> FALSE], row')
  BY <1>2, <1>3 DEF VisitOK, Visit, Answering
<1> QED BY <1>1, <1>4, <1>5, <1>6, OneVisit DEF TokensKept

\* The row loses its token or is dropped, and the answers to it are marked.
LEMMA TakeBack ==
  ASSUME SharesInv, NEW c \in Coverages, row[c] # None, NEW n \in Shared!Row \cup {None}, n # None => n.token = None,
         row' = [row EXCEPT ![c] = n], Shared!Taken(c), Shared!Raced(c), drawn' = drawn
  PROVE  SharesInv'
<1>1. /\ row[c] \in Shared!Row
      /\ row'[c] = n /\ \A e \in Coverages : e # c => row'[e] = row[e]
  BY DEF SharesInv, Rows
<1>2. revoked' = IF row[c].token = None THEN revoked ELSE revoked \cup {row[c].token}
  BY DEF Shared!Taken
<1>3. Rows'
  <2>1. row' \in [Coverages -> Shared!Row \cup {None}] /\ drawn' \subseteq ShareTokens /\ revoked' \subseteq drawn'
    BY <1>1, <1>2 DEF SharesInv, Rows
  <2>2. \A e \in Coverages : e # c /\ row[e] # None /\ row[e].token # None => row[e].token \notin revoked'
    BY <1>1, <1>2 DEF SharesInv, Rows
  <2> QED BY <1>1, <1>2, <2>1, <2>2 DEF SharesInv, Rows
<1>4. ASSUME NEW r \in Visits PROVE VisitOK(visit'[r], row')
  <2>1. VisitOK(visit[r], row) /\ visit[r] \in Visit
    BY DEF SharesInv
  <2>2. CASE visit[r].pc = "answer" /\ visit[r].shared = c
    <3>1. visit'[r] = [visit[r] EXCEPT !.raced = TRUE] /\ visit[r] \in Answering
      BY <2>1, <2>2, Shapes DEF Shared!Raced
    <3> QED BY <2>2, <3>1 DEF VisitOK, Visit, Answering
  <2>3. CASE ~(visit[r].pc = "answer" /\ visit[r].shared = c)
    <3>1. visit'[r] = visit[r]
      BY <2>3 DEF Shared!Raced
    <3>2. visit[r].pc = "answer" => visit[r].shared \in Coverages
      BY <2>1, Shapes DEF Answering
    <3> QED BY <1>1, <2>1, <2>3, <3>1, <3>2 DEF VisitOK
  <2> QED BY <2>2, <2>3
<1>5. visit' \in [Visits -> Visit]
  BY <1>4 DEF Shared!Raced, VisitOK
<1> QED BY <1>3, <1>4, <1>5 DEF SharesInv

LEMMA UnshareStep ==
  ASSUME SharesInv, NEW c \in Coverages, Shared!UnshareCoverage(c) \/ Shared!DeleteCoverage(c)
  PROVE  SharesInv'
<1>1. row[c] # None /\ row[c] \in Shared!Row /\ Shared!Taken(c) /\ Shared!Raced(c) /\ drawn' = drawn
  BY DEF SharesInv, Rows, Shared!UnshareCoverage, Shared!DeleteCoverage
<1>2. CASE Shared!UnshareCoverage(c)
  <2> DEFINE n == [row[c] EXCEPT !.token = None, !.live = FALSE]
  <2>1. row' = [row EXCEPT ![c] = n]
    BY <1>2 DEF Shared!UnshareCoverage, SharesInv, Rows
  <2>2. n \in Shared!Row /\ n.token = None
    BY <1>1 DEF Shared!Row
  <2> QED BY <1>1, <2>1, <2>2, TakeBack
<1>3. CASE Shared!DeleteCoverage(c)
  BY <1>1, <1>3, TakeBack DEF Shared!DeleteCoverage
<1> QED BY <1>2, <1>3

LEMMA ShareExpireStep ==
  ASSUME SharesInv, NEW c \in Coverages, Shared!Expire(c)
  PROVE  SharesInv'
<1>1. row[c] # None /\ row' = [row EXCEPT ![c].live = FALSE] /\ drawn' = drawn /\ revoked' = revoked /\ visit' = visit
  BY DEF Shared!Expire
<1>2. row[c] \in Shared!Row
  BY <1>1 DEF SharesInv, Rows
<1>3. row'[c] \in Shared!Row /\ row'[c].token = row[c].token /\ row'[c] # None
  BY <1>1, <1>2, ServicesGiven DEF Shared!Row, Shared!Apart, SharesInv, Rows
<1>4. Rows'
  BY <1>1, <1>3 DEF SharesInv, Rows
<1>5. ASSUME NEW r \in Visits PROVE VisitOK(visit'[r], row')
  <2>1. VisitOK(visit[r], row) /\ visit[r] \in Visit /\ visit' = visit
    BY <1>1 DEF SharesInv
  <2>2. visit[r].pc = "answer" => visit[r].shared \in Coverages
    BY <2>1, Shapes DEF Answering
  <2> QED BY <1>1, <1>3, <2>1, <2>2 DEF SharesInv, Rows, VisitOK
<1> QED BY <1>1, <1>4, <1>5 DEF SharesInv

\* The steps of a visitor, and the answer to the owner: the rows stay.
LEMMA VisitStep ==
  ASSUME SharesInv, NEW r \in Visits,
         \/ \E t \in ShareTokens : Shared!ShareExists(r, t)
         \/ \E ids \in SUBSET Coverages : Shared!AskRasters(r, ids)
         \/ Shared!ShareAnswer(r) \/ Shared!RateHit(r) \/ Shared!GetSharedCoverage(r) \/ Shared!SharedPage(r)
         \/ Shared!Composite(r) \/ Shared!Image(r) \/ Shared!Leave(r)
  PROVE  SharesInv'
<1>1. /\ visit[r] \in Visit /\ VisitOK(visit[r], row)
      /\ row \in [Coverages -> Shared!Row \cup {None}]
  BY DEF SharesInv, Rows
<1>2. row' = row /\ drawn' = drawn /\ revoked' = revoked
  BY DEF Shared!ShareExists, Shared!AskRasters, Shared!ShareAnswer, Shared!RateHit, Shared!GetSharedCoverage,
         Shared!SharedPage, Shared!Composite, Shared!Image, Shared!Leave
<1>3. Rows' /\ TokensKept
  BY <1>2 DEF SharesInv, Rows, TokensKept
<1>4. SUFFICES \E q : VisitOK(q, row) /\ visit' = [visit EXCEPT ![r] = q]
  BY <1>2, <1>3, OneVisit DEF TokensKept
<1>5. ASSUME Shared!Done(r) PROVE \E q : VisitOK(q, row) /\ visit' = [visit EXCEPT ![r] = q]
  BY <1>5, IdleVisit DEF Shared!Done, Shared!Goto
<1>6. ASSUME NEW t \in ShareTokens, Shared!ShareExists(r, t) PROVE \E q : VisitOK(q, row) /\ visit' = [visit EXCEPT ![r] = q]
  <2>1. VisitOK([pc |-> "hit", token |-> t], row)
    BY DEF VisitOK, Visit, Asking
  <2> QED BY <1>6, <2>1 DEF Shared!ShareExists, Shared!Goto
<1>7. CASE Shared!RateHit(r)
  <2>1. visit[r] \in Asking
    BY <1>1, <1>7, Shapes DEF Shared!RateHit
  <2>2. VisitOK([visit[r] EXCEPT !.pc = "get"], row)
    BY <2>1 DEF VisitOK, Visit, Asking
  <2> QED BY <1>7, <2>2 DEF Shared!RateHit, Shared!Goto
<1>8. CASE Shared!GetSharedCoverage(r)
  <2>1. visit[r] \in Asking
    BY <1>1, <1>8, Shapes DEF Shared!GetSharedCoverage
  <2>2. CASE Shared!Done(r)
    BY <1>5, <2>2
  <2>3. CASE ~Shared!Done(r)
    <3>1. PICK c \in Shared!SharedBy(visit[r].token) :
             Shared!Goto(r, [pc |-> "found", token |-> visit[r].token, shared |-> c, owner |-> row[c].owner,
                             overlays |-> row[c].overlays, released |-> Shared!Released(c)])
      BY <1>8, <2>3 DEF Shared!GetSharedCoverage
    <3>2. c \in Coverages /\ row[c] \in Shared!Row
      BY <1>1 DEF Shared!SharedBy
    <3>3. row[c].owner \in Owners /\ row[c].overlays \in SUBSET Coverages /\ visit[r].token \in ShareTokens
          /\ Shared!Released(c) = {c} \cup row[c].overlays
      BY <2>1, <3>2 DEF Shared!Row, Asking, Shared!Released
    <3>4. VisitOK([pc |-> "found", token |-> visit[r].token, shared |-> c, owner |-> row[c].owner,
                   overlays |-> row[c].overlays, released |-> Shared!Released(c)], row)
      BY <3>2, <3>3 DEF VisitOK, Visit, Reading
    <3> QED BY <3>1, <3>4 DEF Shared!Goto
  <2> QED BY <2>2, <2>3
<1>9. CASE Shared!SharedPage(r)
  <2>1. visit[r] \in Reading /\ visit[r].pc = "found"
    BY <1>1, <1>9, Shapes DEF Shared!SharedPage
  <2>2. visit[r].shared \in visit[r].released /\ visit[r].overlays \subseteq visit[r].released
    BY <1>1, <2>1 DEF VisitOK
  <2> DEFINE shown == {visit[r].shared} \cup (visit[r].overlays \cap Shared!Computed(visit[r].owner))
  <2>3. shown \in SUBSET Coverages /\ shown \subseteq visit[r].released
    BY <2>1, <2>2 DEF Reading
  <2>4. visit' = [visit EXCEPT ![r] = [visit[r] EXCEPT !.pc = "served", !.shared = shown]]
    BY <1>9 DEF Shared!SharedPage, Shared!Goto
  <2> HIDE DEF shown
  <2>5. VisitOK([visit[r] EXCEPT !.pc = "served", !.shared = shown], row)
    BY <2>1, <2>3 DEF VisitOK, Visit, Reading, Served
  <2> QED BY <2>4, <2>5
<1>10. ASSUME NEW ids \in SUBSET Coverages, Shared!AskRasters(r, ids) PROVE \E q : VisitOK(q, row) /\ visit' = [visit EXCEPT ![r] = q]
  <2>1. visit[r] \in Reading /\ visit[r].pc = "found" /\ ids \subseteq visit[r].overlays
    BY <1>1, <1>10, Shapes DEF Shared!AskRasters
  <2>2. visit[r].shared \in visit[r].released /\ ids \subseteq visit[r].released
    BY <1>1, <2>1 DEF VisitOK
  <2>3. VisitOK([visit[r] EXCEPT !.pc = "raster", !.overlays = ids], row)
    BY <2>1, <2>2 DEF VisitOK, Visit, Reading
  <2> QED BY <1>10, <2>3 DEF Shared!AskRasters, Shared!Goto
<1>11. ASSUME visit[r].pc = "raster", NEW shown \in SUBSET (visit[r].overlays \cup {visit[r].shared}),
              visit' = [visit EXCEPT ![r] = [visit[r] EXCEPT !.pc = "served", !.shared = shown]]
       PROVE  \E q : VisitOK(q, row) /\ visit' = [visit EXCEPT ![r] = q]
  <2>1. visit[r] \in Reading
    BY <1>1, <1>11, Shapes
  <2>2. shown \subseteq visit[r].released /\ shown \in SUBSET Coverages
    BY <1>1, <1>11, <2>1 DEF VisitOK, Reading
  <2>3. VisitOK([visit[r] EXCEPT !.pc = "served", !.shared = shown], row)
    BY <2>1, <2>2 DEF VisitOK, Visit, Reading, Served
  <2> QED BY <1>11, <2>3
<1>12. CASE Shared!Composite(r)
  <2> DEFINE rasters == (visit[r].overlays \cup {visit[r].shared}) \cap Shared!Computed(visit[r].owner)
  <2>1. rasters \in SUBSET (visit[r].overlays \cup {visit[r].shared})
    OBVIOUS
  <2>2. visit[r].pc = "raster"
        /\ (Shared!Done(r) \/ visit' = [visit EXCEPT ![r] = [visit[r] EXCEPT !.pc = "served", !.shared = rasters]])
    BY <1>12 DEF Shared!Composite, Shared!Goto
  <2> HIDE DEF rasters
  <2> QED BY <1>5, <1>11, <2>1, <2>2
<1>13. CASE Shared!Image(r)
  <2>1. PICK id \in (IF visit[r].overlays = {} THEN {visit[r].shared} ELSE visit[r].overlays) :
          Shared!Done(r) \/ visit' = [visit EXCEPT ![r] = [visit[r] EXCEPT !.pc = "served", !.shared = {id}]]
    BY <1>13 DEF Shared!Image, Shared!Goto
  <2>2. {id} \in SUBSET (visit[r].overlays \cup {visit[r].shared}) /\ visit[r].pc = "raster"
    BY <1>13, <2>1 DEF Shared!Image
  <2> QED BY <1>5, <1>11, <2>1, <2>2
<1>14. CASE Shared!ShareAnswer(r)
  <2>1. visit[r] \in Answering /\ visit[r].pc = "answer"
    BY <1>1, <1>14, Shapes DEF Shared!ShareAnswer
  <2>2. CASE Shared!Done(r)
    BY <1>5, <2>2
  <2>3. CASE ~Shared!Done(r)
    <3>1. /\ row[visit[r].shared].token = None /\ row[visit[r].shared] # None
          /\ visit' = [visit EXCEPT ![r] = [visit[r] EXCEPT !.pc = "panic"]]
      BY <1>14, <2>3 DEF Shared!ShareAnswer, Shared!Goto
    <3>2. visit[r].raced
      BY <1>1, <2>1, <3>1 DEF VisitOK, Answering
    <3>3. VisitOK([visit[r] EXCEPT !.pc = "panic"], row)
      BY <2>1, <3>2 DEF VisitOK, Visit, Answering
    <3> QED BY <3>1, <3>3
  <2> QED BY <2>2, <2>3
<1>15. CASE Shared!Leave(r)
  BY <1>5, <1>15 DEF Shared!Leave
<1> QED BY <1>6, <1>7, <1>8, <1>9, <1>10, <1>12, <1>13, <1>14, <1>15

LEMMA SharesStep == ASSUME SharesInv, Shared!Next \/ UNCHANGED shares PROVE SharesInv'
<1>1. CASE UNCHANGED shares
  BY <1>1 DEF shares, SharesInv, Rows, VisitOK
<1>2. CASE Shared!Next
  BY <1>2, CreateStep, SetResultStep, SetViewStep, ShareStep, UnshareStep, ShareExpireStep, VisitStep DEF Shared!Next
<1> QED BY <1>1, <1>2

LEMMA SharesAlways == ServicesSpec => [](focus = "shares" => SharesInv)
<1>1. ServicesInit => (focus = "shares" => SharesInv)
  BY SharesInit DEF ServicesInit
<1>2. (focus = "shares" => SharesInv) /\ [ServicesNext]_all => (focus = "shares" => SharesInv)'
  BY Focused, SharesStep
<1> QED BY <1>1, <1>2, PTL DEF ServicesSpec

\* The handlers of web/share.go: however views, results and rows change between their statements, a visitor is served
\* nothing but the shared coverage and overlays that were released.
THEOREM VisitorsSeeReleased == ServicesSpec => []SeesReleased
<1>1. (focus = "shares" => SharesInv) => SeesReleased
  BY DEF SharesInv, VisitOK, SeesReleased, Shared!SeesReleased
<1> QED BY <1>1, SharesAlways, PTL

\* ShareCoverage and UnshareCoverage (store/share.go): a URL that was taken back never works again.
THEOREM RevokedForGood == ServicesSpec => []RevokedStays
<1>1. ASSUME SharesInv PROVE Shared!RevokedStays
  <2> SUFFICES ASSUME NEW t \in revoked, NEW c \in Shared!SharedBy(t) PROVE FALSE
    BY DEF Shared!RevokedStays
  <2>1. c \in Coverages /\ row[c] # None /\ row[c].token = t
    BY DEF Shared!SharedBy
  <2>2. t # None
    BY <1>1, ServicesGiven DEF SharesInv, Rows, Shared!Apart
  <2> QED BY <1>1, <2>1, <2>2 DEF SharesInv, Rows
<1>2. (focus = "shares" => SharesInv) => RevokedStays
  BY <1>1 DEF RevokedStays
<1> QED BY <1>2, SharesAlways, PTL

\* share-coverage (web/coverages.go): its handler panics only when the share was taken back before it answered.
THEOREM PanicsOnlyRaced == ServicesSpec => []PanicOnlyRaced
<1>1. (focus = "shares" => SharesInv) => PanicOnlyRaced
  BY DEF SharesInv, VisitOK, PanicOnlyRaced, Shared!PanicOnlyRaced
<1> QED BY <1>1, SharesAlways, PTL

-------------------------------------------------------------------------------
(***************************************************************************)
(* API tokens.  Whoever holds one that ended, or is past the look at the   *)
(* maintenance mode while it is on, is marked; and a token that is being   *)
(* made has its place below the limit, but for the requests beside it.     *)
(***************************************************************************)
By == TokenIds \cup {Tokens!SessionOnly}
Entering == [pc : {"known", "in"}, by : By, scopes : SUBSET Tokens!Scopes, late : BOOLEAN, shut : BOOLEAN]
Acting == [pc : {"act"}, scope : Tokens!Scopes \cup {Tokens!SessionOnly}, by : By, late : BOOLEAN, shut : BOOLEAN]
Minting == [pc : {"insert"}, by : By, scopes : SUBSET Tokens!Scopes]
Call == {Tokens!Idle} \cup Entering \cup Acting \cup Minting

Paired(scopes) == \A x \in Resources : Tokens!Write(x) \in scopes => Tokens!Read(x) \in scopes

CallOK(q, ended, shutdown) ==
    /\ q \in Call
    /\ q.pc \in {"known", "in", "act"} /\ q.by \in ended => q.late
    /\ q.pc \in {"in", "act"} /\ q.by # Tokens!SessionOnly /\ shutdown => q.shut
    /\ q.pc = "act" /\ q.scope = Tokens!SessionOnly => q.by = Tokens!SessionOnly
    /\ q.pc = "insert" => q.by = Tokens!SessionOnly /\ Paired(q.scopes)

TokenRows ==
    /\ token \in [TokenIds -> Tokens!Token \cup {None}]
    /\ stopped \subseteq TokenIds /\ closed \in BOOLEAN
    /\ \A t \in TokenIds : token[t] # None =>
         /\ token[t].by = Tokens!SessionOnly /\ Paired(token[t].scopes)
         /\ token[t].live => t \notin stopped

Mints == {r \in Calls : call[r].pc = "insert"}

TokensCounted ==
    /\ IsFiniteSet(Tokens!Listed)
    /\ Cardinality(Tokens!Listed) + Cardinality(Mints) <= MaxTokens + Cardinality(Calls) - 1

TokensInv ==
    /\ TokenRows
    /\ call \in [Calls -> Call]
    /\ \A r \in Calls : CallOK(call[r], stopped, closed)
    /\ TokensCounted

LEMMA CallShapes ==
  ASSUME NEW q \in Call
  PROVE  /\ q.pc = "idle" => q = Tokens!Idle
         /\ q.pc \in {"known", "in"} => q \in Entering
         /\ q.pc = "act" => q \in Acting
         /\ q.pc = "insert" => q \in Minting
BY DEF Call, Entering, Acting, Minting, Tokens!Idle

LEMMA IdleCall == ASSUME NEW S, NEW on PROVE CallOK(Tokens!Idle, S, on)
BY DEF CallOK, Call, Tokens!Idle

\* The instance's own names for the sizes of sets.
LEMMA SameFinite == ASSUME NEW S PROVE Tokens!IsFiniteSet(S) <=> IsFiniteSet(S)
BY DEF IsFiniteSet, Tokens!IsFiniteSet

LEMMA SameCardinality == ASSUME NEW S PROVE Tokens!Cardinality(S) = Cardinality(S)
BY DEF Cardinality, Tokens!Cardinality

LEMMA CallsFinite == IsFiniteSet(Calls) /\ MaxTokens \in Nat \ {0}
BY SameFinite, ServicesGiven DEF Tokens!Apart

LEMMA MintsFinite == IsFiniteSet(Mints) /\ Cardinality(Mints) \in Nat /\ Cardinality(Calls) \in Nat
BY CallsFinite, FS_Subset, FS_CardinalityType DEF Mints

LEMMA TokensInit == Tokens!Init => TokensInv
<1> SUFFICES ASSUME Tokens!Init PROVE TokensInv
  OBVIOUS
<1>1. TokenRows
  BY DEF Tokens!Init, TokenRows
<1>2. call \in [Calls -> Call] /\ \A r \in Calls : CallOK(call[r], stopped, closed)
  BY IdleCall DEF Tokens!Init, Call
<1>3. Mints = {} /\ Tokens!Listed = {}
  BY DEF Tokens!Init, Mints, Tokens!Listed, Tokens!Idle
<1>4. TokensCounted
  BY <1>3, FS_EmptySet, MintsFinite, CallsFinite DEF TokensCounted
<1> QED BY <1>1, <1>2, <1>4 DEF TokensInv

\* Fewer rows, and no more requests on their way to the insert.
LEMMA FewerTokens ==
  ASSUME TokensCounted, Tokens!Listed' \subseteq Tokens!Listed, Mints' \subseteq Mints
  PROVE  TokensCounted'
<1>1. IsFiniteSet(Tokens!Listed') /\ Cardinality(Tokens!Listed') <= Cardinality(Tokens!Listed)
  BY FS_Subset DEF TokensCounted
<1>2. Cardinality(Mints') <= Cardinality(Mints)
  BY FS_Subset, MintsFinite
<1>3. Cardinality(Tokens!Listed) \in Nat /\ Cardinality(Tokens!Listed') \in Nat /\ Cardinality(Mints') \in Nat
  BY <1>1, FS_CardinalityType, FS_Subset, MintsFinite DEF TokensCounted
<1> QED BY <1>1, <1>2, <1>3, MintsFinite, CallsFinite DEF TokensCounted

\* One request goes on to something other than the insert, or ends.
LEMMA OneCall ==
  ASSUME TokensInv, NEW r \in Calls, NEW q, CallOK(q, stopped, closed), q.pc # "insert",
         call' = [call EXCEPT ![r] = q], UNCHANGED <<token, closed, stopped>>
  PROVE  TokensInv'
<1>1. call' \in [Calls -> Call] /\ \A s \in Calls : CallOK(call'[s], stopped, closed)
  BY DEF TokensInv, CallOK
<1>2. Mints' \subseteq Mints /\ Tokens!Listed' = Tokens!Listed
  BY DEF Mints, Tokens!Listed, TokensInv
<1>3. TokensCounted'
  BY <1>2, FewerTokens DEF TokensInv
<1>4. TokenRows'
  BY DEF TokensInv, TokenRows
<1> QED BY <1>1, <1>3, <1>4 DEF TokensInv

LEMMA EnterStep ==
  ASSUME TokensInv, NEW r \in Calls,
         \/ Tokens!EnterSession(r) \/ Tokens!LookAtMaintenance(r) \/ Tokens!Act(r) \/ Tokens!Fail(r)
         \/ \E t \in TokenIds : Tokens!EnterToken(r, t)
         \/ \E scope \in Tokens!Scopes \cup {Tokens!SessionOnly} : Tokens!Gate(r, scope)
  PROVE  TokensInv'
<1>1. call[r] \in Call /\ CallOK(call[r], stopped, closed) /\ TokenRows
  BY DEF TokensInv
<1>2. UNCHANGED <<token, closed, stopped>>
  BY DEF Tokens!EnterSession, Tokens!LookAtMaintenance, Tokens!Act, Tokens!Fail, Tokens!EnterToken, Tokens!Gate
<1>3. SUFFICES \E q : CallOK(q, stopped, closed) /\ q.pc # "insert" /\ call' = [call EXCEPT ![r] = q]
  BY <1>2, OneCall
<1>4. ASSUME Tokens!Done(r) PROVE \E q : CallOK(q, stopped, closed) /\ q.pc # "insert" /\ call' = [call EXCEPT ![r] = q]
  BY <1>4, IdleCall DEF Tokens!Done, Tokens!Goto, Tokens!Idle
<1>5. CASE Tokens!EnterSession(r)
  <2> DEFINE q == [pc |-> "in", by |-> Tokens!SessionOnly, scopes |-> {}, late |-> FALSE, shut |-> FALSE]
  <2>1. Tokens!SessionOnly \notin stopped
    BY <1>1, ServicesGiven DEF TokenRows, Tokens!Apart
  <2>2. CallOK(q, stopped, closed) /\ q.pc # "insert"
    BY <2>1 DEF CallOK, Call, Entering, By
  <2> QED BY <1>5, <2>2 DEF Tokens!EnterSession, Tokens!Goto
<1>6. ASSUME NEW t \in TokenIds, Tokens!EnterToken(r, t)
      PROVE  \E q : CallOK(q, stopped, closed) /\ q.pc # "insert" /\ call' = [call EXCEPT ![r] = q]
  <2> DEFINE q == [pc |-> "known", by |-> t, scopes |-> token[t].scopes, late |-> FALSE, shut |-> FALSE]
  <2>1. t \notin stopped /\ token[t] \in Tokens!Token
    BY <1>1, <1>6 DEF TokenRows, Tokens!EnterToken
  <2>2. token[t].scopes \in SUBSET Tokens!Scopes
    BY <2>1 DEF Tokens!Token
  <2>3. CallOK(q, stopped, closed) /\ q.pc # "insert"
    BY <2>1, <2>2 DEF CallOK, Call, Entering, By
  <2> QED BY <1>6, <2>3 DEF Tokens!EnterToken, Tokens!Goto
<1>7. CASE Tokens!LookAtMaintenance(r)
  <2>1. CASE closed
    BY <1>4, <1>7, <2>1 DEF Tokens!LookAtMaintenance
  <2>2. CASE ~closed
    <3>1. call[r] \in Entering /\ call[r].pc = "known" /\ call' = [call EXCEPT ![r] = [call[r] EXCEPT !.pc = "in"]]
      BY <1>1, <1>7, <2>2, CallShapes DEF Tokens!LookAtMaintenance, Tokens!Goto
    <3>2. CallOK([call[r] EXCEPT !.pc = "in"], stopped, closed) /\ [call[r] EXCEPT !.pc = "in"].pc # "insert"
      BY <1>1, <2>2, <3>1 DEF CallOK, Call, Entering
    <3> QED BY <3>1, <3>2
  <2> QED BY <2>1, <2>2
<1>8. ASSUME NEW scope \in Tokens!Scopes \cup {Tokens!SessionOnly}, Tokens!Gate(r, scope)
      PROVE  \E q : CallOK(q, stopped, closed) /\ q.pc # "insert" /\ call' = [call EXCEPT ![r] = q]
  <2>1. CASE Tokens!TokenDenied(r, scope)
    BY <1>4, <1>8, <2>1 DEF Tokens!Gate
  <2>2. CASE ~Tokens!TokenDenied(r, scope)
    <3> DEFINE q == [pc |-> "act", scope |-> scope, by |-> call[r].by, late |-> call[r].late, shut |-> call[r].shut]
    <3>1. call[r] \in Entering /\ call[r].pc = "in" /\ call' = [call EXCEPT ![r] = q]
      BY <1>1, <1>8, <2>2, CallShapes DEF Tokens!Gate, Tokens!Goto
    <3>2. scope = Tokens!SessionOnly => call[r].by = Tokens!SessionOnly
      BY <2>2 DEF Tokens!TokenDenied
    <3>3. CallOK(q, stopped, closed) /\ q.pc # "insert"
      BY <1>1, <3>1, <3>2 DEF CallOK, Call, Entering, Acting
    <3> QED BY <3>1, <3>3
  <2> QED BY <2>1, <2>2
<1>9. CASE Tokens!Act(r) \/ Tokens!Fail(r)
  BY <1>4, <1>9 DEF Tokens!Act, Tokens!Fail
<1> QED BY <1>5, <1>6, <1>7, <1>8, <1>9

\* parseScopes adds what the write scopes need.
LEMMA ScopesPaired ==
  ASSUME NEW in \in SUBSET Tokens!Scopes
  PROVE  Paired(Tokens!ParseScopes(in)) /\ Tokens!ParseScopes(in) \in SUBSET Tokens!Scopes
<1>1. \A x \in Resources : Tokens!Read(x) \in Tokens!Scopes
  BY DEF Tokens!Read, Tokens!Scopes
<1>2. \A x, y : Tokens!Write(x) # Tokens!Read(y)
  BY DEF Tokens!Read, Tokens!Write
<1>3. CASE in = {}
  BY <1>3 DEF Paired, Tokens!ParseScopes
<1>4. CASE in # {}
  <2>1. Tokens!ParseScopes(in) = in \cup {Tokens!Read(x) : x \in {x \in Resources : Tokens!Write(x) \in in}}
    BY <1>4 DEF Tokens!ParseScopes
  <2>2. ASSUME NEW x \in Resources, Tokens!Write(x) \in Tokens!ParseScopes(in) PROVE Tokens!Read(x) \in Tokens!ParseScopes(in)
    BY <1>2, <2>1, <2>2
  <2> QED BY <1>1, <2>1, <2>2 DEF Paired
<1> QED BY <1>3, <1>4

LEMMA CountTokensStep ==
  ASSUME TokensInv, NEW r \in Calls, NEW in \in SUBSET Tokens!Scopes, Tokens!CountTokens(r, in)
  PROVE  TokensInv'
<1>1. /\ call[r] \in Call /\ CallOK(call[r], stopped, closed) /\ call[r].pc = "act"
      /\ call[r].scope = Tokens!SessionOnly /\ UNCHANGED <<token, closed, stopped>>
  BY DEF TokensInv, Tokens!CountTokens
<1>2. CASE Tokens!Cardinality(Tokens!Listed) >= MaxTokens
  <2>1. call' = [call EXCEPT ![r] = Tokens!Idle]
    BY <1>2 DEF Tokens!CountTokens, Tokens!Done, Tokens!Goto
  <2> QED BY <1>1, <2>1, IdleCall, OneCall DEF Tokens!Idle
<1>3. CASE ~(Tokens!Cardinality(Tokens!Listed) >= MaxTokens)
  <2> DEFINE q == [pc |-> "insert", by |-> call[r].by, scopes |-> Tokens!ParseScopes(in)]
  <2>1. call' = [call EXCEPT ![r] = q]
    BY <1>3 DEF Tokens!CountTokens, Tokens!Goto, Tokens!Done
  <2>2. call[r] \in Acting /\ call[r].by = Tokens!SessionOnly
    BY <1>1, CallShapes DEF CallOK
  <2>3. CallOK(q, stopped, closed)
    BY <2>2, ScopesPaired DEF CallOK, Call, Minting, By
  <2> HIDE DEF q
  <2>4. call' \in [Calls -> Call] /\ \A s \in Calls : CallOK(call'[s], stopped, closed)
    BY <2>1, <2>3 DEF TokensInv, CallOK
  <2>5. Tokens!Listed' = Tokens!Listed /\ Mints' \subseteq Calls
    BY <1>1 DEF Tokens!Listed, Mints
  <2>6. Cardinality(Mints') <= Cardinality(Calls)
    BY <2>5, FS_Subset, CallsFinite
  <2>7. Cardinality(Mints') \in Nat /\ Cardinality(Tokens!Listed) \in Nat
    BY <2>5, FS_Subset, FS_CardinalityType, CallsFinite DEF TokensInv, TokensCounted
  <2>8. TokensCounted'
    BY <1>3, <2>5, <2>6, <2>7, MintsFinite, CallsFinite, SameCardinality DEF TokensInv, TokensCounted
  <2>9. TokenRows'
    BY <1>1 DEF TokensInv, TokenRows
  <2> QED BY <1>1, <2>4, <2>8, <2>9 DEF TokensInv
<1> QED BY <1>2, <1>3

LEMMA CreateTokenStep ==
  ASSUME TokensInv, NEW r \in Calls, NEW t \in TokenIds, Tokens!CreateToken(r, t)
  PROVE  TokensInv'
<1> DEFINE n == [scopes |-> call[r].scopes, live |-> TRUE, by |-> call[r].by]
<1>1. /\ call[r].pc = "insert" /\ token[t] = None /\ t \notin stopped /\ token' = [token EXCEPT ![t] = n]
      /\ call' = [call EXCEPT ![r] = Tokens!Idle] /\ closed' = closed /\ stopped' = stopped
  BY DEF Tokens!CreateToken, Tokens!Done, Tokens!Goto
<1>2. call[r] \in Minting /\ call[r].by = Tokens!SessionOnly /\ Paired(call[r].scopes)
  BY <1>1, CallShapes DEF TokensInv, CallOK
<1>3. n \in Tokens!Token /\ n.by = Tokens!SessionOnly /\ Paired(n.scopes) /\ n # None
  <2>1. call[r].scopes \in SUBSET Tokens!Scopes /\ call[r].by \in TokenIds \cup {Tokens!SessionOnly}
    BY <1>2 DEF Minting
  <2>2. n \in Tokens!Token
    BY <2>1 DEF Tokens!Token
  <2> QED BY <1>2, <2>2, ServicesGiven DEF Tokens!Apart
<1> HIDE DEF n
<1>4. TokenRows'
  BY <1>1, <1>3 DEF TokensInv, TokenRows
<1>5. call' \in [Calls -> Call] /\ \A s \in Calls : CallOK(call'[s], stopped', closed')
  BY <1>1, IdleCall DEF TokensInv, CallOK
<1>6. Tokens!Listed' = Tokens!Listed \cup {t} /\ t \notin Tokens!Listed
  BY <1>1, <1>3 DEF Tokens!Listed, TokensInv, TokenRows
<1>7. Mints' = Mints \ {r} /\ r \in Mints
  BY <1>1 DEF Mints, TokensInv, Tokens!Idle
<1>8. IsFiniteSet(Tokens!Listed') /\ Cardinality(Tokens!Listed') = Cardinality(Tokens!Listed) + 1
  BY <1>6, FS_AddElement DEF TokensInv, TokensCounted
<1>9. Cardinality(Mints') = Cardinality(Mints) - 1
  BY <1>7, FS_RemoveElement, MintsFinite
<1>10. Cardinality(Tokens!Listed) \in Nat
  BY FS_CardinalityType DEF TokensInv, TokensCounted
<1>11. TokensCounted'
  BY <1>8, <1>9, <1>10, MintsFinite, CallsFinite DEF TokensInv, TokensCounted
<1> QED BY <1>4, <1>5, <1>11 DEF TokensInv

\* A token ends, and its requests are late.
LEMMA LateStep ==
  ASSUME TokensInv, NEW t \in TokenIds, NEW s \in Calls
  PROVE  /\ Tokens!Late(call, t)[s] \in Call /\ CallOK(Tokens!Late(call, t)[s], stopped \cup {t}, closed)
         /\ Tokens!Late(call, t)[s].pc = call[s].pc
<1>1. call[s] \in Call /\ CallOK(call[s], stopped, closed)
  BY DEF TokensInv
<1>2. CASE call[s].pc \in {"known", "in", "act"} /\ call[s].by = t
  <2>1. Tokens!Late(call, t)[s] = [call[s] EXCEPT !.late = TRUE]
    BY <1>2 DEF Tokens!Late
  <2>2. call[s] \in Entering \cup Acting
    BY <1>1, <1>2, CallShapes
  <2> QED BY <1>1, <2>1, <2>2 DEF CallOK, Call, Entering, Acting
<1>3. CASE ~(call[s].pc \in {"known", "in", "act"} /\ call[s].by = t)
  <2>1. Tokens!Late(call, t)[s] = call[s]
    BY <1>3 DEF Tokens!Late
  <2> QED BY <1>1, <1>3, <2>1 DEF CallOK
<1> QED BY <1>2, <1>3

LEMMA DeleteTokenStep ==
  ASSUME TokensInv, NEW r \in Calls, NEW t \in TokenIds, Tokens!DeleteToken(r, t)
  PROVE  TokensInv'
<1>1. /\ token' = [token EXCEPT ![t] = None] /\ stopped' = stopped \cup {t} /\ closed' = closed
      /\ call' = [Tokens!Late(call, t) EXCEPT ![r] = Tokens!Idle]
  BY DEF Tokens!DeleteToken
<1>2. DOMAIN Tokens!Late(call, t) = Calls /\ Tokens!Late(call, t) = [s \in Calls |-> Tokens!Late(call, t)[s]]
  BY DEF Tokens!Late
<1>3. ASSUME NEW s \in Calls
      PROVE  /\ call'[s] \in Call /\ CallOK(call'[s], stopped', closed')
             /\ call'[s].pc = "insert" => call[s].pc = "insert"
  <2>1. CASE s = r
    BY <1>1, <1>2, <2>1, IdleCall DEF CallOK, Tokens!Idle
  <2>2. CASE s # r
    BY <1>1, <1>2, <2>2, LateStep
  <2> QED BY <2>1, <2>2
<1>4. call' \in [Calls -> Call]
  BY <1>1, <1>2, <1>3
<1>5. Tokens!Listed' \subseteq Tokens!Listed /\ Mints' \subseteq Mints
  BY <1>1, <1>3 DEF Tokens!Listed, Mints, TokensInv, TokenRows
<1>6. TokensCounted'
  BY <1>5, FewerTokens DEF TokensInv
<1>7. TokenRows'
  BY <1>1 DEF TokensInv, TokenRows
<1> QED BY <1>3, <1>4, <1>6, <1>7 DEF TokensInv

LEMMA TokenExpireStep ==
  ASSUME TokensInv, NEW t \in TokenIds, Tokens!Expire(t)
  PROVE  TokensInv'
<1>1. /\ token[t] # None /\ token' = [token EXCEPT ![t].live = FALSE] /\ stopped' = stopped \cup {t} /\ closed' = closed
      /\ call' = Tokens!Late(call, t)
  BY DEF Tokens!Expire
<1>2. \A s \in Calls : call'[s] \in Call /\ CallOK(call'[s], stopped', closed') /\ call'[s].pc = call[s].pc
  BY <1>1, LateStep
<1>3. call' \in [Calls -> Call]
  BY <1>1, <1>2 DEF Tokens!Late
<1>4. token[t] \in Tokens!Token
  BY <1>1 DEF TokensInv, TokenRows
<1>5. /\ token'[t] \in Tokens!Token /\ ~token'[t].live /\ token'[t] # None
      /\ token'[t].by = token[t].by /\ token'[t].scopes = token[t].scopes
  BY <1>1, <1>4, ServicesGiven DEF Tokens!Token, Tokens!Apart, TokensInv, TokenRows
<1>6. TokenRows'
  BY <1>1, <1>5 DEF TokensInv, TokenRows
<1>7. Tokens!Listed' \subseteq Tokens!Listed /\ Mints' \subseteq Mints
  BY <1>1, <1>2 DEF Tokens!Listed, Mints, TokensInv, TokenRows
<1>8. TokensCounted'
  BY <1>7, FewerTokens DEF TokensInv
<1> QED BY <1>2, <1>3, <1>6, <1>8 DEF TokensInv

LEMMA DeleteExpiredTokensStep ==
  ASSUME TokensInv, Tokens!DeleteExpiredTokens
  PROVE  TokensInv'
<1>1. /\ token' = [t \in TokenIds |-> IF token[t] # None /\ token[t].live THEN token[t] ELSE None]
      /\ closed' = closed /\ call' = call /\ stopped' = stopped
  BY DEF Tokens!DeleteExpiredTokens
<1>2. TokenRows'
  BY <1>1 DEF TokensInv, TokenRows
<1>3. Tokens!Listed' \subseteq Tokens!Listed /\ Mints' = Mints
  BY <1>1 DEF Tokens!Listed, Mints
<1>4. TokensCounted'
  BY <1>3, FewerTokens DEF TokensInv
<1> QED BY <1>1, <1>2, <1>4 DEF TokensInv

LEMMA SetMaintenanceStep ==
  ASSUME TokensInv, NEW on \in BOOLEAN, Tokens!SetMaintenance(on)
  PROVE  TokensInv'
<1>1. /\ call' = [r \in Calls |-> IF call[r].pc \in {"in", "act"} THEN [call[r] EXCEPT !.shut = on] ELSE call[r]]
      /\ closed' = on /\ token' = token /\ stopped' = stopped
  BY DEF Tokens!SetMaintenance
<1>2. ASSUME NEW s \in Calls PROVE CallOK(call'[s], stopped', closed') /\ call'[s] \in Call /\ call'[s].pc = call[s].pc
  <2>1. call[s] \in Call /\ CallOK(call[s], stopped, closed)
    BY DEF TokensInv
  <2>2. CASE call[s].pc \in {"in", "act"}
    <3>1. call'[s] = [call[s] EXCEPT !.shut = on] /\ call[s] \in Entering \cup Acting
      BY <1>1, <2>1, <2>2, CallShapes
    <3> QED BY <1>1, <2>1, <2>2, <3>1 DEF CallOK, Call, Entering, Acting
  <2>3. CASE call[s].pc \notin {"in", "act"}
    BY <1>1, <2>1, <2>3 DEF CallOK
  <2> QED BY <2>2, <2>3
<1>3. call' \in [Calls -> Call]
  BY <1>1, <1>2
<1>4. TokenRows'
  BY <1>1 DEF TokensInv, TokenRows
<1>5. Tokens!Listed' = Tokens!Listed /\ Mints' \subseteq Mints
  BY <1>1, <1>2 DEF Tokens!Listed, Mints
<1>6. TokensCounted'
  BY <1>5, FewerTokens DEF TokensInv
<1> QED BY <1>2, <1>3, <1>4, <1>6 DEF TokensInv

LEMMA TokensStep == ASSUME TokensInv, Tokens!Next \/ UNCHANGED tokens PROVE TokensInv'
<1>1. CASE UNCHANGED tokens
  BY <1>1 DEF tokens, TokensInv, TokenRows, TokensCounted, Mints, Tokens!Listed
<1>2. CASE Tokens!Next
  BY <1>2, EnterStep, CountTokensStep, CreateTokenStep, DeleteTokenStep, TokenExpireStep, DeleteExpiredTokensStep,
     SetMaintenanceStep DEF Tokens!Next
<1> QED BY <1>1, <1>2

LEMMA TokensAlways == ServicesSpec => [](focus = "tokens" => TokensInv)
<1>1. ServicesInit => (focus = "tokens" => TokensInv)
  BY TokensInit DEF ServicesInit
<1>2. (focus = "tokens" => TokensInv) /\ [ServicesNext]_all => (focus = "tokens" => TokensInv)'
  BY Focused, TokensStep
<1> QED BY <1>1, <1>2, PTL DEF ServicesSpec

\* identify and gate (web/auth.go): what a token that ended, or maintenance, does not stop was let in before.
THEOREM TokensStopAtOnce == ServicesSpec => []StoppedAtOnce
<1>1. (focus = "tokens" => TokensInv) => StoppedAtOnce
  BY DEF TokensInv, CallOK, StoppedAtOnce, Tokens!StoppedAtOnce
<1> QED BY <1>1, TokensAlways, PTL

\* create-my-token (web/tokens.go): tokens are made by sessions, with scopes that go together, and requests that count
\* at the same time exceed the limit by no more than one token each, but the first.
THEOREM TokensWithinLimit == ServicesSpec => []TokensListed
<1>1. ASSUME TokensInv PROVE Tokens!TokensListed
  <2>1. Cardinality(Tokens!Listed) \in Nat
    BY <1>1, FS_CardinalityType DEF TokensInv, TokensCounted
  <2>2. Cardinality(Tokens!Listed) <= MaxTokens + Cardinality(Calls) - 1
    BY <1>1, <2>1, MintsFinite, CallsFinite DEF TokensInv, TokensCounted
  <2> QED BY <1>1, <2>2, SameCardinality DEF TokensInv, TokenRows, Paired, Tokens!TokensListed, Tokens!Listed
<1>2. (focus = "tokens" => TokensInv) => TokensListed
  BY <1>1 DEF TokensListed
<1> QED BY <1>2, TokensAlways, PTL
-------------------------------------------------------------------------------
(***************************************************************************)
(* Rate limits.  An attempt may still count a key once it is past the      *)
(* question and before the count; with what is counted in a live row these *)
(* never exceed the maximum by more than the attempts beside the first.    *)
(* Of what an observer saw, the row tells how much, and whether there was  *)
(* another one before it.                                                  *)
(***************************************************************************)
StepOf == [op : {"ask", "hit", "prove", "count"}, kind : Limits!Kinds \cup {None}]
Sound(step) ==
    /\ step \in StepOf
    /\ step.op # "prove" => step.kind \in Limits!Kinds
    /\ step.op \in {"ask", "count"} => step.kind \in Limits!AskFirst
    /\ step.op = "hit" => step.kind \notin Limits!AskFirst

\* Questions come first, and failures are counted once each, at the end.
Ordered(todo) ==
    /\ todo \in Seq(StepOf)
    /\ \A i \in 1 .. Len(todo) : Sound(todo[i])
    /\ \A i, j \in 1 .. Len(todo) : i < j /\ todo[j].op = "ask" => todo[i].op = "ask"
    /\ \A i, j \in 1 .. Len(todo) : todo[i].op = "count" => todo[j].op = "count"
    /\ \A i, j \in 1 .. Len(todo) : todo[i].op = "count" /\ i # j => todo[i].kind # todo[j].kind

Has(todo, op, kind) == \E i \in 1 .. Len(todo) : todo[i].op = op /\ todo[i].kind = kind
Proves(todo) == \E i \in 1 .. Len(todo) : todo[i].op = "prove"

\* What the table of the routes says.
Routed(route) ==
    /\ Ordered(Limits!Steps(route)) /\ Ordered(Limits!Failures(route))
    /\ \A kind \in Limits!Kinds :
         /\ ~Has(Limits!Steps(route), "count", kind)
         /\ Has(Limits!Failures(route), "count", kind) => Has(Limits!Steps(route), "ask", kind)
    /\ \A i \in 1 .. Len(Limits!Failures(route)) : Limits!Failures(route)[i].op = "count"

Short(s) == s \in Seq(StepOf) /\ (\A i \in 1 .. Len(s) : Sound(s[i]) /\ s[i].op \in {"hit", "prove"})

LEMMA StepSound ==
  /\ \A kind \in Limits!AskFirst : Sound(Limits!Step("ask", kind)) /\ Sound(Limits!Step("count", kind))
  /\ \A kind \in Limits!Kinds \ Limits!AskFirst : Sound(Limits!Step("hit", kind))
  /\ Sound(Limits!Prove)
BY DEF Sound, StepOf, Limits!Step, Limits!Prove, Limits!AskFirst, Limits!Kinds

LEMMA ShortOne == ASSUME NEW x, Sound(x), x.op \in {"hit", "prove"} PROVE Short(<<x>>)
BY DEF Short, Sound

LEMMA ShortTwo ==
  ASSUME NEW x, NEW y, Sound(x), x.op \in {"hit", "prove"}, Sound(y), y.op \in {"hit", "prove"}
  PROVE Short(<<x, y>>)
BY DEF Short, Sound

LEMMA ShortBoth == ASSUME NEW s, NEW t, Short(s), Short(t) PROVE Short(s \o t)
<1>1. s \o t \in Seq(StepOf) /\ Len(s \o t) = Len(s) + Len(t)
  BY DEF Short
<1>2. ASSUME NEW i \in 1 .. Len(s \o t) PROVE (s \o t)[i] = IF i <= Len(s) THEN s[i] ELSE t[i - Len(s)]
  BY <1>1, <1>2 DEF Short
<1>3. \A i \in 1 .. Len(s \o t) : i <= Len(s) \/ i - Len(s) \in 1 .. Len(t)
  BY <1>1 DEF Short
<1> QED BY <1>1, <1>2, <1>3 DEF Short

\* Routes that only hit.
LEMMA ShortRouted ==
  ASSUME NEW route, Short(Limits!Steps(route)), Limits!Failures(route) = << >>
  PROVE  Routed(route)
<1> DEFINE s == Limits!Steps(route)
<1>1. s \in Seq(StepOf) /\ Len(s) \in Nat /\ \A i \in 1 .. Len(s) : Sound(s[i]) /\ s[i].op \in {"hit", "prove"}
  BY DEF Short
<1>2. Ordered(s) /\ \A kind : ~Has(s, "count", kind)
  BY <1>1 DEF Ordered, Has
<1>3. Ordered(<< >>) /\ \A kind : ~Has(<< >>, "count", kind)
  BY DEF Ordered, Has
<1> QED BY <1>2, <1>3 DEF Routed

LEMMA Tuples ==
  ASSUME NEW s1 \in StepOf, NEW s2 \in StepOf, NEW s3 \in StepOf, NEW s4 \in StepOf
  PROVE  /\ <<s1>> \in Seq(StepOf) /\ Len(<<s1>>) = 1
         /\ <<s1, s2, s3>> \in Seq(StepOf) /\ Len(<<s1, s2, s3>>) = 3
         /\ <<s1, s2, s3, s4>> \in Seq(StepOf) /\ Len(<<s1, s2, s3, s4>>) = 4
OBVIOUS

LEMMA LoginRouted == Routed("login")
<1> DEFINE s == Limits!Login
           f == Limits!Failures("login")
           A(kind) == Limits!Step("ask", kind)
           C(kind) == Limits!Step("count", kind)
<1>1. /\ Limits!Steps("login") = s /\ s = <<A("login:ip"), A("login:pair"), A("login:user"), Limits!Prove>>
      /\ f = <<C("login:ip"), C("login:pair"), C("login:user")>>
  BY DEF Limits!Steps, Limits!Failures, Limits!Login
<1>2. Sound(A("login:ip")) /\ Sound(A("login:pair")) /\ Sound(A("login:user")) /\ Sound(Limits!Prove)
  BY StepSound DEF Limits!AskFirst
<1>3. Sound(C("login:ip")) /\ Sound(C("login:pair")) /\ Sound(C("login:user"))
  BY StepSound DEF Limits!AskFirst
<1>4. \A kind : A(kind).op = "ask" /\ A(kind).kind = kind /\ C(kind).op = "count" /\ C(kind).kind = kind /\ Limits!Prove.op = "prove"
  BY DEF Limits!Step, Limits!Prove
<1>5. s \in Seq(StepOf) /\ f \in Seq(StepOf) /\ Len(s) = 4 /\ Len(f) = 3
  <2> HIDE DEF s, f, A, C
  <2> QED BY <1>1, <1>2, <1>3, Tuples DEF Sound
<1>6. /\ s[1] = A("login:ip") /\ s[2] = A("login:pair") /\ s[3] = A("login:user") /\ s[4] = Limits!Prove
      /\ f[1] = C("login:ip") /\ f[2] = C("login:pair") /\ f[3] = C("login:user")
  BY <1>1
<1> HIDE DEF s, f, A, C
<1>7. Ordered(s)
  BY <1>2, <1>4, <1>5, <1>6 DEF Ordered
<1>8. Ordered(f) /\ \A i \in 1 .. Len(f) : f[i].op = "count"
  BY <1>3, <1>4, <1>5, <1>6 DEF Ordered
<1>9. \A kind : ~Has(s, "count", kind) /\ (Has(f, "count", kind) => Has(s, "ask", kind))
  <2>1. \A i \in 1 .. 4 : s[i].op # "count"
    BY <1>4, <1>6
  <2>2. \A i \in 1 .. 3 : s[i].op = "ask" /\ s[i].kind = f[i].kind
    BY <1>4, <1>6
  <2> QED BY <1>5, <2>1, <2>2 DEF Has
<1> QED BY <1>1, <1>7, <1>8, <1>9 DEF Routed, f

LEMMA TokenRouted == Routed("token")
<1> DEFINE s == Limits!Token
           f == Limits!Failures("token")
           A(kind) == Limits!Step("ask", kind)
           C(kind) == Limits!Step("count", kind)
           H(kind) == Limits!Step("hit", kind)
<1>1. /\ Limits!Steps("token") = s /\ s = <<A("token:ip"), Limits!Prove, H("token"), H("api:user")>>
      /\ f = <<C("token:ip")>>
  BY DEF Limits!Steps, Limits!Failures, Limits!Token
<1>2. Sound(A("token:ip")) /\ Sound(H("token")) /\ Sound(H("api:user")) /\ Sound(Limits!Prove) /\ Sound(C("token:ip"))
  BY StepSound DEF Limits!AskFirst, Limits!Kinds
<1>3. \A kind : /\ A(kind).op = "ask" /\ A(kind).kind = kind /\ C(kind).op = "count" /\ C(kind).kind = kind
                /\ H(kind).op = "hit" /\ Limits!Prove.op = "prove"
  BY DEF Limits!Step, Limits!Prove
<1>4. s \in Seq(StepOf) /\ f \in Seq(StepOf) /\ Len(s) = 4 /\ Len(f) = 1
  <2> HIDE DEF s, f, A, C, H
  <2> QED BY <1>1, <1>2, Tuples DEF Sound
<1>5. s[1] = A("token:ip") /\ s[2] = Limits!Prove /\ s[3] = H("token") /\ s[4] = H("api:user") /\ f[1] = C("token:ip")
  BY <1>1
<1> HIDE DEF s, f, A, C, H
<1>6. Ordered(s)
  BY <1>2, <1>3, <1>4, <1>5 DEF Ordered
<1>7. Ordered(f) /\ \A i \in 1 .. Len(f) : f[i].op = "count"
  BY <1>2, <1>3, <1>4, <1>5 DEF Ordered
<1>8. \A kind : ~Has(s, "count", kind) /\ (Has(f, "count", kind) => Has(s, "ask", kind))
  <2>1. \A i \in 1 .. 4 : s[i].op # "count"
    BY <1>3, <1>5
  <2>2. s[1].op = "ask" /\ s[1].kind = f[1].kind
    BY <1>3, <1>5
  <2> QED BY <1>4, <2>1, <2>2 DEF Has
<1> QED BY <1>1, <1>6, <1>7, <1>8 DEF Routed, f

LEMMA ShortRoutes ==
  ASSUME NEW route \in Limits!Routes, route \notin {"login", "token"}
  PROVE  Short(Limits!Steps(route)) /\ Limits!Failures(route) = << >>
<1> DEFINE H(kind) == Limits!Step("hit", kind)
<1> SUFFICES Short(Limits!Steps(route))
  BY DEF Limits!Failures
<1>1. \A kind \in Limits!Kinds \ Limits!AskFirst : Sound(H(kind)) /\ H(kind).op = "hit"
  BY StepSound DEF Limits!Step
<1>2. \A kind \in Limits!Kinds \ Limits!AskFirst : Short(<<H(kind)>>)
  <2> HIDE DEF H
  <2> QED BY <1>1, ShortOne
<1>3. \A kind, k \in Limits!Kinds \ Limits!AskFirst : Short(<<H(kind), H(k)>>)
  <2> HIDE DEF H
  <2> QED BY <1>1, ShortTwo
<1>4. \A kind \in Limits!Kinds \ Limits!AskFirst : Short(<<H(kind), Limits!Prove>>)
  <2>1. Limits!Prove.op = "prove"
    BY DEF Limits!Prove
  <2> HIDE DEF H
  <2> QED BY <1>1, <2>1, StepSound, ShortTwo
<1>5. {"token", "api:user", "compute:user", "hfmap:user", "register:ip", "register:mail", "forgot:ip", "forgot:mail",
       "verify:user", "admin:ip", "share"} \subseteq Limits!Kinds \ Limits!AskFirst
  BY DEF Limits!Kinds, Limits!AskFirst
<1>6. CASE route = "session"
  BY <1>2, <1>5, <1>6 DEF Limits!Steps, Limits!Session
<1>7. CASE route = "compute"
  <2>1. Short(Limits!Session \o <<H("compute:user")>>)
    BY <1>2, <1>5, ShortBoth DEF Limits!Session
  <2> QED BY <1>7, <2>1 DEF Limits!Steps, Limits!Compute
<1>8. CASE route = "hfmap"
  <2>1. Short(Limits!Session \o <<H("hfmap:user")>>)
    BY <1>2, <1>5, ShortBoth DEF Limits!Session
  <2> QED BY <1>8, <2>1 DEF Limits!Steps, Limits!HFMap
<1>9. CASE route = "register"
  BY <1>3, <1>5, <1>9 DEF Limits!Steps, Limits!Register
<1>10. CASE route = "forgot"
  BY <1>3, <1>5, <1>10 DEF Limits!Steps, Limits!Forgot
<1>11. CASE route = "verify"
  BY <1>2, <1>5, <1>11 DEF Limits!Steps, Limits!Verify
<1>12. CASE route = "admin"
  BY <1>4, <1>5, <1>12 DEF Limits!Steps, Limits!Admin
<1>13. CASE route = "share"
  BY <1>2, <1>5, <1>13 DEF Limits!Steps, Limits!Share
<1>14. CASE route = "binary"
  BY <1>2, <1>5, <1>14 DEF Limits!Steps, Limits!Binary
<1> QED BY <1>6, <1>7, <1>8, <1>9, <1>10, <1>11, <1>12, <1>13, <1>14 DEF Limits!Routes

LEMMA RoutesRouted == ASSUME NEW route \in Limits!Routes PROVE Routed(route)
BY ShortRoutes, ShortRouted, LoginRouted, TokenRouted

Att == [route : Limits!Routes, ip : IPs, subject : Subjects, todo : Seq(StepOf), refused : BOOLEAN]
Kind == watch[1]

\* The attempts that may still count the key of the observer.
MayCount(q) ==
    /\ q # None
    /\ Limits!KeyOf(Kind, q.ip, q.subject) = watch
    /\ ~Has(q.todo, "ask", Kind)
    /\ Has(q.todo, "count", Kind) \/ (Proves(q.todo) /\ Has(Limits!Failures(q.route), "count", Kind))
Guessing == {a \in Attempts : MayCount(att[a])}

Cap == IF Kind \in Limits!AskFirst THEN Max[Kind] + Cardinality(mix.attempts) - 1 ELSE Max[Kind]
Row == rate[watch]

AttemptsOK ==
    /\ mix \in [routes : SUBSET Limits!Routes, ips : SUBSET IPs, attempts : SUBSET Attempts]
    /\ att \in [Attempts -> Att \cup {None}]
    /\ \A a \in Attempts : att[a] # None => a \in mix.attempts /\ Ordered(att[a].todo)

Watched ==
    /\ Kind \in Limits!Kinds
    /\ since \in 0 .. LimitWindow[Kind] /\ seen \in Nat
    /\ watch \in DOMAIN rate => Row \in [count : Nat, age : Nat]

GuessesCounted ==
    Kind \in Limits!AskFirst /\ watch \in DOMAIN rate =>
        /\ Row.count <= Cap
        /\ Row.age <= LimitWindow[Kind] => Row.count + Cardinality(Guessing) <= Cap

SeenCounted ==
    IF watch \in DOMAIN rate
    THEN IF Row.age > since THEN seen <= Row.count /\ seen <= Cap ELSE seen <= Cap + Row.count /\ seen <= 2 * Cap
    ELSE seen <= Cap

LimitsInv == AttemptsOK /\ Watched /\ GuessesCounted /\ SeenCounted

LEMMA LimitsFinite == ASSUME NEW S PROVE Limits!IsFiniteSet(S) <=> IsFiniteSet(S)
BY DEF IsFiniteSet, Limits!IsFiniteSet

LEMMA LimitsCardinality == ASSUME NEW S PROVE Limits!Cardinality(S) = Cardinality(S)
BY DEF Cardinality, Limits!Cardinality

LEMMA LimitsConstants ==
  /\ Max \in [Limits!Kinds -> Nat \ {0}] /\ Day \in Nat /\ LimitWindow \in [Limits!Kinds -> 0 .. Day]
  /\ IsFiniteSet(Attempts) /\ Cardinality(Attempts) \in Nat
  /\ Mixes \subseteq [routes : SUBSET Limits!Routes, ips : SUBSET IPs, attempts : SUBSET Attempts]
  /\ \A m \in Mixes : m.attempts # {}
BY LimitsFinite, FS_CardinalityType, ServicesGiven DEF Limits!Bounds

LEMMA KeyKind == ASSUME NEW kind, NEW ip, NEW s PROVE Limits!KeyOf(kind, ip, s)[1] = kind
BY DEF Limits!KeyOf

\* How many there may be.
LEMMA Caps ==
  ASSUME AttemptsOK, Watched
  PROVE  /\ IsFiniteSet(mix.attempts) /\ Cardinality(mix.attempts) \in Nat
         /\ IsFiniteSet(Guessing) /\ Cardinality(Guessing) \in Nat
         /\ Cardinality(Guessing) <= Cardinality(mix.attempts) /\ Cardinality(mix.attempts) <= Cardinality(Attempts)
         /\ Max[Kind] \in Nat \ {0} /\ Cap \in Nat /\ Cap <= Max[Kind] + Cardinality(Attempts)
<1>1. mix.attempts \subseteq Attempts /\ Guessing \subseteq mix.attempts
  BY DEF AttemptsOK, Guessing, MayCount
<1>2. /\ IsFiniteSet(mix.attempts) /\ Cardinality(mix.attempts) \in Nat
      /\ IsFiniteSet(Guessing) /\ Cardinality(Guessing) \in Nat
      /\ Cardinality(Guessing) <= Cardinality(mix.attempts) /\ Cardinality(mix.attempts) <= Cardinality(Attempts)
  BY <1>1, LimitsConstants, FS_Subset, FS_CardinalityType
<1>3. Max[Kind] \in Nat \ {0}
  BY LimitsConstants DEF Watched
<1> QED BY <1>2, <1>3, LimitsConstants DEF Cap

(***************************************************************************)
(* One step of an attempt.                                                 *)
(***************************************************************************)
LEMMA TailOrdered ==
  ASSUME NEW todo, Ordered(todo), todo # << >>
  PROVE  /\ Ordered(Tail(todo)) /\ Sound(Head(todo))
         /\ \A op, kind : Has(todo, op, kind) <=> (Head(todo).op = op /\ Head(todo).kind = kind) \/ Has(Tail(todo), op, kind)
         /\ Proves(todo) <=> Head(todo).op = "prove" \/ Proves(Tail(todo))
         /\ Head(todo).op # "ask" => \A kind : ~Has(todo, "ask", kind)
         /\ Head(todo).op = "count" => ~Proves(todo) /\ ~Has(Tail(todo), "count", Head(todo).kind)
<1> DEFINE rest == Tail(todo)
<1>1. /\ todo \in Seq(StepOf) /\ Len(todo) \in Nat /\ Len(todo) > 0 /\ Head(todo) = todo[1]
      /\ rest \in Seq(StepOf) /\ Len(rest) = Len(todo) - 1 /\ \A i \in 1 .. Len(rest) : rest[i] = todo[i + 1]
  BY DEF Ordered
<1>2. \A i \in 1 .. Len(rest) : i + 1 \in 1 .. Len(todo)
  BY <1>1
<1>3. \A i \in 1 .. Len(todo) : i = 1 \/ (i - 1 \in 1 .. Len(rest) /\ rest[i - 1] = todo[i])
  BY <1>1
<1> HIDE DEF rest
<1>4. Ordered(rest)
  <2>1. \A i \in 1 .. Len(rest) : Sound(rest[i])
    BY <1>1, <1>2 DEF Ordered
  <2>2. \A i, j \in 1 .. Len(rest) : i < j /\ rest[j].op = "ask" => rest[i].op = "ask"
    <3> TAKE i, j \in 1 .. Len(rest)
    <3>1. i + 1 \in 1 .. Len(todo) /\ j + 1 \in 1 .. Len(todo) /\ (i < j => i + 1 < j + 1)
      BY <1>1, <1>2
    <3> QED BY <1>1, <3>1 DEF Ordered
  <2>3. \A i, j \in 1 .. Len(rest) : rest[i].op = "count" => rest[j].op = "count"
    BY <1>1, <1>2 DEF Ordered
  <2>4. \A i, j \in 1 .. Len(rest) : rest[i].op = "count" /\ i # j => rest[i].kind # rest[j].kind
    <3> TAKE i, j \in 1 .. Len(rest)
    <3>1. i + 1 \in 1 .. Len(todo) /\ j + 1 \in 1 .. Len(todo) /\ (i # j => i + 1 # j + 1)
      BY <1>1, <1>2
    <3> QED BY <1>1, <3>1 DEF Ordered
  <2> QED BY <1>1, <2>1, <2>2, <2>3, <2>4 DEF Ordered
<1>5. \A op, kind : Has(todo, op, kind) <=> (todo[1].op = op /\ todo[1].kind = kind) \/ Has(rest, op, kind)
  <2> TAKE op, kind
  <2>1. Has(todo, op, kind) => (todo[1].op = op /\ todo[1].kind = kind) \/ Has(rest, op, kind)
    BY <1>3 DEF Has
  <2>2. Has(rest, op, kind) => Has(todo, op, kind)
    BY <1>1, <1>2 DEF Has
  <2>3. todo[1].op = op /\ todo[1].kind = kind => Has(todo, op, kind)
    BY <1>1 DEF Has
  <2> QED BY <2>1, <2>2, <2>3
<1>6. Proves(todo) <=> todo[1].op = "prove" \/ Proves(rest)
  <2>1. Proves(todo) => todo[1].op = "prove" \/ Proves(rest)
    BY <1>3 DEF Proves
  <2>2. Proves(rest) => Proves(todo)
    BY <1>1, <1>2 DEF Proves
  <2>3. todo[1].op = "prove" => Proves(todo)
    BY <1>1 DEF Proves
  <2> QED BY <2>1, <2>2, <2>3
<1>7. 1 \in 1 .. Len(todo)
  BY <1>1
<1>8. todo[1].op # "ask" => \A kind : ~Has(todo, "ask", kind)
  BY <1>1, <1>7 DEF Has, Ordered
<1>9. todo[1].op = "count" => ~Proves(todo)
  BY <1>1, <1>7 DEF Proves, Ordered
<1>10. todo[1].op = "count" => ~Has(rest, "count", todo[1].kind)
  BY <1>1, <1>2, <1>7 DEF Has, Ordered
<1>11. Sound(todo[1])
  BY <1>7 DEF Ordered
<1> QED BY <1>1, <1>4, <1>5, <1>6, <1>8, <1>9, <1>10, <1>11 DEF rest

LEMMA NothingLeft == Ordered(<< >>) /\ ~Proves(<< >>) /\ \A op, kind : ~Has(<< >>, op, kind)
BY DEF Ordered, Proves, Has

\* The key of the next step is that of the observer, or its kind is another one.
LEMMA KeyWatched ==
  ASSUME NEW a
  PROVE  Limits!Key(a) = watch <=>
             Head(att[a].todo).kind = Kind /\ Limits!KeyOf(Kind, att[a].ip, att[a].subject) = watch
BY KeyKind DEF Limits!Key, Kind

LEMMA LimitsInit == Limits!Init => LimitsInv
<1> SUFFICES ASSUME Limits!Init PROVE LimitsInv
  OBVIOUS
<1>1. AttemptsOK
  BY LimitsConstants DEF Limits!Init, AttemptsOK
<1>2. PICK step \in {x \in UNION {Limits!Range(Limits!Steps(route)) : route \in mix.routes} : x.op # "prove"} :
        \E ip \in mix.ips, s \in Subjects : watch = Limits!KeyOf(step.kind, ip, s)
  BY DEF Limits!Init, Limits!Keys
<1>3. PICK route \in mix.routes : step \in Limits!Range(Limits!Steps(route))
  BY <1>2
<1>4. Kind \in Limits!Kinds
  <2>1. Ordered(Limits!Steps(route))
    BY <1>1, <1>3, RoutesRouted DEF AttemptsOK, Routed
  <2>2. DOMAIN Limits!Steps(route) = 1 .. Len(Limits!Steps(route))
    BY <2>1 DEF Ordered
  <2>3. Sound(step)
    BY <1>3, <2>1, <2>2 DEF Ordered, Limits!Range
  <2> QED BY <1>2, <2>3, KeyKind DEF Sound, Kind
<1>5. since = 0 /\ seen = 0 /\ rate = << >> /\ watch \notin DOMAIN rate
  BY DEF Limits!Init
<1>6. Watched
  BY <1>4, <1>5, LimitsConstants DEF Watched
<1> QED BY <1>1, <1>5, <1>6, Caps DEF LimitsInv, GuessesCounted, SeenCounted

\* What an attempt has left afterwards.
LEMMA Left ==
  ASSUME AttemptsOK, NEW a \in Attempts, att[a] # None, NEW todo, Ordered(todo), Limits!Goes(a, todo)
  PROVE  /\ att' \in [Attempts -> Att \cup {None}]
         /\ att'[a] = None \/ att'[a] = [att[a] EXCEPT !.todo = todo]
         /\ \A b \in Attempts : b # a => att'[b] = att[b]
<1>1. att[a] \in Att /\ todo \in Seq(StepOf)
  BY DEF AttemptsOK, Ordered
<1>2. [att[a] EXCEPT !.todo = todo] \in Att
  BY <1>1 DEF Att
<1> QED BY <1>1, <1>2 DEF Limits!Goes, AttemptsOK

\* Attempts that do not come to count more leave room for what was counted.
LEMMA Fewer ==
  ASSUME AttemptsOK, Watched, GuessesCounted, SeenCounted, NEW a \in Attempts,
         att' \in [Attempts -> Att \cup {None}], \A b \in Attempts : b # a => att'[b] = att[b],
         att'[a] # None => a \in mix.attempts /\ Ordered(att'[a].todo),
         UNCHANGED <<mix, watch, since, seen>>,
         watch \in DOMAIN rate' <=> watch \in DOMAIN rate, watch \in DOMAIN rate => rate'[watch] = rate[watch],
         \/ MayCount(att[a])
         \/ ~MayCount(att[a])'
         \/ Kind \in Limits!AskFirst /\ Limits!RateCount(watch) < Max[Kind]
  PROVE  LimitsInv'
<1>1. AttemptsOK' /\ Watched' /\ SeenCounted'
  BY DEF AttemptsOK, Watched, SeenCounted, Cap, Row, Kind
<1>2. CASE Kind \notin Limits!AskFirst
  BY <1>1, <1>2 DEF LimitsInv, GuessesCounted, Kind
<1>3. CASE MayCount(att[a]) \/ ~MayCount(att[a])'
  <2>1. Guessing' \subseteq Guessing
    BY <1>3 DEF Guessing, MayCount, Kind
  <2>2. Cardinality(Guessing') \in Nat /\ Cardinality(Guessing') <= Cardinality(Guessing)
    BY <2>1, Caps, FS_Subset, FS_CardinalityType
  <2>3. GuessesCounted'
    BY <2>2, Caps DEF GuessesCounted, Cap, Row, Kind, Watched
  <2> QED BY <1>1, <2>3 DEF LimitsInv
<1>4. CASE Kind \in Limits!AskFirst /\ Limits!RateCount(watch) < Max[Kind]
  <2>1. Cardinality(Guessing)' \in Nat /\ Cardinality(Guessing)' <= Cardinality(mix.attempts)
    <3>1. Guessing' \subseteq mix.attempts
      BY <1>1 DEF Guessing, MayCount, AttemptsOK
    <3> QED BY <3>1, Caps, FS_Subset, FS_CardinalityType
  <2>2. watch \in DOMAIN rate /\ Row.age <= LimitWindow[Kind] => Row.count < Max[Kind]
    BY <1>4 DEF Limits!RateCount, Row, Kind
  <2>3. GuessesCounted'
    BY <1>4, <2>1, <2>2, Caps DEF GuessesCounted, Cap, Row, Kind, Watched
  <2> QED BY <1>1, <2>3 DEF LimitsInv
<1> QED BY <1>2, <1>3, <1>4

\* Only a question that is passed makes an attempt one that may count.
LEMMA TailCounts ==
  ASSUME NEW q \in Att, q # None, Ordered(q.todo), q.todo # << >>, MayCount([q EXCEPT !.todo = Tail(q.todo)])
  PROVE  \/ MayCount(q)
         \/ Head(q.todo).op = "ask" /\ Head(q.todo).kind = Kind /\ Limits!KeyOf(Kind, q.ip, q.subject) = watch
<1> DEFINE r == [q EXCEPT !.todo = Tail(q.todo)]
<1>1. r.ip = q.ip /\ r.subject = q.subject /\ r.route = q.route /\ r.todo = Tail(q.todo)
  BY DEF Att
<1> HIDE DEF r
<1>2. MayCount(r)
  BY DEF r
<1>3. /\ Limits!KeyOf(Kind, q.ip, q.subject) = watch /\ ~Has(Tail(q.todo), "ask", Kind)
      /\ Has(Tail(q.todo), "count", Kind) \/ (Proves(Tail(q.todo)) /\ Has(Limits!Failures(q.route), "count", Kind))
  BY <1>1, <1>2 DEF MayCount
<1>4. Has(q.todo, "count", Kind) \/ (Proves(q.todo) /\ Has(Limits!Failures(q.route), "count", Kind))
  BY <1>3, TailOrdered
<1>5. Has(q.todo, "ask", Kind) => Head(q.todo).op = "ask" /\ Head(q.todo).kind = Kind
  BY <1>3, TailOrdered
<1> QED BY <1>3, <1>4, <1>5 DEF MayCount

LEMMA BeginStep == ASSUME LimitsInv, NEW a \in Attempts, Limits!Begin(a) PROVE LimitsInv'
<1>1. PICK route \in mix.routes, ip \in mix.ips, s \in Subjects :
        att' = [att EXCEPT ![a] =
                    [route |-> route, ip |-> ip, subject |-> s, todo |-> Limits!Steps(route), refused |-> FALSE]]
  BY DEF Limits!Begin
<1> DEFINE q == [route |-> route, ip |-> ip, subject |-> s, todo |-> Limits!Steps(route), refused |-> FALSE]
<1>2. Routed(route) /\ route \in Limits!Routes /\ ip \in IPs
  BY RoutesRouted DEF LimitsInv, AttemptsOK
<1>3. q \in Att /\ Ordered(q.todo)
  BY <1>2 DEF Att, Routed, Ordered
<1>4. ~MayCount(q)
  BY <1>2 DEF MayCount, Routed, LimitsInv, Watched
<1> HIDE DEF q
<1>5. att' \in [Attempts -> Att \cup {None}] /\ att'[a] = q /\ \A b \in Attempts : b # a => att'[b] = att[b]
  BY <1>1, <1>3 DEF LimitsInv, AttemptsOK, q
<1>6. a \in mix.attempts /\ UNCHANGED <<rate, mix, watch, since, seen>>
  BY DEF Limits!Begin, Limits!observed
<1>7. ~MayCount(att[a])'
  BY <1>4, <1>5, <1>6 DEF MayCount, Kind
<1> QED BY <1>3, <1>5, <1>6, <1>7, Fewer DEF LimitsInv

\* A refusal leaves nothing to do.
LEMMA RefusedLeft ==
  ASSUME AttemptsOK, NEW a \in Attempts, att[a] # None, Limits!Refused(a)
  PROVE  /\ att' \in [Attempts -> Att \cup {None}]
         /\ Ordered(att'[a].todo) /\ ~MayCount(att'[a])
         /\ \A b \in Attempts : b # a => att'[b] = att[b]
<1>1. att[a] \in Att
  BY DEF AttemptsOK
<1>2. att' = [att EXCEPT ![a] = [att[a] EXCEPT !.todo = << >>, !.refused = TRUE]]
  BY DEF Limits!Refused
<1>3. [att[a] EXCEPT !.todo = << >>, !.refused = TRUE] \in Att /\ att'[a].todo = << >>
  <2>1. << >> \in Seq(StepOf)
    OBVIOUS
  <2>2. [att[a] EXCEPT !.todo = << >>, !.refused = TRUE] \in Att
    BY <1>1, <2>1 DEF Att
  <2>3. att'[a] = [att[a] EXCEPT !.todo = << >>, !.refused = TRUE]
    BY <1>2 DEF AttemptsOK
  <2> QED BY <1>1, <2>2, <2>3 DEF Att
<1>4. att' \in [Attempts -> Att \cup {None}] /\ \A b \in Attempts : b # a => att'[b] = att[b]
  BY <1>2, <1>3 DEF AttemptsOK
<1> QED BY <1>3, <1>4, NothingLeft DEF MayCount

\* The next step of an attempt: what it leaves, and whom it makes count.
LEMMA NextLeft ==
  ASSUME LimitsInv, NEW a \in Attempts, NEW op, Limits!At(a, op), Limits!Next1(a), watch' = watch
  PROVE  /\ att' \in [Attempts -> Att \cup {None}]
         /\ att'[a] # None => a \in mix.attempts /\ Ordered(att'[a].todo)
         /\ \A b \in Attempts : b # a => att'[b] = att[b]
         /\ ~MayCount(att[a])' \/ MayCount(att[a]) \/ (op = "ask" /\ Limits!Key(a) = watch)
         /\ op = "count" /\ Limits!Key(a) = watch => MayCount(att[a]) /\ ~MayCount(att[a])'
<1> DEFINE q == att[a]
           rest == [q EXCEPT !.todo = Tail(q.todo)]
<1>1. q \in Att /\ q # None /\ Ordered(q.todo) /\ q.todo # << >> /\ Head(q.todo).op = op /\ a \in mix.attempts
  BY DEF LimitsInv, AttemptsOK, Limits!At
<1>2. Ordered(Tail(q.todo)) /\ Sound(Head(q.todo))
  BY <1>1, TailOrdered
<1>3. /\ att' \in [Attempts -> Att \cup {None}] /\ (att'[a] = None \/ att'[a] = rest)
      /\ \A b \in Attempts : b # a => att'[b] = att[b]
  BY <1>1, <1>2, Left DEF Limits!Next1, LimitsInv
<1>4. rest.ip = q.ip /\ rest.subject = q.subject /\ rest.route = q.route /\ rest.todo = Tail(q.todo)
  BY <1>1 DEF Att
<1>5. MayCount(att[a])' => MayCount(rest)
  BY <1>3 DEF MayCount, Kind
<1>6. MayCount(rest) => MayCount(q) \/ (op = "ask" /\ Limits!Key(a) = watch)
  BY <1>1, TailCounts, KeyWatched
<1>7. ASSUME op = "count", Limits!Key(a) = watch PROVE MayCount(q) /\ ~MayCount(rest)
  <2>1. Head(q.todo).kind = Kind /\ Limits!KeyOf(Kind, q.ip, q.subject) = watch
    BY <1>7, KeyWatched
  <2>2. Has(q.todo, "count", Kind) /\ ~Has(q.todo, "ask", Kind)
    BY <1>1, <1>7, <2>1, TailOrdered
  <2>3. ~Proves(Tail(q.todo)) /\ ~Has(Tail(q.todo), "count", Kind)
    BY <1>1, <1>7, <2>1, TailOrdered
  <2> QED BY <1>1, <1>4, <2>1, <2>2, <2>3 DEF MayCount
<1> QED BY <1>1, <1>2, <1>3, <1>4, <1>5, <1>6, <1>7

LEMMA AskStep == ASSUME LimitsInv, NEW a \in Attempts, Limits!Ask(a) PROVE LimitsInv'
<1>1. Limits!At(a, "ask") /\ att[a] # None /\ UNCHANGED <<rate, mix, watch, since, seen>>
  BY DEF Limits!Ask, Limits!At, Limits!observed
<1>2. CASE Limits!Refused(a)
  BY <1>1, <1>2, RefusedLeft, Fewer DEF LimitsInv, AttemptsOK, MayCount, Kind
<1>3. CASE Limits!Next1(a) /\ ~(Limits!RateCount(Limits!Key(a)) >= Max[Head(att[a].todo).kind])
  <2>1. Sound(Head(att[a].todo)) /\ Head(att[a].todo).op = "ask"
    BY <1>1, TailOrdered DEF LimitsInv, AttemptsOK, Limits!At
  <2>2. ASSUME Limits!Key(a) = watch PROVE Kind \in Limits!AskFirst /\ Limits!RateCount(watch) < Max[Kind]
    <3>1. Head(att[a].todo).kind = Kind
      BY <2>2, KeyWatched
    <3>2. Max[Kind] \in Nat /\ Limits!RateCount(watch) \in Nat
      BY Caps DEF LimitsInv, Watched, Limits!RateCount, Row
    <3> QED BY <1>3, <2>1, <2>2, <3>1, <3>2 DEF Sound
  <2> QED BY <1>1, <1>3, <2>2, NextLeft, Fewer DEF LimitsInv
<1> QED BY <1>2, <1>3 DEF Limits!Ask

LEMMA LeaveStep == ASSUME LimitsInv, NEW a \in Attempts, Limits!Leave(a) PROVE LimitsInv'
<1>1. att' = [att EXCEPT ![a] = None] /\ UNCHANGED <<rate, mix, watch, since, seen>>
  BY DEF Limits!Leave, Limits!observed
<1>2. att' \in [Attempts -> Att \cup {None}] /\ att'[a] = None /\ \A b \in Attempts : b # a => att'[b] = att[b]
  BY <1>1 DEF LimitsInv, AttemptsOK
<1> QED BY <1>1, <1>2, Fewer DEF LimitsInv, MayCount

\* A failed comparison counts what had been asked for.
LEMMA CompareStep == ASSUME LimitsInv, NEW a \in Attempts, Limits!Compare(a) PROVE LimitsInv'
<1>1. Limits!At(a, "prove") /\ att[a] # None /\ UNCHANGED <<rate, mix, watch, since, seen>>
  BY DEF Limits!Compare, Limits!At
<1>2. CASE Limits!Next1(a)
  BY <1>1, <1>2, NextLeft, Fewer DEF LimitsInv
<1>3. CASE Limits!Goes(a, Limits!Failures(att[a].route))
  <2> DEFINE q == att[a]
             fail == [q EXCEPT !.todo = Limits!Failures(q.route)]
  <2>1. q \in Att /\ Ordered(q.todo) /\ q.todo # << >> /\ Head(q.todo).op = "prove" /\ a \in mix.attempts
    BY <1>1 DEF LimitsInv, AttemptsOK, Limits!At
  <2>2. Routed(q.route)
    BY <2>1, RoutesRouted DEF Att
  <2>3. /\ att' \in [Attempts -> Att \cup {None}] /\ (att'[a] = None \/ att'[a] = fail)
        /\ \A b \in Attempts : b # a => att'[b] = att[b]
    BY <1>1, <1>3, <2>2, Left DEF LimitsInv, Routed
  <2>4. fail.ip = q.ip /\ fail.subject = q.subject /\ fail.route = q.route /\ fail.todo = Limits!Failures(q.route)
    BY <2>1 DEF Att
  <2>5. Proves(q.todo) /\ ~Has(q.todo, "ask", Kind)
    BY <2>1, TailOrdered
  <2>6. ~Proves(fail.todo)
    BY <2>2, <2>4 DEF Routed, Proves
  <2>7. MayCount(fail) => MayCount(q)
    BY <1>1, <2>4, <2>5, <2>6 DEF MayCount
  <2>8. MayCount(att[a])' => MayCount(fail)
    BY <1>1, <2>3 DEF MayCount, Kind
  <2> QED BY <1>1, <2>1, <2>2, <2>3, <2>4, <2>7, <2>8, Fewer DEF LimitsInv, Routed
<1> QED BY <1>2, <1>3 DEF Limits!Compare

\* What a hit does to the row of the observer.
LEMMA HitElsewhere ==
  ASSUME NEW k, k # watch, Limits!Hit(k)
  PROVE  (watch \in DOMAIN rate' <=> watch \in DOMAIN rate) /\ (watch \in DOMAIN rate => rate'[watch] = rate[watch])
BY DEF Limits!Hit

Live == watch \in DOMAIN rate /\ Row.age <= LimitWindow[Kind]

LEMMA HitWatched ==
  ASSUME AttemptsOK, Watched, Limits!Hit(watch)
  PROVE  /\ watch \in DOMAIN rate' /\ rate'[watch] \in [count : Nat, age : Nat]
         /\ Limits!RateHit(watch).count = IF Live THEN Row.count + 1 ELSE 1
         /\ rate'[watch].age = IF Live THEN Row.age ELSE 0
         /\ \/ rate'[watch].count = Limits!RateHit(watch).count
            \/ /\ Limits!RateHit(watch).count > Max[Kind] + Cardinality(Attempts)
               /\ rate'[watch].count = Max[Kind] + Cardinality(Attempts)
<1> DEFINE hit == Limits!RateHit(watch)
           top == Max[Kind] + Cardinality(Attempts)
<1>1. /\ hit \in [count : Nat, age : Nat] /\ hit.count = (IF Live THEN Row.count + 1 ELSE 1)
      /\ hit.age = IF Live THEN Row.age ELSE 0
  <2>1. CASE Live
    <3>1. hit = [Row EXCEPT !.count = Row.count + 1] /\ Row \in [count : Nat, age : Nat]
      BY <2>1 DEF Limits!RateHit, Live, Row, Kind, Watched
    <3> QED BY <2>1, <3>1
  <2>2. CASE ~Live
    <3>1. hit = [count |-> 1, age |-> 0]
      BY <2>2 DEF Limits!RateHit, Live, Row, Kind
    <3> QED BY <2>2, <3>1
  <2> QED BY <2>1, <2>2
<1>2. top \in Nat
  BY Caps, LimitsConstants
<1>3. /\ watch \in DOMAIN rate'
      /\ rate'[watch] = [hit EXCEPT !.count = IF hit.count > top THEN top ELSE hit.count]
  BY LimitsCardinality DEF Limits!Hit, Limits!Saturated, Kind
<1> HIDE DEF hit, top
<1>4. /\ rate'[watch] \in [count : Nat, age : Nat] /\ rate'[watch].age = hit.age
      /\ rate'[watch].count = IF hit.count > top THEN top ELSE hit.count
  BY <1>1, <1>2, <1>3
<1> QED BY <1>1, <1>3, <1>4 DEF hit, top

\* The arithmetic of a hit that is let through, or counted.
LEMMA SeenMore ==
  ASSUME LimitsInv, AttemptsOK', UNCHANGED <<mix, watch, since>>, Limits!Hit(watch), seen' = seen + 1,
         Limits!RateHit(watch).count <= Cap
  PROVE  Watched' /\ SeenCounted' /\ rate'[watch].count = Limits!RateHit(watch).count
<1>1. AttemptsOK /\ Watched /\ SeenCounted
  BY DEF LimitsInv
<1>2. Cap' = Cap /\ Kind' = Kind /\ Row' = rate'[watch] /\ Cap \in Nat /\ Cap <= Max[Kind] + Cardinality(Attempts)
  BY <1>1, Caps DEF Cap, Kind, Row
<1>3. /\ watch \in DOMAIN rate' /\ rate'[watch] \in [count : Nat, age : Nat]
      /\ rate'[watch].count = Limits!RateHit(watch).count
      /\ rate'[watch].count = (IF Live THEN Row.count + 1 ELSE 1)
      /\ rate'[watch].age = IF Live THEN Row.age ELSE 0
  <2>1. /\ watch \in DOMAIN rate' /\ rate'[watch] \in [count : Nat, age : Nat]
        /\ Limits!RateHit(watch).count = (IF Live THEN Row.count + 1 ELSE 1)
        /\ rate'[watch].age = IF Live THEN Row.age ELSE 0
        /\ \/ rate'[watch].count = Limits!RateHit(watch).count
           \/ Limits!RateHit(watch).count > Max[Kind] + Cardinality(Attempts)
    BY <1>1, HitWatched
  <2>2. Limits!RateHit(watch).count \in Nat /\ Max[Kind] + Cardinality(Attempts) \in Nat
    BY <1>1, <2>1, Caps, LimitsConstants DEF Live, Watched
  <2> QED BY <1>2, <2>1, <2>2
<1>4. Watched'
  BY <1>1, <1>2, <1>3 DEF Watched
<1>5. seen \in Nat /\ since \in Nat /\ since <= LimitWindow[Kind] /\ LimitWindow[Kind] \in Nat
  BY <1>1, LimitsConstants DEF Watched
<1>6. CASE Live
  <2>1. watch \in DOMAIN rate /\ Row.age \in Nat /\ Row.count \in Nat
    BY <1>1, <1>6 DEF Live, Watched
  <2>2. SeenCounted'
    BY <1>1, <1>2, <1>3, <1>5, <1>6, <2>1 DEF SeenCounted
  <2> QED BY <1>3, <1>4, <2>2
<1>7. CASE ~Live
  <2>1. seen <= Cap
    BY <1>1, <1>2, <1>5, <1>7 DEF Live, SeenCounted, Watched
  <2>2. SeenCounted'
    BY <1>2, <1>3, <1>5, <1>7, <2>1 DEF SeenCounted
  <2> QED BY <1>3, <1>4, <2>2
<1> QED BY <1>6, <1>7

\* A hit that is refused is not seen.
LEMMA SeenNoMore ==
  ASSUME LimitsInv, AttemptsOK', UNCHANGED <<mix, watch, since, seen>>, Limits!Hit(watch),
         Kind \notin Limits!AskFirst, Limits!RateHit(watch).count > Max[Kind]
  PROVE  Watched' /\ SeenCounted'
<1>1. AttemptsOK /\ Watched /\ SeenCounted
  BY DEF LimitsInv
<1>2. Cap' = Cap /\ Cap = Max[Kind] /\ Kind' = Kind /\ Row' = rate'[watch] /\ Cap \in Nat
  BY <1>1, Caps DEF Cap, Kind, Row
<1>3. /\ watch \in DOMAIN rate' /\ rate'[watch] \in [count : Nat, age : Nat]
      /\ Limits!RateHit(watch).count = (IF Live THEN Row.count + 1 ELSE 1)
      /\ rate'[watch].count >= Cap
      /\ rate'[watch].age = IF Live THEN Row.age ELSE 0
  BY <1>1, <1>2, HitWatched, Caps, LimitsConstants
<1>4. Watched'
  BY <1>1, <1>2, <1>3 DEF Watched
<1>5. seen \in Nat /\ since \in Nat /\ since <= LimitWindow[Kind] /\ LimitWindow[Kind] \in Nat
  BY <1>1, LimitsConstants DEF Watched
<1>6. CASE Live
  <2>1. watch \in DOMAIN rate /\ Row.age \in Nat /\ Row.count \in Nat
    BY <1>1, <1>6 DEF Live, Watched
  <2> QED BY <1>1, <1>2, <1>3, <1>4, <1>5, <1>6, <2>1 DEF SeenCounted
<1>7. CASE ~Live
  <2>1. seen <= Cap
    BY <1>1, <1>2, <1>5, <1>7 DEF Live, SeenCounted, Watched
  <2> QED BY <1>2, <1>3, <1>4, <1>5, <1>7, <2>1 DEF SeenCounted
<1> QED BY <1>6, <1>7

LEMMA HitFirstStep == ASSUME LimitsInv, NEW a \in Attempts, Limits!HitFirst(a) PROVE LimitsInv'
<1> DEFINE k == Limits!Key(a)
<1>1. /\ Limits!At(a, "hit") /\ att[a] # None /\ a \in mix.attempts /\ UNCHANGED <<mix, watch, since>> /\ Limits!Hit(k)
      /\ \/ Limits!RateHit(k).count > Max[Head(att[a].todo).kind] /\ Limits!Refused(a) /\ UNCHANGED seen
         \/ /\ ~(Limits!RateHit(k).count > Max[Head(att[a].todo).kind]) /\ Limits!Next1(a)
            /\ seen' = IF k = watch THEN seen + 1 ELSE seen
  BY DEF Limits!HitFirst, Limits!At, Limits!Noted, LimitsInv, AttemptsOK
<1>2. Sound(Head(att[a].todo)) /\ Head(att[a].todo).op = "hit"
  BY <1>1, TailOrdered DEF LimitsInv, AttemptsOK, Limits!At
<1>3. /\ att' \in [Attempts -> Att \cup {None}] /\ \A b \in Attempts : b # a => att'[b] = att[b]
      /\ att'[a] # None => Ordered(att'[a].todo)
      /\ ~MayCount(att[a])' \/ MayCount(att[a])
  <2>1. CASE Limits!Refused(a)
    BY <1>1, <2>1, RefusedLeft DEF LimitsInv, MayCount, Kind
  <2>2. CASE Limits!Next1(a)
    BY <1>1, <2>2, NextLeft
  <2> QED BY <1>1, <2>1, <2>2
<1>4. AttemptsOK'
  BY <1>1, <1>3 DEF LimitsInv, AttemptsOK
<1>5. CASE k # watch
  BY <1>1, <1>3, <1>5, HitElsewhere, Fewer DEF LimitsInv
<1>6. CASE k = watch
  <2>1. Head(att[a].todo).kind = Kind /\ Kind \notin Limits!AskFirst /\ Cap = Max[Kind]
    BY <1>2, <1>6, KeyWatched DEF Sound, Cap
  <2>2. Limits!RateHit(watch).count \in Nat /\ Max[Kind] \in Nat
    BY <1>1, <1>6, HitWatched, Caps DEF LimitsInv, Live, Watched
  <2>3. Watched' /\ SeenCounted'
    BY <1>1, <1>4, <1>6, <2>1, <2>2, SeenMore, SeenNoMore
  <2>4. GuessesCounted'
    BY <1>1, <2>1 DEF GuessesCounted, Kind
  <2> QED BY <1>4, <2>3, <2>4 DEF LimitsInv
<1> QED BY <1>5, <1>6

LEMMA CountFailureStep == ASSUME LimitsInv, NEW a \in Attempts, Limits!CountFailure(a) PROVE LimitsInv'
<1> DEFINE k == Limits!Key(a)
<1>1. /\ Limits!At(a, "count") /\ UNCHANGED <<mix, watch, since>> /\ Limits!Next1(a)
      /\ \/ Limits!Hit(k) /\ seen' = IF k = watch THEN seen + 1 ELSE seen
         \/ UNCHANGED <<rate, seen>>
  BY DEF Limits!CountFailure, Limits!Noted
<1>2. Sound(Head(att[a].todo)) /\ Head(att[a].todo).op = "count"
  BY <1>1, TailOrdered DEF LimitsInv, AttemptsOK, Limits!At
<1>3. /\ att' \in [Attempts -> Att \cup {None}] /\ \A b \in Attempts : b # a => att'[b] = att[b]
      /\ att'[a] # None => a \in mix.attempts /\ Ordered(att'[a].todo)
      /\ ~MayCount(att[a])' \/ MayCount(att[a])
      /\ k = watch => MayCount(att[a]) /\ ~MayCount(att[a])'
  BY <1>1, NextLeft
<1>4. AttemptsOK'
  BY <1>1, <1>3 DEF LimitsInv, AttemptsOK
<1>5. CASE UNCHANGED <<rate, seen>>
  BY <1>1, <1>3, <1>5, Fewer DEF LimitsInv
<1>6. CASE Limits!Hit(k) /\ k # watch /\ seen' = seen
  BY <1>1, <1>3, <1>6, HitElsewhere, Fewer DEF LimitsInv
<1>7. CASE Limits!Hit(k) /\ k = watch /\ seen' = seen + 1
  <2>1. Kind \in Limits!AskFirst
    BY <1>2, <1>7, KeyWatched DEF Sound
  <2>2. a \in Guessing /\ Guessing' = Guessing \ {a}
    BY <1>1, <1>3, <1>7 DEF Guessing, MayCount, Kind
  <2>3. Cardinality(Guessing') = Cardinality(Guessing) - 1 /\ Cardinality(Guessing) \in Nat /\ Cardinality(Guessing') \in Nat
    BY <2>2, Caps, FS_RemoveElement, FS_CardinalityType DEF LimitsInv
  <2>4. Limits!RateHit(watch).count = (IF Live THEN Row.count + 1 ELSE 1) /\ rate'[watch].age = IF Live THEN Row.age ELSE 0
    BY <1>7, HitWatched DEF LimitsInv
  <2>5. Limits!RateHit(watch).count + Cardinality(Guessing') <= Cap
    <3>1. CASE Live
      BY <2>1, <2>3, <2>4, <3>1, Caps DEF LimitsInv, GuessesCounted, Live, Watched
    <3>2. CASE ~Live
      <4>1. Cap = Max[Kind] + Cardinality(mix.attempts) - 1 /\ Cardinality(Guessing) <= Cardinality(mix.attempts)
        BY <2>1, Caps DEF LimitsInv, Cap
      <4> QED BY <2>3, <2>4, <3>2, <4>1, Caps DEF LimitsInv
    <3> QED BY <3>1, <3>2
  <2>6. Limits!RateHit(watch).count \in Nat
    BY <2>4 DEF LimitsInv, Live, Watched
  <2>7. Watched' /\ SeenCounted' /\ rate'[watch].count = Limits!RateHit(watch).count
    BY <1>1, <1>4, <1>7, <2>3, <2>5, <2>6, SeenMore, Caps DEF LimitsInv
  <2>8. Cap' = Cap /\ Row' = rate'[watch] /\ Cap \in Nat
    BY <1>1, Caps DEF Cap, Kind, Row, LimitsInv
  <2>9. GuessesCounted'
    BY <2>3, <2>5, <2>6, <2>7, <2>8 DEF GuessesCounted
  <2> QED BY <1>4, <2>7, <2>9 DEF LimitsInv
<1> QED BY <1>1, <1>5, <1>6, <1>7

\* The janitor drops rows that are older than any window.
LEMMA DeleteOldRateLimitsStep == ASSUME LimitsInv, Limits!DeleteOldRateLimits PROVE LimitsInv'
<1>1. /\ rate' = [k \in {x \in DOMAIN rate : rate[x].age <= Day} |-> rate[k]]
      /\ att' = att /\ UNCHANGED <<mix, watch, since, seen>>
  BY DEF Limits!DeleteOldRateLimits, Limits!observed
<1>2. AttemptsOK' /\ Kind' = Kind /\ Cap' = Cap /\ Guessing' = Guessing
  BY <1>1 DEF LimitsInv, AttemptsOK, Kind, Cap, Guessing, MayCount
<1>3. since <= Day /\ since \in Nat /\ Day \in Nat
  BY LimitsConstants DEF LimitsInv, Watched
<1>4. watch \in DOMAIN rate' => watch \in DOMAIN rate /\ Row' = Row
  BY <1>1 DEF Row
<1>5. watch \in DOMAIN rate /\ watch \notin DOMAIN rate' => Row.age > since
  BY <1>1, <1>3 DEF Row, LimitsInv, Watched
<1>6. Watched' /\ GuessesCounted' /\ SeenCounted'
  BY <1>1, <1>2, <1>4, <1>5 DEF LimitsInv, Watched, GuessesCounted, SeenCounted
<1> QED BY <1>2, <1>6 DEF LimitsInv

LEMMA LimitsTickStep == ASSUME LimitsInv, Limits!Tick PROVE LimitsInv'
<1>1. /\ rate' = [k \in DOMAIN rate |-> [rate[k] EXCEPT !.age = IF rate[k].age > Day THEN rate[k].age ELSE rate[k].age + 1]]
      /\ \/ since < LimitWindow[Kind] /\ since' = since + 1 /\ seen' = seen
         \/ since' = 0 /\ seen' = 0
      /\ att' = att /\ UNCHANGED <<mix, watch>>
  BY DEF Limits!Tick, Kind
<1>2. AttemptsOK' /\ Kind' = Kind /\ Cap' = Cap /\ Guessing' = Guessing
  BY <1>1 DEF LimitsInv, AttemptsOK, Kind, Cap, Guessing, MayCount
<1>3. since \in Nat /\ seen \in Nat /\ Day \in Nat /\ LimitWindow[Kind] \in Nat /\ LimitWindow[Kind] <= Day /\ Cap \in Nat
  BY Caps, LimitsConstants DEF LimitsInv, Watched
<1>4. CASE watch \notin DOMAIN rate
  <2>1. watch \notin DOMAIN rate'
    BY <1>1, <1>4
  <2> QED BY <1>1, <1>2, <1>3, <1>4, <2>1 DEF LimitsInv, Watched, GuessesCounted, SeenCounted
<1>5. CASE watch \in DOMAIN rate
  <2>1. Row \in [count : Nat, age : Nat] /\ watch \in DOMAIN rate'
    BY <1>1, <1>5 DEF LimitsInv, Watched
  <2>2. Row' = [Row EXCEPT !.age = IF Row.age > Day THEN Row.age ELSE Row.age + 1]
    BY <1>1, <1>5 DEF Row
  <2>3. Row' \in [count : Nat, age : Nat] /\ Row'.count = Row.count /\ Row'.age = IF Row.age > Day THEN Row.age ELSE Row.age + 1
    BY <1>3, <2>1, <2>2
  <2>4. Watched'
    BY <1>1, <1>2, <1>3, <2>3 DEF LimitsInv, Watched
  <2>5. Cardinality(Guessing) \in Nat
    BY Caps DEF LimitsInv
  <2>6. GuessesCounted'
    BY <1>2, <1>3, <1>5, <2>1, <2>3, <2>5 DEF LimitsInv, GuessesCounted
  <2>7. SeenCounted'
    BY <1>1, <1>2, <1>3, <1>5, <2>1, <2>3 DEF LimitsInv, SeenCounted
  <2> QED BY <1>2, <2>4, <2>6, <2>7 DEF LimitsInv
<1> QED BY <1>4, <1>5

LEMMA LimitsStep == ASSUME LimitsInv, Limits!Next \/ UNCHANGED limits PROVE LimitsInv'
<1>1. CASE UNCHANGED limits
  BY <1>1 DEF limits, LimitsInv, AttemptsOK, Watched, GuessesCounted, SeenCounted, Kind, Cap, Row, Guessing, MayCount
<1>2. CASE Limits!Next
  BY <1>2, BeginStep, AskStep, HitFirstStep, CompareStep, CountFailureStep, LeaveStep, DeleteOldRateLimitsStep,
     LimitsTickStep DEF Limits!Next
<1> QED BY <1>1, <1>2

LEMMA LimitsAlways == ServicesSpec => [](focus = "limits" => LimitsInv)
<1>1. ServicesInit => (focus = "limits" => LimitsInv)
  BY LimitsInit DEF ServicesInit
<1>2. (focus = "limits" => LimitsInv) /\ [ServicesNext]_all => (focus = "limits" => LimitsInv)'
  BY Focused, LimitsStep
<1> QED BY <1>1, <1>2, PTL DEF ServicesSpec

LEMMA SeenBounded == ASSUME LimitsInv PROVE seen <= 2 * Cap
<1>1. Cap \in Nat /\ seen \in Nat
  BY Caps DEF LimitsInv, Watched
<1> QED BY <1>1 DEF LimitsInv, SeenCounted

\* RateHit (store/ratelimit.go): for as long as a window lasts, no more than two windows' worth of requests is let
\* through where the hit comes first, wherever the window of the row lies.
THEOREM BurstsBounded == ServicesSpec => []BurstBounded
<1>1. ASSUME LimitsInv PROVE Limits!BurstBounded
  BY <1>1, SeenBounded DEF Limits!BurstBounded, Cap, Kind
<1>2. (focus = "limits" => LimitsInv) => BurstBounded
  BY <1>1 DEF BurstBounded
<1> QED BY <1>2, LimitsAlways, PTL

\* loginHandler and identify (web/auth.go): the comparisons that are under way at the same time add no more than one
\* failure each, but for the first, to what each of two windows allows.
THEOREM FailuresBounded == ServicesSpec => []GuessesBounded
<1>1. ASSUME LimitsInv PROVE Limits!GuessesBounded
  BY <1>1, SeenBounded, LimitsCardinality DEF Limits!GuessesBounded, Cap, Kind
<1>2. (focus = "limits" => LimitsInv) => GuessesBounded
  BY <1>1 DEF GuessesBounded
<1> QED BY <1>2, LimitsAlways, PTL
-------------------------------------------------------------------------------
(***************************************************************************)
(* The owner of an account.  What a name was counted for, the pair of the  *)
(* name and the one address that guesses was counted for before, and its   *)
(* row holds it, or an earlier row did: there is one earlier row at most   *)
(* in a window of the name, since each lasts as long.  An attempt that has *)
(* counted the pair and not yet the name, one that may still count the     *)
(* pair, and those that were under way when a row began come on top.       *)
(***************************************************************************)
Pair(ip, s) == <<"login:pair", ip, s>>
Name(s) == <<"login:user", s>>

\* What is left of a login.
AtPair == <<Limits!Step("ask", "login:pair"), Limits!Step("ask", "login:user"), Limits!Prove>>
AtName == <<Limits!Step("ask", "login:user"), Limits!Prove>>
AtProve == <<Limits!Prove>>
AtFailed == Limits!Failures("login")
AtCount == <<Limits!Step("count", "login:pair"), Limits!Step("count", "login:user")>>
AtLast == <<Limits!Step("count", "login:user")>>
LoginKinds == {"login:ip", "login:pair", "login:user"}
Elsewhere(todo) == \A i \in 1 .. Len(todo) : todo[i].op # "prove" => todo[i].kind \notin LoginKinds

Shaped(q) ==
    /\ q.route \in mix.routes /\ q.ip \in mix.ips
    /\ IF q.route = "login"
       THEN /\ q.todo \in {<< >>, Limits!Login, AtPair, AtName, AtProve, AtFailed, AtCount, AtLast}
            /\ q.todo \in {AtFailed, AtCount, AtLast} => q.ip \in slipped
       ELSE Elsewhere(q.todo)
LoginShapes == mix \in Mixes /\ \A a \in Attempts : att[a] # None => Shaped(att[a])

IsLogin(q, ip, s) == q # None /\ q.route = "login" /\ q.ip = ip /\ q.subject = s
MayPair(q, ip, s) == IsLogin(q, ip, s) /\ q.todo \in {AtName, AtProve, AtFailed, AtCount}
MustName(q, ip, s) == IsLogin(q, ip, s) /\ q.todo = AtLast
Pairing(ip, s) == {a \in Attempts : MayPair(att[a], ip, s)}
Naming(ip, s) == {a \in Attempts : MustName(att[a], ip, s)}

Besides == Cardinality(mix.attempts) - 1
PairMax == Max["login:pair"] + Besides

PairCounted(ip, s) ==
    Pair(ip, s) \in DOMAIN rate =>
        /\ rate[Pair(ip, s)] \in [count : Nat, age : Nat] /\ rate[Pair(ip, s)].count >= 1
        /\ rate[Pair(ip, s)].count <= PairMax
        /\ rate[Pair(ip, s)].age <= LimitWindow["login:pair"] =>
             rate[Pair(ip, s)].count + Cardinality(Pairing(ip, s)) <= PairMax

\* What the rows of the pair were counted for since that of the name began.
Charged(ip, s) ==
    IF Pair(ip, s) \notin DOMAIN rate THEN PairMax
    ELSE IF rate[Pair(ip, s)].age > rate[Name(s)].age THEN rate[Pair(ip, s)].count
    ELSE PairMax + rate[Pair(ip, s)].count

NameCounted(ip, s) ==
    Name(s) \in DOMAIN rate =>
        /\ rate[Name(s)] \in [count : Nat, age : Nat]
        /\ rate[Name(s)].age <= LimitWindow["login:user"] =>
             rate[Name(s)].count + Cardinality(Naming(ip, s)) <= Charged(ip, s) + Besides

NamesCounted ==
    \A s \in Subjects :
        /\ Name(s) \in DOMAIN rate => \E ip \in mix.ips : ip # Owner
        /\ \A ip \in mix.ips \ {Owner} : PairCounted(ip, s) /\ NameCounted(ip, s)

Alone == \A ip, other \in mix.ips \ {Owner} : ip = other

NameInv == LoginShapes /\ (~Alone \/ Owner \in slipped \/ lost \/ NamesCounted)

LEMMA SameWindow == LimitWindow["login:user"] <= LimitWindow["login:pair"]
<1>1. LimitWindow["login:user"] = LimitWindow["login:pair"] /\ LimitWindow["login:pair"] \in Nat
  BY ServicesGiven DEF Limits!Bounds, Limits!Kinds
<1> QED BY <1>1

LEMMA LoginNumbers ==
  ASSUME AttemptsOK
  PROVE  /\ Max["login:pair"] \in Nat \ {0} /\ Max["login:user"] \in Nat \ {0} /\ Max["login:ip"] \in Nat \ {0}
         /\ LimitWindow["login:pair"] \in Nat /\ LimitWindow["login:user"] \in Nat /\ Day \in Nat
         /\ LimitWindow["login:pair"] <= Day /\ LimitWindow["login:user"] <= Day
         /\ Cardinality(mix.attempts) \in Nat /\ Cardinality(Attempts) \in Nat /\ IsFiniteSet(mix.attempts)
         /\ Cardinality(mix.attempts) <= Cardinality(Attempts)
<1>1. {"login:ip", "login:pair", "login:user"} \subseteq Limits!Kinds
  BY DEF Limits!Kinds
<1>2. mix.attempts \subseteq Attempts
  BY DEF AttemptsOK
<1>3. IsFiniteSet(mix.attempts) /\ Cardinality(mix.attempts) \in Nat /\ Cardinality(mix.attempts) <= Cardinality(Attempts)
  BY <1>2, LimitsConstants, FS_Subset, FS_CardinalityType
<1> QED BY <1>1, <1>3, LimitsConstants

\* What an attempt comes to.
SameLogin(q, r) == r.route = q.route /\ r.ip = q.ip /\ r.subject = q.subject

LEMMA AfterRefusal ==
  ASSUME AttemptsOK, NEW a \in Attempts, att[a] # None, Limits!Refused(a)
  PROVE  /\ SameLogin(att[a], att'[a]) /\ att'[a].todo = << >> /\ att'[a].refused
         /\ \A b \in Attempts : b # a => att'[b] = att[b]
<1>1. att[a] \in Att
  BY DEF AttemptsOK
<1>2. att'[a] = [att[a] EXCEPT !.todo = << >>, !.refused = TRUE] /\ \A b \in Attempts : b # a => att'[b] = att[b]
  BY DEF Limits!Refused, AttemptsOK
<1> QED BY <1>1, <1>2 DEF Att, SameLogin

LEMMA AfterStep ==
  ASSUME AttemptsOK, NEW a \in Attempts, att[a] # None, NEW todo, Limits!Goes(a, todo)
  PROVE  /\ \/ att'[a] = None
            \/ SameLogin(att[a], att'[a]) /\ att'[a].todo = todo /\ att'[a].refused = att[a].refused
         /\ \A b \in Attempts : b # a => att'[b] = att[b]
<1>1. att[a] \in Att
  BY DEF AttemptsOK
<1>2. /\ att'[a] = None \/ att'[a] = [att[a] EXCEPT !.todo = todo]
      /\ \A b \in Attempts : b # a => att'[b] = att[b]
  BY DEF Limits!Goes, AttemptsOK
<1> QED BY <1>1, <1>2 DEF Att, SameLogin

\* The steps of a login in their order.
LEMMA Tails ==
  ASSUME NEW w, NEW x, NEW y, NEW z
  PROVE  /\ Head(<<w, x, y, z>>) = w /\ Tail(<<w, x, y, z>>) = <<x, y, z>> /\ <<w, x, y, z>> # << >>
         /\ Head(<<x, y, z>>) = x /\ Tail(<<x, y, z>>) = <<y, z>> /\ <<x, y, z>> # << >>
         /\ Head(<<y, z>>) = y /\ Tail(<<y, z>>) = <<z>> /\ <<y, z>> # << >>
         /\ Head(<<z>>) = z /\ Tail(<<z>>) = << >> /\ <<z>> # << >>
OBVIOUS

LEMMA LoginHeads ==
  /\ Head(Limits!Login) = Limits!Step("ask", "login:ip") /\ Tail(Limits!Login) = AtPair /\ Limits!Login # << >>
  /\ Head(AtPair) = Limits!Step("ask", "login:pair") /\ Tail(AtPair) = AtName /\ AtPair # << >>
  /\ Head(AtName) = Limits!Step("ask", "login:user") /\ Tail(AtName) = AtProve /\ AtName # << >>
  /\ Head(AtProve) = Limits!Prove /\ Tail(AtProve) = << >> /\ AtProve # << >>
  /\ Head(AtFailed) = Limits!Step("count", "login:ip") /\ Tail(AtFailed) = AtCount /\ AtFailed # << >>
  /\ Head(AtCount) = Limits!Step("count", "login:pair") /\ Tail(AtCount) = AtLast /\ AtCount # << >>
  /\ Head(AtLast) = Limits!Step("count", "login:user") /\ Tail(AtLast) = << >> /\ AtLast # << >>
<1>1. /\ Limits!Login = <<Limits!Step("ask", "login:ip"), Limits!Step("ask", "login:pair"), Limits!Step("ask", "login:user"),
                          Limits!Prove>>
      /\ AtFailed = <<Limits!Step("count", "login:ip"), Limits!Step("count", "login:pair"), Limits!Step("count", "login:user")>>
  BY DEF Limits!Login, AtFailed, Limits!Failures
<1> QED BY <1>1, Tails DEF AtPair, AtName, AtProve, AtCount, AtLast

LEMMA LoginOps ==
  /\ \A op, kind : Limits!Step(op, kind).op = op /\ Limits!Step(op, kind).kind = kind
  /\ Limits!Prove.op = "prove"
BY DEF Limits!Step, Limits!Prove

\* The lists of a login, told apart.
LEMMA LoginApart ==
  /\ \A todo \in {<< >>, Limits!Login, AtPair, AtProve, AtFailed, AtCount, AtLast} : todo # AtName
  /\ \A todo \in {<< >>, Limits!Login, AtPair, AtName, AtFailed, AtCount, AtLast} : todo # AtProve
  /\ \A todo \in {<< >>, Limits!Login, AtPair, AtName, AtProve, AtCount, AtLast} : todo # AtFailed
  /\ \A todo \in {<< >>, Limits!Login, AtPair, AtName, AtProve, AtFailed, AtLast} : todo # AtCount
  /\ \A todo \in {<< >>, Limits!Login, AtPair, AtName, AtProve, AtFailed, AtCount} : todo # AtLast
<1>1. /\ Head(Limits!Login).op = "ask" /\ Head(Limits!Login).kind = "login:ip"
      /\ Head(AtPair).op = "ask" /\ Head(AtPair).kind = "login:pair"
      /\ Head(AtName).op = "ask" /\ Head(AtName).kind = "login:user"
      /\ Head(AtProve).op = "prove"
      /\ Head(AtFailed).op = "count" /\ Head(AtFailed).kind = "login:ip"
      /\ Head(AtCount).op = "count" /\ Head(AtCount).kind = "login:pair"
      /\ Head(AtLast).op = "count" /\ Head(AtLast).kind = "login:user"
  BY LoginHeads, LoginOps
<1>2. /\ AtName # << >> /\ AtProve # << >> /\ AtFailed # << >> /\ AtCount # << >> /\ AtLast # << >>
  BY LoginHeads
<1>3. \A todo \in {Limits!Login, AtPair, AtProve, AtFailed, AtCount, AtLast} : todo # AtName
  BY <1>1
<1>4. \A todo \in {Limits!Login, AtPair, AtName, AtFailed, AtCount, AtLast} : todo # AtProve
  BY <1>1
<1>5. \A todo \in {Limits!Login, AtPair, AtName, AtProve, AtCount, AtLast} : todo # AtFailed
  BY <1>1
<1>6. \A todo \in {Limits!Login, AtPair, AtName, AtProve, AtFailed, AtLast} : todo # AtCount
  BY <1>1
<1>7. \A todo \in {Limits!Login, AtPair, AtName, AtProve, AtFailed, AtCount} : todo # AtLast
  BY <1>1
<1> QED BY <1>2, <1>3, <1>4, <1>5, <1>6, <1>7

\* The other routes have nothing to do with the limits of logins.
LEMMA OthersElsewhere ==
  ASSUME NEW route \in Limits!Routes, route # "login"
  PROVE  Elsewhere(Limits!Steps(route)) /\ Elsewhere(Limits!Failures(route))
<1>1. Elsewhere(<< >>)
  BY DEF Elsewhere
<1>2. ASSUME NEW s, Short(s) PROVE Elsewhere(s)
  BY <1>2 DEF Short, Sound, Elsewhere, LoginKinds, Limits!AskFirst
<1>3. CASE route = "token"
  <2> DEFINE A(kind) == Limits!Step("ask", kind)
             C(kind) == Limits!Step("count", kind)
             H(kind) == Limits!Step("hit", kind)
             s == Limits!Token
             f == Limits!Failures("token")
  <2>1. /\ Limits!Steps("token") = s /\ s = <<A("token:ip"), Limits!Prove, H("token"), H("api:user")>>
        /\ f = <<C("token:ip")>>
    BY DEF Limits!Steps, Limits!Failures, Limits!Token
  <2>2. A("token:ip").kind = "token:ip" /\ H("token").kind = "token" /\ H("api:user").kind = "api:user"
        /\ C("token:ip").kind = "token:ip" /\ Limits!Prove.op = "prove"
    BY LoginOps
  <2>3. Len(s) = 4 /\ Len(f) = 1 /\ s[1] = A("token:ip") /\ s[2] = Limits!Prove /\ s[3] = H("token") /\ s[4] = H("api:user")
        /\ f[1] = C("token:ip")
    BY <2>1
  <2> HIDE DEF s, f, A, C, H
  <2>4. Elsewhere(s) /\ Elsewhere(f)
    BY <2>2, <2>3 DEF Elsewhere, LoginKinds
  <2> QED BY <1>3, <2>1, <2>4 DEF f
<1>4. CASE route # "token"
  BY <1>1, <1>2, <1>4, ShortRoutes
<1> QED BY <1>3, <1>4

LEMMA ElsewhereStep ==
  ASSUME NEW todo, Ordered(todo), todo # << >>, Elsewhere(todo)
  PROVE  Elsewhere(Tail(todo)) /\ (Head(todo).op # "prove" => Head(todo).kind \notin LoginKinds)
<1>1. /\ Len(todo) \in Nat /\ Len(todo) > 0 /\ Head(todo) = todo[1]
      /\ Len(Tail(todo)) = Len(todo) - 1 /\ \A i \in 1 .. Len(Tail(todo)) : Tail(todo)[i] = todo[i + 1]
  BY DEF Ordered
<1>2. 1 \in 1 .. Len(todo) /\ \A i \in 1 .. Len(Tail(todo)) : i + 1 \in 1 .. Len(todo)
  BY <1>1
<1> QED BY <1>1, <1>2 DEF Elsewhere

LEMMA Few ==
  ASSUME AttemptsOK, NEW S, S \subseteq mix.attempts
  PROVE  IsFiniteSet(S) /\ Cardinality(S) \in Nat /\ Cardinality(S) <= Cardinality(mix.attempts)
BY LoginNumbers, FS_Subset, FS_CardinalityType

LEMMA LoginSets ==
  ASSUME AttemptsOK, NEW ip, NEW s
  PROVE  /\ Pairing(ip, s) \subseteq mix.attempts /\ Naming(ip, s) \subseteq mix.attempts
         /\ IsFiniteSet(Pairing(ip, s)) /\ IsFiniteSet(Naming(ip, s))
         /\ Cardinality(Pairing(ip, s)) \in Nat /\ Cardinality(Pairing(ip, s)) <= Cardinality(mix.attempts)
         /\ Cardinality(Naming(ip, s)) \in Nat /\ Cardinality(Naming(ip, s)) <= Cardinality(mix.attempts)
<1>1. Pairing(ip, s) \subseteq mix.attempts /\ Naming(ip, s) \subseteq mix.attempts
  BY DEF Pairing, Naming, MayPair, MustName, IsLogin, AttemptsOK
<1> QED BY <1>1, Few

LEMMA LaterSets ==
  ASSUME AttemptsOK, AttemptsOK', mix' = mix, NEW ip, NEW s
  PROVE  /\ Cardinality(Pairing(ip, s))' \in Nat /\ Cardinality(Pairing(ip, s))' <= Cardinality(mix.attempts)
         /\ Cardinality(Naming(ip, s))' \in Nat /\ Cardinality(Naming(ip, s))' <= Cardinality(mix.attempts)
<1>1. Pairing(ip, s)' \subseteq mix.attempts /\ Naming(ip, s)' \subseteq mix.attempts
  BY DEF Pairing, Naming, MayPair, MustName, IsLogin, AttemptsOK
<1> QED BY <1>1, Few

\* A hit of any key.
LEMMA HitRow ==
  ASSUME NEW k, Limits!Hit(k), k \in DOMAIN rate => rate[k] \in [count : Nat, age : Nat],
         Max[k[1]] \in Nat, Cardinality(Attempts) \in Nat,
         NEW live, live = (k \in DOMAIN rate /\ rate[k].age <= LimitWindow[k[1]])
  PROVE  /\ DOMAIN rate' = DOMAIN rate \cup {k} /\ \A j \in DOMAIN rate : j # k => rate'[j] = rate[j]
         /\ rate'[k] \in [count : Nat, age : Nat]
         /\ rate'[k].age = IF live THEN rate[k].age ELSE 0
         /\ rate'[k].count <= IF live THEN rate[k].count + 1 ELSE 1
         /\ live /\ rate[k].count < Max[k[1]] + Cardinality(Attempts) => rate'[k].count = rate[k].count + 1
         /\ ~live /\ Max[k[1]] + Cardinality(Attempts) > 0 => rate'[k].count = 1
<1> DEFINE hit == Limits!RateHit(k)
           top == Max[k[1]] + Cardinality(Attempts)
<1>1. /\ hit \in [count : Nat, age : Nat] /\ hit.count = (IF live THEN rate[k].count + 1 ELSE 1)
      /\ hit.age = IF live THEN rate[k].age ELSE 0
  <2>1. CASE live
    <3>1. hit = [rate[k] EXCEPT !.count = rate[k].count + 1] /\ rate[k] \in [count : Nat, age : Nat]
      BY <2>1 DEF Limits!RateHit
    <3> QED BY <2>1, <3>1
  <2>2. CASE ~live
    <3>1. hit = [count |-> 1, age |-> 0]
      BY <2>2 DEF Limits!RateHit
    <3> QED BY <2>2, <3>1
  <2> QED BY <2>1, <2>2
<1>2. top \in Nat
  OBVIOUS
<1>3. /\ DOMAIN rate' = DOMAIN rate \cup {k} /\ \A j \in DOMAIN rate : j # k => rate'[j] = rate[j]
      /\ rate'[k] = [hit EXCEPT !.count = IF hit.count > top THEN top ELSE hit.count]
  BY LimitsCardinality DEF Limits!Hit, Limits!Saturated
<1> HIDE DEF hit, top
<1>4. /\ rate'[k] \in [count : Nat, age : Nat] /\ rate'[k].age = hit.age
      /\ rate'[k].count = IF hit.count > top THEN top ELSE hit.count
  BY <1>1, <1>2, <1>3
<1>5. live => rate[k].count \in Nat
  OBVIOUS
<1>6. CASE live
  <2>1. rate'[k].count = IF rate[k].count + 1 > top THEN top ELSE rate[k].count + 1
    BY <1>1, <1>4, <1>6
  <2> QED BY <1>1, <1>2, <1>3, <1>4, <1>5, <1>6, <2>1 DEF top
<1>7. CASE ~live
  BY <1>1, <1>2, <1>3, <1>4, <1>7 DEF top
<1> QED BY <1>6, <1>7

LEMMA LoginKeys ==
  ASSUME NEW ip, NEW s
  PROVE  /\ Pair(ip, s)[1] = "login:pair" /\ Name(s)[1] = "login:user" /\ Pair(ip, s) # Name(s)
         /\ \A jp, t : Pair(jp, t) = Pair(ip, s) <=> jp = ip /\ t = s
         /\ \A t : Name(t) = Name(s) <=> t = s
BY DEF Pair, Name

Counted(ip, s) == PairCounted(ip, s) /\ NameCounted(ip, s)

\* What the counts may add up to.
LEMMA Sums ==
  ASSUME AttemptsOK, mix' = mix
  PROVE  /\ PairMax' = PairMax /\ Besides' = Besides /\ PairMax = Max["login:pair"] + Besides
         /\ Besides = Cardinality(mix.attempts) - 1 /\ PairMax \in Int /\ Besides \in Int
BY LoginNumbers DEF PairMax, Besides

\* Steps that count neither.
LEMMA CountedCalm ==
  ASSUME AttemptsOK, AttemptsOK', mix' = mix, NEW ip, NEW s, Counted(ip, s),
         \A k \in {Pair(ip, s), Name(s)} : /\ k \in DOMAIN rate' <=> k \in DOMAIN rate
                                           /\ k \in DOMAIN rate => rate'[k] = rate[k],
         Naming(ip, s)' \subseteq Naming(ip, s),
         Pairing(ip, s)' \subseteq Pairing(ip, s) \/ Limits!RateCount(Pair(ip, s)) < Max["login:pair"]
  PROVE  Counted(ip, s)'
<1> DEFINE P == Pair(ip, s)
           N == Name(s)
           g == Cardinality(Pairing(ip, s))
           m == Cardinality(Naming(ip, s))
<1>1. g' \in Nat /\ m' \in Nat /\ g' <= Cardinality(mix.attempts) /\ g \in Nat /\ m \in Nat
  BY LoginSets, LaterSets
<1>2. m' <= m
  BY LoginSets, FS_Subset
<1>3. PairMax' = PairMax /\ Besides' = Besides /\ PairMax = Max["login:pair"] + Besides /\ PairMax \in Int /\ Besides \in Int
      /\ Besides = Cardinality(mix.attempts) - 1
  BY Sums
<1>4. /\ P \in DOMAIN rate' <=> P \in DOMAIN rate
      /\ P \in DOMAIN rate => rate'[P] = rate[P]
      /\ N \in DOMAIN rate' <=> N \in DOMAIN rate
      /\ N \in DOMAIN rate => rate'[N] = rate[N]
  OBVIOUS
<1>5. P \in DOMAIN rate /\ rate[P].age <= LimitWindow["login:pair"] => rate[P].count + g' <= PairMax
  <2> SUFFICES ASSUME P \in DOMAIN rate, rate[P].age <= LimitWindow["login:pair"] PROVE rate[P].count + g' <= PairMax
    OBVIOUS
  <2>1. rate[P].count \in Nat /\ rate[P].count + g <= PairMax
    BY DEF Counted, PairCounted
  <2>2. CASE Pairing(ip, s)' \subseteq Pairing(ip, s)
    <3>1. g' <= g
      BY <2>2, LoginSets, FS_Subset
    <3> QED BY <1>1, <1>3, <2>1, <3>1
  <2>3. CASE Limits!RateCount(P) < Max["login:pair"]
    <3>1. rate[P].count < Max["login:pair"]
      BY <2>3, LoginKeys DEF Limits!RateCount
    <3> QED BY <1>1, <1>3, <2>1, <3>1, LoginNumbers
  <2> QED BY <2>2, <2>3
<1> HIDE DEF P, N, g, m
<1>6. PairCounted(ip, s)'
  BY <1>3, <1>4, <1>5 DEF Counted, PairCounted, P, g
<1>7. Charged(ip, s)' = Charged(ip, s) \/ N \notin DOMAIN rate
  BY <1>3, <1>4 DEF Charged, P, N
<1>8. ASSUME N \in DOMAIN rate, rate[N].age <= LimitWindow["login:user"] PROVE rate[N].count + m' <= Charged(ip, s) + Besides
  <2>1. rate[N].count + m <= Charged(ip, s) + Besides /\ rate[N].count \in Nat
    BY <1>8 DEF Counted, NameCounted, N, m
  <2>2. Charged(ip, s) \in Int
    BY <1>3 DEF Counted, PairCounted, Charged
  <2> QED BY <1>1, <1>2, <1>3, <2>1, <2>2
<1>9. NameCounted(ip, s)'
  BY <1>3, <1>4, <1>7, <1>8 DEF Counted, NameCounted, N, m
<1> QED BY <1>6, <1>9 DEF Counted

\* The pair is counted.
LEMMA CountedPair ==
  ASSUME AttemptsOK, AttemptsOK', mix' = mix, NEW ip, NEW s, Counted(ip, s), Limits!Hit(Pair(ip, s)),
         NEW a \in Pairing(ip, s),
         Pairing(ip, s)' = Pairing(ip, s) \ {a}, Naming(ip, s)' \subseteq Naming(ip, s) \cup {a},
         LimitWindow["login:user"] <= LimitWindow["login:pair"]
  PROVE  Counted(ip, s)'
<1> DEFINE P == Pair(ip, s)
           N == Name(s)
           g == Cardinality(Pairing(ip, s))
           m == Cardinality(Naming(ip, s))
           live == P \in DOMAIN rate /\ rate[P].age <= LimitWindow["login:pair"]
<1>1. g' \in Nat /\ m' \in Nat /\ g \in Nat /\ m \in Nat /\ g <= Cardinality(mix.attempts) /\ m <= Cardinality(mix.attempts)
      /\ m' <= Cardinality(mix.attempts)
  BY LoginSets, LaterSets
<1>2. g' = g - 1 /\ m' <= m + 1
  <2>1. Cardinality(Pairing(ip, s) \ {a}) = g - 1
    BY LoginSets, FS_RemoveElement
  <2>2. IsFiniteSet(Naming(ip, s) \cup {a}) /\ Cardinality(Naming(ip, s) \cup {a}) <= m + 1
    <3>1. IsFiniteSet(Naming(ip, s))
      BY LoginSets
    <3>2. /\ IsFiniteSet(Naming(ip, s) \cup {a})
          /\ Cardinality(Naming(ip, s) \cup {a}) = IF a \in Naming(ip, s) THEN m ELSE m + 1
      BY <3>1, FS_AddElement
    <3> QED BY <1>1, <3>2
  <2>3. m' <= Cardinality(Naming(ip, s) \cup {a})
    BY <2>2, FS_Subset
  <2>4. Cardinality(Naming(ip, s) \cup {a}) \in Nat
    BY <2>2, FS_CardinalityType
  <2> QED BY <1>1, <2>1, <2>2, <2>3, <2>4
<1>3. PairMax' = PairMax /\ Besides' = Besides /\ PairMax = Max["login:pair"] + Besides /\ PairMax \in Int /\ Besides \in Int
      /\ Besides = Cardinality(mix.attempts) - 1
  BY Sums
<1>4. P[1] = "login:pair" /\ P # N
  BY LoginKeys
<1>5. P \in DOMAIN rate => /\ rate[P] \in [count : Nat, age : Nat] /\ rate[P].count >= 1 /\ rate[P].count <= PairMax
                           /\ rate[P].age <= LimitWindow["login:pair"] => rate[P].count + g <= PairMax
  BY DEF Counted, PairCounted
<1>6. /\ DOMAIN rate' = DOMAIN rate \cup {P} /\ \A j \in DOMAIN rate : j # P => rate'[j] = rate[j]
      /\ rate'[P] \in [count : Nat, age : Nat]
      /\ rate'[P].age = IF live THEN rate[P].age ELSE 0
      /\ live /\ rate[P].count < Max["login:pair"] + Cardinality(Attempts) => rate'[P].count = rate[P].count + 1
      /\ ~live /\ Max["login:pair"] + Cardinality(Attempts) > 0 => rate'[P].count = 1
  <2> HIDE DEF live
  <2>1. live = (P \in DOMAIN rate /\ rate[P].age <= LimitWindow[P[1]])
    BY <1>4 DEF live
  <2>2. Max[P[1]] \in Nat /\ Cardinality(Attempts) \in Nat
    BY <1>4, LoginNumbers
  <2> HIDE DEF P
  <2> QED BY <1>4, <1>5, <2>1, <2>2, HitRow DEF P
<1>7. N \in DOMAIN rate' <=> N \in DOMAIN rate
  BY <1>4, <1>6
<1>8. N \in DOMAIN rate => /\ rate'[N] = rate[N] /\ rate[N] \in [count : Nat, age : Nat]
                           /\ rate[N].age <= LimitWindow["login:user"] => rate[N].count + m <= Charged(ip, s) + Besides
  BY <1>4, <1>6 DEF Counted, NameCounted
<1> HIDE DEF P, N, g, m
<1>9. rate'[P].count = IF live THEN rate[P].count + 1 ELSE 1
  <2>1. live => rate[P].count < Max["login:pair"] + Cardinality(Attempts)
    BY <1>1, <1>2, <1>3, <1>5, LoginNumbers
  <2> QED BY <1>6, <2>1, LoginNumbers
<1>10. rate'[P].count >= 1 /\ rate'[P].count + g' <= PairMax
  <2>1. CASE live
    BY <1>1, <1>2, <1>3, <1>5, <1>9, <2>1
  <2>2. CASE ~live
    BY <1>1, <1>2, <1>3, <1>9, <2>2, LoginNumbers
  <2> QED BY <2>1, <2>2
<1>11. PairCounted(ip, s)'
  <2>1. rate'[P].count <= PairMax
    BY <1>1, <1>3, <1>6, <1>10
  <2> QED BY <1>3, <1>6, <1>10, <2>1 DEF PairCounted, P, g
<1>12. ASSUME N \in DOMAIN rate, rate[N].age <= LimitWindow["login:user"]
       PROVE  rate[N].count + m' <= Charged(ip, s)' + Besides
  <2>1. rate[N].count \in Nat /\ rate[N].age \in Nat /\ rate[N].count + m <= Charged(ip, s) + Besides
    BY <1>8, <1>12
  <2>2. Charged(ip, s)' = IF rate'[P].age > rate[N].age THEN rate'[P].count ELSE PairMax + rate'[P].count
    BY <1>3, <1>6, <1>8, <1>12 DEF Charged, P, N
  <2>3. Charged(ip, s) = IF P \notin DOMAIN rate THEN PairMax
                         ELSE IF rate[P].age > rate[N].age THEN rate[P].count ELSE PairMax + rate[P].count
    BY DEF Charged, P, N
  <2>4. CASE live
    BY <1>1, <1>2, <1>3, <1>5, <1>6, <1>9, <2>1, <2>2, <2>3, <2>4
  <2>5. CASE ~live
    <3>1. rate'[P].age = 0 /\ rate'[P].count = 1
      BY <1>6, <1>9, <2>5
    <3>2. Charged(ip, s)' = PairMax + 1
      BY <2>1, <2>2, <3>1
    <3>3. P \in DOMAIN rate => rate[P].age > rate[N].age
      BY <1>5, <1>12, <2>1, <2>5, LoginNumbers
    <3>4. Charged(ip, s) <= PairMax /\ Charged(ip, s) \in Int
      BY <1>3, <1>5, <2>3, <3>3
    <3> QED BY <1>1, <1>2, <1>3, <2>1, <3>2, <3>4
  <2> QED BY <2>4, <2>5
<1>13. NameCounted(ip, s)'
  BY <1>3, <1>7, <1>8, <1>12 DEF NameCounted, N, m
<1> QED BY <1>11, <1>13 DEF Counted

\* The name is counted.
LEMMA CountedName ==
  ASSUME AttemptsOK, AttemptsOK', mix' = mix, NEW ip, NEW s, Counted(ip, s), Limits!Hit(Name(s)),
         NEW a \in Naming(ip, s),
         Naming(ip, s)' = Naming(ip, s) \ {a}, Pairing(ip, s)' \subseteq Pairing(ip, s)
  PROVE  Counted(ip, s)'
<1> DEFINE P == Pair(ip, s)
           N == Name(s)
           g == Cardinality(Pairing(ip, s))
           m == Cardinality(Naming(ip, s))
           live == N \in DOMAIN rate /\ rate[N].age <= LimitWindow["login:user"]
<1>1. g' \in Nat /\ m' \in Nat /\ g \in Nat /\ m \in Nat /\ g' <= g /\ m <= Cardinality(mix.attempts)
  BY LoginSets, LaterSets, FS_Subset
<1>2. m' = m - 1
  <2>1. Cardinality(Naming(ip, s) \ {a}) = m - 1
    BY LoginSets, FS_RemoveElement
  <2> QED BY <2>1
<1>3. PairMax' = PairMax /\ Besides' = Besides /\ PairMax = Max["login:pair"] + Besides /\ PairMax \in Int /\ Besides \in Int
      /\ Besides = Cardinality(mix.attempts) - 1
  BY Sums
<1>4. N[1] = "login:user" /\ P # N
  BY LoginKeys
<1>5. N \in DOMAIN rate => /\ rate[N] \in [count : Nat, age : Nat]
                           /\ rate[N].age <= LimitWindow["login:user"] => rate[N].count + m <= Charged(ip, s) + Besides
  BY DEF Counted, NameCounted
<1>6. /\ DOMAIN rate' = DOMAIN rate \cup {N} /\ \A j \in DOMAIN rate : j # N => rate'[j] = rate[j]
      /\ rate'[N] \in [count : Nat, age : Nat]
      /\ rate'[N].age = IF live THEN rate[N].age ELSE 0
      /\ rate'[N].count <= IF live THEN rate[N].count + 1 ELSE 1
  <2> HIDE DEF live
  <2>1. live = (N \in DOMAIN rate /\ rate[N].age <= LimitWindow[N[1]])
    BY <1>4 DEF live
  <2>2. Max[N[1]] \in Nat /\ Cardinality(Attempts) \in Nat
    BY <1>4, LoginNumbers
  <2> HIDE DEF N
  <2> QED BY <1>4, <1>5, <2>1, <2>2, HitRow DEF N
<1>7. (P \in DOMAIN rate' <=> P \in DOMAIN rate) /\ (P \in DOMAIN rate => rate'[P] = rate[P])
  BY <1>4, <1>6
<1>8. P \in DOMAIN rate => /\ rate[P] \in [count : Nat, age : Nat] /\ rate[P].count >= 1 /\ rate[P].count <= PairMax
                           /\ rate[P].age <= LimitWindow["login:pair"] => rate[P].count + g <= PairMax
  BY DEF Counted, PairCounted
<1> HIDE DEF P, N, g, m
<1>9. PairCounted(ip, s)'
  <2>1. P \in DOMAIN rate /\ rate[P].age <= LimitWindow["login:pair"] => rate[P].count + g' <= PairMax
    BY <1>1, <1>3, <1>8
  <2> QED BY <1>3, <1>7, <1>8, <2>1 DEF PairCounted, P, g
<1>10. rate'[N].count + m' <= Charged(ip, s)' + Besides
  <2>1. Charged(ip, s)' = IF P \notin DOMAIN rate THEN PairMax
                          ELSE IF rate[P].age > rate'[N].age THEN rate[P].count ELSE PairMax + rate[P].count
    BY <1>3, <1>7 DEF Charged, P, N
  <2>2. CASE live
    <3>1. Charged(ip, s)' = Charged(ip, s)
      BY <1>6, <2>1, <2>2 DEF Charged, P, N
    <3>2. Charged(ip, s) \in Int
      BY <1>3, <1>8 DEF Charged, P
    <3> QED BY <1>1, <1>2, <1>3, <1>5, <1>6, <2>2, <3>1, <3>2
  <2>3. CASE ~live
    <3>1. rate'[N].count <= 1 /\ rate'[N].count \in Nat
      BY <1>6, <2>3
    <3>2. PairMax >= 1
      <4>1. Besides >= 0
        BY <1>1, <1>2, <1>3, LoginNumbers
      <4> QED BY <1>3, <4>1, LoginNumbers
    <3>3. Charged(ip, s)' >= 1 /\ Charged(ip, s)' \in Int
      <4>1. CASE P \notin DOMAIN rate
        BY <1>3, <2>1, <3>2, <4>1
      <4>2. CASE P \in DOMAIN rate
        <5>1. rate[P].count \in Nat /\ rate[P].count >= 1
          BY <1>8, <4>2
        <5>2. Charged(ip, s)' = rate[P].count \/ Charged(ip, s)' = PairMax + rate[P].count
          BY <2>1, <4>2
        <5> QED BY <1>3, <3>2, <5>1, <5>2
      <4> QED BY <4>1, <4>2
    <3> QED BY <1>1, <1>2, <1>3, <3>1, <3>3, LoginNumbers
  <2> QED BY <2>2, <2>3
<1>11. NameCounted(ip, s)'
  BY <1>3, <1>6, <1>10 DEF NameCounted, N, m
<1> QED BY <1>9, <1>11 DEF Counted

\* Rows age, all alike.
LEMMA CountedTick ==
  ASSUME AttemptsOK, mix' = mix, att' = att, NEW ip, NEW s, Counted(ip, s), Limits!Tick
  PROVE  Counted(ip, s)'
<1> DEFINE P == Pair(ip, s)
           N == Name(s)
           g == Cardinality(Pairing(ip, s))
           m == Cardinality(Naming(ip, s))
<1>1. rate' = [k \in DOMAIN rate |-> [rate[k] EXCEPT !.age = IF rate[k].age > Day THEN rate[k].age ELSE rate[k].age + 1]]
  BY DEF Limits!Tick
<1>2. g' = g /\ m' = m /\ g \in Nat /\ m \in Nat
  <2>1. Pairing(ip, s)' = Pairing(ip, s) /\ Naming(ip, s)' = Naming(ip, s)
    BY DEF Pairing, Naming, MayPair, MustName, IsLogin
  <2>2. g \in Nat /\ m \in Nat
    BY LoginSets
  <2> QED BY <2>1, <2>2
<1>3. PairMax' = PairMax /\ Besides' = Besides /\ PairMax = Max["login:pair"] + Besides /\ PairMax \in Int /\ Besides \in Int
  BY Sums
<1>4. ASSUME NEW k, k \in DOMAIN rate, rate[k] \in [count : Nat, age : Nat]
      PROVE  /\ k \in DOMAIN rate' /\ rate'[k] \in [count : Nat, age : Nat] /\ rate'[k].count = rate[k].count
             /\ rate'[k].age = IF rate[k].age > Day THEN rate[k].age ELSE rate[k].age + 1
  <2>1. rate'[k] = [rate[k] EXCEPT !.age = IF rate[k].age > Day THEN rate[k].age ELSE rate[k].age + 1]
    BY <1>1, <1>4
  <2> QED BY <1>1, <1>4, <2>1, LoginNumbers
<1>5. DOMAIN rate' = DOMAIN rate
  BY <1>1
<1>6. P \in DOMAIN rate => /\ rate[P] \in [count : Nat, age : Nat] /\ rate[P].count >= 1 /\ rate[P].count <= PairMax
                           /\ rate[P].age <= LimitWindow["login:pair"] => rate[P].count + g <= PairMax
  BY DEF Counted, PairCounted
<1>7. N \in DOMAIN rate => /\ rate[N] \in [count : Nat, age : Nat]
                           /\ rate[N].age <= LimitWindow["login:user"] => rate[N].count + m <= Charged(ip, s) + Besides
  BY DEF Counted, NameCounted
<1> HIDE DEF P, N, g, m
<1>8. P \in DOMAIN rate => /\ rate'[P] \in [count : Nat, age : Nat] /\ rate'[P].count = rate[P].count
                           /\ rate'[P].age = IF rate[P].age > Day THEN rate[P].age ELSE rate[P].age + 1
  BY <1>4, <1>6
<1>9. N \in DOMAIN rate => /\ rate'[N] \in [count : Nat, age : Nat] /\ rate'[N].count = rate[N].count
                           /\ rate'[N].age = IF rate[N].age > Day THEN rate[N].age ELSE rate[N].age + 1
  BY <1>4, <1>7
<1>10. P \in DOMAIN rate /\ rate'[P].age <= LimitWindow["login:pair"] => rate[P].age <= LimitWindow["login:pair"]
  BY <1>6, <1>8, LoginNumbers
<1>11. PairCounted(ip, s)'
  BY <1>2, <1>3, <1>5, <1>6, <1>8, <1>10 DEF PairCounted, P, g
<1>12. ASSUME N \in DOMAIN rate, rate'[N].age <= LimitWindow["login:user"]
       PROVE  rate'[N].count + m' <= Charged(ip, s)' + Besides
  <2>1. rate[N].age \in Nat /\ rate'[N].age = rate[N].age + 1 /\ rate[N].age <= Day /\ rate[N].age <= LimitWindow["login:user"]
    BY <1>7, <1>9, <1>12, LoginNumbers
  <2>2. Charged(ip, s) = IF P \notin DOMAIN rate THEN PairMax
                         ELSE IF rate[P].age > rate[N].age THEN rate[P].count ELSE PairMax + rate[P].count
    BY DEF Charged, P, N
  <2>3. Charged(ip, s)' = IF P \notin DOMAIN rate THEN PairMax
                          ELSE IF rate'[P].age > rate'[N].age THEN rate'[P].count ELSE PairMax + rate'[P].count
    BY <1>3, <1>5 DEF Charged, P, N
  <2>4. P \in DOMAIN rate => (rate'[P].age > rate'[N].age <=> rate[P].age > rate[N].age)
    <3>1. CASE P \in DOMAIN rate /\ rate[P].age > Day
      <4>1. rate'[P].age = rate[P].age /\ rate[P].age \in Nat
        BY <1>6, <1>8, <3>1
      <4>2. LimitWindow["login:user"] \in Nat /\ LimitWindow["login:user"] <= Day /\ Day \in Nat
        BY LoginNumbers
      <4> QED BY <1>12, <2>1, <3>1, <4>1, <4>2
    <3>2. CASE P \in DOMAIN rate /\ ~(rate[P].age > Day)
      <4>1. rate'[P].age = rate[P].age + 1 /\ rate[P].age \in Nat
        BY <1>6, <1>8, <3>2
      <4> QED BY <2>1, <4>1
    <3> QED BY <3>1, <3>2
  <2>5. Charged(ip, s)' = Charged(ip, s)
    BY <1>8, <2>2, <2>3, <2>4
  <2> QED BY <1>2, <1>7, <1>9, <1>12, <2>1, <2>5
<1>13. NameCounted(ip, s)'
  BY <1>3, <1>5, <1>9, <1>12 DEF NameCounted, N, m
<1> QED BY <1>11, <1>13 DEF Counted

\* Rows that are deleted count no more.
LEMMA CountedDelete ==
  ASSUME AttemptsOK, mix' = mix, att' = att, NEW ip, NEW s, Counted(ip, s), Limits!DeleteOldRateLimits
  PROVE  Counted(ip, s)'
<1> DEFINE P == Pair(ip, s)
           N == Name(s)
           g == Cardinality(Pairing(ip, s))
           m == Cardinality(Naming(ip, s))
<1>1. rate' = [k \in {x \in DOMAIN rate : rate[x].age <= Day} |-> rate[k]]
  BY DEF Limits!DeleteOldRateLimits
<1>2. g' = g /\ m' = m /\ g \in Nat /\ m \in Nat
  <2>1. Pairing(ip, s)' = Pairing(ip, s) /\ Naming(ip, s)' = Naming(ip, s)
    BY DEF Pairing, Naming, MayPair, MustName, IsLogin
  <2>2. g \in Nat /\ m \in Nat
    BY LoginSets
  <2> QED BY <2>1, <2>2
<1>3. PairMax' = PairMax /\ Besides' = Besides /\ PairMax = Max["login:pair"] + Besides /\ PairMax \in Int /\ Besides \in Int
  BY Sums
<1>4. /\ P \in DOMAIN rate' <=> P \in DOMAIN rate /\ rate[P].age <= Day
      /\ N \in DOMAIN rate' <=> N \in DOMAIN rate /\ rate[N].age <= Day
      /\ P \in DOMAIN rate' => rate'[P] = rate[P]
      /\ N \in DOMAIN rate' => rate'[N] = rate[N]
  BY <1>1
<1>6. P \in DOMAIN rate => /\ rate[P] \in [count : Nat, age : Nat] /\ rate[P].count >= 1 /\ rate[P].count <= PairMax
                           /\ rate[P].age <= LimitWindow["login:pair"] => rate[P].count + g <= PairMax
  BY DEF Counted, PairCounted
<1>7. N \in DOMAIN rate => /\ rate[N] \in [count : Nat, age : Nat]
                           /\ rate[N].age <= LimitWindow["login:user"] => rate[N].count + m <= Charged(ip, s) + Besides
  BY DEF Counted, NameCounted
<1> HIDE DEF P, N, g, m
<1>8. PairCounted(ip, s)'
  BY <1>2, <1>3, <1>4, <1>6 DEF PairCounted, P, g
<1>9. ASSUME N \in DOMAIN rate', rate[N].age <= LimitWindow["login:user"]
      PROVE  rate[N].count + m <= Charged(ip, s)' + Besides
  <2>1. rate[N].age \in Nat /\ rate[N].count \in Nat /\ rate[N].count + m <= Charged(ip, s) + Besides
    BY <1>4, <1>7, <1>9
  <2>2. Charged(ip, s) = IF P \notin DOMAIN rate THEN PairMax
                         ELSE IF rate[P].age > rate[N].age THEN rate[P].count ELSE PairMax + rate[P].count
    BY DEF Charged, P, N
  <2>3. Charged(ip, s)' = IF P \notin DOMAIN rate' THEN PairMax
                          ELSE IF rate[P].age > rate[N].age THEN rate[P].count ELSE PairMax + rate[P].count
    BY <1>3, <1>4, <1>9 DEF Charged, P, N
  <2>4. P \in DOMAIN rate /\ P \notin DOMAIN rate' => rate[P].age > rate[N].age
    BY <1>4, <1>6, <1>9, <2>1, LoginNumbers
  <2>5. Charged(ip, s) <= Charged(ip, s)' /\ Charged(ip, s) \in Int /\ Charged(ip, s)' \in Int
    BY <1>3, <1>4, <1>6, <2>2, <2>3, <2>4
  <2> QED BY <1>2, <1>3, <2>1, <2>5
<1>10. NameCounted(ip, s)'
  BY <1>2, <1>3, <1>4, <1>7, <1>9 DEF NameCounted, N, m
<1> QED BY <1>8, <1>10 DEF Counted

LEMMA StepOfOne ==
  ASSUME NEW a \in Attempts, \A b \in Attempts : b # a => att'[b] = att[b], NEW ip, NEW s
  PROVE  /\ Pairing(ip, s)' = (Pairing(ip, s) \ {a}) \cup {b \in {a} : MayPair(att[a], ip, s)'}
         /\ Naming(ip, s)' = (Naming(ip, s) \ {a}) \cup {b \in {a} : MustName(att[a], ip, s)'}
         /\ a \in Pairing(ip, s) <=> MayPair(att[a], ip, s)
         /\ a \in Naming(ip, s) <=> MustName(att[a], ip, s)
<1>1. \A b \in Attempts : b # a => /\ MayPair(att[b], ip, s)' <=> MayPair(att[b], ip, s)
                                   /\ MustName(att[b], ip, s)' <=> MustName(att[b], ip, s)
  BY DEF MayPair, MustName, IsLogin
<1> QED BY <1>1 DEF Pairing, Naming

LEMMA ShapesStep ==
  ASSUME LoginShapes, mix' = mix, slipped \subseteq slipped', NEW a \in Attempts,
         \A b \in Attempts : b # a => att'[b] = att[b],
         att'[a] # None => Shaped(att[a])'
  PROVE  LoginShapes'
<1>1. ASSUME NEW b \in Attempts, b # a, att'[b] # None PROVE Shaped(att[b])'
  <2>1. Shaped(att[b])
    BY <1>1 DEF LoginShapes
  <2> QED BY <1>1, <2>1 DEF Shaped
<1> QED BY <1>1 DEF LoginShapes

\* What leaves the rows of logins alone.
Untouched(k) == (k \in DOMAIN rate' <=> k \in DOMAIN rate) /\ (k \in DOMAIN rate => rate'[k] = rate[k])

LEMMA CalmOne ==
  ASSUME AttemptsOK, AttemptsOK', mix' = mix, NEW a \in Attempts, \A b \in Attempts : b # a => att'[b] = att[b],
         NEW ip, NEW s, Counted(ip, s), Untouched(Pair(ip, s)), Untouched(Name(s)),
         MustName(att[a], ip, s)' => MustName(att[a], ip, s),
         MayPair(att[a], ip, s)' => MayPair(att[a], ip, s) \/ Limits!RateCount(Pair(ip, s)) < Max["login:pair"]
  PROVE  Counted(ip, s)'
<1>1. Naming(ip, s)' \subseteq Naming(ip, s)
  BY StepOfOne
<1>2. Pairing(ip, s)' \subseteq Pairing(ip, s) \/ Limits!RateCount(Pair(ip, s)) < Max["login:pair"]
  BY StepOfOne
<1> QED BY <1>1, <1>2, CountedCalm DEF Untouched

LEMMA NamesCalm ==
  ASSUME AttemptsOK, AttemptsOK', mix' = mix, NamesCounted, NEW a \in Attempts,
         \A b \in Attempts : b # a => att'[b] = att[b],
         \A ip, s : Untouched(Pair(ip, s)) /\ Untouched(Name(s)),
         \A ip \in mix.ips \ {Owner}, s \in Subjects :
             /\ MustName(att[a], ip, s)' => MustName(att[a], ip, s)
             /\ MayPair(att[a], ip, s)' => MayPair(att[a], ip, s) \/ Limits!RateCount(Pair(ip, s)) < Max["login:pair"]
  PROVE  NamesCounted'
<1>1. ASSUME NEW ip \in mix.ips \ {Owner}, NEW s \in Subjects PROVE Counted(ip, s)'
  BY <1>1, CalmOne DEF NamesCounted, Counted
<1>2. \A s \in Subjects : Name(s) \in DOMAIN rate' => \E ip \in mix.ips : ip # Owner
  BY DEF NamesCounted, Untouched
<1>3. \A s : Name(s)' = Name(s)
  BY DEF Name
<1> QED BY <1>1, <1>2, <1>3 DEF NamesCounted, Counted

\* Steps of the other routes.
LEMMA ApartStep ==
  ASSUME NameInv, AttemptsOK, AttemptsOK', mix' = mix, slipped \subseteq slipped', lost => lost',
         NEW a \in Attempts, att[a] # None, att[a].route # "login",
         \A b \in Attempts : b # a => att'[b] = att[b],
         att'[a] = None \/ (SameLogin(att[a], att'[a]) /\ Elsewhere(att'[a].todo)),
         \A ip, s : Untouched(Pair(ip, s)) /\ Untouched(Name(s))
  PROVE  NameInv'
<1>1. att'[a] # None => att'[a].route # "login" /\ Shaped(att[a])'
  BY DEF NameInv, LoginShapes, Shaped, SameLogin, Elsewhere
<1>2. LoginShapes'
  BY <1>1, ShapesStep DEF NameInv
<1>3. ASSUME NamesCounted PROVE NamesCounted'
  <2>1. \A ip, s : ~MustName(att[a], ip, s)' /\ ~MayPair(att[a], ip, s)'
    BY <1>1 DEF MustName, MayPair, IsLogin
  <2> QED BY <1>3, <2>1, NamesCalm
<1> QED BY <1>2, <1>3 DEF NameInv, Alone

\* The steps of a login, and their keys.
LEMMA LoginAt ==
  ASSUME AttemptsOK, LoginShapes, NEW a \in Attempts, NEW op, Limits!At(a, op), att[a].route = "login"
  PROVE  LET q == att[a] IN
         /\ q # None /\ Shaped(q) /\ q.route \in mix.routes /\ q.ip \in mix.ips
         /\ \/ op = "ask" /\ \/ q.todo = Limits!Login /\ Limits!Key(a) = <<"login:ip", q.ip>>
                             \/ q.todo = AtPair /\ Limits!Key(a) = Pair(q.ip, q.subject)
                             \/ q.todo = AtName /\ Limits!Key(a) = Name(q.subject)
            \/ op = "prove" /\ q.todo = AtProve
            \/ op = "count" /\ q.ip \in slipped
                            /\ \/ q.todo = AtFailed /\ Limits!Key(a) = <<"login:ip", q.ip>>
                               \/ q.todo = AtCount /\ Limits!Key(a) = Pair(q.ip, q.subject)
                               \/ q.todo = AtLast /\ Limits!Key(a) = Name(q.subject)
<1> DEFINE q == att[a]
<1>1. q # None /\ Shaped(q) /\ q.todo # << >> /\ Head(q.todo).op = op /\ q.route \in mix.routes /\ q.ip \in mix.ips
  BY DEF Limits!At, LoginShapes, Shaped
<1>2. /\ q.todo \in {Limits!Login, AtPair, AtName, AtProve, AtFailed, AtCount, AtLast}
      /\ q.todo \in {AtFailed, AtCount, AtLast} => q.ip \in slipped
  BY <1>1 DEF Shaped
<1>3. \A ip, s : /\ Limits!KeyOf("login:ip", ip, s) = <<"login:ip", ip>>
                 /\ Limits!KeyOf("login:pair", ip, s) = Pair(ip, s)
                 /\ Limits!KeyOf("login:user", ip, s) = Name(s)
  BY DEF Limits!KeyOf, Limits!ByIP, Pair, Name
<1>4. Limits!Key(a) = Limits!KeyOf(Head(q.todo).kind, q.ip, q.subject)
  BY DEF Limits!Key
<1> HIDE DEF q
<1>5. CASE q.todo \in {Limits!Login, AtPair, AtName}
  <2>1. Head(q.todo).op = "ask"
    BY <1>5, LoginHeads, LoginOps
  <2>2. op = "ask"
    BY <1>1, <2>1
  <2>3. \/ q.todo = Limits!Login /\ Head(q.todo).kind = "login:ip"
        \/ q.todo = AtPair /\ Head(q.todo).kind = "login:pair"
        \/ q.todo = AtName /\ Head(q.todo).kind = "login:user"
    BY <1>5, LoginHeads, LoginOps
  <2>4. \/ q.todo = Limits!Login /\ Limits!Key(a) = <<"login:ip", q.ip>>
        \/ q.todo = AtPair /\ Limits!Key(a) = Pair(q.ip, q.subject)
        \/ q.todo = AtName /\ Limits!Key(a) = Name(q.subject)
    BY <1>3, <1>4, <2>3
  <2> QED BY <1>1, <2>2, <2>4 DEF q
<1>6. CASE q.todo = AtProve
  BY <1>1, <1>6, LoginHeads, LoginOps DEF q
<1>7. CASE q.todo \in {AtFailed, AtCount, AtLast}
  <2>1. Head(q.todo).op = "count"
    BY <1>7, LoginHeads, LoginOps
  <2>2. op = "count" /\ q.ip \in slipped
    BY <1>1, <1>2, <1>7, <2>1
  <2>3. \/ q.todo = AtFailed /\ Head(q.todo).kind = "login:ip"
        \/ q.todo = AtCount /\ Head(q.todo).kind = "login:pair"
        \/ q.todo = AtLast /\ Head(q.todo).kind = "login:user"
    BY <1>7, LoginHeads, LoginOps
  <2>4. \/ q.todo = AtFailed /\ Limits!Key(a) = <<"login:ip", q.ip>>
        \/ q.todo = AtCount /\ Limits!Key(a) = Pair(q.ip, q.subject)
        \/ q.todo = AtLast /\ Limits!Key(a) = Name(q.subject)
    BY <1>3, <1>4, <2>3
  <2> QED BY <1>1, <2>2, <2>4 DEF q
<1> QED BY <1>2, <1>5, <1>6, <1>7

LEMMA OtherAt ==
  ASSUME AttemptsOK, LoginShapes, NEW a \in Attempts, NEW op, Limits!At(a, op), att[a].route # "login"
  PROVE  /\ att[a] # None /\ att[a].route \in Limits!Routes /\ Elsewhere(Tail(att[a].todo)) /\ Elsewhere(<< >>)
         /\ op # "prove" => \A ip, s : /\ Limits!Key(a) # Pair(ip, s) /\ Limits!Key(a) # Name(s)
                                       /\ Limits!Key(a) # <<"login:ip", ip>>
<1>1. att[a] # None /\ att[a].todo # << >> /\ Head(att[a].todo).op = op /\ Ordered(att[a].todo) /\ att[a] \in Att
  BY DEF Limits!At, AttemptsOK
<1>2. Elsewhere(att[a].todo)
  BY <1>1 DEF LoginShapes, Shaped
<1>3. Elsewhere(Tail(att[a].todo)) /\ (op # "prove" => Head(att[a].todo).kind \notin LoginKinds)
  BY <1>1, <1>2, ElsewhereStep
<1>4. Limits!Key(a)[1] = Head(att[a].todo).kind
  BY KeyKind DEF Limits!Key
<1>5. \A ip, s : /\ Pair(ip, s)[1] = "login:pair" /\ Name(s)[1] = "login:user"
                 /\ <<"login:ip", ip>>[1] = "login:ip"
  BY DEF Pair, Name
<1>6. Elsewhere(<< >>)
  BY DEF Elsewhere
<1> QED BY <1>1, <1>3, <1>4, <1>5, <1>6 DEF LoginKinds, Att

LEMMA HitApart ==
  ASSUME NEW k, Limits!Hit(k)
  PROVE  \A j : j # k => Untouched(j)
BY DEF Limits!Hit, Untouched

\* The row of a name that one pair was counted for.
LEMMA NameBelow ==
  ASSUME AttemptsOK, LoginShapes, NamesCounted, NEW s \in Subjects
  PROVE  Limits!RateCount(Name(s)) <= 2 * Max["login:pair"] + 3 * Besides
<1>1. Besides \in Nat
  <2>1. mix.attempts # {}
    BY LimitsConstants DEF LoginShapes
  <2> QED BY <2>1, LoginNumbers, FS_EmptySet DEF Besides
<1>2. Name(s)[1] = "login:user"
  BY LoginKeys
<1>3. CASE ~(Name(s) \in DOMAIN rate /\ rate[Name(s)].age <= LimitWindow["login:user"])
  <2>1. Limits!RateCount(Name(s)) = 0
    BY <1>2, <1>3 DEF Limits!RateCount
  <2> QED BY <1>1, <2>1, LoginNumbers
<1>4. CASE Name(s) \in DOMAIN rate /\ rate[Name(s)].age <= LimitWindow["login:user"]
  <2>1. PICK ip \in mix.ips : ip # Owner
    BY <1>4 DEF NamesCounted
  <2>2. Counted(ip, s)
    BY <2>1 DEF NamesCounted, Counted
  <2>3. /\ rate[Name(s)].count \in Nat
        /\ rate[Name(s)].count + Cardinality(Naming(ip, s)) <= Charged(ip, s) + Besides
    BY <1>4, <2>2 DEF Counted, NameCounted
  <2>4. Cardinality(Naming(ip, s)) \in Nat
    BY LoginSets
  <2>5. PairMax = Max["login:pair"] + Besides /\ Max["login:pair"] \in Nat /\ Max["login:user"] \in Nat
    BY <1>1, LoginNumbers DEF PairMax
  <2>6. Charged(ip, s) \in Int /\ Charged(ip, s) <= 2 * PairMax
    <3>1. CASE Pair(ip, s) \notin DOMAIN rate
      BY <1>1, <2>5, <3>1 DEF Charged
    <3>2. CASE Pair(ip, s) \in DOMAIN rate
      <4>1. rate[Pair(ip, s)].count \in Nat /\ rate[Pair(ip, s)].count <= PairMax
        BY <2>2, <3>2 DEF Counted, PairCounted
      <4>2. Charged(ip, s) = rate[Pair(ip, s)].count \/ Charged(ip, s) = PairMax + rate[Pair(ip, s)].count
        BY <3>2 DEF Charged
      <4> QED BY <1>1, <2>5, <4>1, <4>2
    <3> QED BY <3>1, <3>2
  <2>7. rate[Name(s)].count <= 2 * Max["login:pair"] + 3 * Besides
    BY <1>1, <2>3, <2>4, <2>5, <2>6
  <2>8. Limits!RateCount(Name(s)) = rate[Name(s)].count
    BY <1>2, <1>4 DEF Limits!RateCount
  <2> QED BY <2>7, <2>8
<1> QED BY <1>3, <1>4

LEMMA NameInit == ASSUME Limits!Init PROVE NameInv
<1>1. \A a \in Attempts : att[a] = None
  BY DEF Limits!Init
<1>2. LoginShapes /\ NamesCounted
  BY <1>1 DEF Limits!Init, LoginShapes, NamesCounted, PairCounted, NameCounted
<1> QED BY <1>2 DEF NameInv

LEMMA NameBegin ==
  ASSUME LimitsInv, AttemptsOK', NameInv, NEW a \in Attempts, Limits!Begin(a)
  PROVE  NameInv'
<1>1. att[a] = None /\ UNCHANGED <<rate, mix, slipped, lost>>
  BY DEF Limits!Begin, Limits!observed
<1>2. PICK route \in mix.routes, ip \in mix.ips, s \in Subjects :
        att' = [att EXCEPT ![a] =
                    [route |-> route, ip |-> ip, subject |-> s, todo |-> Limits!Steps(route), refused |-> FALSE]]
  BY DEF Limits!Begin
<1>3. /\ att'[a] = [route |-> route, ip |-> ip, subject |-> s, todo |-> Limits!Steps(route), refused |-> FALSE]
      /\ \A b \in Attempts : b # a => att'[b] = att[b]
      /\ AttemptsOK /\ route \in Limits!Routes
  BY <1>2 DEF LimitsInv, AttemptsOK
<1>4. /\ att'[a].route = route /\ att'[a].ip = ip /\ att'[a].subject = s /\ att'[a].todo = Limits!Steps(route)
      /\ ~att'[a].refused
  BY <1>3
<1>5. IF route = "login" THEN Limits!Steps(route) = Limits!Login ELSE Elsewhere(Limits!Steps(route))
  BY <1>3, OthersElsewhere DEF Limits!Steps
<1>6. Shaped(att[a])'
  <2>1. Limits!Login \notin {AtFailed, AtCount, AtLast}
    BY LoginApart
  <2> QED BY <1>1, <1>4, <1>5, <2>1 DEF Shaped, Elsewhere
<1>7. LoginShapes'
  BY <1>1, <1>3, <1>6, ShapesStep DEF NameInv
<1>8. ASSUME NamesCounted PROVE NamesCounted'
  <2>1. \A jp, t : ~MustName(att[a], jp, t)' /\ ~MayPair(att[a], jp, t)'
    <3>1. Limits!Login \notin {AtName, AtProve, AtFailed, AtCount, AtLast}
      BY LoginApart
    <3> QED BY <1>4, <1>5, <3>1 DEF MustName, MayPair, IsLogin
  <2>2. \A jp, t : Untouched(Pair(jp, t)) /\ Untouched(Name(t))
    BY <1>1 DEF Untouched
  <2> QED BY <1>1, <1>3, <1>8, <2>1, <2>2, NamesCalm
<1> QED BY <1>1, <1>7, <1>8 DEF NameInv, Alone

LEMMA NameLeave ==
  ASSUME LimitsInv, AttemptsOK', NameInv, NEW a \in Attempts, Limits!Leave(a)
  PROVE  NameInv'
<1>1. /\ UNCHANGED <<rate, mix, slipped, lost>> /\ att'[a] = None /\ \A b \in Attempts : b # a => att'[b] = att[b]
      /\ AttemptsOK
  BY DEF Limits!Leave, Limits!observed, LimitsInv, AttemptsOK
<1>2. LoginShapes'
  BY <1>1, ShapesStep DEF NameInv
<1>3. ASSUME NamesCounted PROVE NamesCounted'
  <2>1. \A jp, t : ~MustName(att[a], jp, t)' /\ ~MayPair(att[a], jp, t)'
    BY <1>1 DEF MustName, MayPair, IsLogin
  <2>2. \A jp, t : Untouched(Pair(jp, t)) /\ Untouched(Name(t))
    BY <1>1 DEF Untouched
  <2> QED BY <1>1, <1>3, <2>1, <2>2, NamesCalm
<1> QED BY <1>1, <1>2, <1>3 DEF NameInv, Alone

LEMMA NameAsk ==
  ASSUME LimitsInv, AttemptsOK', NameInv, NEW a \in Attempts, Limits!Ask(a)
  PROVE  NameInv'
<1> DEFINE q == att[a]
           full == Limits!RateCount(Limits!Key(a)) >= Max[Head(att[a].todo).kind]
<1>1. /\ Limits!At(a, "ask") /\ q # None /\ UNCHANGED <<rate, mix, slipped, lost>> /\ AttemptsOK /\ LoginShapes
      /\ IF full THEN Limits!Refused(a) ELSE Limits!Goes(a, Tail(q.todo))
  BY DEF Limits!Ask, Limits!At, Limits!observed, Limits!Next1, LimitsInv, NameInv
<1>2. \A jp, t : Untouched(Pair(jp, t)) /\ Untouched(Name(t)) /\ Untouched(<<"login:ip", jp>>)
  BY <1>1 DEF Untouched
<1>3. /\ \A b \in Attempts : b # a => att'[b] = att[b]
      /\ full => SameLogin(q, att'[a]) /\ att'[a].todo = << >> /\ att'[a].refused
      /\ ~full => \/ att'[a] = None
                  \/ SameLogin(q, att'[a]) /\ att'[a].todo = Tail(q.todo) /\ att'[a].refused = q.refused
  BY <1>1, AfterRefusal, AfterStep
<1> HIDE DEF full
<1>4. CASE q.route # "login"
  <2>1. Elsewhere(Tail(q.todo)) /\ Elsewhere(<< >>)
    BY <1>1, <1>4, OtherAt
  <2>2. att'[a] = None \/ (SameLogin(q, att'[a]) /\ Elsewhere(att'[a].todo))
    BY <1>3, <2>1
  <2> QED BY <1>1, <1>2, <1>3, <1>4, <2>2, ApartStep
<1>5. CASE q.route = "login"
  <2>1. /\ Shaped(q) /\ q.route \in mix.routes /\ q.ip \in mix.ips
        /\ \/ q.todo = Limits!Login
           \/ q.todo = AtPair /\ Limits!Key(a) = Pair(q.ip, q.subject)
           \/ q.todo = AtName
    BY <1>1, <1>5, LoginAt
  <2>2. /\ q.todo = Limits!Login => Tail(q.todo) = AtPair
        /\ q.todo = AtPair => Tail(q.todo) = AtName
        /\ q.todo = AtName => Tail(q.todo) = AtProve
    BY LoginHeads
  <2>3. /\ Tail(q.todo) \in {AtPair, AtName, AtProve}
        /\ \A x \in {<< >>, AtPair, AtName, AtProve} : x \notin {AtFailed, AtCount, AtLast}
    BY <2>1, <2>2, LoginApart
  <2>4. Shaped(att[a])' \/ att'[a] = None
    BY <1>1, <1>3, <1>5, <2>1, <2>3 DEF Shaped, SameLogin
  <2>5. LoginShapes'
    BY <1>1, <1>3, <2>4, ShapesStep
  <2>6. ASSUME NamesCounted PROVE NamesCounted'
    <3>1. \A ip, s : ~MustName(att[a], ip, s)'
      BY <1>3, <2>3 DEF MustName, IsLogin
    <3>2. ASSUME NEW ip \in mix.ips \ {Owner}, NEW s \in Subjects, MayPair(att[a], ip, s)'
          PROVE  MayPair(att[a], ip, s) \/ Limits!RateCount(Pair(ip, s)) < Max["login:pair"]
      <4>1. /\ att'[a] # None /\ SameLogin(q, att'[a]) /\ att'[a].todo \in {AtName, AtProve, AtFailed, AtCount}
            /\ att'[a].ip = ip /\ att'[a].subject = s
        BY <1>3, <3>2 DEF MayPair, IsLogin
      <4>2. << >> \notin {AtName, AtProve, AtFailed, AtCount}
        BY LoginApart
      <4>3. ~full /\ att'[a].todo = Tail(q.todo) /\ q.ip = ip /\ q.subject = s
        BY <1>3, <4>1, <4>2 DEF SameLogin
      <4>4. CASE q.todo = Limits!Login
        <5>1. AtPair \notin {AtName, AtProve, AtFailed, AtCount}
          BY LoginApart
        <5> QED BY <2>2, <4>1, <4>3, <4>4, <5>1
      <4>5. CASE q.todo = AtPair /\ Limits!Key(a) = Pair(q.ip, q.subject)
        <5>1. Head(q.todo).kind = "login:pair"
          BY <4>5, LoginHeads, LoginOps
        <5>2. ~(Limits!RateCount(Pair(ip, s)) >= Max["login:pair"])
          BY <4>3, <4>5, <5>1 DEF full
        <5>3. PairCounted(ip, s)
          BY <2>6 DEF NamesCounted
        <5>4. Limits!RateCount(Pair(ip, s)) \in Nat
          BY <5>3 DEF PairCounted, Limits!RateCount
        <5> QED BY <1>1, <5>2, <5>4, LoginNumbers
      <4>6. CASE q.todo = AtName
        BY <1>1, <1>5, <4>3, <4>6 DEF MayPair, IsLogin
      <4> QED BY <2>1, <4>4, <4>5, <4>6
    <3> QED BY <1>1, <1>2, <1>3, <2>6, <3>1, <3>2, NamesCalm
  <2> QED BY <1>1, <2>5, <2>6 DEF NameInv, Alone
<1> QED BY <1>4, <1>5

LEMMA NameHitFirst ==
  ASSUME LimitsInv, AttemptsOK', NameInv, NEW a \in Attempts, Limits!HitFirst(a)
  PROVE  NameInv'
<1> DEFINE q == att[a]
<1>1. /\ Limits!At(a, "hit") /\ q # None /\ UNCHANGED <<mix, slipped, lost>> /\ AttemptsOK /\ LoginShapes
      /\ Limits!Hit(Limits!Key(a)) /\ (Limits!Refused(a) \/ Limits!Goes(a, Tail(q.todo)))
  BY DEF Limits!HitFirst, Limits!At, Limits!Next1, LimitsInv, NameInv
<1>2. q.route # "login"
  BY <1>1, LoginAt
<1>3. /\ Elsewhere(Tail(q.todo)) /\ Elsewhere(<< >>)
      /\ \A ip, s : /\ Limits!Key(a) # Pair(ip, s) /\ Limits!Key(a) # Name(s)
                    /\ Limits!Key(a) # <<"login:ip", ip>>
  BY <1>1, <1>2, OtherAt
<1>4. \A ip, s : Untouched(Pair(ip, s)) /\ Untouched(Name(s)) /\ Untouched(<<"login:ip", ip>>)
  BY <1>1, <1>3, HitApart
<1>5. /\ \A b \in Attempts : b # a => att'[b] = att[b]
      /\ \/ att'[a] = None
         \/ SameLogin(q, att'[a]) /\ att'[a].todo \in {<< >>, Tail(q.todo)}
  BY <1>1, AfterRefusal, AfterStep
<1>6. att'[a] = None \/ (SameLogin(q, att'[a]) /\ Elsewhere(att'[a].todo))
  BY <1>3, <1>5
<1> QED BY <1>1, <1>2, <1>4, <1>5, <1>6, ApartStep

LEMMA NameCompare ==
  ASSUME LimitsInv, AttemptsOK', NameInv, NEW a \in Attempts, Limits!Compare(a)
  PROVE  NameInv'
<1> DEFINE q == att[a]
<1>1. /\ Limits!At(a, "prove") /\ q # None /\ UNCHANGED <<rate, mix, lost>> /\ AttemptsOK /\ LoginShapes
      /\ slipped \subseteq slipped'
      /\ \/ Limits!Goes(a, Tail(q.todo))
         \/ Limits!Goes(a, Limits!Failures(q.route)) /\ q.ip \in slipped'
  BY DEF Limits!Compare, Limits!At, Limits!Next1, LimitsInv, NameInv
<1>2. \A jp, t : Untouched(Pair(jp, t)) /\ Untouched(Name(t)) /\ Untouched(<<"login:ip", jp>>)
  BY <1>1 DEF Untouched
<1>3. /\ \A b \in Attempts : b # a => att'[b] = att[b]
      /\ \/ att'[a] = None
         \/ /\ SameLogin(q, att'[a]) /\ att'[a].refused = q.refused
            /\ \/ att'[a].todo = Tail(q.todo)
               \/ att'[a].todo = Limits!Failures(q.route) /\ q.ip \in slipped'
  BY <1>1, AfterStep
<1>4. CASE q.route # "login"
  <2>1. Elsewhere(Tail(q.todo)) /\ Elsewhere(Limits!Failures(q.route))
    BY <1>1, <1>4, OtherAt, OthersElsewhere
  <2>2. att'[a] = None \/ (SameLogin(q, att'[a]) /\ Elsewhere(att'[a].todo))
    BY <1>3, <2>1
  <2> QED BY <1>1, <1>2, <1>3, <1>4, <2>2, ApartStep
<1>5. CASE q.route = "login"
  <2>1. Shaped(q) /\ q.route \in mix.routes /\ q.ip \in mix.ips /\ q.todo = AtProve
    BY <1>1, <1>5, LoginAt
  <2>2. Tail(q.todo) = << >> /\ Limits!Failures(q.route) = AtFailed
    BY <1>5, <2>1, LoginHeads DEF AtFailed
  <2>3. << >> \notin {AtFailed, AtCount, AtLast} /\ << >> \notin {AtName, AtProve, AtFailed, AtCount} /\ AtFailed # AtLast
    BY LoginApart
  <2>4. Shaped(att[a])' \/ att'[a] = None
    BY <1>1, <1>3, <1>5, <2>1, <2>2, <2>3 DEF Shaped, SameLogin
  <2>5. LoginShapes'
    BY <1>1, <1>3, <2>4, ShapesStep
  <2>6. ASSUME NamesCounted PROVE NamesCounted'
    <3>1. \A ip, s : ~MustName(att[a], ip, s)'
      BY <1>3, <2>2, <2>3 DEF MustName, IsLogin
    <3>2. \A ip, s : MayPair(att[a], ip, s)' => MayPair(att[a], ip, s)
      BY <1>1, <1>3, <1>5, <2>1 DEF MayPair, IsLogin, SameLogin
    <3> QED BY <1>1, <1>2, <1>3, <2>6, <3>1, <3>2, NamesCalm
  <2> QED BY <1>1, <2>5, <2>6 DEF NameInv, Alone
<1> QED BY <1>4, <1>5

\* The failures of a login: its address, its pair, then its name.
LEMMA NameLost ==
  ASSUME LimitsInv, AttemptsOK', NameInv, NEW a \in Attempts, Limits!At(a, "count"), att[a].route = "login",
         mix' = mix, slipped' = slipped, Limits!Goes(a, Tail(att[a].todo))
  PROVE  LoginShapes'
<1> DEFINE q == att[a]
<1>1. AttemptsOK /\ LoginShapes /\ q # None
  BY DEF LimitsInv, NameInv, Limits!At
<1>2. /\ Shaped(q) /\ q.ip \in slipped /\ q.route \in mix.routes /\ q.ip \in mix.ips
      /\ q.todo \in {AtFailed, AtCount, AtLast}
  BY <1>1, LoginAt
<1>3. Tail(q.todo) \in {AtCount, AtLast, << >>}
  BY <1>2, LoginHeads
<1>4. /\ \A b \in Attempts : b # a => att'[b] = att[b]
      /\ att'[a] = None \/ (SameLogin(q, att'[a]) /\ att'[a].todo = Tail(q.todo))
  BY <1>1, AfterStep
<1>5. Shaped(att[a])' \/ att'[a] = None
  BY <1>2, <1>3, <1>4 DEF Shaped, SameLogin
<1> QED BY <1>1, <1>4, <1>5, ShapesStep

LEMMA FailedAddress ==
  ASSUME LimitsInv, AttemptsOK', NameInv, NamesCounted, NEW a \in Attempts,
         att[a] # None, att[a].route = "login", att[a].todo = AtFailed,
         mix' = mix, Limits!Goes(a, AtCount), Limits!Hit(<<"login:ip", att[a].ip>>)
  PROVE  NamesCounted'
<1> DEFINE q == att[a]
           k == <<"login:ip", q.ip>>
<1>1. AttemptsOK
  BY DEF LimitsInv
<1>2. /\ \A b \in Attempts : b # a => att'[b] = att[b]
      /\ att'[a] = None \/ (SameLogin(q, att'[a]) /\ att'[a].todo = AtCount /\ att'[a].refused = q.refused)
  BY <1>1, AfterStep
<1>3. \A j : j # k => Untouched(j)
  BY HitApart
<1>4. \A ip, s : k # Pair(ip, s) /\ k # Name(s)
  BY DEF Pair, Name
<1> HIDE DEF k
<1>5. \A ip, s : ~MustName(att[a], ip, s)'
  BY <1>2, LoginApart DEF MustName, IsLogin
<1>6. \A ip, s : MayPair(att[a], ip, s)' => MayPair(att[a], ip, s)
  BY <1>2 DEF MayPair, IsLogin, SameLogin
<1> QED BY <1>1, <1>2, <1>3, <1>4, <1>5, <1>6, NamesCalm

LEMMA FailedPair ==
  ASSUME LimitsInv, AttemptsOK', NameInv, NamesCounted, NEW a \in Attempts,
         att[a] # None, att[a].route = "login", att[a].todo = AtCount, NEW ip \in mix.ips, ip # Owner, att[a].ip = ip,
         NEW s, att[a].subject = s, mix' = mix, Limits!Goes(a, AtLast), Limits!Hit(Pair(ip, s))
  PROVE  NamesCounted'
<1>1. AttemptsOK /\ s \in Subjects /\ mix \in Mixes
  BY DEF LimitsInv, AttemptsOK, Att, NameInv, LoginShapes
<1>2. /\ \A b \in Attempts : b # a => att'[b] = att[b]
      /\ \/ att'[a] = None
         \/ SameLogin(att[a], att'[a]) /\ att'[a].todo = AtLast /\ att'[a].refused = att[a].refused
  BY <1>1, AfterStep
<1>3. \A j : j # Pair(ip, s) => Untouched(j)
  BY HitApart
<1>4. \A t : Pair(ip, s) # Name(t)
  BY DEF Pair, Name
<1>5. MayPair(att[a], ip, s)
  BY DEF MayPair, IsLogin
<1>6. \A jp, t : ~MayPair(att[a], jp, t)' /\ (MustName(att[a], jp, t)' => jp = ip /\ t = s)
  <2>1. AtLast \notin {AtName, AtProve, AtFailed, AtCount}
    BY LoginApart
  <2> QED BY <1>2, <2>1 DEF MayPair, MustName, IsLogin, SameLogin
<1>7. Counted(ip, s)'
  <2>1. Counted(ip, s)
    BY <1>1 DEF NamesCounted, Counted
  <2>2. /\ Pairing(ip, s)' = Pairing(ip, s) \ {a} /\ Naming(ip, s)' \subseteq Naming(ip, s) \cup {a}
        /\ a \in Pairing(ip, s)
    BY <1>2, <1>5, <1>6, StepOfOne
  <2> QED BY <1>1, <2>1, <2>2, SameWindow, CountedPair
<1>8. ASSUME NEW jp \in mix.ips \ {Owner}, NEW t \in Subjects, jp # ip \/ t # s PROVE Counted(jp, t)'
  <2>1. Untouched(Pair(jp, t)) /\ Untouched(Name(t))
    BY <1>3, <1>4, <1>8, LoginKeys
  <2>2. Counted(jp, t)
    BY <1>8 DEF NamesCounted, Counted
  <2> QED BY <1>1, <1>2, <1>6, <1>8, <2>1, <2>2, CalmOne
<1>9. \A t \in Subjects : Name(t)' \in DOMAIN rate' => \E jp \in mix.ips : jp # Owner
  OBVIOUS
<1> QED BY <1>7, <1>8, <1>9 DEF NamesCounted, Counted

LEMMA FailedName ==
  ASSUME LimitsInv, AttemptsOK', NameInv, NamesCounted, NEW a \in Attempts,
         att[a] # None, att[a].route = "login", att[a].todo = AtLast, NEW ip \in mix.ips, ip # Owner, att[a].ip = ip,
         NEW s, att[a].subject = s, Alone,
         mix' = mix, Limits!Goes(a, << >>), Limits!Hit(Name(s))
  PROVE  NamesCounted'
<1>1. AttemptsOK /\ s \in Subjects /\ mix \in Mixes
  BY DEF LimitsInv, AttemptsOK, Att, NameInv, LoginShapes
<1>2. /\ \A b \in Attempts : b # a => att'[b] = att[b]
      /\ \/ att'[a] = None
         \/ SameLogin(att[a], att'[a]) /\ att'[a].todo = << >> /\ att'[a].refused = att[a].refused
  BY <1>1, AfterStep
<1>3. \A j : j # Name(s) => Untouched(j)
  BY HitApart
<1>4. \A jp, t : Name(s) # Pair(jp, t)
  BY DEF Pair, Name
<1>5. MustName(att[a], ip, s)
  BY DEF MustName, IsLogin
<1>6. \A jp, t : ~MayPair(att[a], jp, t)' /\ ~MustName(att[a], jp, t)'
  <2>1. << >> \notin {AtName, AtProve, AtFailed, AtCount, AtLast}
    BY LoginApart
  <2> QED BY <1>2, <2>1 DEF MayPair, MustName, IsLogin
<1>7. Counted(ip, s)'
  <2>1. Counted(ip, s)
    BY <1>1 DEF NamesCounted, Counted
  <2>2. /\ Naming(ip, s)' = Naming(ip, s) \ {a} /\ Pairing(ip, s)' \subseteq Pairing(ip, s)
        /\ a \in Naming(ip, s)
    BY <1>2, <1>5, <1>6, StepOfOne
  <2> QED BY <1>1, <2>1, <2>2, CountedName
<1>8. ASSUME NEW jp \in mix.ips \ {Owner}, NEW t \in Subjects, jp # ip \/ t # s PROVE Counted(jp, t)'
  <2>1. jp = ip
    BY <1>8 DEF Alone
  <2>2. Untouched(Pair(jp, t)) /\ Untouched(Name(t))
    BY <1>3, <1>4, <1>8, <2>1, LoginKeys
  <2>3. Counted(jp, t)
    BY <1>8 DEF NamesCounted, Counted
  <2> QED BY <1>1, <1>2, <1>6, <1>8, <2>2, <2>3, CalmOne
<1>9. \A t \in Subjects : Name(t)' \in DOMAIN rate' => \E jp \in mix.ips : jp # Owner
  OBVIOUS
<1> QED BY <1>7, <1>8, <1>9 DEF NamesCounted, Counted

LEMMA NameCountFailure ==
  ASSUME LimitsInv, AttemptsOK', NameInv, NEW a \in Attempts, Limits!CountFailure(a)
  PROVE  NameInv'
<1> DEFINE q == att[a]
<1>1. /\ Limits!At(a, "count") /\ q # None /\ UNCHANGED <<mix, slipped>> /\ AttemptsOK /\ LoginShapes
      /\ Limits!Goes(a, Tail(q.todo))
      /\ \/ Limits!Hit(Limits!Key(a)) /\ lost' = lost
         \/ lost' = TRUE /\ rate' = rate
  BY DEF Limits!CountFailure, Limits!At, Limits!Next1, LimitsInv, NameInv
<1>2. CASE q.route # "login"
  <2>1. /\ Elsewhere(Tail(q.todo))
        /\ \A ip, s : /\ Limits!Key(a) # Pair(ip, s) /\ Limits!Key(a) # Name(s)
                      /\ Limits!Key(a) # <<"login:ip", ip>>
    BY <1>1, <1>2, OtherAt
  <2>2. \A j : j # Limits!Key(a) => Untouched(j)
    BY <1>1, HitApart DEF Untouched
  <2>3. \A ip, s : Untouched(Pair(ip, s)) /\ Untouched(Name(s)) /\ Untouched(<<"login:ip", ip>>)
    BY <2>1, <2>2
  <2>4. /\ \A b \in Attempts : b # a => att'[b] = att[b]
        /\ att'[a] = None \/ (SameLogin(q, att'[a]) /\ Elsewhere(att'[a].todo))
    BY <1>1, <2>1, AfterStep
  <2>5. lost => lost'
    BY <1>1
  <2> QED BY <1>1, <1>2, <2>3, <2>4, <2>5, ApartStep
<1>3. CASE q.route = "login"
  <2>1. LoginShapes'
    BY <1>1, <1>3, NameLost
  <2>2. /\ q.ip \in slipped /\ q.ip \in mix.ips /\ q.route \in mix.routes
        /\ \/ q.todo = AtFailed /\ Limits!Key(a) = <<"login:ip", q.ip>>
           \/ q.todo = AtCount /\ Limits!Key(a) = Pair(q.ip, q.subject)
           \/ q.todo = AtLast /\ Limits!Key(a) = Name(q.subject)
    BY <1>1, <1>3, LoginAt
  <2>3. ASSUME Alone, Owner \notin slipped, NamesCounted, lost' = lost, Limits!Hit(Limits!Key(a))
        PROVE  NamesCounted'
    <3>1. q.ip # Owner
      BY <2>2, <2>3
    <3>2. CASE q.todo = AtFailed /\ Limits!Key(a) = <<"login:ip", q.ip>>
      BY <1>1, <1>3, <2>3, <3>1, <3>2, LoginHeads, FailedAddress
    <3>3. CASE q.todo = AtCount /\ Limits!Key(a) = Pair(q.ip, q.subject)
      BY <1>1, <1>3, <2>2, <2>3, <3>1, <3>3, LoginHeads, FailedPair
    <3>4. CASE q.todo = AtLast /\ Limits!Key(a) = Name(q.subject)
      BY <1>1, <1>3, <2>2, <2>3, <3>1, <3>4, LoginHeads, FailedName
    <3> QED BY <2>2, <3>2, <3>3, <3>4
  <2> QED BY <1>1, <2>1, <2>3 DEF NameInv, Alone
<1> QED BY <1>2, <1>3

LEMMA NameRows ==
  ASSUME LimitsInv, NameInv, Limits!DeleteOldRateLimits \/ Limits!Tick
  PROVE  NameInv'
<1>1. /\ UNCHANGED <<att, mix, slipped, lost>> /\ AttemptsOK /\ DOMAIN rate' \subseteq DOMAIN rate
  BY DEF Limits!DeleteOldRateLimits, Limits!Tick, Limits!observed, LimitsInv
<1>2. LoginShapes'
  BY <1>1 DEF NameInv, LoginShapes, Shaped
<1>3. ASSUME NamesCounted PROVE NamesCounted'
  <2>1. ASSUME NEW ip \in mix.ips \ {Owner}, NEW s \in Subjects PROVE Counted(ip, s)'
    <3>1. Counted(ip, s)
      BY <1>3, <2>1 DEF NamesCounted, Counted
    <3> QED BY <1>1, <3>1, CountedTick, CountedDelete
  <2>2. \A s \in Subjects : Name(s) \in DOMAIN rate' => \E ip \in mix.ips : ip # Owner
    BY <1>1, <1>3 DEF NamesCounted
  <2>3. \A s : Name(s)' = Name(s)
    BY DEF Name
  <2> QED BY <1>1, <2>1, <2>2, <2>3 DEF NamesCounted, Counted
<1> QED BY <1>1, <1>2, <1>3 DEF NameInv, Alone

LEMMA NameStep == ASSUME LimitsInv, LimitsInv', NameInv, Limits!Next \/ UNCHANGED limits PROVE NameInv'
<1>1. CASE UNCHANGED limits
  <2>1. UNCHANGED <<rate, att, mix, slipped, lost>>
    BY <1>1 DEF limits
  <2>2. AttemptsOK /\ AttemptsOK'
    BY DEF LimitsInv
  <2>3. LoginShapes'
    BY <2>1 DEF NameInv, LoginShapes, Shaped
  <2>4. ASSUME NamesCounted, NEW ip \in mix.ips \ {Owner}, NEW s \in Subjects PROVE Counted(ip, s)'
    <3>1. Pairing(ip, s)' = Pairing(ip, s) /\ Naming(ip, s)' = Naming(ip, s)
      BY <2>1 DEF Pairing, Naming, MayPair, MustName, IsLogin
    <3>2. Counted(ip, s)
      BY <2>4 DEF NamesCounted, Counted
    <3> QED BY <2>1, <2>2, <3>1, <3>2, CountedCalm
  <2>5. \A s : Name(s)' = Name(s)
    BY DEF Name
  <2>6. NamesCounted => NamesCounted'
    BY <2>1, <2>4, <2>5 DEF NamesCounted, Counted
  <2> QED BY <2>1, <2>3, <2>6 DEF NameInv, Alone
<1>2. CASE Limits!Next
  <2>1. AttemptsOK'
    BY DEF LimitsInv
  <2> QED BY <1>2, <2>1, NameBegin, NameAsk, NameHitFirst, NameCompare, NameCountFailure, NameLeave, NameRows
             DEF Limits!Next
<1> QED BY <1>1, <1>2

LEMMA NamesAlways == ServicesSpec => [](focus = "limits" => LimitsInv /\ NameInv)
<1>1. ServicesInit => (focus = "limits" => LimitsInv /\ NameInv)
  BY LimitsInit, NameInit DEF ServicesInit
<1>2. (focus = "limits" => LimitsInv /\ NameInv) /\ [ServicesNext]_all => (focus = "limits" => LimitsInv /\ NameInv)'
  BY Focused, LimitsStep, NameStep
<1> QED BY <1>1, <1>2, PTL DEF ServicesSpec

\* loginHandler (web/auth.go) counts a failed login for its pair before its name: by requests from one other address,
\* however they interleave, a name is charged at most twice the limit of a pair and three for every further request
\* under way, so that an address needs (100 - 2 * 5) / 3 requests at a time to fill it.
THEOREM NamesCharged == ServicesSpec => []NameCharged
<1>1. ASSUME AttemptsOK, NameInv PROVE Limits!NameCharged
  BY <1>1, NameBelow, LimitsCardinality DEF NameInv, Alone, Name, Besides, Limits!NameCharged
<1>2. (focus = "limits" => LimitsInv /\ NameInv) => NameCharged
  BY <1>1 DEF NameCharged, LimitsInv
<1> QED BY <1>2, NamesAlways, PTL
===============================================================================

----------------------------- MODULE ServersProofs -----------------------------
(***************************************************************************)
(* What the tile proxy, the refresh of the sunspot numbers, the tiles of   *)
(* terrain and the life of the processes guarantee, for every value of the *)
(* constants.                                                              *)
(***************************************************************************)
EXTENDS Services, FiniteSetTheorems, SequenceTheorems, TLAPS

(***************************************************************************)
(* The machine in focus takes a step of its own, or all stay.              *)
(***************************************************************************)
LEMMA FocusedServers ==
  ASSUME [ServicesNext]_all
  PROVE  /\ focus' = focus
         /\ focus = "proxy" => Proxy!Next \/ UNCHANGED proxy
         /\ focus = "sunspots" => Spots!Next \/ UNCHANGED sunspots
         /\ focus = "terrain" => Ground!Next \/ UNCHANGED terrain
         /\ focus = "processes" => Servers!Next \/ UNCHANGED processes
<1>1. CASE ServicesNext
  BY <1>1 DEF ServicesNext
<1>2. CASE UNCHANGED all
  BY <1>2 DEF all
<1> QED BY <1>1, <1>2

-------------------------------------------------------------------------------
(***************************************************************************)
(* Processes.  Only the holder of the lock looks at the migrations and     *)
(* applies them, so that what it saw still holds when it applies; what it  *)
(* has dealt with is there.                                                *)
(***************************************************************************)
States == {"lock", "look", "apply", "failed", "data", "serve", "drain", "drainFailed", "shutdown", "stopped", "cut", "closed"}
Migrations == UNION Releases
Started == [pc : States, todo : SUBSET Migrations, release : SUBSET Migrations]

MigrationOK(q, i, done, holder) ==
    /\ q.pc = "lock" => q.todo = q.release
    /\ q.pc \in {"look", "apply"} => holder = i /\ q.release \ q.todo \subseteq done
    /\ q.pc = "apply" => Servers!First(q.todo) \notin done
    /\ q.pc \in {"data", "serve"} => q.release \subseteq done
WayOutOK(q, i, bad, goroutines, requests) ==
    /\ q.pc = "failed" => i \in bad
    /\ goroutines # {} => q.pc \in {"serve", "drain", "drainFailed"}
    /\ q.pc = "stopped" => requests = {}

ServersInv ==
    /\ inst \in [Instances -> Started \cup {Servers!Down}]
    /\ alive \in [Instances -> SUBSET Goroutines] /\ open \in [Instances -> SUBSET Handlers]
    /\ \A i \in Instances : /\ MigrationOK(inst[i], i, applied, lock)
                            /\ WayOutOK(inst[i], i, faulty, alive[i], open[i])

LEMMA ServersInit == Servers!Init => ServersInv
BY DEF Servers!Init, ServersInv, Servers!Down, MigrationOK, WayOutOK

\* One process goes on.  Migrations are applied by the holder of the lock, who alone has looked.
LEMMA OneProcess ==
  ASSUME ServersInv, NEW i \in Instances, NEW q \in Started \cup {Servers!Down},
         inst' = [inst EXCEPT ![i] = q],
         alive' \in [Instances -> SUBSET Goroutines], open' \in [Instances -> SUBSET Handlers],
         \A j \in Instances : j # i => alive'[j] = alive[j] /\ open'[j] = open[j],
         applied' = applied \/ (lock = i /\ applied \subseteq applied'),
         \A j \in Instances : j # i => (lock = j => lock' = j) /\ (j \in faulty => j \in faulty'),
         MigrationOK(q, i, applied', lock'), WayOutOK(q, i, faulty', alive'[i], open'[i])
  PROVE  ServersInv'
<1>1. inst' \in [Instances -> Started \cup {Servers!Down}]
  BY DEF ServersInv
<1>2. ASSUME NEW j \in Instances
      PROVE  MigrationOK(inst'[j], j, applied', lock') /\ WayOutOK(inst'[j], j, faulty', alive'[j], open'[j])
  <2>1. CASE j = i
    BY <2>1 DEF ServersInv
  <2>2. CASE j # i
    <3>1. inst'[j] = inst[j] /\ MigrationOK(inst[j], j, applied, lock) /\ WayOutOK(inst[j], j, faulty, alive[j], open[j])
      BY <2>2 DEF ServersInv
    <3>2. inst[j].pc \in {"look", "apply"} => lock = j
      BY <3>1 DEF MigrationOK
    <3>3. MigrationOK(inst[j], j, applied', lock')
      BY <2>2, <3>1, <3>2 DEF MigrationOK
    <3>4. WayOutOK(inst[j], j, faulty', alive[j], open[j])
      BY <2>2, <3>1 DEF WayOutOK
    <3> QED BY <2>2, <3>1, <3>3, <3>4
  <2> QED BY <2>1, <2>2
<1> QED BY <1>1, <1>2 DEF ServersInv

\* A process that only goes on to another place.
LEMMA Onward ==
  ASSUME ServersInv, NEW i \in Instances, inst[i] # Servers!Down, NEW place \in States, Servers!Goto(i, place)
  PROVE  /\ inst[i] \in Started /\ [inst[i] EXCEPT !.pc = place] \in Started
         /\ inst' = [inst EXCEPT ![i] = [inst[i] EXCEPT !.pc = place]]
         /\ [inst[i] EXCEPT !.pc = place].pc = place
         /\ [inst[i] EXCEPT !.pc = place].todo = inst[i].todo
         /\ [inst[i] EXCEPT !.pc = place].release = inst[i].release
         /\ MigrationOK(inst[i], i, applied, lock) /\ WayOutOK(inst[i], i, faulty, alive[i], open[i])
<1>1. inst[i] \in Started /\ MigrationOK(inst[i], i, applied, lock) /\ WayOutOK(inst[i], i, faulty, alive[i], open[i])
  BY DEF ServersInv
<1>2. inst' = [inst EXCEPT ![i] = [inst[i] EXCEPT !.pc = place]]
  BY DEF Servers!Goto
<1> QED BY <1>1, <1>2 DEF Started

LEMMA NotDown == ASSUME NEW q, q.pc # "down" PROVE q # Servers!Down
BY DEF Servers!Down

LEMMA MigrateStep ==
  ASSUME ServersInv, NEW i \in Instances,
         \/ \E release \in Releases : Servers!Start(i, release)
         \/ Servers!Lock(i) \/ Servers!MigrateError(i) \/ Servers!Unlock(i)
  PROVE  ServersInv'
<1>1. alive \in [Instances -> SUBSET Goroutines] /\ open \in [Instances -> SUBSET Handlers] /\ None \notin Instances
  BY ServicesGiven DEF ServersInv, Servers!Apart
<1>2. ASSUME NEW release \in Releases, Servers!Start(i, release) PROVE ServersInv'
  <2> DEFINE q == [pc |-> "lock", todo |-> release, release |-> release]
  <2>1. /\ inst[i].pc = "down" /\ inst' = [inst EXCEPT ![i] = q] /\ faulty' = faulty \ {i}
        /\ UNCHANGED <<applied, lock, alive, open>>
    BY <1>2 DEF Servers!Start, Servers!Down
  <2>2. q \in Started /\ q.pc = "lock" /\ q.todo = q.release
    BY DEF Started, Migrations, States
  <2>3. alive[i] = {}
    BY <2>1 DEF ServersInv, WayOutOK
  <2> HIDE DEF q
  <2>4. MigrationOK(q, i, applied', lock') /\ WayOutOK(q, i, faulty', alive'[i], open'[i])
    BY <2>1, <2>2, <2>3 DEF MigrationOK, WayOutOK
  <2> QED BY <1>1, <2>1, <2>2, <2>4, OneProcess
<1>3. CASE Servers!Lock(i)
  <2> DEFINE q == [inst[i] EXCEPT !.pc = "look"]
  <2>1. /\ inst[i].pc = "lock" /\ lock = None /\ lock' = i /\ Servers!Goto(i, "look")
        /\ UNCHANGED <<applied, alive, open, faulty>>
    BY <1>3 DEF Servers!Lock, Servers!At
  <2>2. /\ q \in Started /\ inst' = [inst EXCEPT ![i] = q] /\ q.pc = "look" /\ q.todo = inst[i].todo
        /\ q.release = inst[i].release /\ inst[i].todo = inst[i].release /\ alive[i] = {}
    BY <2>1, Onward, NotDown DEF States, MigrationOK, WayOutOK
  <2> HIDE DEF q
  <2>3. MigrationOK(q, i, applied', lock') /\ WayOutOK(q, i, faulty', alive'[i], open'[i])
    BY <2>1, <2>2 DEF MigrationOK, WayOutOK
  <2> QED BY <1>1, <2>1, <2>2, <2>3, OneProcess
<1>4. CASE Servers!MigrateError(i)
  <2> DEFINE q == [inst[i] EXCEPT !.pc = "failed"]
  <2>1. /\ inst[i].pc \in {"lock", "look", "apply"} /\ faulty' = faulty \cup {i} /\ Servers!Goto(i, "failed")
        /\ UNCHANGED <<applied, lock, alive, open>>
    BY <1>4 DEF Servers!MigrateError
  <2>2. q \in Started /\ inst' = [inst EXCEPT ![i] = q] /\ q.pc = "failed" /\ alive[i] = {}
    BY <2>1, Onward, NotDown DEF States, WayOutOK
  <2> HIDE DEF q
  <2>3. MigrationOK(q, i, applied', lock') /\ WayOutOK(q, i, faulty', alive'[i], open'[i])
    BY <2>1, <2>2 DEF MigrationOK, WayOutOK
  <2> QED BY <1>1, <2>1, <2>2, <2>3, OneProcess
<1>5. CASE Servers!Unlock(i)
  <2> DEFINE q == [inst[i] EXCEPT !.pc = "data"]
  <2>1. /\ inst[i].pc = "look" /\ inst[i].todo = {} /\ (lock' = None \/ lock' = lock) /\ Servers!Goto(i, "data")
        /\ UNCHANGED <<applied, alive, open, faulty>>
    BY <1>5 DEF Servers!Unlock, Servers!At
  <2>2. /\ q \in Started /\ inst' = [inst EXCEPT ![i] = q] /\ q.pc = "data" /\ q.release = inst[i].release
        /\ inst[i].release \ inst[i].todo \subseteq applied /\ lock = i /\ alive[i] = {}
    BY <2>1, Onward, NotDown DEF States, MigrationOK, WayOutOK
  <2> HIDE DEF q
  <2>3. MigrationOK(q, i, applied', lock') /\ WayOutOK(q, i, faulty', alive'[i], open'[i])
    BY <2>1, <2>2 DEF MigrationOK, WayOutOK
  <2> QED BY <1>1, <2>1, <2>2, <2>3, OneProcess
<1> QED BY <1>2, <1>3, <1>4, <1>5

LEMMA ApplyStep ==
  ASSUME ServersInv, NEW i \in Instances, Servers!Look(i) \/ Servers!Apply(i)
  PROVE  ServersInv'
<1> DEFINE v == Servers!First(inst[i].todo)
<1>1. alive \in [Instances -> SUBSET Goroutines] /\ open \in [Instances -> SUBSET Handlers]
  BY DEF ServersInv
<1>2. /\ inst[i] \in Started /\ inst[i].pc \in {"look", "apply"} /\ lock = i /\ alive[i] = {}
      /\ MigrationOK(inst[i], i, applied, lock) /\ WayOutOK(inst[i], i, faulty, alive[i], open[i])
  BY NotDown DEF Servers!Look, Servers!Apply, Servers!At, ServersInv, MigrationOK, WayOutOK
<1>3. UNCHANGED <<lock, alive, open, faulty>>
  BY DEF Servers!Look, Servers!Apply
<1>4. CASE Servers!Look(i) /\ v \in applied
  <2> DEFINE q == [inst[i] EXCEPT !.todo = inst[i].todo \ {v}]
  <2>1. inst[i].pc = "look" /\ inst' = [inst EXCEPT ![i] = q] /\ applied' = applied
    BY <1>4 DEF Servers!Look, Servers!At, Servers!Goto
  <2>2. q \in Started /\ q.pc = "look" /\ q.todo = inst[i].todo \ {v} /\ q.release = inst[i].release
    BY <1>2, <2>1 DEF Started
  <2> HIDE DEF q
  <2>3. MigrationOK(q, i, applied', lock') /\ WayOutOK(q, i, faulty', alive'[i], open'[i])
    BY <1>2, <1>3, <1>4, <2>1, <2>2 DEF MigrationOK, WayOutOK
  <2> QED BY <1>1, <1>3, <2>1, <2>2, <2>3, OneProcess
<1>5. CASE Servers!Look(i) /\ v \notin applied
  <2> DEFINE q == [inst[i] EXCEPT !.pc = "apply"]
  <2>1. inst[i].pc = "look" /\ inst' = [inst EXCEPT ![i] = q] /\ applied' = applied
    BY <1>5 DEF Servers!Look, Servers!At, Servers!Goto
  <2>2. q \in Started /\ q.pc = "apply" /\ q.todo = inst[i].todo /\ q.release = inst[i].release
    BY <1>2, <2>1 DEF Started, States
  <2> HIDE DEF q
  <2>3. MigrationOK(q, i, applied', lock') /\ WayOutOK(q, i, faulty', alive'[i], open'[i])
    BY <1>2, <1>3, <1>5, <2>1, <2>2 DEF MigrationOK, WayOutOK
  <2> QED BY <1>1, <1>3, <2>1, <2>2, <2>3, OneProcess
<1>6. CASE Servers!Apply(i)
  <2> DEFINE q == [inst[i] EXCEPT !.pc = "look", !.todo = inst[i].todo \ {v}]
  <2>1. v \notin applied
    BY <1>2, <1>6 DEF Servers!Apply, Servers!At, MigrationOK
  <2>2. inst[i].pc = "apply" /\ inst' = [inst EXCEPT ![i] = q] /\ applied' = applied \cup {v}
    BY <1>6, <2>1 DEF Servers!Apply, Servers!At
  <2>3. q \in Started /\ q.pc = "look" /\ q.todo = inst[i].todo \ {v} /\ q.release = inst[i].release
    BY <1>2, <2>2 DEF Started, States
  <2> HIDE DEF q
  <2>4. MigrationOK(q, i, applied', lock') /\ WayOutOK(q, i, faulty', alive'[i], open'[i])
    BY <1>2, <1>3, <2>2, <2>3 DEF MigrationOK, WayOutOK
  <2> QED BY <1>1, <1>2, <1>3, <2>2, <2>3, <2>4, OneProcess
<1> QED BY <1>4, <1>5, <1>6 DEF Servers!Look

LEMMA ServeStep ==
  ASSUME ServersInv, NEW i \in Instances,
         \/ Servers!OpenData(i) \/ Servers!OpenDataError(i) \/ Servers!Signal(i) \/ Servers!ListenError(i)
         \/ Servers!DrainEnds(i) \/ Servers!Shutdown(i) \/ Servers!Leave(i)
  PROVE  ServersInv'
<1>1. alive \in [Instances -> SUBSET Goroutines] /\ open \in [Instances -> SUBSET Handlers]
  BY DEF ServersInv
<1>2. /\ inst[i].pc \in {"data", "serve", "drain", "drainFailed", "shutdown", "stopped", "cut", "failed"}
      /\ applied' = applied /\ open' = open
  BY DEF Servers!OpenData, Servers!OpenDataError, Servers!Signal, Servers!ListenError, Servers!DrainEnds,
     Servers!Shutdown, Servers!Leave, Servers!At
<1>3. /\ inst[i] \in Started /\ MigrationOK(inst[i], i, applied, lock)
      /\ WayOutOK(inst[i], i, faulty, alive[i], open[i])
  BY <1>2, NotDown DEF ServersInv
<1>4. SUFFICES \E place \in States :
        /\ inst' = [inst EXCEPT ![i] = [inst[i] EXCEPT !.pc = place]]
        /\ alive' \in [Instances -> SUBSET Goroutines] /\ \A j \in Instances : j # i => alive'[j] = alive[j]
        /\ \A j \in Instances : j # i => (lock = j => lock' = j) /\ (j \in faulty => j \in faulty')
        /\ place \notin {"lock", "look", "apply", "data"} /\ (place = "serve" => inst[i].release \subseteq applied)
        /\ place = "failed" => i \in faulty'
        /\ alive'[i] # {} => place \in {"serve", "drain", "drainFailed"}
        /\ place = "stopped" => open[i] = {}
  <2>1. PICK place \in States :
        /\ inst' = [inst EXCEPT ![i] = [inst[i] EXCEPT !.pc = place]]
        /\ alive' \in [Instances -> SUBSET Goroutines] /\ \A j \in Instances : j # i => alive'[j] = alive[j]
        /\ \A j \in Instances : j # i => (lock = j => lock' = j) /\ (j \in faulty => j \in faulty')
        /\ place \notin {"lock", "look", "apply", "data"} /\ (place = "serve" => inst[i].release \subseteq applied)
        /\ place = "failed" => i \in faulty'
        /\ alive'[i] # {} => place \in {"serve", "drain", "drainFailed"}
        /\ place = "stopped" => open[i] = {}
    BY <1>4
  <2> DEFINE q == [inst[i] EXCEPT !.pc = place]
  <2>2. q \in Started /\ q.pc = place /\ q.release = inst[i].release
    BY <1>3 DEF Started
  <2> HIDE DEF q
  <2>3. MigrationOK(q, i, applied', lock') /\ WayOutOK(q, i, faulty', alive'[i], open'[i])
    BY <1>2, <2>1, <2>2 DEF MigrationOK, WayOutOK
  <2> QED BY <1>1, <1>2, <2>1, <2>2, <2>3, OneProcess DEF q
<1>5. CASE Servers!OpenData(i)
  <2>1. /\ inst[i].pc = "data" /\ inst' = [inst EXCEPT ![i] = [inst[i] EXCEPT !.pc = "serve"]]
        /\ alive' = [alive EXCEPT ![i] = Goroutines] /\ UNCHANGED <<lock, faulty>>
    BY <1>5 DEF Servers!OpenData, Servers!At, Servers!Goto
  <2>2. inst[i].release \subseteq applied
    BY <1>3, <2>1 DEF MigrationOK
  <2>3. alive' \in [Instances -> SUBSET Goroutines] /\ \A j \in Instances : j # i => alive'[j] = alive[j]
    BY <1>1, <2>1
  <2>4. "serve" \in States
    BY DEF States
  <2> QED BY <2>1, <2>2, <2>3, <2>4
<1>6. CASE Servers!OpenDataError(i)
  <2>1. /\ inst[i].pc = "data" /\ inst' = [inst EXCEPT ![i] = [inst[i] EXCEPT !.pc = "failed"]]
        /\ faulty' = faulty \cup {i} /\ UNCHANGED <<lock, alive>>
    BY <1>6 DEF Servers!OpenDataError, Servers!At, Servers!Goto
  <2>2. alive[i] = {}
    BY <1>3, <2>1 DEF WayOutOK
  <2> QED BY <1>1, <2>1, <2>2 DEF States
<1>7. CASE Servers!Signal(i) \/ Servers!ListenError(i)
  <2>1. PICK place \in {"drain", "drainFailed"} : inst' = [inst EXCEPT ![i] = [inst[i] EXCEPT !.pc = place]]
    BY <1>7 DEF Servers!Signal, Servers!ListenError, Servers!Goto
  <2>2. faulty \subseteq faulty' /\ UNCHANGED <<lock, alive>>
    BY <1>7 DEF Servers!Signal, Servers!ListenError
  <2> QED BY <1>1, <2>1, <2>2 DEF States
<1>8. CASE Servers!DrainEnds(i)
  <2>1. PICK place \in {"shutdown", "cut"} : inst' = [inst EXCEPT ![i] = [inst[i] EXCEPT !.pc = place]]
    BY <1>8 DEF Servers!DrainEnds, Servers!Goto
  <2>2. alive[i] = {} /\ UNCHANGED <<lock, alive, faulty>>
    BY <1>8 DEF Servers!DrainEnds, Servers!Waited
  <2> QED BY <1>1, <2>1, <2>2 DEF States
<1>9. CASE Servers!Shutdown(i)
  <2>1. inst[i].pc = "shutdown" /\ UNCHANGED <<lock, alive, faulty>>
    BY <1>9 DEF Servers!Shutdown, Servers!At
  <2>2. alive[i] = {}
    BY <1>3, <2>1 DEF WayOutOK
  <2>3. CASE open[i] = {} /\ inst' = [inst EXCEPT ![i] = [inst[i] EXCEPT !.pc = "stopped"]]
    BY <1>1, <2>1, <2>2, <2>3 DEF States
  <2>4. CASE inst' = [inst EXCEPT ![i] = [inst[i] EXCEPT !.pc = "cut"]]
    BY <1>1, <2>1, <2>2, <2>4 DEF States
  <2> QED BY <1>9, <2>3, <2>4 DEF Servers!Shutdown, Servers!Goto
<1>10. CASE Servers!Leave(i)
  <2>1. /\ inst[i].pc \in {"stopped", "cut", "failed"} /\ inst' = [inst EXCEPT ![i] = [inst[i] EXCEPT !.pc = "closed"]]
        /\ lock' = (IF lock = i THEN None ELSE lock) /\ UNCHANGED <<alive, faulty>>
    BY <1>10 DEF Servers!Leave, Servers!Goto
  <2>2. alive[i] = {}
    BY <1>3, <2>1 DEF WayOutOK
  <2> QED BY <1>1, <2>1, <2>2 DEF States
<1> QED BY <1>5, <1>6, <1>7, <1>8, <1>9, <1>10

LEMMA RequestStep ==
  ASSUME ServersInv, NEW i \in Instances,
         \/ \E h \in Handlers : Servers!Accept(i, h) \/ Servers!Answer(i, h)
         \/ \E g \in Goroutines : Servers!GoroutineEnds(i, g)
  PROVE  ServersInv'
<1>1. /\ UNCHANGED <<applied, lock, inst, faulty>>
      /\ \/ \E h \in Handlers : inst[i].pc \in {"serve", "drain"} /\ open' = [open EXCEPT ![i] = @ \cup {h}] /\ alive' = alive
         \/ \E h \in Handlers : open' = [open EXCEPT ![i] = @ \ {h}] /\ alive' = alive
         \/ \E g \in Goroutines : alive' = [alive EXCEPT ![i] = @ \ {g}] /\ open' = open
  BY DEF Servers!Accept, Servers!Answer, Servers!GoroutineEnds
<1>2. alive' \in [Instances -> SUBSET Goroutines] /\ open' \in [Instances -> SUBSET Handlers]
  BY <1>1 DEF ServersInv
<1>3. ASSUME NEW j \in Instances PROVE WayOutOK(inst[j], j, faulty, alive'[j], open'[j])
  <2>1. WayOutOK(inst[j], j, faulty, alive[j], open[j])
    BY DEF ServersInv
  <2>2. alive'[j] \subseteq alive[j] /\ (open'[j] \subseteq open[j] \/ inst[j].pc \in {"serve", "drain"})
    BY <1>1 DEF ServersInv
  <2> QED BY <2>1, <2>2 DEF WayOutOK
<1> QED BY <1>1, <1>2, <1>3 DEF ServersInv

\* Nothing of a process is left.
LEMMA ExitStep ==
  ASSUME ServersInv, NEW i \in Instances, Servers!Exit(i) \/ Servers!Crash(i)
  PROVE  ServersInv'
<1>1. /\ inst' = [inst EXCEPT ![i] = Servers!Down] /\ lock' \in {lock, IF lock = i THEN None ELSE lock}
      /\ alive' = [alive EXCEPT ![i] = {}] /\ open' = [open EXCEPT ![i] = {}] /\ UNCHANGED <<applied, faulty>>
  BY DEF Servers!Exit, Servers!Crash
<1>2. MigrationOK(Servers!Down, i, applied', lock') /\ WayOutOK(Servers!Down, i, faulty', {}, {})
  BY DEF MigrationOK, WayOutOK, Servers!Down
<1>3. /\ alive' \in [Instances -> SUBSET Goroutines] /\ open' \in [Instances -> SUBSET Handlers]
      /\ alive'[i] = {} /\ open'[i] = {} /\ \A j \in Instances : j # i => alive'[j] = alive[j] /\ open'[j] = open[j]
  BY <1>1 DEF ServersInv
<1> HIDE DEF Servers!Down
<1> QED BY <1>1, <1>2, <1>3, OneProcess

LEMMA ServersStep == ASSUME ServersInv, Servers!Next \/ UNCHANGED processes PROVE ServersInv'
<1>1. CASE UNCHANGED processes
  BY <1>1 DEF processes, ServersInv
<1>2. CASE Servers!Next
  BY <1>2, MigrateStep, ApplyStep, ServeStep, RequestStep, ExitStep DEF Servers!Next
<1> QED BY <1>1, <1>2

LEMMA ServersAlways == ServicesSpec => [](focus = "processes" => ServersInv)
<1>1. ServicesInit => (focus = "processes" => ServersInv)
  BY ServersInit DEF ServicesInit
<1>2. (focus = "processes" => ServersInv) /\ [ServicesNext]_all => (focus = "processes" => ServersInv)'
  BY FocusedServers, ServersStep
<1> QED BY <1>1, <1>2, PTL DEF ServicesSpec

\* Migrate (store/migrate.go): with the advisory lock, no process finds a migration applied by another one between its
\* look and its transaction, and one that serves has all of its release, whichever releases start together.
THEOREM StartsAlwaysClean == ServicesSpec => []StartsClean
<1>1. (focus = "processes" => ServersInv) => StartsClean
  BY DEF ServersInv, MigrationOK, WayOutOK, StartsClean, Servers!StartsClean, Servers!At
<1> QED BY <1>1, ServersAlways, PTL

\* run (cmd/radiopath/main.go): the goroutines have ended before anything they use is closed.
THEOREM CleanupAlwaysLast == ServicesSpec => []CleanupLast
<1>1. (focus = "processes" => ServersInv) => CleanupLast
  BY DEF ServersInv, WayOutOK, CleanupLast, Servers!CleanupLast, Servers!At
<1> QED BY <1>1, ServersAlways, PTL

-------------------------------------------------------------------------------
(***************************************************************************)
(* The tile proxy.  The counter of the address that is observed tells by   *)
(* its age whether it was there when the observer began: if so all he saw  *)
(* is in its count, if not there was at most one counter before it.  A     *)
(* counter has no expiry as long as the request that made it has not come  *)
(* to EXPIRE, and that one is not seen yet.                                *)
(***************************************************************************)
Counter == [n : Nat \ {0}, left : (1 .. MissWindow) \cup {None}]
Places == {"get", "incr", "expire", "fetch", "set", "limited"}
Download == {Proxy!Idle} \cup [pc : Places, key : TileKeys, ip : Addresses \cup {None}]
Expires(r, ip) == fetch[r].pc = "expire" /\ fetch[r].ip = ip
Expiring(ip) == \E r \in Fetches : Expires(r, ip)
One == IF Budget = 0 THEN 0 ELSE 1

ProxyTypes ==
    /\ fetch \in [Fetches -> Download]
    /\ \A r \in Fetches : fetch[r].pc \in {"incr", "expire"} => fetch[r].ip \in Addresses
    /\ counter \in [Addresses -> Counter \cup {None}]
    /\ client \in Addresses /\ clientSince \in 0 .. MissWindow - 1 /\ fetched \in Nat

CountersOK ==
    /\ \A r \in Fetches, ip \in Addresses : Expires(r, ip) => counter[ip] # None /\ counter[ip].left = None
    /\ \A r, s \in Fetches, ip \in Addresses : Expires(r, ip) /\ Expires(s, ip) => r = s
    /\ \A ip \in Addresses : counter[ip] # None /\ counter[ip].left = None => ip \in unbounded \/ Expiring(ip)

\* What may have been seen, by the counter c of the address, and whether a request is about to set its expiry.
Within(c, expiring, span, n) ==
    IF c = None THEN n <= Budget
    ELSE IF c.left # None /\ MissWindow - c.left > span THEN n <= c.n /\ n <= Budget
    ELSE IF expiring THEN n + One <= Budget + c.n /\ n + One <= 2 * Budget
    ELSE n <= Budget + c.n /\ n <= 2 * Budget

ProxyInv == ProxyTypes /\ CountersOK /\ Within(counter[client], Expiring(client), clientSince, fetched)

LEMMA ProxyConstants ==
  /\ Budget \in Nat /\ MissWindow \in Nat \ {0} /\ None \notin Nat /\ None \notin Counter
  /\ One <= Budget /\ One = IF Budget >= 1 THEN 1 ELSE 0
<1>1. Budget \in Nat /\ MissWindow \in Nat \ {0} /\ None \notin Nat /\ None \notin [n : Nat, left : Nat \cup {None}]
  BY ServicesGiven DEF Proxy!Lives
<1>2. Counter \subseteq [n : Nat, left : Nat \cup {None}]
  BY <1>1 DEF Counter
<1> QED BY <1>1, <1>2 DEF One

LEMMA ProxyInit == Proxy!Init => ProxyInv
BY ProxyConstants DEF Proxy!Init, ProxyInv, ProxyTypes, CountersOK, Within, Expiring, Expires, Proxy!Idle, Download

\* A request goes to another place than EXPIRE, and leaves the counters alone.
LEMMA OneFetch ==
  ASSUME ProxyInv, NEW r \in Fetches, NEW q \in Download, q.pc # "expire", q.pc = "incr" => q.ip \in Addresses,
         fetch' = [fetch EXCEPT ![r] = q],
         \/ fetch[r].pc # "expire" /\ unbounded' = unbounded
         \/ fetch[r].pc = "expire" /\ unbounded' = unbounded \cup {fetch[r].ip},
         UNCHANGED <<counter, client, clientSince, fetched>>
  PROVE  ProxyInv'
<1>1. ProxyTypes'
  BY DEF ProxyInv, ProxyTypes
<1>2. \A s \in Fetches, ip \in Addresses : Expires(s, ip)' <=> s # r /\ Expires(s, ip)
  BY DEF Expires, ProxyInv, ProxyTypes
<1>3. \A ip \in Addresses : Expiring(ip) => Expiring(ip)' \/ ip \in unbounded'
  BY <1>2 DEF Expiring, Expires
<1>4. CountersOK'
  BY <1>2, <1>3 DEF ProxyInv, CountersOK
<1>5. Expiring(client)' => Expiring(client)
  BY <1>2 DEF Expiring, ProxyInv, ProxyTypes
<1>6. fetched \in Nat /\ (counter[client] # None => counter[client].n \in Nat)
  BY DEF ProxyInv, ProxyTypes, Counter
<1>7. Within(counter[client], Expiring(client), clientSince, fetched)'
  BY <1>5, <1>6, ProxyConstants DEF ProxyInv, Within
<1> QED BY <1>1, <1>4, <1>7 DEF ProxyInv

LEMMA Placed ==
  ASSUME NEW q \in Download, q.pc # "idle", NEW place \in Places
  PROVE  /\ [q EXCEPT !.pc = place] \in Download /\ [q EXCEPT !.pc = place].pc = place
         /\ [q EXCEPT !.pc = place].ip = q.ip
BY DEF Download, Places, Proxy!Idle

LEMMA FetchStep ==
  ASSUME ProxyInv, NEW r \in Fetches,
         Proxy!Ask(r) \/ Proxy!Get(r) \/ Proxy!Fetch(r) \/ Proxy!Set(r) \/ Proxy!Refuse(r) \/ Proxy!Crash(r)
  PROVE  ProxyInv'
<1>1. fetch[r] \in Download /\ UNCHANGED <<counter, client, clientSince, fetched>>
  BY DEF ProxyInv, ProxyTypes, Proxy!Ask, Proxy!Get, Proxy!Fetch, Proxy!Set, Proxy!Refuse, Proxy!Crash, Proxy!observed
<1>2. Proxy!Idle \in Download /\ Proxy!Idle.pc = "idle"
  BY DEF Download, Proxy!Idle
<1>3. \/ fetch[r].pc # "expire" /\ unbounded' = unbounded
      \/ fetch[r].pc = "expire" /\ unbounded' = unbounded \cup {fetch[r].ip}
  BY <1>2 DEF Proxy!Ask, Proxy!Get, Proxy!Fetch, Proxy!Set, Proxy!Refuse, Proxy!Crash
<1>4. ASSUME Proxy!Done(r) PROVE ProxyInv'
  BY <1>1, <1>2, <1>3, <1>4, OneFetch DEF Proxy!Done
<1>5. CASE Proxy!Ask(r)
  <2>1. PICK key \in TileKeys, ip \in Addresses \cup {None} :
          fetch' = [fetch EXCEPT ![r] = [pc |-> "get", key |-> key, ip |-> ip]]
    BY <1>5 DEF Proxy!Ask
  <2> DEFINE q == [pc |-> "get", key |-> key, ip |-> ip]
  <2>2. q \in Download /\ q.pc = "get"
    BY DEF Download, Places
  <2> HIDE DEF q
  <2> QED BY <1>1, <1>3, <2>1, <2>2, OneFetch DEF q
<1>6. CASE Proxy!Get(r)
  <2>1. CASE Proxy!Goto(r, IF fetch[r].ip = None THEN "fetch" ELSE "incr")
    <3> DEFINE place == IF fetch[r].ip = None THEN "fetch" ELSE "incr"
    <3>1. fetch[r].pc = "get" /\ fetch' = [fetch EXCEPT ![r] = [fetch[r] EXCEPT !.pc = place]]
      BY <1>6, <2>1 DEF Proxy!Get, Proxy!Goto
    <3>2. fetch[r].ip \in Addresses \cup {None}
      BY <1>1, <3>1 DEF Download, Proxy!Idle
    <3>3. place \in Places /\ place # "expire" /\ (place = "incr" => fetch[r].ip \in Addresses)
      BY <3>2 DEF Places
    <3> HIDE DEF place
    <3> QED BY <1>1, <1>3, <3>1, <3>3, Placed, OneFetch
  <2> QED BY <1>4, <1>6, <2>1 DEF Proxy!Get
<1>7. CASE Proxy!Fetch(r)
  <2>1. CASE Proxy!Goto(r, "set")
    <3>1. fetch[r].pc = "fetch" /\ fetch' = [fetch EXCEPT ![r] = [fetch[r] EXCEPT !.pc = "set"]] /\ "set" \in Places
      BY <1>7, <2>1 DEF Proxy!Fetch, Proxy!Goto, Places
    <3> QED BY <1>1, <1>3, <3>1, Placed, OneFetch
  <2> QED BY <1>4, <1>7, <2>1 DEF Proxy!Fetch
<1>8. CASE Proxy!Set(r) \/ Proxy!Refuse(r) \/ Proxy!Crash(r)
  BY <1>4, <1>8 DEF Proxy!Set, Proxy!Refuse, Proxy!Crash
<1> QED BY <1>5, <1>6, <1>7, <1>8

\* Neither counted nor limited.
LEMMA FailsOpenStep ==
  ASSUME ProxyInv, NEW r \in Fetches, Proxy!FailsOpen(r), UNCHANGED <<counter, client, clientSince>>,
         \/ fetch[r].pc = "incr" /\ unbounded' = unbounded
         \/ fetch[r].pc = "expire" /\ unbounded' = unbounded \cup {fetch[r].ip}
  PROVE  ProxyInv'
<1>1. fetch[r] \in Download /\ fetched' = fetched /\ fetch' = [fetch EXCEPT ![r] = [fetch[r] EXCEPT !.pc = "fetch"]]
  BY DEF ProxyInv, ProxyTypes, Proxy!FailsOpen, Proxy!Goto
<1>2. "fetch" \in Places
  BY DEF Places
<1> QED BY <1>1, <1>2, Placed, OneFetch

\* One count of an address that has a counter: it is the count of what was admitted since the counter was there.
LEMMA IncrStep == ASSUME ProxyInv, NEW r \in Fetches, Proxy!Incr(r) PROVE ProxyInv'
<1>0. PICK ip \in Addresses : ip = fetch[r].ip
  BY DEF ProxyInv, ProxyTypes, Proxy!Incr
<1> DEFINE n == IF counter[ip] = None THEN 1 ELSE counter[ip].n + 1
           kept == IF n > Budget THEN Budget + 1 ELSE n
           made == [n |-> kept, left |-> IF counter[ip] = None THEN None ELSE counter[ip].left]
<1>1. fetch[r] \in Download /\ fetch[r].pc = "incr" /\ fetch[r].ip = ip /\ UNCHANGED <<client, clientSince, unbounded>>
  BY <1>0 DEF ProxyInv, ProxyTypes, Proxy!Incr
<1>2. counter[ip] \in Counter \cup {None}
  BY <1>1 DEF ProxyInv, ProxyTypes
<1>3. /\ n \in Nat \ {0} /\ kept \in Nat \ {0} /\ made \in Counter /\ made # None
      /\ made.n = kept /\ (counter[ip] = None => made.left = None) /\ (counter[ip] # None => made.left = counter[ip].left)
  BY <1>2, ProxyConstants DEF Counter
<1>4. CASE Proxy!FailsOpen(r) /\ UNCHANGED counter
  BY <1>1, <1>4, FailsOpenStep
<1>5. CASE /\ counter' = [counter EXCEPT ![ip] = made]
           /\ IF Proxy!First(n) THEN Proxy!Goto(r, "expire") /\ UNCHANGED fetched ELSE Proxy!Admitted(r, n)
  <2>1. PICK place \in {"expire", "fetch", "limited"} :
          /\ fetch' = [fetch EXCEPT ![r] = [fetch[r] EXCEPT !.pc = place]]
          /\ place = "expire" <=> n = 1
          /\ place = "fetch" <=> n # 1 /\ n <= Budget
          /\ fetched' = IF place = "fetch" /\ ip = client THEN fetched + 1 ELSE fetched
    <3> HIDE DEF n, kept, made
    <3>1. CASE n = 1
      BY <1>5, <3>1 DEF Proxy!First, Proxy!Goto
    <3>2. CASE n # 1 /\ n <= Budget
      BY <1>1, <1>5, <3>2 DEF Proxy!First, Proxy!Admitted, Proxy!Goto
    <3>3. CASE n # 1 /\ ~(n <= Budget)
      BY <1>5, <3>3 DEF Proxy!First, Proxy!Admitted, Proxy!Goto
    <3> QED BY <3>1, <3>2, <3>3
  <2> DEFINE q == [fetch[r] EXCEPT !.pc = place]
  <2>2. q \in Download /\ q.pc = place /\ q.ip = ip
    <3>1. place \in Places /\ fetch[r].pc # "idle"
      BY <1>1 DEF Places
    <3> QED BY <1>1, <3>1, Placed
  <2>3. n = 1 <=> counter[ip] = None
    BY <1>2, ProxyConstants DEF Counter
  <2>4. made.n = kept /\ (n <= Budget => kept = n) /\ (n > Budget => kept = Budget + 1)
    BY <1>3, ProxyConstants
  <2> HIDE DEF q, made, kept, n
  <2>5. ProxyTypes'
    BY <1>1, <1>3, <1>5, <2>1, <2>2 DEF ProxyInv, ProxyTypes, q
  <2>6. \A s \in Fetches, a \in Addresses :
          Expires(s, a)' <=> Expires(s, a) \/ (s = r /\ a = ip /\ counter[ip] = None)
    BY <1>1, <2>1, <2>2, <2>3 DEF Expires, ProxyInv, ProxyTypes, q
  <2>7. counter'[ip] = made /\ \A a \in Addresses : a # ip => counter'[a] = counter[a]
    BY <1>1, <1>5 DEF ProxyInv, ProxyTypes
  <2>8. CountersOK'
    <3>1. \A s \in Fetches, a \in Addresses : Expires(s, a)' => counter'[a] # None /\ counter'[a].left = None
      BY <1>1, <1>3, <2>6, <2>7 DEF ProxyInv, CountersOK
    <3>2. \A s, t \in Fetches, a \in Addresses : Expires(s, a)' /\ Expires(t, a)' => s = t
      BY <1>1, <2>6 DEF ProxyInv, CountersOK
    <3>3. \A a \in Addresses : counter'[a] # None /\ counter'[a].left = None => a \in unbounded \/ Expiring(a)'
      BY <1>1, <1>3, <2>6, <2>7 DEF ProxyInv, CountersOK, Expiring
    <3> QED BY <1>1, <3>1, <3>2, <3>3 DEF CountersOK
  <2>9. Within(counter[client], Expiring(client), clientSince, fetched)'
    <3>1. Within(counter[client], Expiring(client), clientSince, fetched) /\ client \in Addresses /\ fetched \in Nat
      BY DEF ProxyInv, ProxyTypes
    <3>2. CASE client # ip
      <4>1. Expiring(client)' <=> Expiring(client)
        BY <1>1, <2>6, <3>1, <3>2 DEF Expiring
      <4> QED BY <1>1, <2>1, <2>7, <3>1, <3>2, <4>1 DEF Within
    <3>3. CASE client = ip /\ counter[ip] = None
      <4>1. Expiring(client)' /\ fetched' = fetched /\ made.left = None /\ made.n = 1 /\ fetched <= Budget
        BY <1>1, <1>3, <2>1, <2>3, <2>4, <2>6, <3>1, <3>3, ProxyConstants DEF Expiring, Within
      <4> QED BY <1>1, <1>3, <2>7, <3>1, <3>3, <4>1, ProxyConstants DEF Within
    <3>4. CASE client = ip /\ counter[ip] # None
      <4>1. /\ Expiring(client)' <=> Expiring(client)
            /\ made.left = counter[ip].left /\ n = counter[ip].n + 1 /\ counter[ip].n \in Nat \ {0}
        BY <1>1, <1>2, <1>3, <2>6, <3>1, <3>4 DEF Expiring, Counter, n
      <4>2. fetched' = IF n <= Budget THEN fetched + 1 ELSE fetched
        BY <2>1, <2>3, <3>4
      <4>3. made.left = None \/ made.left \in Nat
        BY <1>3 DEF Counter
      <4> QED BY <1>1, <1>3, <2>4, <2>7, <3>1, <3>4, <4>1, <4>2, <4>3, ProxyConstants DEF Within
    <3> QED BY <3>2, <3>3, <3>4
  <2> QED BY <2>5, <2>8, <2>9 DEF ProxyInv
<1> QED BY <1>1, <1>4, <1>5 DEF Proxy!Incr

LEMMA ExpireStep == ASSUME ProxyInv, NEW r \in Fetches, Proxy!Expire(r) PROVE ProxyInv'
<1>0. PICK ip \in Addresses : ip = fetch[r].ip
  BY DEF ProxyInv, ProxyTypes, Proxy!Expire
<1> DEFINE made == [counter[ip] EXCEPT !.left = MissWindow]
<1>1. fetch[r] \in Download /\ fetch[r].pc = "expire" /\ fetch[r].ip = ip /\ UNCHANGED <<client, clientSince>>
  BY <1>0 DEF ProxyInv, ProxyTypes, Proxy!Expire
<1>2. Expires(r, ip) /\ counter[ip] \in Counter /\ counter[ip] # None /\ counter[ip].left = None
  BY <1>1 DEF Expires, ProxyInv, ProxyTypes, CountersOK
<1>3. made \in Counter /\ made # None /\ made.n = counter[ip].n /\ made.left = MissWindow /\ made.left # None
  BY <1>2, ProxyConstants DEF Counter
<1>4. CASE Proxy!FailsOpen(r) /\ unbounded' = unbounded \cup {ip} /\ UNCHANGED counter
  BY <1>1, <1>4, FailsOpenStep
<1>5. CASE counter' = [counter EXCEPT ![ip] = made] /\ Proxy!Admitted(r, 1) /\ unbounded' = unbounded
  <2>1. PICK place \in {"fetch", "limited"} :
          /\ fetch' = [fetch EXCEPT ![r] = [fetch[r] EXCEPT !.pc = place]]
          /\ fetched' = IF ip = client THEN fetched + One ELSE fetched
    <3>1. fetched \in Nat /\ One = IF 1 <= Budget THEN 1 ELSE 0
      BY ProxyConstants DEF ProxyInv, ProxyTypes
    <3>2. CASE 1 <= Budget
      BY <1>1, <1>5, <3>1, <3>2 DEF Proxy!Admitted, Proxy!Goto
    <3>3. CASE ~(1 <= Budget)
      BY <1>5, <3>1, <3>3 DEF Proxy!Admitted, Proxy!Goto
    <3> QED BY <3>2, <3>3
  <2> DEFINE q == [fetch[r] EXCEPT !.pc = place]
  <2>2. q \in Download /\ q.pc = place /\ q.ip = ip
    <3>1. place \in Places /\ fetch[r].pc # "idle"
      BY <1>1 DEF Places
    <3> QED BY <1>1, <3>1, Placed
  <2> HIDE DEF q, made
  <2>3. ProxyTypes'
    BY <1>1, <1>3, <1>5, <2>1, <2>2, ProxyConstants DEF ProxyInv, ProxyTypes, q
  <2>4. \A s \in Fetches, a \in Addresses : Expires(s, a)' <=> Expires(s, a) /\ s # r
    BY <1>1, <2>1, <2>2 DEF Expires, ProxyInv, ProxyTypes, q
  <2>5. \A s \in Fetches : ~Expires(s, ip)'
    BY <1>1, <1>2, <2>4 DEF ProxyInv, CountersOK
  <2>6. counter'[ip] = made /\ \A a \in Addresses : a # ip => counter'[a] = counter[a]
    BY <1>1, <1>5 DEF ProxyInv, ProxyTypes
  <2>7. \A a \in Addresses : a # ip => (Expiring(a)' <=> Expiring(a))
    BY <1>1, <2>4 DEF Expiring, Expires
  <2>8. CountersOK'
    <3>1. \A s \in Fetches, a \in Addresses : Expires(s, a)' => counter'[a] # None /\ counter'[a].left = None
      BY <1>1, <2>4, <2>5, <2>6 DEF ProxyInv, CountersOK
    <3>2. \A s, t \in Fetches, a \in Addresses : Expires(s, a)' /\ Expires(t, a)' => s = t
      BY <2>4 DEF ProxyInv, CountersOK
    <3>3. \A a \in Addresses : counter'[a] # None /\ counter'[a].left = None => a \in unbounded \/ Expiring(a)'
      BY <1>3, <2>6, <2>7 DEF ProxyInv, CountersOK
    <3> QED BY <1>5, <3>1, <3>2, <3>3 DEF CountersOK
  <2>9. Within(counter[client], Expiring(client), clientSince, fetched)'
    <3>1. /\ Within(counter[client], Expiring(client), clientSince, fetched) /\ client \in Addresses /\ fetched \in Nat
          /\ clientSince \in Nat
      BY ProxyConstants DEF ProxyInv, ProxyTypes
    <3>2. CASE client # ip
      BY <1>1, <2>1, <2>6, <2>7, <3>1, <3>2 DEF Within
    <3>3. CASE client = ip
      <4>1. fetched + One <= Budget + counter[ip].n /\ fetched + One <= 2 * Budget
        BY <1>2, <3>1, <3>3 DEF Within, Expiring
      <4>2. ~Expiring(client)' /\ fetched' = fetched + One
        BY <1>1, <2>1, <2>5, <3>3 DEF Expiring
      <4>3. ~(MissWindow - made.left > clientSince)
        BY <1>3, <3>1, ProxyConstants
      <4> QED BY <1>1, <1>3, <2>6, <3>3, <4>1, <4>2, <4>3 DEF Within
    <3> QED BY <3>2, <3>3
  <2> QED BY <2>3, <2>8, <2>9 DEF ProxyInv
<1> QED BY <1>1, <1>4, <1>5 DEF Proxy!Expire

\* A counter whose time is over was there before the observer began.
LEMMA ProxyTickStep == ASSUME ProxyInv, Proxy!Tick PROVE ProxyInv'
<1>1. /\ counter' = [ip \in Addresses |->
           IF counter[ip] = None \/ counter[ip].left = None THEN counter[ip]
           ELSE IF counter[ip].left = 1 THEN None ELSE [counter[ip] EXCEPT !.left = counter[ip].left - 1]]
      /\ \/ clientSince + 1 < MissWindow /\ clientSince' = clientSince + 1 /\ fetched' = fetched
         \/ clientSince' = 0 /\ fetched' = 0
      /\ UNCHANGED <<fetch, client, unbounded>>
  BY DEF Proxy!Tick
<1>2. ASSUME NEW ip \in Addresses
      PROVE  /\ counter'[ip] \in Counter \cup {None}
             /\ counter[ip] = None => counter'[ip] = None
             /\ counter[ip] # None /\ counter[ip].left = None => counter'[ip] = counter[ip]
             /\ counter[ip] # None /\ counter[ip].left # None =>
                  \/ counter[ip].left = 1 /\ counter'[ip] = None
                  \/ /\ counter'[ip] # None /\ counter'[ip].left = counter[ip].left - 1 /\ counter'[ip].left # None
                     /\ counter'[ip].n = counter[ip].n
  <2>1. counter[ip] \in Counter \cup {None}
    BY DEF ProxyInv, ProxyTypes
  <2>2. CASE counter[ip] = None \/ counter[ip].left = None
    BY <1>1, <2>1, <2>2
  <2>3. CASE ~(counter[ip] = None \/ counter[ip].left = None)
    <3>1. counter[ip] \in Counter /\ counter[ip].left \in 1 .. MissWindow
      BY <2>1, <2>3 DEF Counter
    <3>2. CASE counter[ip].left = 1
      BY <1>1, <2>3, <3>2
    <3>3. CASE counter[ip].left # 1
      <4>1. counter'[ip] = [counter[ip] EXCEPT !.left = counter[ip].left - 1]
        BY <1>1, <2>3, <3>3
      <4>2. counter[ip].left - 1 \in 1 .. MissWindow
        BY <3>1, <3>3, ProxyConstants
      <4> QED BY <2>3, <3>1, <4>1, <4>2, ProxyConstants DEF Counter
    <3> QED BY <3>2, <3>3
  <2> QED BY <2>2, <2>3
<1>3. ProxyTypes'
  BY <1>1, <1>2, ProxyConstants DEF ProxyInv, ProxyTypes
<1>4. \A r \in Fetches, ip \in Addresses : Expires(r, ip)' <=> Expires(r, ip)
  BY <1>1 DEF Expires
<1>5. CountersOK'
  BY <1>1, <1>2, <1>4 DEF ProxyInv, CountersOK, Expiring
<1>6. Within(counter[client], Expiring(client), clientSince, fetched)'
  <2>1. /\ Within(counter[client], Expiring(client), clientSince, fetched) /\ client \in Addresses /\ fetched \in Nat
        /\ clientSince \in 0 .. MissWindow - 1 /\ counter[client] \in Counter \cup {None}
    BY DEF ProxyInv, ProxyTypes
  <2>2. Expiring(client)' <=> Expiring(client)
    BY <1>1, <1>4, <2>1 DEF Expiring
  <2>3. counter[client] # None => counter[client].n \in Nat \ {0} /\ (counter[client].left = None \/ counter[client].left \in 1 .. MissWindow)
    BY <2>1 DEF Counter
  <2>4. CASE counter[client] = None
    BY <1>1, <1>2, <2>1, <2>4, ProxyConstants DEF Within
  <2>5. CASE counter[client] # None /\ counter[client].left = None
    BY <1>1, <1>2, <2>1, <2>2, <2>3, <2>5, ProxyConstants DEF Within
  <2>6. CASE counter[client] # None /\ counter[client].left # None
    <3>1. ~Expiring(client)
      BY <2>1, <2>6 DEF Expiring, ProxyInv, CountersOK
    <3> QED BY <1>1, <1>2, <2>1, <2>2, <2>3, <2>6, <3>1, ProxyConstants DEF Within
  <2> QED BY <2>4, <2>5, <2>6
<1> QED BY <1>3, <1>5, <1>6 DEF ProxyInv

LEMMA ProxyStep == ASSUME ProxyInv, Proxy!Next \/ UNCHANGED proxy PROVE ProxyInv'
<1>1. CASE UNCHANGED proxy
  BY <1>1 DEF proxy, ProxyInv, ProxyTypes, CountersOK, Within, Expiring, Expires
<1>2. CASE Proxy!Evict
  BY <1>2 DEF Proxy!Evict, Proxy!observed, ProxyInv, ProxyTypes, CountersOK, Within, Expiring, Expires
<1> QED BY <1>1, <1>2, FetchStep, IncrStep, ExpireStep, ProxyTickStep DEF Proxy!Next

LEMMA ProxyAlways == ServicesSpec => [](focus = "proxy" => ProxyInv)
<1>1. ServicesInit => (focus = "proxy" => ProxyInv)
  BY ProxyInit DEF ServicesInit
<1>2. (focus = "proxy" => ProxyInv) /\ [ServicesNext]_all => (focus = "proxy" => ProxyInv)'
  BY FocusedServers, ProxyStep
<1> QED BY <1>1, <1>2, PTL DEF ServicesSpec

\* allow and Incr (tiles/tiles.go, redis.go): two budgets of counted downloads in any minute, and only an address whose
\* EXPIRE did not happen is refused for ever.
THEOREM MissesBounded == ServicesSpec => []MissBudget
<1>1. ASSUME ProxyInv PROVE Proxy!MissBudget
  <2>1. fetched <= 2 * Budget
    <3>1. /\ Within(counter[client], Expiring(client), clientSince, fetched) /\ fetched \in Nat
      BY <1>1 DEF ProxyInv, ProxyTypes
    <3> QED BY <3>1, ProxyConstants DEF Within
  <2> QED BY <1>1, <2>1 DEF Proxy!MissBudget, ProxyInv, CountersOK, Expiring, Expires
<1>2. (focus = "proxy" => ProxyInv) => MissBudget
  BY <1>1 DEF MissBudget
<1> QED BY <1>2, ProxyAlways, PTL

-------------------------------------------------------------------------------
(***************************************************************************)
(* Terrain.  Once a tile was loaded the spacing is that of a tile, and     *)
(* nobody comes to ask for it before: the height of a site is from a tile. *)
(* A radial gives up only in a coverage that is cancelled.                 *)
(***************************************************************************)
Land == {ground[t] : t \in surface}
SpacingOK == IF surface = {} THEN tiles = << >> ELSE spacing \in Land

IsPath(q) == q = [pc |-> q.pc, kind |-> q.kind, path |-> q.path]
IsSampling(q) == q = [pc |-> q.pc, kind |-> q.kind, todo |-> q.todo, step |-> q.step]
IsComputing(q) ==
    /\ q = [pc |-> q.pc, kind |-> q.kind, path |-> q.path, todo |-> q.todo, fed |-> q.fed, out |-> q.out,
            cancelled |-> q.cancelled]
    /\ q.kind = "coverage"
    /\ q.out \in [Radials -> {None, "whole", "cut", "partial"}]
    /\ \A a \in Radials : q.out[a] = "partial" /\ q.out[a] # None => q.cancelled

CalcOK(q, land) ==
    /\ q.pc \in {"idle", "site", "spacing", "samples", "analyzed", "radials", "computed"}
    /\ q.pc = "idle" => q = Ground!Idle
    /\ q.pc = "site" => (q.kind = "link" /\ IsPath(q)) \/ IsComputing(q)
    /\ q.pc = "spacing" => IsPath(q) /\ land # {}
    /\ q.pc = "samples" => IsSampling(q) /\ q.step \in land
    /\ q.pc = "analyzed" => q.step \in land
    /\ q.pc = "radials" => IsComputing(q)
    /\ q.pc = "computed" => \A a \in Radials : q.out[a] \in {"whole", "cut"}

GroundInv ==
    /\ SpacingOK
    /\ calc = [c \in Ground!Calcs |-> calc[c]]
    /\ \A c \in Ground!Calcs : CalcOK(calc[c], Land)

LEMMA IdleCalc == ASSUME NEW land PROVE CalcOK(Ground!Idle, land)
BY DEF CalcOK, Ground!Idle

LEMMA GroundInit == Ground!Init => GroundInv
BY IdleCalc DEF Ground!Init, GroundInv, SpacingOK

LEMMA OneCalc ==
  ASSUME GroundInv, NEW c \in Ground!Calcs, NEW q, calc' = [calc EXCEPT ![c] = q], CalcOK(q, Land'),
         SpacingOK', Land \subseteq Land'
  PROVE  GroundInv'
<1>1. \A b \in Ground!Calcs : calc'[b] = IF b = c THEN q ELSE calc[b]
  BY DEF GroundInv
<1>2. calc' = [b \in Ground!Calcs |-> calc'[b]]
  BY DEF GroundInv
<1>3. \A b \in Ground!Calcs : CalcOK(calc[b], Land) => CalcOK(calc[b], Land')
  BY DEF CalcOK
<1> QED BY <1>1, <1>2, <1>3 DEF GroundInv

\* No get: the tiles stay as they are.
LEMMA StillCalc ==
  ASSUME GroundInv, NEW c \in Ground!Calcs, NEW q, Ground!Goto(c, q), CalcOK(q, Land),
         UNCHANGED <<ground, tiles, spacing, surface>>
  PROVE  GroundInv'
BY OneCalc DEF GroundInv, SpacingOK, Land, Ground!Goto

\* A get that answers has a tile to answer from.
LEMMA GotTile ==
  ASSUME SpacingOK, NEW t, Ground!Got(t), ground' = ground
  PROVE  SpacingOK' /\ Land \subseteq Land' /\ Land' # {}
<1>1. CASE Ground!Hit(t)
  <2>1. t \in Ground!Range(tiles) /\ spacing' = spacing /\ surface' = surface
    BY <1>1 DEF Ground!Hit
  <2>2. surface # {}
    <3>1. tiles # << >>
      BY <2>1 DEF Ground!Range
    <3> QED BY <3>1 DEF SpacingOK
  <2> QED BY <2>1, <2>2 DEF SpacingOK, Land
<1>2. CASE Ground!Load(t)
  BY <1>2 DEF Ground!Load, SpacingOK, Land
<1> QED BY <1>1, <1>2 DEF Ground!Got

LEMMA MissingTile ==
  ASSUME SpacingOK, NEW t, Ground!Missing(t), ground' = ground
  PROVE  SpacingOK' /\ Land' = Land
BY DEF Ground!Missing, SpacingOK, Land

LEMMA BeginStepGround ==
  ASSUME GroundInv, NEW c \in Ground!Calcs,
         \/ \E way \in Paths : Ground!BeginLink(c, way)
         \/ \E site \in TileNames, route \in [Radials -> Paths] : Ground!BeginCoverage(c, site, route)
  PROVE  GroundInv'
<1>1. ASSUME NEW way \in Paths, Ground!BeginLink(c, way) PROVE GroundInv'
  <2> DEFINE q == [pc |-> "site", kind |-> "link", path |-> way]
  <2>1. CalcOK(q, Land)
    BY DEF CalcOK, IsPath
  <2> QED BY <1>1, <2>1, StillCalc DEF Ground!BeginLink
<1>2. ASSUME NEW site \in TileNames, NEW route \in [Radials -> Paths], Ground!BeginCoverage(c, site, route) PROVE GroundInv'
  <2> DEFINE q == [pc |-> "site", kind |-> "coverage", path |-> <<site>>, todo |-> route, fed |-> {},
                   out |-> [a \in Radials |-> None], cancelled |-> FALSE]
  <2>1. CalcOK(q, Land)
    BY DEF CalcOK, IsComputing
  <2> QED BY <1>2, <2>1, StillCalc DEF Ground!BeginCoverage
<1> QED BY <1>1, <1>2

LEMMA ElevationStep ==
  ASSUME GroundInv, NEW c \in Ground!Calcs, Ground!Elevation(c)
  PROVE  GroundInv'
<1> DEFINE place == IF calc[c].kind = "link" THEN "spacing" ELSE "radials"
           q == [calc[c] EXCEPT !.pc = place]
<1>1. calc[c].pc = "site" /\ CalcOK(calc[c], Land) /\ SpacingOK /\ ground' = ground
  BY DEF GroundInv, Ground!Elevation
<1>2. CASE Ground!Got(Head(calc[c].path)) /\ Ground!Goto(c, q)
  <2>1. SpacingOK' /\ Land \subseteq Land' /\ Land' # {}
    BY <1>1, <1>2, GotTile
  <2>2. CalcOK(q, Land')
    <3>1. CASE calc[c].kind = "link" /\ IsPath(calc[c])
      <4>1. q = [pc |-> "spacing", kind |-> "link", path |-> calc[c].path]
        BY <3>1 DEF IsPath
      <4> QED BY <2>1, <4>1 DEF CalcOK, IsPath
    <3>2. CASE IsComputing(calc[c])
      <4>1. q = [pc |-> "radials", kind |-> "coverage", path |-> calc[c].path, todo |-> calc[c].todo, fed |-> calc[c].fed,
                 out |-> calc[c].out, cancelled |-> calc[c].cancelled]
        BY <3>2 DEF IsComputing
      <4> QED BY <3>2, <4>1 DEF CalcOK, IsComputing
    <3> QED BY <1>1, <3>1, <3>2 DEF CalcOK
  <2> QED BY <1>2, <2>1, <2>2, OneCalc DEF Ground!Goto
<1>3. CASE Ground!Missing(Head(calc[c].path)) /\ Ground!Goto(c, Ground!Idle)
  <2>1. SpacingOK' /\ Land' = Land
    BY <1>1, <1>3, MissingTile
  <2> QED BY <1>3, <2>1, IdleCalc, OneCalc DEF Ground!Goto
<1> QED BY <1>2, <1>3 DEF Ground!Elevation

LEMMA LinkStep ==
  ASSUME GroundInv, NEW c \in Ground!Calcs, Ground!ResolutionM(c) \/ Ground!Samples(c) \/ Ground!Analyzed(c)
  PROVE  GroundInv'
<1>1. CalcOK(calc[c], Land) /\ SpacingOK
  BY DEF GroundInv
<1>2. CASE Ground!ResolutionM(c)
  <2> DEFINE q == [pc |-> "samples", kind |-> "link", todo |-> calc[c].path, step |-> spacing]
  <2>1. spacing \in Land
    BY <1>1, <1>2 DEF Ground!ResolutionM, CalcOK, SpacingOK, Land
  <2>2. CalcOK(q, Land)
    BY <2>1 DEF CalcOK, IsSampling
  <2> QED BY <1>2, <2>2, StillCalc DEF Ground!ResolutionM
<1>3. CASE Ground!Samples(c)
  <2> DEFINE q == [calc[c] EXCEPT !.todo = Tail(calc[c].todo)]
             t == Head(calc[c].todo)
  <2>1. calc[c].pc = "samples" /\ IsSampling(calc[c]) /\ calc[c].step \in Land /\ ground' = ground
    BY <1>1, <1>3 DEF Ground!Samples, CalcOK
  <2>2. CASE Ground!Got(t) /\ Ground!Goto(c, q)
    <3>1. SpacingOK' /\ Land \subseteq Land'
      BY <1>1, <2>1, <2>2, GotTile
    <3>2. q = [pc |-> "samples", kind |-> calc[c].kind, todo |-> Tail(calc[c].todo), step |-> calc[c].step]
      <4> HIDE DEF t
      <4>1. PICK p, next, kind, todo, step :
              /\ p = calc[c] /\ next = Tail(p.todo) /\ kind = p.kind /\ step = p.step
              /\ p = [pc |-> "samples", kind |-> kind, todo |-> todo, step |-> step]
        BY <2>1 DEF IsSampling
      <4>2. [p EXCEPT !.todo = next] = [pc |-> "samples", kind |-> kind, todo |-> next, step |-> step]
        <5>1. p = [pc |-> "samples", kind |-> kind, todo |-> todo, step |-> step]
          BY <4>1
        <5> QED BY <5>1
      <4> QED BY <4>1, <4>2
    <3>3. CalcOK(q, Land')
      BY <2>1, <3>1, <3>2 DEF CalcOK, IsSampling
    <3> QED BY <2>2, <3>1, <3>3, OneCalc DEF Ground!Goto
  <2>3. CASE Ground!Missing(t) /\ Ground!Goto(c, Ground!Idle)
    <3>1. SpacingOK' /\ Land' = Land
      BY <1>1, <2>1, <2>3, MissingTile
    <3> QED BY <2>3, <3>1, IdleCalc, OneCalc DEF Ground!Goto
  <2> QED BY <1>3, <2>2, <2>3 DEF Ground!Samples
<1>4. CASE Ground!Analyzed(c)
  <2> DEFINE q == [pc |-> "analyzed", step |-> calc[c].step]
  <2>1. calc[c].step \in Land
    BY <1>1, <1>4 DEF Ground!Analyzed, CalcOK
  <2>2. CalcOK(q, Land)
    BY <2>1 DEF CalcOK
  <2> QED BY <1>4, <2>2, StillCalc DEF Ground!Analyzed
<1> QED BY <1>2, <1>3, <1>4

\* What a computation has become, as long as it computes.
Busy(way, todo, begun, out, over) ==
    [pc |-> "radials", kind |-> "coverage", path |-> way, todo |-> todo, fed |-> begun, out |-> out, cancelled |-> over]

LEMMA StillComputing ==
  ASSUME NEW land, NEW way, NEW todo, NEW begun, NEW over,
         NEW out \in [Radials -> {None, "whole", "cut", "partial"}],
         \A a \in Radials : out[a] = "partial" /\ out[a] # None => over,
         NEW q, q = Busy(way, todo, begun, out, over)
  PROVE  CalcOK(q, land)
BY DEF CalcOK, IsComputing, Busy

LEMMA WasComputing ==
  ASSUME NEW q, q.pc = "radials", IsComputing(q)
  PROVE  /\ q = Busy(q.path, q.todo, q.fed, q.out, q.cancelled)
         /\ q.out \in [Radials -> {None, "whole", "cut", "partial"}]
         /\ \A a \in Radials : q.out[a] = "partial" /\ q.out[a] # None => q.cancelled
BY DEF IsComputing, Busy

LEMMA ComputingStep ==
  ASSUME GroundInv, NEW c \in Ground!Calcs, NEW a \in Radials,
         Ground!Feed(c, a) \/ Ground!Radial(c, a) \/ Ground!RadialCancelled(c, a)
  PROVE  GroundInv'
<1> DEFINE Outs == {None, "whole", "cut", "partial"}
<1>1. calc[c].pc = "radials" /\ IsComputing(calc[c]) /\ SpacingOK /\ ground' = ground
  BY DEF GroundInv, CalcOK, Ground!Feed, Ground!Radial, Ground!RadialCancelled, Ground!Computing
<1>2. PICK q, way, todo, begun, out, over :
        /\ q = calc[c] /\ q = Busy(way, todo, begun, out, over)
        /\ way = q.path /\ todo = q.todo /\ begun = q.fed /\ out = q.out /\ over = q.cancelled
        /\ out \in [Radials -> Outs]
        /\ \A b \in Radials : out[b] = "partial" /\ out[b] # None => over
  <2>1. \E q : q = calc[c]
    OBVIOUS
  <2>2. PICK q : q = calc[c]
    BY <2>1
  <2>3. /\ q = Busy(q.path, q.todo, q.fed, q.out, q.cancelled)
        /\ q.out \in [Radials -> Outs]
        /\ \A b \in Radials : q.out[b] = "partial" /\ q.out[b] # None => q.cancelled
    BY <1>1, <2>2, WasComputing
  <2> QED BY <2>2, <2>3
<1>3. ASSUME NEW how \in {"whole", "cut", "partial"}, how = "partial" => over, NEW land
      PROVE  CalcOK([q EXCEPT !.out[a] = how], land)
  <2>1. PICK next : next = [out EXCEPT ![a] = how]
    OBVIOUS
  <2>2. next \in [Radials -> Outs] /\ \A b \in Radials : next[b] = "partial" /\ next[b] # None => over
    BY <1>2, <1>3, <2>1
  <2>3. [q EXCEPT !.out = next] = Busy(way, todo, begun, next, over)
    BY <1>2 DEF Busy
  <2>4. [q EXCEPT !.out[a] = how] = [q EXCEPT !.out = next]
    BY <1>2, <2>1
  <2>5. PICK r : r = [q EXCEPT !.out[a] = how]
    OBVIOUS
  <2>6. CalcOK(r, land)
    BY <2>2, <2>3, <2>4, <2>5, StillComputing
  <2> QED BY <2>5, <2>6
<1>4. CASE Ground!Feed(c, a)
  <2>1. PICK next : next = begun \cup {a}
    OBVIOUS
  <2>2. Ground!Goto(c, [q EXCEPT !.fed = next]) /\ UNCHANGED <<ground, tiles, spacing, surface>>
    BY <1>2, <1>4, <2>1 DEF Ground!Feed
  <2>3. [q EXCEPT !.fed = next] = Busy(way, todo, next, out, over)
    BY <1>2 DEF Busy
  <2>4. PICK r : r = [q EXCEPT !.fed = next]
    OBVIOUS
  <2>5. r = Busy(way, todo, next, out, over)
    BY <2>3, <2>4
  <2>6. CalcOK(r, Land)
    BY <1>2, <2>5, StillComputing
  <2> QED BY <2>2, <2>4, <2>6, StillCalc
<1>5. CASE Ground!RadialCancelled(c, a)
  <2>1. Ground!Goto(c, [q EXCEPT !.out[a] = "partial"]) /\ over /\ UNCHANGED <<ground, tiles, spacing, surface>>
    BY <1>2, <1>5 DEF Ground!RadialCancelled, Ground!Ended
  <2>2. CalcOK([q EXCEPT !.out[a] = "partial"], Land)
    BY <1>3, <2>1
  <2> QED BY <2>1, <2>2, StillCalc
<1>6. CASE Ground!Radial(c, a) /\ todo[a] = << >>
  <2>1. Ground!Goto(c, [q EXCEPT !.out[a] = "whole"]) /\ UNCHANGED <<ground, tiles, spacing, surface>>
    BY <1>2, <1>6 DEF Ground!Radial, Ground!Ended
  <2>2. CalcOK([q EXCEPT !.out[a] = "whole"], Land)
    BY <1>3
  <2> QED BY <2>1, <2>2, StillCalc
<1>7. CASE Ground!Radial(c, a) /\ todo[a] # << >>
  <2>1. PICK t, next : t = Head(todo[a]) /\ next = [todo EXCEPT ![a] = Tail(todo[a])]
    OBVIOUS
  <2>2. \/ Ground!Got(t) /\ Ground!Goto(c, [q EXCEPT !.todo[a] = Tail(q.todo[a])])
        \/ Ground!Missing(t) /\ Ground!Goto(c, [q EXCEPT !.out[a] = "cut"])
    BY <1>2, <1>7, <2>1 DEF Ground!Radial, Ground!Ended
  <2>3. CASE Ground!Got(t) /\ Ground!Goto(c, [q EXCEPT !.todo[a] = Tail(q.todo[a])])
    <3>1. SpacingOK' /\ Land \subseteq Land'
      BY <1>1, <2>3, GotTile
    <3>2. [q EXCEPT !.todo = next] = Busy(way, next, begun, out, over)
      BY <1>2 DEF Busy
    <3>3. [q EXCEPT !.todo[a] = Tail(q.todo[a])] = [q EXCEPT !.todo = next]
      BY <1>2, <2>1
    <3>4. PICK r : r = [q EXCEPT !.todo[a] = Tail(q.todo[a])]
      OBVIOUS
    <3>5. r = Busy(way, next, begun, out, over)
      BY <3>2, <3>3, <3>4
    <3>6. CalcOK(r, Land')
      BY <1>2, <3>5, StillComputing
    <3> QED BY <2>3, <3>1, <3>4, <3>6, OneCalc DEF Ground!Goto
  <2>4. CASE Ground!Missing(t) /\ Ground!Goto(c, [q EXCEPT !.out[a] = "cut"])
    <3>1. SpacingOK' /\ Land' = Land
      BY <1>1, <2>4, MissingTile
    <3>2. CalcOK([q EXCEPT !.out[a] = "cut"], Land')
      BY <1>3
    <3> QED BY <2>4, <3>1, <3>2, OneCalc DEF Ground!Goto
  <2> QED BY <2>2, <2>3, <2>4
<1> QED BY <1>4, <1>5, <1>6, <1>7

LEMMA ComputedStep ==
  ASSUME GroundInv, NEW c \in Ground!Calcs,
         Ground!Compute(c) \/ Ground!ComputeCancelled(c) \/ Ground!Leave(c)
  PROVE  GroundInv'
<1>1. CASE Ground!Compute(c)
  <2> DEFINE q == [pc |-> "computed", out |-> calc[c].out]
  <2>1. IsComputing(calc[c]) /\ calc[c].fed = Radials /\ ~calc[c].cancelled /\ \A a \in Radials : calc[c].out[a] # None
    BY <1>1 DEF Ground!Compute, Ground!Computing, Ground!Ends, GroundInv, CalcOK
  <2>2. \A a \in Radials : calc[c].out[a] \in {"whole", "cut"}
    BY <2>1 DEF IsComputing
  <2>3. CalcOK(q, Land)
    BY <2>2 DEF CalcOK
  <2> QED BY <1>1, <2>3, StillCalc DEF Ground!Compute
<1>2. CASE Ground!ComputeCancelled(c) \/ Ground!Leave(c)
  BY <1>2, IdleCalc, StillCalc DEF Ground!ComputeCancelled, Ground!Leave
<1> QED BY <1>1, <1>2

LEMMA CancelStep == ASSUME GroundInv, NEW c \in Ground!Calcs, Ground!Cancel(c) PROVE GroundInv'
<1>1. calc[c].pc = "radials" /\ IsComputing(calc[c])
  BY DEF GroundInv, CalcOK, Ground!Cancel, Ground!Computing
<1>2. PICK q, way, todo, begun, out, over :
        /\ q = calc[c] /\ q = Busy(way, todo, begun, out, over)
        /\ out \in [Radials -> {None, "whole", "cut", "partial"}]
  BY <1>1, WasComputing
<1>3. [q EXCEPT !.cancelled = TRUE] = Busy(way, todo, begun, out, TRUE)
  <2>1. q = Busy(way, todo, begun, out, over)
    BY <1>2
  <2>2. \A yes : [q EXCEPT !.cancelled = yes] = Busy(way, todo, begun, out, yes)
    BY <2>1 DEF Busy
  <2> QED BY <2>2, Zenon
<1>4. PICK r : r = [q EXCEPT !.cancelled = TRUE]
  OBVIOUS
<1>5. r = Busy(way, todo, begun, out, TRUE)
  BY <1>3, <1>4
<1>6. CalcOK(r, Land)
  BY <1>2, <1>5, StillComputing
<1>7. Ground!Goto(c, r) /\ UNCHANGED <<ground, tiles, spacing, surface>>
  BY <1>2, <1>4 DEF Ground!Cancel
<1> QED BY <1>6, <1>7, StillCalc

LEMMA GroundStep == ASSUME GroundInv, Ground!Next \/ UNCHANGED terrain PROVE GroundInv'
<1>1. CASE UNCHANGED terrain
  BY <1>1 DEF terrain, GroundInv, SpacingOK, Land
<1>2. CASE Ground!Next
  BY <1>2, BeginStepGround, ElevationStep, LinkStep, ComputingStep, CancelStep, ComputedStep DEF Ground!Next
<1> QED BY <1>1, <1>2

LEMMA GroundAlways == ServicesSpec => [](focus = "terrain" => GroundInv)
<1>1. ServicesInit => (focus = "terrain" => GroundInv)
  BY GroundInit DEF ServicesInit
<1>2. (focus = "terrain" => GroundInv) /\ [ServicesNext]_all => (focus = "terrain" => GroundInv)'
  BY FocusedServers, GroundStep
<1> QED BY <1>1, <1>2, PTL DEF ServicesSpec

\* tileCache (dem/dem.go) and Calculator (link/link.go): however calculations share the cache, and however small it is,
\* the samples of a path are counted by the spacing of a tile that was loaded.
THEOREM StepsMeasured == ServicesSpec => []StepMeasured
<1>1. (focus = "terrain" => GroundInv) => StepMeasured
  BY DEF GroundInv, CalcOK, Land, StepMeasured, Ground!StepMeasured
<1> QED BY <1>1, GroundAlways, PTL

\* Compute (coverage/coverage.go): a radial that gave up as the context ended is never part of a result.
THEOREM CoveragesWhole == ServicesSpec => []WholeCoverage
<1>1. (focus = "terrain" => GroundInv) => WholeCoverage
  BY DEF GroundInv, CalcOK, WholeCoverage, Ground!WholeCoverage
<1> QED BY <1>1, GroundAlways, PTL

-------------------------------------------------------------------------------
(***************************************************************************)
(* Sunspot numbers.  A file that is no good is at least as old as the calm *)
(* is long, and no cached file reaches the age of a period: after a period *)
(* of calm every refresh succeeds.  A process that has no fresh values has *)
(* its next refresh due before that period and a retry are over.           *)
(***************************************************************************)
FileOK(file, n) ==
    /\ file.age \in Nat /\ file.age < Every
    /\ file.content # "values" => file.age >= n
GotOK(got, n) == got = << >> \/ \E file : got = <<file>> /\ FileOK(file, n)
FreshOK(value, left, n) ==
    \/ value \in Nat /\ value + left <= 2 * Every
    \/ n + left <= Every + Retry

RefreshOK(q, value, n) ==
    \/ \E left \in 0..Every : q = Spots!Waiting(left) /\ FreshOK(value, left, n)
    \/ \E got : q = Spots!Look(got) /\ GotOK(got, n) /\ FreshOK(value, 0, n)
    \/ \E got, content :
         /\ q = [pc |-> "fetched", got |-> got, content |-> content]
         /\ GotOK(got, n) /\ FreshOK(value, 0, n) /\ (content # "values" => n = 0)

SpotsInv ==
    /\ calm \in Nat
    /\ files = [f \in Spots!Files |-> files[f]]
    /\ proc = [p \in Refreshers |-> proc[p]]
    /\ values = [p \in Refreshers |-> values[p]]
    /\ \A f \in Spots!Files : files[f] # None => FileOK(files[f], calm)
    /\ \A p \in Refreshers : values[p] \in Nat \cup {None} /\ RefreshOK(proc[p], values[p], calm)

LEMMA SpotsTimes == Every \in Nat \ {0} /\ Retry \in 0..Every /\ None \notin Nat
BY ServicesGiven DEF Spots!Pauses

LEMMA SpotsStart == ASSUME NEW value PROVE RefreshOK(Spots!Look(<< >>), value, 0)
BY SpotsTimes DEF RefreshOK, GotOK, FreshOK

LEMMA SpotsInit == Spots!Init => SpotsInv
BY SpotsStart DEF Spots!Init, SpotsInv

\* The calm is over: nothing is worse for it.
LEMMA CalmOver ==
  ASSUME NEW n \in Nat, NEW q, NEW value, RefreshOK(q, value, n)
  PROVE  RefreshOK(q, value, 0)
<1>1. \A file : FileOK(file, n) => FileOK(file, 0)
  BY DEF FileOK
<1>2. \A got : GotOK(got, n) => GotOK(got, 0)
  BY <1>1 DEF GotOK
<1>3. \A left \in 0..Every : FreshOK(value, left, n) => FreshOK(value, left, 0)
  BY SpotsTimes DEF FreshOK
<1>4. 0 \in 0..Every
  BY SpotsTimes
<1> QED BY <1>2, <1>3, <1>4 DEF RefreshOK

\* One process moves on; the calm goes on or is over.
LEMMA OneRefresher ==
  ASSUME SpotsInv, NEW p \in Refreshers, NEW q, NEW value \in Nat \cup {None},
         proc' = [proc EXCEPT ![p] = q], values' = [values EXCEPT ![p] = value],
         calm' \in {calm, 0}, RefreshOK(q, value, calm'),
         files' = [f \in Spots!Files |-> files'[f]], \A f \in Spots!Files : files'[f] # None => FileOK(files'[f], calm')
  PROVE  SpotsInv'
<1>1. \A o \in Refreshers : proc'[o] = (IF o = p THEN q ELSE proc[o]) /\ values'[o] = IF o = p THEN value ELSE values[o]
  BY DEF SpotsInv
<1>2. proc' = [o \in Refreshers |-> proc'[o]] /\ values' = [o \in Refreshers |-> values'[o]]
  BY DEF SpotsInv
<1>3. calm' \in Nat
  BY DEF SpotsInv
<1>4. \A o \in Refreshers : RefreshOK(proc[o], values[o], calm')
  BY CalmOver DEF SpotsInv
<1> QED BY <1>1, <1>2, <1>3, <1>4 DEF SpotsInv

LEMMA FilesStay ==
  ASSUME SpotsInv, files' = files, calm' \in {calm, 0}
  PROVE  files' = [f \in Spots!Files |-> files'[f]] /\ \A f \in Spots!Files : files'[f] # None => FileOK(files'[f], calm')
BY DEF SpotsInv, FileOK

\* A decoded file: the refresh goes on, or ends, and where it fails a file was no good.
LEMMA AppendOne ==
  ASSUME NEW S, NEW s \in Seq(S), NEW file \in S, Len(s) = 1
  PROVE  /\ Append(s, file) \in Seq(S) /\ Len(Append(s, file)) = 2
         /\ Append(s, file)[1] = s[1] /\ Append(s, file)[2] = file
<1>1. Append(s, file) \in Seq(S) /\ Len(Append(s, file)) = Len(s) + 1
  BY AppendProperties
<1>2. Append(s, file)[Len(s) + 1] = file
  BY AppendProperties
<1>3. 1 \in 1..Len(s)
  OBVIOUS
<1>4. Append(s, file)[1] = s[1]
  BY <1>3, AppendProperties
<1>5. PICK n : n = Len(s) + 1
  OBVIOUS
<1>6. n = 2
  BY <1>5
<1> QED BY <1>1, <1>2, <1>4, <1>5, <1>6, Zenon

LEMMA TwoFiles ==
  ASSUME NEW first, NEW file, NEW more, more = Append(<<first>>, file)
  PROVE  Len(more) = 2 /\ more[1] = first /\ more[2] = file /\ DOMAIN more = {1, 2}
<1>1. PICK S, s : S = {first, file} /\ s = <<first>>
  OBVIOUS
<1>2. s \in Seq(S) /\ file \in S /\ Len(s) = 1 /\ s[1] = first
  BY <1>1
<1>3. PICK t : t = Append(s, file)
  OBVIOUS
<1>4. t \in Seq(S) /\ Len(t) = 2 /\ t[1] = s[1] /\ t[2] = file
  BY <1>2, <1>3, AppendOne
<1>5. DOMAIN t = 1..Len(t)
  BY <1>4
<1>6. DOMAIN t = {1, 2}
  BY <1>4, <1>5
<1>7. more = t
  BY <1>1, <1>3
<1> QED BY <1>2, <1>4, <1>6, <1>7

LEMMA Decoded ==
  ASSUME SpotsInv, NEW p \in Refreshers, GotOK(proc[p].got, calm), FreshOK(values[p], 0, calm),
         NEW content, NEW age, FileOK([content |-> content, age |-> age], calm),
         Spots!Decode(p, content, age)
  PROVE  \E q : \E value \in Nat \cup {None} :
           /\ proc' = [proc EXCEPT ![p] = q] /\ values' = [values EXCEPT ![p] = value]
           /\ RefreshOK(q, value, calm)
<1>1. age \in Nat /\ age < Every /\ (content # "values" => age >= calm) /\ calm \in Nat
  BY DEF FileOK, SpotsInv
<1>2. values[p] \in Nat \cup {None} /\ values = [values EXCEPT ![p] = values[p]]
  BY DEF SpotsInv
<1>3. PICK got, file, more, oldest :
        /\ got = proc[p].got /\ file = [content |-> content, age |-> age] /\ more = Append(got, file)
        /\ oldest = IF more[1].age > age THEN more[1].age ELSE age
  OBVIOUS
<1>4. GotOK(got, calm) /\ FileOK(file, calm) /\ file.content = content /\ file.age = age
  BY <1>3
<1>5. \/ /\ content = "broken" \/ (Len(more) = 2 /\ ~\E i \in DOMAIN more : more[i].content = "values")
         /\ Spots!Ends(p, FALSE) /\ UNCHANGED values
      \/ /\ content # "broken" /\ Len(more) = 1
         /\ proc' = [proc EXCEPT ![p] = Spots!Look(more)] /\ UNCHANGED values
      \/ /\ content # "broken" /\ Len(more) = 2 /\ \E i \in DOMAIN more : more[i].content = "values"
         /\ Spots!Ends(p, TRUE) /\ values' = [values EXCEPT ![p] = oldest]
  BY <1>3 DEF Spots!Decode
<1>6. ASSUME calm < Every, Spots!Ends(p, FALSE), UNCHANGED values
      PROVE  proc' = [proc EXCEPT ![p] = Spots!Waiting(Retry)] /\ RefreshOK(Spots!Waiting(Retry), values[p], calm)
  <2>1. FreshOK(values[p], Retry, calm)
    BY <1>1, <1>6, SpotsTimes DEF FreshOK
  <2> QED BY <1>6, <2>1, SpotsTimes DEF Spots!Ends, Spots!Pause, RefreshOK
<1>7. content = "broken" => calm < Every
  BY <1>1, SpotsTimes
<1>8. ASSUME NEW q, proc' = [proc EXCEPT ![p] = q], UNCHANGED values, RefreshOK(q, values[p], calm)
       PROVE  \E next : \E value \in Nat \cup {None} :
                /\ proc' = [proc EXCEPT ![p] = next] /\ values' = [values EXCEPT ![p] = value]
                /\ RefreshOK(next, value, calm)
  BY <1>2, <1>8
<1>9. CASE got = << >>
  <2>1. more = <<file>> /\ Len(more) # 2
    BY <1>3, <1>9
  <2>2. RefreshOK(Spots!Look(more), values[p], calm)
    BY <1>4, <2>1 DEF RefreshOK, GotOK
  <2>3. CASE content = "broken" /\ Spots!Ends(p, FALSE) /\ UNCHANGED values
    BY <1>6, <1>7, <1>8, <2>3
  <2>4. CASE proc' = [proc EXCEPT ![p] = Spots!Look(more)] /\ UNCHANGED values
    BY <1>8, <2>2, <2>4
  <2> QED BY <1>5, <2>1, <2>3, <2>4, Zenon
<1>10. ASSUME NEW first, got = <<first>>, FileOK(first, calm)
      PROVE  \E q : \E value \in Nat \cup {None} :
               /\ proc' = [proc EXCEPT ![p] = q] /\ values' = [values EXCEPT ![p] = value]
               /\ RefreshOK(q, value, calm)
  <2>1. Len(more) = 2 /\ more[1] = first /\ more[2] = file /\ DOMAIN more = {1, 2}
    BY <1>3, <1>10, TwoFiles
  <2>2. (~\E i \in DOMAIN more : more[i].content = "values") => content # "values"
    BY <1>4, <2>1
  <2>4. oldest \in Nat /\ oldest < Every
    BY <1>1, <1>3, <1>10, <2>1 DEF FileOK
  <2>5. \/ content # "values" /\ Spots!Ends(p, FALSE) /\ UNCHANGED values
        \/ Spots!Ends(p, TRUE) /\ values' = [values EXCEPT ![p] = oldest]
    <3>1. Len(more) # 1
      BY <2>1
    <3> QED BY <1>5, <2>2, <3>1, Zenon
  <2>6. content # "values" => calm < Every
    BY <1>1, SpotsTimes
  <2>7. RefreshOK(Spots!Waiting(Every), oldest, calm)
    <3>1. FreshOK(oldest, Every, calm)
      BY <2>4, SpotsTimes DEF FreshOK
    <3> QED BY <3>1, SpotsTimes DEF RefreshOK
  <2>8. Spots!Ends(p, TRUE) => proc' = [proc EXCEPT ![p] = Spots!Waiting(Every)]
    BY DEF Spots!Ends, Spots!Pause
  <2>9. CASE content # "values" /\ Spots!Ends(p, FALSE) /\ UNCHANGED values
    BY <1>6, <1>8, <2>6, <2>9
  <2>10. CASE Spots!Ends(p, TRUE) /\ values' = [values EXCEPT ![p] = oldest]
    BY <2>4, <2>7, <2>8, <2>10
  <2> QED BY <2>5, <2>9, <2>10
<1> QED BY <1>4, <1>9, <1>10 DEF GotOK

\* Where a process has looked to: its files so far and its values.
LEMMA Looking ==
  ASSUME SpotsInv, NEW p \in Refreshers, proc[p].pc \in {"look", "fetched"}
  PROVE  /\ GotOK(proc[p].got, calm) /\ FreshOK(values[p], 0, calm)
         /\ proc[p].pc = "fetched" => (proc[p].content # "values" => calm = 0)
BY DEF SpotsInv, RefreshOK, Spots!Waiting, Spots!Look

\* While it waits, its next refresh is due in time.
LEMMA Waits ==
  ASSUME NEW q, NEW value, NEW n \in Nat, RefreshOK(q, value, n)
  PROVE  /\ \A left : q = Spots!Waiting(left) => left \in 0..Every /\ FreshOK(value, left, n)
         /\ FreshOK(value, 0, n)
<1>1. CASE \E left \in 0..Every : q = Spots!Waiting(left) /\ FreshOK(value, left, n)
  <2>1. PICK left \in 0..Every : q = Spots!Waiting(left) /\ FreshOK(value, left, n)
    BY <1>1
  <2>2. FreshOK(value, 0, n)
    BY <2>1, SpotsTimes DEF FreshOK
  <2>3. \A other : q = Spots!Waiting(other) => other = left
    BY <2>1 DEF Spots!Waiting
  <2> QED BY <2>1, <2>2, <2>3
<1>2. CASE q.pc # "wait" /\ FreshOK(value, 0, n)
  BY <1>2 DEF Spots!Waiting
<1>3. (\E got : q = Spots!Look(got) /\ FreshOK(value, 0, n)) => q.pc # "wait" /\ FreshOK(value, 0, n)
  BY DEF Spots!Look
<1>4. (\E got, content : q = [pc |-> "fetched", got |-> got, content |-> content] /\ FreshOK(value, 0, n))
        => q.pc # "wait" /\ FreshOK(value, 0, n)
  OBVIOUS
<1> QED BY <1>1, <1>2, <1>3, <1>4 DEF RefreshOK

LEMMA GetCachedStep == ASSUME SpotsInv, NEW p \in Refreshers, Spots!GetCached(p) PROVE SpotsInv'
<1>1. PICK f \in Spots!Files : f = Spots!File(p)
  BY DEF Spots!File, Spots!Files
<1>2. FileOK(files[f], calm) /\ Spots!Decode(p, files[f].content, files[f].age) /\ files' = files /\ calm' = calm
      /\ proc[p].pc = "look"
  BY <1>1 DEF Spots!GetCached, SpotsInv
<1>3. PICK content, age : content = files[f].content /\ age = files[f].age
  OBVIOUS
<1>4. FileOK([content |-> content, age |-> age], calm)
  BY <1>2, <1>3 DEF FileOK
<1>5. PICK q : \E value \in Nat \cup {None} :
           /\ proc' = [proc EXCEPT ![p] = q] /\ values' = [values EXCEPT ![p] = value]
           /\ RefreshOK(q, value, calm)
  BY <1>2, <1>3, <1>4, Looking, Decoded
<1> QED BY <1>2, <1>5, FilesStay, OneRefresher

LEMMA StoreStep == ASSUME SpotsInv, NEW p \in Refreshers, Spots!Store(p) PROVE SpotsInv'
<1>1. PICK f \in Spots!Files : f = Spots!File(p)
  BY DEF Spots!File, Spots!Files
<1>2. PICK content : content = proc[p].content
  OBVIOUS
<1>3. /\ files' = [files EXCEPT ![f] = [content |-> content, age |-> 0]] \/ files' = files
      /\ Spots!Decode(p, content, 0) /\ calm' = calm /\ proc[p].pc = "fetched"
  BY <1>1, <1>2 DEF Spots!Store
<1>4. content # "values" => calm = 0
  BY <1>2, <1>3, Looking
<1>5. FileOK([content |-> content, age |-> 0], calm)
  BY <1>4, SpotsTimes DEF FileOK
<1>6. PICK q : \E value \in Nat \cup {None} :
           /\ proc' = [proc EXCEPT ![p] = q] /\ values' = [values EXCEPT ![p] = value]
           /\ RefreshOK(q, value, calm)
  BY <1>3, <1>5, Looking, Decoded
<1>7. files' = [g \in Spots!Files |-> files'[g]] /\ \A g \in Spots!Files : files'[g] # None => FileOK(files'[g], calm')
  <2>1. CASE files' = [files EXCEPT ![f] = [content |-> content, age |-> 0]]
    <3>1. PICK new : new = [content |-> content, age |-> 0]
      OBVIOUS
    <3>2. files' = [files EXCEPT ![f] = new] /\ FileOK(new, calm)
      BY <2>1, <1>5, <3>1
    <3> QED BY <1>3, <3>2 DEF SpotsInv
  <2>2. CASE files' = files
    BY <1>3, <2>2 DEF SpotsInv
  <2> QED BY <1>3, <2>1, <2>2
<1> QED BY <1>3, <1>6, <1>7, OneRefresher

LEMMA AskStep ==
  ASSUME SpotsInv, NEW p \in Refreshers, Spots!Timer(p) \/ Spots!Fetch(p) \/ Spots!FetchError(p) \/ Spots!Restart(p)
  PROVE  SpotsInv'
<1>1. /\ values[p] \in Nat \cup {None} /\ values = [values EXCEPT ![p] = values[p]]
      /\ calm \in Nat /\ RefreshOK(proc[p], values[p], calm)
  BY DEF SpotsInv
<1>2. CASE Spots!Timer(p)
  <2>1. FreshOK(values[p], 0, calm)
    <3>1. proc[p] = Spots!Waiting(0)
      BY <1>2 DEF Spots!Timer
    <3> QED BY <1>1, <3>1, Waits
  <2>2. RefreshOK(Spots!Look(<< >>), values[p], calm)
    BY <2>1 DEF RefreshOK, GotOK
  <2> QED BY <1>1, <1>2, <2>2, FilesStay, OneRefresher DEF Spots!Timer
<1>3. CASE Spots!Fetch(p)
  <2>1. PICK content, got :
          /\ got = proc[p].got /\ proc' = [proc EXCEPT ![p] = [pc |-> "fetched", got |-> got, content |-> content]]
          /\ calm' = IF content = "values" THEN calm ELSE 0
    BY <1>3 DEF Spots!Fetch
  <2>2. GotOK(got, calm) /\ FreshOK(values[p], 0, calm) /\ calm' \in {calm, 0} /\ (content # "values" => calm' = 0)
    BY <1>3, <2>1, Looking DEF Spots!Fetch
  <2>3. GotOK(got, calm')
    BY <1>1, <2>2 DEF GotOK, FileOK
  <2>4. FreshOK(values[p], 0, calm')
    BY <1>1, <2>2, SpotsTimes DEF FreshOK
  <2>5. PICK q : q = [pc |-> "fetched", got |-> got, content |-> content]
    OBVIOUS
  <2>6. RefreshOK(q, values[p], calm')
    BY <2>2, <2>3, <2>4, <2>5 DEF RefreshOK
  <2>7. proc' = [proc EXCEPT ![p] = q] /\ values' = [values EXCEPT ![p] = values[p]] /\ files' = files
    BY <1>1, <1>3, <2>1, <2>5 DEF Spots!Fetch
  <2>8. files' = [f \in Spots!Files |-> files'[f]] /\ \A f \in Spots!Files : files'[f] # None => FileOK(files'[f], calm')
    BY <2>2, <2>7, FilesStay
  <2> QED BY <1>1, <2>2, <2>6, <2>7, <2>8, OneRefresher
<1>4. CASE Spots!FetchError(p)
  <2>1. FreshOK(values[p], Retry, 0)
    BY SpotsTimes DEF FreshOK
  <2>2. RefreshOK(Spots!Waiting(Retry), values[p], 0)
    BY <2>1, SpotsTimes DEF RefreshOK
  <2> QED BY <1>1, <1>4, <2>2, FilesStay, OneRefresher DEF Spots!FetchError, Spots!Ends, Spots!Pause
<1>5. CASE Spots!Restart(p)
  BY <1>5, SpotsStart, FilesStay, OneRefresher DEF Spots!Restart
<1> QED BY <1>2, <1>3, <1>4, <1>5

LEMMA SpotsTickStep == ASSUME SpotsInv, Spots!Tick PROVE SpotsInv'
<1>1. calm \in Nat /\ calm' \in Nat /\ calm' \in {calm, calm + 1} /\ (calm <= Every + Retry => calm' = calm + 1)
  BY SpotsTimes DEF SpotsInv, Spots!Tick, Spots!Older, Spots!Known
<1>2. ASSUME NEW f \in Spots!Files, files'[f] # None PROVE FileOK(files'[f], calm')
  <2>1. PICK file : file = files[f]
    OBVIOUS
  <2>2. FileOK(file, calm) /\ file.age + 1 < Every /\ files'[f] = [file EXCEPT !.age = file.age + 1]
    BY <1>2, <2>1 DEF Spots!Tick, SpotsInv, Spots!Kept
  <2>3. files'[f].age = file.age + 1 /\ files'[f].content = file.content
    BY <2>2
  <2> QED BY <1>1, <2>2, <2>3 DEF FileOK
<1>3. files' = [f \in Spots!Files |-> files'[f]]
  BY DEF Spots!Tick
<1>4. proc' = [p \in Refreshers |-> proc'[p]] /\ values' = [p \in Refreshers |-> values'[p]]
  BY DEF Spots!Tick
<1>5. ASSUME NEW p \in Refreshers
      PROVE  values'[p] \in Nat \cup {None} /\ RefreshOK(proc'[p], values'[p], calm')
  <2>1. PICK left \in 0..Every : proc[p] = Spots!Waiting(left) /\ FreshOK(values[p], left, calm)
    BY DEF Spots!Tick, SpotsInv, RefreshOK, Spots!Waiting, Spots!Look
  <2>2. left > 0 /\ proc'[p] = Spots!Waiting(left - 1)
    BY <2>1 DEF Spots!Tick, Spots!Waiting
  <2>3. values[p] \in Nat \cup {None} /\ values'[p] = IF values[p] = None THEN None ELSE Spots!Older(values[p], Spots!Old)
    BY DEF SpotsInv, Spots!Tick
  <2>4. values'[p] \in Nat \cup {None}
    BY <2>3 DEF Spots!Older
  <2>5. FreshOK(values'[p], left - 1, calm')
    <3>1. CASE calm + left <= Every + Retry
      <4>1. calm <= Every + Retry
        BY <1>1, <3>1, SpotsTimes
      <4>2. calm' = calm + 1
        BY <1>1, <4>1
      <4>3. calm' + (left - 1) <= Every + Retry
        BY <1>1, <3>1, <4>2, SpotsTimes
      <4> QED BY <4>3 DEF FreshOK
    <3>2. CASE values[p] \in Nat /\ values[p] + left <= 2 * Every
      <4>1. values'[p] = values[p] + 1
        BY <2>1, <2>2, <2>3, <3>2, SpotsTimes DEF Spots!Older, Spots!Old
      <4>2. values'[p] \in Nat /\ values'[p] + (left - 1) <= 2 * Every
        BY <2>1, <3>2, <4>1, SpotsTimes
      <4> QED BY <4>2 DEF FreshOK
    <3> QED BY <2>1, <3>1, <3>2 DEF FreshOK
  <2>6. left - 1 \in 0..Every
    BY <2>1, <2>2, SpotsTimes
  <2> QED BY <2>2, <2>4, <2>5, <2>6 DEF RefreshOK
<1> QED BY <1>1, <1>2, <1>3, <1>4, <1>5 DEF SpotsInv

LEMMA SpotsStep == ASSUME SpotsInv, Spots!Next \/ UNCHANGED sunspots PROVE SpotsInv'
<1>1. CASE UNCHANGED sunspots
  BY <1>1 DEF sunspots, SpotsInv
<1>2. CASE Spots!Next
  BY <1>2, GetCachedStep, StoreStep, AskStep, SpotsTickStep DEF Spots!Next
<1> QED BY <1>1, <1>2

LEMMA SpotsAlways == ServicesSpec => [](focus = "sunspots" => SpotsInv)
<1>1. ServicesInit => (focus = "sunspots" => SpotsInv)
  BY SpotsInit DEF ServicesInit
<1>2. (focus = "sunspots" => SpotsInv) /\ [ServicesNext]_all => (focus = "sunspots" => SpotsInv)'
  BY FocusedServers, SpotsStep
<1> QED BY <1>1, <1>2, PTL DEF ServicesSpec

\* refresh (sunspot/sunspot.go): whatever a broken or empty file did before, a period and a retry without trouble later
\* every process has values, and none from a file that was fetched more than two periods ago.
THEOREM ValuesComeBack == ServicesSpec => []ValuesRecover
<1>1. SpotsInv => Spots!ValuesRecover
  <2> SUFFICES ASSUME SpotsInv, calm > Every + Retry, NEW p \in Refreshers
               PROVE  values[p] # None /\ values[p] <= 2 * Every
    BY DEF Spots!ValuesRecover
  <2>1. calm \in Nat /\ RefreshOK(proc[p], values[p], calm)
    BY DEF SpotsInv
  <2>2. FreshOK(values[p], 0, calm)
    BY <2>1, Waits
  <2> QED BY <2>1, <2>2, SpotsTimes DEF FreshOK
<1>2. (focus = "sunspots" => SpotsInv) => ValuesRecover
  BY <1>1 DEF ValuesRecover
<1> QED BY <1>2, SpotsAlways, PTL
================================================================================

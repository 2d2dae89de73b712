------------------------------- MODULE Processes -------------------------------
(***************************************************************************)
(* The life of the server processes (cmd/radiopath/main.go, run) around    *)
(* what they do: the store, the migrations (internal/store/migrate.go),    *)
(* the datasets, the goroutines, the HTTP servers, and the way out, after  *)
(* a signal or as the listener failed.  Processes of different releases    *)
(* start at the same time on one database.                                 *)
(*                                                                         *)
(* What the workers do to jobs is in JobQueue.                             *)
(***************************************************************************)
EXTENDS Naturals, FiniteSets

CONSTANTS
    Instances,
    Releases,    \* the migrations a release embeds: sets of numbers, in the order of their names
    Goroutines,  \* janitor, listeners, sunspots, workers of one process
    Handlers,    \* requests in flight in one process
    None

VARIABLES
    applied,     \* schema_migrations: the versions whose transaction was committed
    lock,        \* the holder of the advisory lock, or None
    inst,        \* inst[i]: how far run has come in process i
    alive,       \* alive[i]: its goroutines
    open,        \* open[i]: its requests; those of the metrics server as well
    faulty       \* history: processes a statement of which failed, or a dataset

vars == <<applied, lock, inst, alive, open, faulty>>

\* What is assumed of the constants: None is no process.
Apart == None \notin Instances

Down == [pc |-> "down"]
At(i, pc) == inst[i].pc = pc
Goto(i, pc) == inst' = [inst EXCEPT ![i].pc = pc]

Init ==
    /\ applied = {} /\ lock = None
    /\ inst = [i \in Instances |-> Down]
    /\ alive = [i \in Instances |-> {}] /\ open = [i \in Instances |-> {}]
    /\ faulty = {}

(***************************************************************************)
(* Migrate.                                                                *)
(***************************************************************************)
Start(i, release) ==
    /\ inst[i] = Down
    /\ inst' = [inst EXCEPT ![i] = [pc |-> "lock", todo |-> release, release |-> release]]
    /\ faulty' = faulty \ {i}
    /\ UNCHANGED <<applied, lock, alive, open>>

\* The bug of a lock that is shared.
LockShared(i) ==
    /\ At(i, "lock")
    /\ lock' = i
    /\ Goto(i, "look")
    /\ UNCHANGED <<applied, alive, open, faulty>>

\* pg_advisory_lock, and the table.
Lock(i) ==
    /\ At(i, "lock") /\ lock = None
    /\ lock' = i
    /\ Goto(i, "look")
    /\ UNCHANGED <<applied, alive, open, faulty>>

First(s) == CHOOSE v \in s : \A w \in s : v <= w

\* The next migration of the release, in the order of names: applied or not.
Look(i) ==
    /\ At(i, "look") /\ inst[i].todo # {}
    /\ LET v == First(inst[i].todo)
       IN IF v \in applied THEN inst' = [inst EXCEPT ![i].todo = @ \ {v}] ELSE Goto(i, "apply")
    /\ UNCHANGED <<applied, lock, alive, open, faulty>>

\* Its statements and the row in one transaction; the row of another process is a conflict, and an error.
Apply(i) ==
    /\ At(i, "apply")
    /\ LET v == First(inst[i].todo)
       IN IF v \in applied
          THEN Goto(i, "failed") /\ UNCHANGED applied
          ELSE /\ applied' = applied \cup {v}
               /\ inst' = [inst EXCEPT ![i].pc = "look", ![i].todo = @ \ {v}]
    /\ UNCHANGED <<lock, alive, open, faulty>>

\* A statement fails: the transaction is rolled back and run returns.
MigrateError(i) ==
    /\ inst[i].pc \in {"lock", "look", "apply"}
    /\ Goto(i, "failed")
    /\ faulty' = faulty \cup {i}
    /\ UNCHANGED <<applied, lock, alive, open>>

\* With the context cancelled the unlock fails and the lock is held until the pool is closed.
Unlock(i) ==
    /\ At(i, "look") /\ inst[i].todo = {}
    /\ lock' = None \/ UNCHANGED lock
    /\ Goto(i, "data")
    /\ UNCHANGED <<applied, alive, open, faulty>>

(***************************************************************************)
(* Datasets, goroutines and servers.                                       *)
(***************************************************************************)
\* openHF may leave a directory to be removed; without usable files the model is off and the process starts all the same.
OpenData(i) ==
    /\ At(i, "data")
    /\ Goto(i, "serve")
    /\ alive' = [alive EXCEPT ![i] = Goroutines]
    /\ UNCHANGED <<applied, lock, open, faulty>>

\* The URL of Redis, or the directory of the canopy.
OpenDataError(i) ==
    /\ At(i, "data")
    /\ Goto(i, "failed")
    /\ faulty' = faulty \cup {i}
    /\ UNCHANGED <<applied, lock, alive, open>>

\* Requests are taken until the listener is closed, also while the workers come to their end.
Accept(i, h) ==
    /\ inst[i].pc \in {"serve", "drain"}
    /\ h \notin open[i]
    /\ open' = [open EXCEPT ![i] = @ \cup {h}]
    /\ UNCHANGED <<applied, lock, inst, alive, faulty>>

Answer(i, h) ==
    /\ h \in open[i]
    /\ open' = [open EXCEPT ![i] = @ \ {h}]
    /\ UNCHANGED <<applied, lock, inst, alive, faulty>>

(***************************************************************************)
(* The way out.                                                            *)
(***************************************************************************)
Signal(i) ==
    /\ At(i, "serve")
    /\ Goto(i, "drain")
    /\ UNCHANGED <<applied, lock, alive, open, faulty>>

\* The listener fails, at the start or later: the workers are waited for, the requests are not.
ListenError(i) ==
    /\ At(i, "serve")
    /\ Goto(i, "drainFailed")
    /\ faulty' = faulty \cup {i}
    /\ UNCHANGED <<applied, lock, alive, open>>

\* A goroutine sees its context end, however long its work takes.
GoroutineEnds(i, g) ==
    /\ inst[i].pc \in {"drain", "drainFailed"}
    /\ g \in alive[i]
    /\ alive' = [alive EXCEPT ![i] = @ \ {g}]
    /\ UNCHANGED <<applied, lock, inst, open, faulty>>

\* The bug of a wait that ends with the signal.
WaitedBriefly(i) == TRUE

Waited(i) == alive[i] = {}

DrainEnds(i) ==
    /\ inst[i].pc \in {"drain", "drainFailed"} /\ Waited(i)
    /\ Goto(i, IF At(i, "drain") THEN "shutdown" ELSE "cut")
    /\ UNCHANGED <<applied, lock, alive, open, faulty>>

\* Shutdown ends with the last request, or after ten seconds with an error.
Shutdown(i) ==
    /\ At(i, "shutdown")
    /\ \/ open[i] = {} /\ Goto(i, "stopped")
       \/ open[i] # {} /\ Goto(i, "cut")
    /\ UNCHANGED <<applied, lock, alive, open, faulty>>

\* The deferred calls: the directory of the data set is removed, then the pool is closed, which waits for the statements
\* of the requests that are left, and with it the lock is free.
Leave(i) ==
    /\ inst[i].pc \in {"stopped", "cut", "failed"}
    /\ lock' = IF lock = i THEN None ELSE lock
    /\ Goto(i, "closed")
    /\ UNCHANGED <<applied, alive, open, faulty>>

Exit(i) ==
    /\ At(i, "closed")
    /\ inst' = [inst EXCEPT ![i] = Down]
    /\ open' = [open EXCEPT ![i] = {}] /\ alive' = [alive EXCEPT ![i] = {}]
    /\ UNCHANGED <<applied, lock, faulty>>

\* The session ends with the process; its directory is left behind, for nobody.
Crash(i) ==
    /\ inst[i] # Down
    /\ inst' = [inst EXCEPT ![i] = Down]
    /\ lock' = IF lock = i THEN None ELSE lock
    /\ alive' = [alive EXCEPT ![i] = {}] /\ open' = [open EXCEPT ![i] = {}]
    /\ UNCHANGED <<applied, faulty>>

Next ==
    \E i \in Instances :
        \/ \E release \in Releases : Start(i, release)
        \/ Lock(i) \/ Look(i) \/ Apply(i) \/ MigrateError(i) \/ Unlock(i)
        \/ OpenData(i) \/ OpenDataError(i)
        \/ \E h \in Handlers : Accept(i, h) \/ Answer(i, h)
        \/ \E g \in Goroutines : GoroutineEnds(i, g)
        \/ Signal(i) \/ ListenError(i) \/ DrainEnds(i) \/ Shutdown(i) \/ Leave(i) \/ Exit(i) \/ Crash(i)

Spec == Init /\ [][Next]_vars

(***************************************************************************)
(* Properties.                                                             *)
(***************************************************************************)

\* "so concurrent instances do not race": a process fails to start only by a failure of its own, never as another one
\* applied the same migration, and one that serves has the schema of its release, whoever applied it.
StartsClean ==
    \A i \in Instances :
        /\ At(i, "failed") => i \in faulty
        /\ inst[i].pc \in {"data", "serve"} => inst[i].release \subseteq applied

\* On every way out of run the data of the model and the pool are there until the last goroutine has ended; only
\* requests may be cut, by the ten seconds or with the listener.
CleanupLast ==
    \A i \in Instances :
        /\ alive[i] # {} => inst[i].pc \in {"serve", "drain", "drainFailed"}
        /\ At(i, "stopped") => open[i] = {}
================================================================================

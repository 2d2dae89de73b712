# Radiopath in TLA+

Formal models of the Go server of this repository (`cmd/radiopath` and `internal/...`):
TLA+ modules, the TLC configurations that check them on small instances, and proofs
checked by TLAPS. Paths below are relative to the repository; line numbers are those of
the modelled commit. `PROJECT.json` names for every definition the source lines it
stands for.

```
tlc -workers 2 -config MCJobQueue_takeover.cfg MCJobQueue     # a run
tlapm JobQueueProofs.tla                                      # the proofs
```

## 1. Inventory

One binary runs as a web server, as a worker, or as both; several processes share one
PostgreSQL database. Everything that is coordinated between processes goes through
tables and `LISTEN/NOTIFY`; everything else is memory of one process.

| Component | State | Operations | Talks to |
|---|---|---|---|
| Job queue, `internal/store/jobs.go`, `migrations/0023_jobs.sql` | table `jobs`: state, owner, input hash, attempts, worker, queued/started/finished times | `EnqueueJob`, `EnqueueCoverage`, `ClaimJob`, `FinishJob`, `FailJob`, `RequeueJob`, `FinishCoverageJob`, `GetJob`, `DeleteFinishedJobs` | called by web and workers; notifies `job_queued`, `job_done` |
| Workers, `internal/worker/worker.go` | the claimed job, its deadlines | the loop `Run`, `runShort`, `runCoverage` | job queue, propagation models |
| Processes, `cmd/radiopath/main.go` | wake channels, contexts, listener, janitor | start, SIGTERM, wait for workers, hourly clean-up | all |
| Coverages, `store/coverages.go`, `web/coverages.go` | table `coverages`: parameters, view, result images | create, update, set view, delete, overlays | job queue, shares |
| Waiting for jobs, `web/jobs.go`, `web/events.go` | `jobWaits.m` (channels by job), `Server.streams` (open event streams by user) | `runJob`, `coverageEvents`, `JobDone` | job queue, listener |
| Accounts and sessions, `store/users.go`, `web/account.go`, `web/auth.go` | `users`, `sessions`, `email_tokens` | register, confirm, login, logout, change and reset password, change address, delete | rate limits, mail |
| Rate limits, `store/ratelimit.go` | `rate_limits`: count and start of a window | `RateHit`, `RateCount`, clean-up | auth, account, api |
| API tokens, `store/tokens.go`, `web/tokens.go` | `api_tokens` | create, list, delete, authenticate, expire | auth |
| Sites, links, antennas, `store/{sites,links,antennas}.go`, `web/...` | three tables with references and a quota each | CRUD, copied antenna gain | coverages, shares |
| Shares, `store/share.go`, `web/share.go` | share token and expiry of links and coverages | publish, read, revoke | coverages, links |
| Administration, `web/admin.go`, `store/settings.go` | `settings.maintenance` | users, maintenance mode | sessions |
| Migrations, `store/migrate.go` | `schema_migrations`, an advisory lock | `Migrate` | |
| Tile proxy, `internal/tiles` | Redis: tiles, misses per address | `ServeHTTP` | upstream |
| Terrain and canopy tiles, `internal/dem` | LRU of loaded tiles in memory | `get`, `Elevation` | S3 or a directory |
| Sunspot numbers, `internal/sunspot` | the last series fetched | `Refresh`, `Lookup`, `Run` | upstream |
| Link analyses and coverages, `internal/{link,coverage}` | none | `Analyze`, `Compute`: radials in parallel | terrain |
| Propagation models, `internal/{hf,itm,antenna,geo}`, `web/hfmap.go` | the data of a month; one path reused by all runs of a prediction | `Predict`, reliability maps in parallel | |
| Images and reports, `internal/{plot,report}` | none | pure rendering | |
| S3, mail, metrics, `internal/{s3,mail,metrics}` | counters | I/O | |
| Front end, `internal/webui`, `web/` | browser | | the API |

### How they interact

A request queues a job (`EnqueueCoverage` or `EnqueueJob`) in up to five statements
without a transaction: delete the finished job, look for an existing one, count, insert,
notify. The notification reaches the listener of each process, if it is connected, which
fills a wake channel of capacity one per class. A worker of that class claims the oldest
job that is queued or stale, computes it and writes the outcome, which sends `job_done`.
In the web process of the request the listener closes the channel of the job in
`jobWaits`; the waiter reads the job again. Every wake-up has a poll as a second way.

### What is hard, and what makes it correct

* **Queue and workers.** Lost processes are detected by age alone (`staleAfter`), and
  outcomes are written by id alone: `FinishJob` asks neither for the worker nor for the
  state. A worker that is alive may outlive the takeover (section 3, Time), and then two
  of them work on one job and the later one decides. Required: until that happens one
  worker per job and no outcome overwritten, whatever crashes; and in any case a bounded
  number of runs, and every job settles although processes crash, writes fail and
  notifications are lost.
* **Coverages.** The parameters are read at the start of a computation of up to ten
  minutes and the result is stored on whatever the coverage has become by then, while
  users edit, requeue and delete. Required: a job has its coverage, a worker's job stays
  in the table while its coverage does, an old result does not replace a newer one, and
  the result shown is that of the parameters shown.
* **Waiters.** A channel is registered, shared, closed and forgotten by different
  goroutines, and the notification may come first, late or never. Required: no double
  close, nobody waits for ever, nothing stays in the map.
* **Accounts.** Multi-statement operations (password change and revocation of sessions,
  token consumption and its effect), limits that are counted before and hit after, and
  several clocks per session.
* **Catalog.** Quotas counted before an insert, references between tables, gains copied
  when an antenna is saved, and results that outlive what they depend on.
* **Tiles, terrain, sunspot.** Caches under concurrent loads, failed upstreams, a
  counter and its expiry in two commands.
* **HF predictions.** Some twenty routines hand their results on in one structure that
  all hours and frequencies of a request use again, each with distance limits of its
  own. Required: nothing is read that was not computed for this run.
* **Migrations.** Instances of different releases that start together.

The list of hazards, each at its line and with the properties that watch it, is in
`PROJECT.json`; those without a property say why.

## 2. Plan

What was planned, in the order of its importance to the system, and what of it is there.

1. [x] `JobQueue`: queue, requests, workers, processes, janitor, time; `JobQueueProofs`.
2. [x] `Coverages`, which extends `JobQueue` and implements its `Spec`;
   `CoveragesProofs`.
3. [x] `JobLifecycle`, the abstract life of a job that `JobQueue` implements by a
   refinement mapping, proved in `JobQueueProofs` too.
4. [x] `JobWaits`: waiters of one web process over abstract jobs; `JobWaitsProofs`.
5. [x] `Accounts`, `RateLimits`, `SessionClock`, `ApiTokens`; `AccountsProofs`,
   `AccessProofs`.
6. [x] `Catalog` (sites, antennas, links, coverages), `Shares`; `TablesProofs`,
   `AccessProofs`.
7. [x] `Tiles`, `Terrain` (tiles, link analyses, radials of a coverage), `Sunspot`,
   `Processes` (start, migrations, shutdown); `ServersProofs`.
8. [x] `HFRun` (one prediction), `HFMaps` (a reliability map); `HFProofs`.
9. [ ] Left: legend lookup and other pure operators against reference definitions; the
   environment of `JobWaits` taken from `JobLifecycle`; `NameCharged` for several
   addresses that guess together.

| MC module | Composes | Runs |
|---|---|---|
| `MCJobQueue` | `JobQueue`, `JobLifecycle` | `takeover`, `progress`, `overrun`, `quota`, two documented claims |
| `MCCoverages` | `Coverages` on `JobQueue` | `coverages`, a documented claim |
| `MCJobWaits` | `JobWaits` | `waits`, a documented claim |
| `MCTables` | `Tables`: `Accounts`, `Catalog` | `tables` |
| `MCServices` | `Services`: `HFRun`, `HFMaps`, `RateLimits`, `SessionClock`, `Shares`, `ApiTokens`, `Tiles`, `Sunspot`, `Terrain`, `Processes` | `services` |

The machines of `Tables` and of `Services` share no state in the code either, so that
their product would only multiply their states: a behaviour has a `focus`, the one
machine that runs, and a property of a machine says `focus = ... => Machine!Property`.
`MCTables` and `MCServices` give the constants their small values; the theorems are
about `TablesSpec` and `ServicesSpec` with any values.

## 3. Modules and code

### `JobQueue`

| Variable | Code |
|---|---|
| `jobs[id]` | row of table `jobs`; `age` is `now() - started_at` of a running and `now() - finished_at` of a finished job |
| `older[id]` | order of `queued_at`: which active jobs come before `id` |
| `runs[id]` | history: computations begun for this job since it was queued |
| `overrun` | history: rows a worker of which held on for longer than the takeover |
| `req[r]` | a goroutine inside `EnqueueCoverage`/`EnqueueJob`: the next statement, owner, input |
| `pc[w]`, `job[w]`, `elapsed[w]` | a goroutine inside `Worker.Run`: where it is, its `Job`, the time since the claim |
| `proc[p]` | a process: up, between SIGTERM and its end, down |
| `wake` | the wake channels that are full |

One SQL statement is one action, because PostgreSQL runs each atomically and the code
opens no transaction around several, except in `FinishCoverageJob`, which is one action
too. An input stands for a (kind, input) pair, so equality of inputs is equality of
`input_hash`. Requests: `Begin`, `DropFinished`, `Look`, `Count`, `Insert`,
`NotifyQueued`, and `Abort` after any of them. Worker: `Claim`, `ClaimNothing`,
`ClaimError`, `TakeWake`, `Poll`, `StopWaiting`, `GiveUp`, `Load` (`GetCoverage`),
`EndCompute`, `Finish`, `Fail`, `Requeue` and the error of each. An error of `ClaimJob`
leaves open whether its `UPDATE` took effect. Processes: `Start`, `Stop`, `Exit`,
`Crash`. Environment: the janitor, deletion of an owner or a coverage with its cascade,
the second statement of `UpdateCoverage`, `Tick`.

Time. `Tick` adds one to every age the code reads and is always possible: a worker may
keep a job for any time. The constants of the code leave room (a coverage stops after 10
minutes and is taken over after 15, a short job after 2 and 5, `worker.go:24-28`), but
the code does not enforce it. A context is looked at between two heights of a profile
(`coverage.go:158`, `link.go:182`); `Elevation` takes none, a tile loads under a mutex
that all calculations of the process share (`dem/cache.go:38`), for up to 60 s
(`dem/s3.go:27`) and again for the next one, as a failure is not kept. With an object
store that stalls, goroutines that queue for the mutex outlast `staleAfter`.
`HF.Predict` takes no context either (`web/jobs.go:127`), and the statements `ClaimJob`,
`GetCoverage` and `FailJob` of the worker have no deadline. So nothing about the length
of a computation is assumed. The history `overrun` remembers the rows of which a worker
lived longer than `Stale` since its claim (`HeldTooLong`), until the row is deleted, and
the properties that a late worker breaks are stated for the others, the `Timely` ones.
`TimeAssumption` only places `AgeCap` above the ages that are compared.

Ages and ids are finite: ages saturate at `AgeCap`, above every comparison; an id that
no row and no worker refers to stands for the next one of the sequence. `attempts`
saturates at `MaxAttempts`, the only number the code compares it with. `LoadError` may
find the coverage gone when the row is; that rows and coverages go together is not
assumed but shown by `Coverages`.

### `Coverages`

Adds `cov` (state, version of the parameters, version the result was computed from),
`read` (what a worker knows of its coverage) and `edit` (goroutines inside
`CreateCoverage`/`UpdateCoverage`). Its steps are those of `JobQueue` conjoined with
what they read and write of coverages; `LoadCoverage` asks for the coverage and not for
the job, as the code does. `late` remembers the coverages of overrun jobs beyond the
life of the row, as a later row is for the same coverage. The run `coverages` checks the
`Spec` of `JobQueue` as a PROPERTY and `CoveragesProofs` proves it: every step is a step
of the queue or leaves it alone.

### `JobWaits`

`m[id]` is the entry of `jobWaits.m`; `ch[u]` the channel a waiter selects on (open,
closed, or dropped from the map, so that nobody can close it any more); `streams` the
count of `Server.streams` for one user. `Enter` is the evaluation of `s.waits.wait(id)`
before the select blocks, `Woken`, `Poll` and `GiveUp` are its branches, `GetJob` and
`CoverageJob` the query after it. The jobs of the other processes are the environment
and do whatever the queue allows.

### `JobLifecycle`

The abstract specification. A job has a `stage` (none, queued, running, done, failed), a
`holder` and a number of `claims`; it is enqueued, taken, lost by its holder, published
or given back by it, and dropped. It knows no statements, times, processes or
notifications. The mapping (`StageOf`, `HolderOf`, `ClaimsOf` at the end of `JobQueue`)
makes the holder the worker whose row this is and whose outcome is still to be written:
a crash, a shutdown and a failed write are `Lose`, a takeover is `Take` of a lost job. A
holder may `Overstay`; such a job is in the stage "overrun", of which nothing is
promised until it is dropped: what the queue does with it is stated by `RunsBounded` and
`EventuallySettled`.

### `Accounts`

| Variable | Code |
|---|---|
| `user[i]`, `sess[s]`, `link[l]` | rows of `users`, `sessions`, `email_tokens` |
| `req[r]` | a goroutine in a handler of `web/{auth,account,admin}.go`: the next statement (`pc`), what it is for (`goal`), and what it has read: id, name, address, session, link |
| `maintenance` | `settings.maintenance` |
| `emptied`, and the fields `unrevoked`, `old`, `late` | history: what was changed or revoked since |

A handler is the sequence of its statements: `Login` looks the name up, `Compare`
compares the password with the hash that was read, `CreateSession` inserts.
`SetMyPassword` and `SetMyEmail` go through `CheckPassword`; `SetPassword` is followed
by `RevokeSessions`; `ConsumeEmailToken` by `SetEmail`, `SetPassword` or the
confirmation. `Fail` ends a handler after any of them with the earlier ones done. Of the
operator's handlers each is one step per statement too. Passwords are no values: whether
a typed password is right is a choice, and the flag `old` says whether it still is. Ids
that are gone stand for new ones once no request remembers them.

### `SessionClock`

One session and three clocks: `row.expires` is written by the clock of a web process at
login (`CreateSession`, off by a skew), moved by that of the database in `SessionUser`
if it is off the target by more than an hour, and compared by it.

### `RateLimits`

`rate[k]` is a row of `rate_limits`: count and age of its window; `att[a]` an attempt
with what is left of its route. A route is the sequence of its questions (`ask`:
`RateCount`, `hit`: `RateHit`, `prove`: the comparison, `count`: the hit after it
failed), read off the handlers: `Login`, `Token`, `Session`, `Compute`, `HFMap`,
`Binary`, `Register`, `Forgot`, `Verify`, `Admin`, `Share`. An observer looks at one key
(`watch`): it begins to look at any time, looks on for at most the length of a window
(`since`) and counts what was let through or counted meanwhile (`seen`), wherever the
windows of the row begin. A bound on `seen` is thus a bound for every stretch of time as
long as a window.

### `ApiTokens`

`token[t]` is a row of `api_tokens` of one user; a request is let in by `EnterToken`
(the lookup), `LookAtMaintenance` and `Gate` (the scope that was read), and then does
what it came for (`Act`, `CreateToken`, `DeleteToken`). `stopped` and the flags `late`
and `shut` remember what happened between.

### `Catalog`

`site`, `antenna`, `item` (links and coverages) are tables; `req[r]` is a handler
between its statements with the gains it has read; `work[c]` what the worker of a
coverage has read. `AntennaGain` is the read before the write, `UpdateAntenna` the
transaction that writes the gain into the rows there are, `CreateItem` and `UpdateItem`
the statements that check ownership in their `WHERE`. `raced` and `touched` are history:
the gain was overtaken, something a result depends on was changed. A `scene`, chosen at
the start, says which users, rows and requests are looked at together.

### `Shares`

`row[c]` has the token, whether it is live, the overlays of the view and whether there
is a result; a visitor asks `ShareExists`, is counted, reads the row, then the rasters,
each in a statement. `released` is the history of what the owner had shown since the
visitor's read; `PanicOnlyRaced` describes the handler that dereferences the share of a
row it loaded again.

### `Tiles`, `Sunspot`, `Terrain`, `Processes`

* `Tiles`: `cache` and `counter` are keys of Redis, `req` a request between `Get`,
  `Incr`, `Expire`, download and store. Each command may fail, and the proxy goes on. An
  observer like that of `RateLimits` counts the downloads of one address.
* `Sunspot`: the two files, the cache all processes share, and the loop of each process
  with its period and its retry.
* `Terrain`: `tiles` is the LRU list, `spacing` that of the tile loaded last; `calc[c]`
  a link analysis (height of site A, spacing, samples) or a coverage (site, radials that
  are fed, end, are cut at a gap or give up when cancelled, and the look at the context
  after the wait).
* `Processes`: `inst[i]` is how far `run` has come, from `pg_advisory_lock` over each
  migration, the datasets, serving and draining to the deferred calls; `lock` and
  `applied` are in the database. Statements fail, contexts are cancelled, processes
  crash.

### `HFRun`, `HFMaps`

* `HFRun` keeps for every field of the path structure for which run (hour, frequency) it
  was computed last (`val`), and has one action per routine of `calculate` with the
  fields it reads and writes on paths of that length. `Routine` compares: a read of a
  field that is unset or of another run goes to `wrong`, except where a default stands
  for what does not apply (`Optional`, reason by reason). The lowest modes depend on the
  horizon and on `dmax`, which the ionosphere of the hour chooses. `RequestGiven` says
  what they may be: `mufBasic` (`muf_basic.go:30-56,180-200`) limits `dmax` to 4000 km,
  and for every M(3000)F2 below 5.3 its formulas give more than 2000 km and a hop of
  which six carry 9000 km. Measured values of M(3000)F2 reach about 4.5.
* `HFMaps`: `Feed` and `CloseCells` of `hfMapCompute`; `Predicted`, `CountFailure`,
  `MarkFailure` and `EndWorker` of its goroutines, `Cancel` at any time, and what is
  returned after the wait (`Return`, `ReturnPartial`).

## 4. Runs

| Run | Instance | Shows |
|---|---|---|
| `takeover` | 2 processes with a short worker each, 1 input, 3 ids, 1 request, all faults, takeover after more than 1 unit, 3 attempts, workers that take any time | `SingleRunner`, `HoldsClaim`, `RunsBounded`, and that the queue implements `JobLifecycle` (`ImplementsLifecycle`) |
| `progress` | 1 coverage worker, 2 jobs, all faults | every job settles (`EventuallySettled`) |
| `overrun` | 1 input, 1 id, 2 requests, 2 short workers of one process, all faults, a job that is stale with the next tick | two workers do run one job here, and still every job settles (`EventuallySettled`); until they do, an outcome is final, and of two requests that queue the same input, the one that loses replaces none but a failure (`OutcomeStable`) |
| `quota` | 3 coverages, 2 requests, limit 1 | `QuotaOvershoot`: at most one job too many |
| `coverages` | 1 coverage, 2 editors, 1 request, 2 workers, 3 versions, all faults | `JobsWithCoverage`, `CurrentStays`, refinement of `JobQueue` (`Spec`) |
| `waits` | 2 requests, 1 stream, 3 jobs | `NoPanic`, `NoneLeftWaiting`, exact count of streams |
| `tables` | accounts: 2 ids, sessions and requests, one name, address and link. catalog: four scenes with 2 requests or a computation, limits of one, 3 ids of sites and of coverages in the race for them | `RevokedByChange`, `EmptyApp`, `ConfirmedOnly`, `LinkOnce`; `RefsStay`, `LimitsOvershoot`, `GainCopied`, `ResultOfNow` |
| `services` | ten machines, one per behaviour, see `MCServices` | 18 invariants: `BurstBounded`, `GuessesBounded`, `NameCharged` (limits), `SessionEnds`, `SessionLasts` (clock), `SeesReleased`, `RevokedStays`, `PanicOnlyRaced` (shares), `StoppedAtOnce`, `TokensListed` (tokens), `MissBudget` (tiles), `ValuesRecover` (sunspots), `StepMeasured`, `WholeCoverage` (terrain), `StartsClean`, `CleanupLast` (processes), `ValuesOfThisRun` (predictions), `MapWhole` (maps) |
| `quota_documented` | limit 2 | violated, see section 6 |
| `shutdown_documented` | 1 worker, 1 job | violated, see section 6 |
| `coverages_documented` | as `coverages` | violated, see section 6 |
| `waits_documented` | as `waits` | violated, see section 6 |

Why the bounds are enough to be interesting. Takeover needs two workers, a job that is
claimed twice, and a third attempt to be given up; a unit of time below the takeover
lets a worker be in time or late, and a row be stale with a live worker, with a dead one
or with a new one. In the runs that do not ask about this difference a job is stale
after one tick, whether its worker lives or not. One input suffices for the conflict of
two jobs because an id freed by a deletion is used again for the same input; two ids let
a worker hold a deleted job while the next one runs. In `overrun` the next job has to
wait for that, as there is one id, so that two requests fit beside the liveness. The
quota needs one request more than the limit leaves room for. Three versions let a result
be older than another one that is older than the parameters.

In `tables` the conflicts are between two: two requests with one link, a login and a
change of password, an edit of an antenna and a write that uses it; two ids of one name
let an account be deleted and made again under a request. The scenes of `Catalog` keep
apart what does not meet: one link and its antenna, two users who name each other's
rows, a computation under edits of its site and antenna, and the race for the limits,
which may fill two ids of a kind, so that the third shows if it fills more. In
`services` a limit of one and two attempts let every order of questions and hits occur,
with three tokens where two may be made, and a name that holds more than the five of
`NameCharged`; ages that no comparison tells apart are one. The horizon of
`SessionClock` is beyond the maximal age with any slack. Three releases contain each
other or not. Distances of `HFRun` lie on and next to each limit (2000, 4000, 7000, 9000
km), 3800 km lies between the two `dmax`, and two hours with two frequencies let a value
of another hour, another frequency, or both be read. Four cells for two goroutines let
one of them be ahead of the other.

Symmetry is used in safety runs only. Deadlock is checked except in `services`, where
`SessionClock` ends at its horizon and a map once it is returned.

### Fairness

`EventuallySettled` is checked under `FairSpec`. Weak fairness of `WorkerStep`: the loop
of `Run` has a timer in its select, its statements return and its computations end,
however late: predictions are finite, and a tile load has a timeout. Weak fairness of
`Start \/ Exit`: the process is supervised, and a process whose workers are off returns.
Strong fairness of `Tick`: time passes. `<>[][~Fault]_vars`: crashes, shutdowns and
failing claims may happen any number of times, then stop for long enough; without that
no queue settles anything. Nothing is assumed of the write of the outcome (it may fail
every time: the attempts bound the repetitions), of notifications, requests, the janitor
or deletions. In `JobWaits` only the loops of the handlers are fair; jobs, notifications
and clients owe nothing.

## 5. What is proved

Eight modules prove theorems, for every value of the constants that meets the
assumptions below. Every safety property that a passing run checks is proved; what TLC
checks alone is liveness.

### The queue: `JobQueueProofs`

For every number of owners, inputs, jobs, workers, processes and (finitely many)
requests, all limits and all times that meet `TimeAssumption`: `TypeCorrect`,
`ClaimHeld` (`HoldsClaim`), `OneRunner` (`SingleRunner`), `OutcomeFinal`
(`OutcomeStable`), `RunsEnd` (`RunsBounded`), `QuotaBounded` (`QuotaOvershoot`).

Nothing is assumed of how long a worker takes: the first four are about the rows none of
whose workers outlived `Stale` so far (`Timely`), and say that nothing else, no crash,
shutdown, deletion, failing statement or late answer, takes a row from its worker.

The inductive invariant is `Inv == TypeOK /\ HoldsClaim`. `SingleRunner` alone is not
inductive: that a stale row has no live worker, if it is `Timely`, is only known because
the age of the row *is* the time since the claim of its worker: when that time passes
`Stale`, `Tick` puts the row into `overrun`. `HoldsClaim` says just that, and
`SingleRunner` follows from it, as a row names one worker. Types belong to the invariant
because saturation (`Older`, `OneMore`) is exact only below the caps. The proof has a
lemma per group of actions by what they do to rows and workers: rows removed (`Remove`),
a row settled or requeued by its holder, a row claimed, a row inserted, time.
`OutcomeFinal` uses the same invariant: the only statements that could replace an
outcome are those of a holder, whose row is running.

`RunsEnd` adds `RunInv`: `runs` never exceeds `attempts` and stays below `MaxAttempts`,
and a coverage worker that is about to load has an attempt that is counted and not yet
spent. `RunsBounded` alone is not inductive, because a claim and the computation it pays
for are different steps of a coverage worker; that no other worker spends the same
attempt follows from `HoldsClaim`. Short jobs need no such argument, and no timely
worker: their claim is their computation.

`QuotaBounded` adds `QuotaInv`: the active jobs of an owner and class together with the
requests that were let through and have not inserted stay within `Limit + |Requests| -
1`. `Count` uses the limit, `Insert` trades a request for a job, and every other
statement only takes jobs and requests away.

### The life of a job, also in `JobQueueProofs`

`QueueImplementsLifecycle`: `Spec => ImplementsLifecycle`. Initial states map to initial
states. For a step, each job is shown on its own to stay or to take a step of its life,
by what happened to its row: `KeptRow` (unchanged, and its worker still holds it or lost
it), `DroppedRow`, `TakenRow`, `WrittenRow`. A crash or a deletion of an owner moves
several jobs at once, which is why `JobLifecycle!Next` lets each job step. The proof
needs `Inv` (only a holder writes an outcome) and `SpareInv`: a holder that does not
give its job up has an attempt left, so that it may publish a result or put the job
back.

### Coverages: `CoveragesProofs`

`CoveragesOnQueue` (`CovSpec => Spec`), `JobsStayWithCoverage` (`JobsWithCoverage`),
`CurrentKept` (`CurrentStays`). The invariant is `CovInv`: that of the queue and
`CovTypeOK`, `EditsOK`, `Rows` (each row belongs to a live coverage and its owner, and a
coverage has one row), `Asks` (so do requests on their way to the row), `Marked` (the
coverage of an overrun row is `late`), `Known` (while its coverage is there and not
`late`, the job of a worker is its row; the version it loaded is not newer than the
parameters, and not older once the result of the present ones is stored). First `CovInv
/\ [CovNext]_allVars => [Next]_vars`, with any number of late workers. With it the
theorems of the queue hold of the joined system, and `CovInv` itself uses them: that
nobody but its worker writes an outcome is `HoldsClaim` (`SameHolder`).

### Waiters: `JobWaitsProofs`

`NeverPanics` (`NoPanic`) and `StreamsCounted` (`TypeOK`). `NoPanic` alone is not
inductive: the invariant adds that a waiter holds a channel only while it waits, and of
which job (`Loops`), that the map holds no closed channel and every open one
(`Channels`), and that `streams` is the cardinality of the streams whose handler has
entered (`Counted`).

### Accounts: `AccountsProofs`

`LinksActOnce` (`LinkOnce`), `ConfirmedAlways` (`ConfirmedOnly`), `AppEmpties`
(`EmptyApp`), `ChangesRevoke` (`RevokedByChange`). The four properties are about
sessions, and each session was a request before: the invariant says of every request
what must hold of the session it may open (`Fine`: a request that `Opens` one is of a
confirmed account, and what it proved is of today, or it is marked late, or the account
is marked unrevoked) and of every session the same (`Good`). Tables that only grow
(`Grown`) keep both; the statements that take away (a change of password, a revocation,
a deletion) mark the requests in flight (`Outdating`, `Revoking`, `Deleted`).

### Catalog: `TablesProofs`

`RefsAlwaysStay` (`RefsStay`), `GainsFollow` (`GainCopied`), `ResultsAreOfNow`
(`ResultOfNow`), `LimitsOvershootAtMost` (`LimitsOvershoot`). The invariant speaks of a
request, a row, a result and a computation against given tables of sites and antennas
(`RequestOK`, `RowOK`, `ResultOK`, `WorkOK`), so that each change of a table is one
lemma about what it leaves alone (`SameRequest`, `SameRow`, `SameWork`). `GainCopied` is
not inductive without the gains a request has read and not yet written; `ResultOfNow`
not without what the worker has read; both not without `RefsStay`, as a row of another
user could lose its antenna.

The limits count: the rows of a user and the requests that have counted them and not yet
inserted are together at most the limit and every request but one (`Room`, for sites
`SiteRooms` and for coverages `CoverageRooms`). A request that counts finds a row less
than the limit, and an insert trades a request for a row; every other statement does
neither (`SitesQuiet`, `CoveragesQuiet`).

### Limits, sessions, shares and tokens: `AccessProofs`

* **Sessions**: `SessionEndsAlways` (`SessionEnds`), `SessionLastsAlways`
  (`SessionLasts`). `ClockInv` places the expiry between the target of the last use,
  less the slack, and the maximal age (`ExpiryBetween`).
* **Shares**: `VisitorsSeeReleased` (`SeesReleased`), `RevokedForGood` (`RevokedStays`),
  `PanicsOnlyRaced` (`PanicOnlyRaced`). `SharesInv` says of every visitor that what he
  reads and is served was released to him, and of a publishing handler that it finds its
  share unless it was raced (`VisitOK`); and that no two rows have the same token, nor
  any a token that was taken back (`Rows`), so that a visitor's token leads to one row.
* **Tokens**: `TokensStopAtOnce` (`StoppedAtOnce`), `TokensWithinLimit`
  (`TokensListed`). Whoever holds a token that ended since, or is past the look at the
  maintenance mode when it is switched on, is marked (`CallOK`), so that one without a
  mark was let in by what is still so. The tokens and the requests between count and
  insert are together at most the limit and every request but one (`TokensCounted`).
* **Limits**: `BurstsBounded` (`BurstBounded`), `FailuresBounded` (`GuessesBounded`),
  `NamesCharged` (`NameCharged`).

The limits are the hardest of them. A route is data, a sequence of steps; first each is
shown to be `Ordered`: questions come first, and a failure is counted once, at the end.
Where a comparison lies between question and count, an attempt that has asked may still
count (`MayCount`), and `GuessesCounted` says that in a live row the count and these
attempts are together at most the maximum and every attempt but one. `SeenCounted`
relates the observer to the row of his key: if it is older than he looks, all he saw is
in its count; if not, there was one row before it at most, because he looks no longer
than a window and a row is not restarted before. Twice the bound of a row follows.

`NamesCharged` relates two keys, of a name and of the pair of that name and the one
other address. `NameInv` says how much the row of a name may hold (`NameCounted`): no
more than the row of the pair, and an earlier row of that pair if the present one is
younger than the row of the name (`Charged`), and the attempts that have counted the
pair and not yet the name. The pair is bounded as above (`PairCounted`). Two windows of
the pair, each with all attempts but one on top, and as many again that were under way
when the row of the name began, are `2 * Max["login:pair"] + 3 * (attempts - 1)`. With
the values of the code, 5 and 100 (`auth.go:33-34`), an address that has at most 30
requests under way at a time leaves the name open. The code does not keep it to that,
see section 6.

### Tiles, terrain, sunspots, processes: `ServersProofs`

* **Processes**: `StartsAlwaysClean` (`StartsClean`), `CleanupAlwaysLast`
  (`CleanupLast`). Only the holder of the advisory lock looks at a migration and applies
  it, so that what it has seen still holds when it applies (`MigrationOK`); no goroutine
  and no handler is left where deferred calls run (`WayOutOK`).
* **Tiles**: `MissesBounded` (`MissBudget`). The age of a counter tells whether it was
  there when the observer began: then its count has all he saw, else there was one
  counter before it (`Within`). A counter without expiry has a request that is about to
  set it, or one that failed to (`CountersOK`).
* **Terrain**: `StepsMeasured` (`StepMeasured`), `CoveragesWhole` (`WholeCoverage`).
  Once a tile was loaded the spacing is that of some tile, and nobody asks for it
  before, since the height of a site comes first (`SpacingOK`); a radial gives up only
  in a coverage that is cancelled, and the look at the context comes after all ended
  (`CalcOK`).
* **Sunspots**: `ValuesComeBack` (`ValuesRecover`). While upstream is good, a cached
  file that is not is at least as old as that lasts (`FileOK`), so it is out of date
  before a period is over; a process without fresh values has its next refresh due
  before that period and a retry are over (`FreshOK`, `RefreshOK`).

### HF predictions and maps: `HFProofs`

`MapsWhole` (`MapWhole`), for any number of cells and goroutines: each cell that was
sent and is still 0 is with exactly one goroutine (`CellsShared`), and `failed` is the
number of the cells that are marked n/a or about to be (`FailuresCounted`).

`ValuesAlwaysOfThisRun` (`ValuesOfThisRun`), for every set of path lengths, every hour,
frequency and number of runs, with and without digital modulation. `RunInv` has two
parts. `Counted`: the points are those of the runs that ended, and the hour and the
frequency are those of the run under way. `Ready`: before each routine, what those
before it have left to those after it. Each of these stage predicates (`Located`,
`BasicF2`, `Laid`, `Screening`, `FieldF2`, `LongFields`, `Delays` and so on, up to
`Reliability`) says which fields are set on a path of that length, and depends on
nothing but the path; there is a lemma per routine, which shows that what it reads is
set or `Optional` and that the next one is ready. The lowest modes are the smallest
number of hops that span the path: that there is one is where the bounds of
`RequestGiven` enter.

### Assumptions, and what is only model-checked

`JobQueue`, `Coverages`, `JobWaits` and `Accounts` name their assumptions
(`SetAssumption`, `TimeAssumption` and the others there; `CoverageAssumption`,
`WaitsAssumption`, `NoneAssumption`), `HFRun` has `RequestGiven`. The machines of
`Tables` and `Services` are instances and state theirs as operators, collected in
`TablesGiven` and `ServicesGiven`: `Given` (`Catalog`), `Bounds` (`RateLimits`), `Times`
(`SessionClock`), `Apart` (`Shares`, `ApiTokens`, `Processes`), `Lives` (`Tiles`),
`Pauses` (`Sunspot`), `Sizes` (`HFMaps`). TLC evaluates all of them. Most say that
`None` is not a value, that sets are finite and that a limit is a number; the ones with
content are `Idle + Slack <= MaxAge`, skews within the slack, that each coverage has one
owner, that the janitor waits for every window of a limit and that login counts pairs
and names over the same window, a retry within a period, and `RequestGiven`.

Only model-checked: `EventuallySettled` and `NoneLeftWaiting`, for liveness under
fairness is outside of the prover.

## 6. Where code and documentation disagree

1. `QuotaHeld` (`store/jobs.go:79`). The documented two coverage jobs per account
   (`docs/explanation/accounts-and-security.md:38`) do not hold: two requests both count
   one, both insert. `QuotaOvershoot` bounds the excess.
2. `ShutdownRequeues` (`worker/worker.go:139`). "Shutdown on SIGTERM requeues running
   jobs" (`docs/reference/operations.md:33`) is not so between the claim and the end of
   `GetCoverage`, which uses the cancelled context: the job waits to become stale.
3. `ResultCurrent` (`store/jobs.go:177`). `UpdateCoverage` clears the result, but a
   computation that started before finishes after it and stores the result of the old
   parameters, with a job that is done.
4. `NothingLeftBehind` (`web/jobs.go:64`). A waiter that learns by its poll that the job
   was deleted returns without `forget`; its channel stays in the map.

Further places where a property had to say less than a document, met while modelling:

* `RevokedByChange` and `EmptyApp` except what was in flight. On a change of the
  password "every other session is logged out"
  (`docs/explanation/accounts-and-security.md:27-28`): a login that compared the old
  password before the change inserts its session after the revocation
  (`web/account.go:251`).
* `GainCopied` excepts a row whose write was overtaken by an edit of its antenna
  (`web/antennas.go:228`): it keeps the gain of before until the antenna is edited
  again.
* `StepMeasured`: the spacing is that of the tile loaded last by anybody. Where tiles of
  1" and 3" are mixed, the step of an analysis depends on the calculations next to it,
  where the document has 30 m for 1" tiles and 90 m for 3"
  (`docs/explanation/propagation-model.md:18`).
* `MissBudget` excepts a counter whose `EXPIRE` failed (`tiles/tiles.go:72`): its
  address stays refused until the key is removed.
* `PanicOnlyRaced`: publishing a share dereferences what it loads again
  (`web/coverages.go:313`) and panics, recovered by the HTTP server, if it was revoked
  between.
* A worker that outlives the takeover (section 3, Time). "A job running longer than 15
  minutes is considered lost and taken over" (`docs/explanation/architecture.md:72-73`):
  it is taken over, and need not be lost. `SingleRunner`, `HoldsClaim`, `OutcomeStable`,
  `JobsWithCoverage`, `CurrentStays` and the refinement except such jobs. Two workers
  compute one of them; each writes its outcome by id (`store/jobs.go:133,140`), so that
  a failure may replace a result or the other way round; a coverage that was edited in
  between may get the result of its old parameters over that of the new ones
  (`store/jobs.go:177`); and a row that was settled by one worker may be dropped, and
  the coverage queued again, while the other one still works.
* "A job claimed this often failed its workers" (`worker.go:22`): a claim counts
  whatever became of the one before it. While a first worker still computes, the job may
  be taken over and, at the third claim, be marked failed as "interrupted repeatedly"
  (`worker.go:75`).
* "A computation that hits its timeout is `result="failed"`"
  (`docs/reference/metrics-and-logging.md:40`): a prediction that ends without an error
  after its timeout is stored as done (`worker.go:94-133`), which is why `EndCompute`
  leaves the outcome open.
* "One attacker cannot lock the owner out from elsewhere" (`auth.go:33`): login asks the
  limits before the comparison and counts after it (`auth.go:233-260`), and nothing
  limits how many logins of one address are under way. Those that asked before the pair
  reached its maximum all count the name; a hundred of them fill its row, and the owner
  is refused from his own address for the rest of the window. `NameCharged` bounds what
  they can count by their number. It excepts lost hits, as the three hits of a failed
  login are three statements, and is about one other address; what many addresses guess
  together reaches the limit of a name, as it is meant to (`auth.go:34`).
* `ValuesOfThisRun` needs the entries of `Optional`. Among them: beyond 4000 km the
  delays of digital modulation are computed with the default height 0 of the modes,
  although `circuit_reliability.go:386-387` says it was calculated;
  `equatorialScattering` reads control points that paths below 2000 km do not compute;
  mode powers beyond 7000 km are defaults. Further, the long model
  (`median_skywave_field_strength_long.go`) indexes its table of points at twice the
  number of hops; between 7000 and 9000 km the reported basic MUF and the median MUF are
  different quantities, against the comment in `muf_variability.go:18`; when all modes
  count as signal the reliability returns early with its default of -307.
* A report of HF predictions reads sites and antennas again for every month, while the
  comment at `web/hf.go:392` says that its parameters describe them all.

## 7. What is not modelled

* **Numerics.** The losses of ITM, the formulas of P.533 and P.372, antenna patterns,
  geometry, interpolation and the legend: floating-point functions without state.
  `HFRun` models which routine runs and what it hands on, `Terrain` in which order
  heights are read.
* **Rendering** (`internal/{plot,report}`): pure functions to PNG and PDF.
* **I/O clients** (`internal/{s3,mail,metrics}`): an answer or an error, which the
  modules that call them choose. The front end, configuration, flags and the other
  commands.
* **Within modelled components**: payloads and texts of errors, HTTP status codes, the
  signed cookie of the panel, the legend of a coverage, the format of a tile. Deleting a
  user always succeeds with its cascades. Waiters are those of one process: jobs are
  shared, channels are not. Connection loss of the listener appears as any subset of
  processes missing a notification.
* **Two hazards without a property.** A request that outlives the ten seconds of the
  shutdown uses a store that is being closed (`main.go:499`): its statements fail, which
  the other modules let happen anywhere. And `UpdateCoverage` clears the result and
  drops the job in two statements (`store/coverages.go:190`). If the second fails, or a
  computation ends between them, the coverage has a finished job and no result until
  somebody computes it again. Whether that is wrong depends on what the user meant to
  have computed, which no state of the program tells.


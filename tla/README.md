# TLA+ specifications of the URL shortener

This directory holds a formal model of the service in `src/`: TLA+ modules, TLC
configurations that check them on small instances, and TLAPS proofs that hold
for every instance. `PROJECT.json` lists which definition stands for which
lines of the source, what each run checks, and which hazard of the code each
property is meant for.

## 1. The system

`linkd` is a Go server. `POST /v1/links` creates a short link, `GET` and
`PATCH /v1/links/{code}` read and change it for its owner, `GET /{code}`
redirects. Links live in a repository (Postgres, or a map), redirects are
answered from a Redis cache when they can be. Every request is a goroutine of
its own, and several servers may share one Postgres and one Redis: nothing
orders two requests but single SQL statements and single Redis commands.

| Component | State | Operations | Talks to |
|---|---|---|---|
| Link aggregate, redirect mapping (`link/domain`) | values only | `NewLink`, `RehydrateLink`, `Disable`, `Reactivate`, `Delete`, `UpdateDestination`, `SetExpiration`, `ClearExpiration`; `CanRedirect` | none |
| Link repository (`adapters/memory`, `adapters/postgres`) | one row per code | `Insert`, `FindByCode`, `Update` (compare-and-set on the version) | database |
| Management use cases (`ChangeLink*`, `GetManagedLink`) | a private copy of the link, per request | find, check owner and `If-Match`, mutate, `Update`, answer with an ETag | repository |
| Cache refresh (`CacheRefreshingRepository`, `RedirectCacheRefresher`) | none | after an `Update`: compute a TTL, `PutIfNewer`, drop the error | repository, cache |
| Redirect cache (`adapters/redis`) | one hash per code, with a TTL | `Get`, `PutIfNewer` (a Lua script comparing versions) | Redis |
| Redirect resolution (`CacheAsideResolver`, `RedirectLink`) | the mapping, per request | cache `Get`, source `Find`, fill, decide | cache, repository |
| Link creation (`CreateGeneratedLink`) | attempt counter, per request | look the key up, insert until a code is free, record the key | repository, idempotency store |
| Idempotency store | one record per owner and key | `Get`, `Save` (first record wins) | database |
| HTTP API (`adapters/httpapi`) | none | parse, call, map errors to answers; after a redirect's decision record analytics, then metrics, then answer | all of the above |
| Code generator (`adapters/codegen`) | none | eight base-62 characters by rejection sampling | `crypto/rand` |
| Analytics | one row per redirect | `Record`, whose error is counted and dropped | database |
| Metrics | counters and histograms under a mutex | `Record*` (a mutex acquisition per counter), `Snapshot` | none |
| Health | none | checks of required and optional components under a timeout | database, Redis |
| Migrations | `schema_migrations` | apply the pending ones under an advisory lock | database |
| Lifecycle (`cmd/linkd/main.go`) | stage of `run()`, pool, Redis client, HTTP server | build, serve, drain within a timeout, close what was opened | all |
| Configuration, deployment | | parsing; no behaviour of its own | |

What is hard about it, and hence what the properties are about:

- *Read, check, write in three steps.* A `PATCH` reads the link, checks the
  `If-Match` version on its copy and writes later; only the version in the
  `WHERE` clause of `Update` keeps two of them apart.
- *Two stores, no transaction.* The cache is written after the database, by
  the mutation and by every slow redirect that read before it, through commands
  that can be lost, late, or executed after their sender gave up.
- *Insert, then record the key*, with crashes and other requests between them.
- *Failures that are not failures.* A statement can take effect and report an
  error; a client can leave, which cancels the context of what is under way.
- *Clocks.* Every host reads its own; TTLs are computed from readings that are
  stale when they are used, and every store keeps times with another precision
  than the process that decides on them.
- *One process, many waits.* Redirects, analytics inserts and health checks
  share one pool of connections; shutdown waits for all of them, but not for
  ever, and closes what they use.
- *Counters read while they are written.* One redirect is six increments under
  six acquisitions of the mutex.

`PROJECT.json` lists each of these as a hazard at the line where it bites.

## 2. The modules

```
 Link                     the aggregate as operators
  |-- LinkRow             its row, in microseconds            LinkProofs
  |    `-- LinkRepository   the source of truth
  |         |-- LinkManagement GET/PATCH requests, interleaved  LinkManagementProofs
  |         |    |  implements VersionedLinks (atomic mutations)
  |         |    `-- RedirectSystem  redirects, cache, refresh  RedirectSystemProofs
  |         |                        (also extends RedirectCache) PromptnessProofs
  |         `-- CreateGeneratedLink  POST requests, idempotency CreateGeneratedLinkProofs
  `-- RedirectCache       the versioned cache and its TTLs
 Serving                  the process and what it serves      ServingProofs
  `   implements GracefulServer (drain, then close)
 Migrations               the migration runner                MigrationsProofs
 MCAlgorithms             the pure parts, in one run          AlgorithmsProofs
  |-- Histogram           latency histograms, percentiles
  |-- VersionScript       versions as decimal strings
  |-- CodeGenerator       rejection sampling
  `-- Precision           expirations in three precisions
```

`MC*.tla` add symmetry sets and inputs for TLC; each `.cfg` is one run.

**Link** has the domain as pure operators. A Go function that returns
`(Link, error)` is a set with one link or none, so that callers say
`\E l \in Mutate(...)` for success and `Mutate(...) = {}` for an error.
`Rehydratable` is what `RehydrateLink` demands of a stored row.

**LinkRow** is what the table keeps of a link. The process counts time in ticks,
its columns in microseconds of `Resolution` ticks each, and what does not fit is
cut off (`KeptTime`, `Row`). With a `Resolution` of 1 it is the map of the memory
store, which keeps everything. `Storable` is the table's check that a link expires
after its creation; two times the domain tells apart may be one in the columns.

**LinkRepository** has `links`, one function for both adapters: the map under a
mutex and the SQL table do the same atomic steps. `Insert` and `Update` write
rows, and a read returns the row.

**VersionedLinks** is the abstract specification: a code is taken once, and
then every change is one legal mutation of the link as it stands at that
moment, kept as a row. No requests, no interleaving.

**LinkManagement** has `req[r]`, the progress of one HTTP request: `idle`
(not arrived), `update` (read and checked, `base` is what was read and `next`
the mutated copy), `committed` (row written, answer not yet), `answered`.
`Change` is everything up to the call of `Update`: one action, because it reads
shared state exactly once, in `FindByCode`. `Commit`, `Conflict` and `CheckFails`
are the outcomes of the SQL statement. `CommitUnacknowledged` is one more, a
statement that took effect and reported an error. `Respond` prints the copy, which
has not gone through the columns; `Get` prints the row. `Abandon` is a client that
leaves or a process that dies.

**RedirectCache** has `cache[c]`, the hash of a code with the moment its TTL
ends, and the clock. `PutIfNewer` is the Lua script, `CacheTTL` and
`ShouldCache` are `redirectCacheTTL`, `ExpireKeys` is Redis.

**RedirectSystem** composes the two. `red[d]` is the redirect handler `d`
serves: `source` (missed), `fill` (read the source), `resolved`, `done`.
`put[a]` is the last cache command of a handler: it is `sent` with the TTL that
was computed then, executed by `ApplyPut` whenever Redis gets to it, lost by
`LosePut`, and waited for by `PutReturned`, which a timeout also ends. The
management actions are those of LinkManagement, with the refresh between
`Commit` and `Respond`; `CheckFails` is not among them, since no row fails the
check where a tick is what the columns keep.

**CreateGeneratedLink** has `crt[x]`, the progress of one `POST`, and `idem`,
the idempotency table. `Lookup`, `InsertLink`/`Collide`/`CheckFails` and
`SaveKey`/`SaveConflict` are the three steps of the use case; the generator may
return any code, so collisions need no luck.

**Migrations** has `lock` (which session has the advisory lock), `applied` (the
table `schema_migrations`), `log` (the schema, as the sequence of migrations
that took effect) and `mig[p]`, one run of `/app/migrate` with the directory of
its release. There is one action per statement. `StatementFails` returns
through the deferred calls as Go does (rollback, unlock, close); `Kill` leaves
the session behind until the server notices (`Reap`).

**Serving** is one process. `main` is the stage of `run()`, `serve` the
goroutine of `ListenAndServe`, `store` the pool and the Redis client, `conn[r]`
a client's connection and `pc[r]` the handler of its request: a redirect
(`cache_get`, `lookup`, `query`, `cache_put`, `analytics`, `insert`, then one
step per acquisition of the recorder's mutex, `flush`) or a probe (`check`,
`ping`, `flush`). `holders` are the requests that have a connection of the pool,
`hung` says that Postgres answers nothing any more. What a lookup finds is left
open, RedirectSystem has that; here it matters how a handler waits, fails and
counts. `StartUp` and `Stop` are `run()`, `HandleRedirect` and `HandleProbe` the
handlers, `Environment` clients, signals and Postgres.

**GracefulServer** is its abstract specification ("Stop new traffic, drain,
close resources"): refuse first, finish what was accepted, close the stores
last, or give up draining.

**Histogram, VersionScript, CodeGenerator, Precision** are the parts in which
arithmetic matters, each a small state machine whose inputs come in any order:
durations, versions, random bytes, clock readings. MCAlgorithms runs them as
four machines, one of which is chosen initially.

*History variables.* `history` (mappings ever committed, with the time),
`acked` (the last version a client was told of), `creator` (the request that
inserted a link), `log`, `events`, `samples` and `highest` are read by
properties only; no guard of a code action uses them.

*Seeded faults.* Operators marked "Seeded fault" are plausible bugs in the code
(a `WHERE` clause without the version, a `SET` in place of the script, a
refresh before the commit). No specification uses them: `PROJECT.json`
(`mutants`) says which definition each one replaces, and that the property
named there then fails. They show that each property can fail.

## 3. The runs

| Run | Checks | Instance |
|---|---|---|
| `management_faults` | `ManagementTypeOK`, `StoredLinksRehydrate`, `ETagIdentifiesRow`, `OneWriterPerVersion`, `ConflictHasWinner`, `AtomicMutations`, `LinksMoveForward` | 3 requests, 1 link, 2 owners, 2 destinations, 5 clock readings in 2 microseconds, all faults |
| `management_progress` | `UpdatesMakeProgress` | 3 requests, no faults, fair handlers |
| `redirect_healthy` | `MutationChangesNextRedirect`, `DelayedFillsRestoreNothing` | 2 requests, 2 redirect handlers, failures of the database and of clients, a Redis that answers, no expirations |
| `redirect_faults` | `SystemTypeOK`, `OnlyCommittedMappings`, `StalenessBounded`, `RedirectsAnswered` | 2 requests, 1 redirect handler, all faults, expiring links, fair handlers |
| `creation_faults` | `CreationTypeOK`, `SameKeySameCode`, `OwnLinkForOwnRequest`, `CreatedLinkIsStored`, `AtMostOneLinkPerRequest`, `KeyConflictHasWinner` | 3 requests, 3 codes, 2 owners, 1 key, all faults |
| `migrations_faults` | `MigrationsTypeOK`, `AppliedOnce`, `AppliedInOrder`, `PendingStaysPending`, `AnswersAreTrue`, `MigratorsFinish` | 2 migrators, 3 versions, 7 releases, all faults |
| `serving` | `ServingTypeOK`, `CleanExitCutsNobody`, `MetricsAddUp`, `AnalyticsAccounted`, `DiagnosticsAgree`, `DrainsThenCloses` | 1 redirect, 1 probe, a pool of 1, all storage and cache there is or none |
| `serving_progress` | `ShutdownTerminates`, `RedirectsEnd`, `ProbesEnd` | 1 redirect, 1 probe, a pool of 1, Postgres without cache, fair process |
| `algorithms` | `HistogramSummarises`, `PercentilesAreTight`, `StoredIsHighest`, `CodesUniform`, `ExpiryKept` | up to 101 samples, versions to 1010, all byte values, 30 instants |
| `refresh_skipped` | `MutationChangesNextRedirect`, refuted | 1 request, 1 handler, an expiring link |
| `stale_restored` | `DelayedFillsRestoreNothing`, refuted | an inactive TTL equal to a request's time in flight |
| `duplicate_creation` | `OneLinkPerKey`, refuted | 2 requests, 1 key, no faults |

### Bounds, and why they are enough

- *One code.* Handlers of different codes share nothing but the clock: links,
  cache entries and `acked` are functions of the code. Creation is where codes
  meet (collisions), and there are three of them there.
- *Two or three requests.* A lost update needs a winner and a loser; the third
  request observes (a read with the same ETag), or moves the link once more
  between the two. In `redirect_healthy` two mutations and two redirects let an
  old fill race a new one and a refresh.
- *Two to five clock readings* (`Times`, 0 being Go's zero time). They order events:
  created, changed, changed again, expired, and a TTL that ends before or after
  each. `Times` ending and the number of requests, each of which writes once at
  most, are the only bounds on behaviours, and so on versions.
- *`Resolution`* is 3 in the management runs, 2 in `creation_faults`,
  and 1 where times are only compared with each other. Two readings
  in one microsecond, the last of one and the first of the next, and an expiration
  in the microsecond of the creation are all there is to truncation; three ticks
  leave room for one that is neither the first nor the last.
- *TTLs and `Latency` of one or two ticks.* What matters is their order: TTLs
  longer than `Latency` in `redirect_healthy`; one longer, one equal in
  `redirect_faults`; equal in `stale_restored`.
- *`MaxAttempts` is 2* where the code has 5: a first attempt and a retry are
  the two cases of the loop, and two collisions exhaust it. The proofs are for
  any value.
- *Two migrators* are a pair of concurrent deploys, or a run and its
  repetition. The releases grow, add an earlier file late, drop one, or edit
  one; any two of them meet. The proofs are for any number of both.
- *One redirect and one probe on a pool of one connection* contend for it, and
  either can be the one that shutdown waits for, that finds the pool closed or
  whose client has left. Several redirects only meet in the counters, where the
  proof is for any number. A connection carries one request; Postgres that has
  hung stays so (`Hang`); the two configurations are everything there is and
  nothing but the process. `serving_progress` has Postgres without a cache: the
  steps on Redis end by themselves (`operationTimeout`), those on Postgres are
  the ones that may not.
- *`algorithms`*: `MaxSamples` of 101 in two closed buckets and the open one is
  more than the 100 below which a percentile's threshold rounds differently for
  each count. `SomeVersions` go through one to four digits; only a change of
  length or of one digit can matter. All of the 62 characters and 256 bytes are
  there; a code of two characters has the first, the last and the end of a
  batch. In Precision a microsecond has 3 and a millisecond 6 nanoseconds:
  truncation is about remainders and their order, and 30 instants hold five
  milliseconds.
- *Symmetry* permutes requests, handlers, owners and destinations, which no
  action tells apart; it is switched off in the liveness runs.
- *Deadlock is not checked* (`CHECK_DEADLOCK FALSE`): a request is answered
  once, so when every request is answered and the clock has run out the model
  has nothing left to do. What must not get stuck is stated as liveness.

### Assumptions about the environment

- `Latency` bounds the time between a handler's clock reading and the end of
  its work, including its cache command. No code enforces it. It stands for the
  timeouts and the scheduler, and enters only `StalenessBounded` (whose bound it
  is part of) and `redirect_healthy`; `stale_restored` shows what happens when
  it is not small against the TTLs.
- RedirectSystem has one clock for all hosts and Redis; LinkManagement alone
  lets every reading be arbitrary.
- In RedirectSystem a tick is as long as the coarsest store keeps times, a
  millisecond or more (`TickAssumption`). What truncation does to rows and to the
  answers of the management API is in LinkManagement, what it does to redirects
  in Precision.
- pgx cuts off what is finer than a microsecond, as its binary format does, and
  clocks and clients do not name the first microsecond of the year 1
  (`ResolutionAssumption`), which would be kept as Go's zero time.
- Destinations and owners have passed the normalisation of `NewDestinationURL`
  and `TrimSpace`; `uint64` versions and counters do not wrap.
- net/http and pgx are modelled from their documented behaviour, and only as far
  as `src/` relies on it: a handler's context is cancelled when its connection
  is lost or `Shutdown` has been followed by `Close`; a passed `ReadTimeout` may
  cancel it too; an answer after `WriteTimeout` is lost; a statement whose
  context is cancelled returns its connection to the pool; `pool.Close` waits
  for the connections in use.
- Assumptions on constants (`TimesAssumption`, `TTLAssumption`,
  `HandlersAssumption`, `NoLinkAssumption`, `NoEntryAssumption`,
  `MaxConnsAssumption`, ...) are types, or say that handlers of two kinds, or a
  value and its absence, are told apart. `BucketsAscend` is the order of the
  array `latencyBuckets`; `HistogramAssumption` says that durations are finitely
  many integers (a `time.Duration` is an `int64`) and percentiles are from 1 to
  100 (the code asks for 50, 95 and 99); `PrecisionAssumption` that a
  millisecond is a whole number of microseconds and the TTL is not negative.

### Fairness

`FairManagementSpec` is fair to `Finish(r)`: a goroutine that has passed its
checks calls `Update` and answers, and a database call returns (there are no
faults in that run, whose question is whether requests can refuse each other). A
PATCH whose row fails the table's check is left out of the claim: it is answered
with an error, and nobody has to have overtaken it.
`FairSystemSpec` is fair to the steps of a redirect handler only. Redis is not
fair: it may neither execute nor refuse a command for ever. The step
`FinishFill` is nevertheless always possible since `operationTimeout` ends the
wait.
`FairServingSpec` is fair to the process: `Stop` and `Listen`, the return of
`ListenAndServe` once the server is shutting down, the net/http goroutines that
close idle connections and notice lost ones, and every handler. A handler that
waits for Postgres is not enabled while Postgres hangs, unless its context is
done, so that fairness promises nothing about Postgres.
`FairMigrationsSpec` is fair to a migrator's own steps, among them the
grant of the lock (Postgres queues the waiting sessions) and `Reap`: Postgres
notices that a client is gone when its socket closes or keepalive fails, which
is its business and not the code's. Clients, signals, faults, startup,
creations, eviction, `ReadTimeout` and the clock are never fair.

## 4. What the runs show

Holds, with everything going wrong at once: no `PATCH` is lost, an ETag names
one row, a 412 is never spurious, and interleaved handlers amount to atomic
mutations (`AtomicMutations` is the refinement of VersionedLinks). Every row can
be loaded again, although rows keep less of a time than the process has checked.
A link only moves forward: deletion is terminal also for a `PATCH` that read the
link before it, and hosts whose clocks disagree do not make `updatedAt` run
backwards (`LinksMoveForward`). Redirects only work with committed versions, and
a superseded version outlives its successor's commit by at most `Latency` plus
the longer TTL; the entry of a link that expires is gone `Latency` after the
expiration at the latest, because its TTL was computed from a clock reading that
old. Whoever is told 201 is told the right code, however retries interleave and
crash. Each migration is applied once and in order, and no failure keeps the
lock.

A redirect gets its answer although Redis neither executes nor refuses its
commands. With a Redis that answers in time, an acknowledged mutation governs
every redirect that begins after it.

One process, whatever it meets between start and exit: the pool lends each
connection to a running statement and gets it back on every path; `run()`
reports success only after the last handler, and nobody was cut off then; the
stores are closed after the last handler unless draining was given up
(`DrainsThenCloses`, the refinement of GracefulServer). A shutdown ends and a
probe ends even if Postgres never answers again. A snapshot of the metrics is off
by exactly the handlers that are between two acquisitions of the mutex; counted
analytics successes are stored events, and a stored event may have been counted
as an error, never the other way round. The overall status of a probe agrees with
the checks that failed, the required storage, the optional Redis or both.

Comparing versions as decimal strings compares numbers; a percentile is the
least bucket bound that covers its share of samples; no code is likelier than
another; and truncating expirations never makes a link live longer, it costs it
less than a millisecond, nor does the TTL computed from them keep the key longer
than the expiration in it.

Three statements of the documentation are not true of the code:

1. `refresh_skipped`. A `PATCH` that sets an expiration which passes between
   the commit and the refresh leaves the version before, which may not expire at
   all, in the cache: `Refresh` returns early when `redirectCacheTTL` says that
   the new mapping is not worth caching. The next redirect uses the old
   version, against "Mutation changes the next redirect."
   (`docs/architecture/redirect-cache.md:216`).
2. `stale_restored`. Versions are compared only while Redis still holds the
   newer entry. A fill delayed until that entry's TTL is over restores the
   replaced mapping, against "Version checks prevent delayed fills from
   restoring older mappings" (`docs/adr/0002-versioned-cache-aside.md:108`).
   This needs a TTL no longer than a request's time in flight (in the run, one
   tick each); the defaults make it unlikely. `redirect_healthy` and
   PromptnessProofs show that the claim holds when TTLs are longer.
3. `duplicate_creation`. Two requests with one key both insert; the second one
   is refused and its link stays, against "Idempotent creation | Strong per
   owner/key" (`docs/architecture/system-overview.md:168`).

Worth knowing besides, where no statement is refuted:

- `RedirectsEnd` has the disjunct `hung` for a reason. The analytics insert runs
  before the answer, under the request's context and with no timeout of its own.
  An insert that *fails* is dropped; one that *hangs* holds up a redirect that
  the cache has already decided, until its client leaves or the server shuts
  down ("Cache and analytics failures do not block valid redirects",
  `docs/architecture/system-overview.md:32`). Whether `ReadTimeout` ends the
  wait is up to net/http, so that no run claims either.
- The body of a `PATCH` is printed from the handler's copy, in the clock's
  nanoseconds (`adapters/httpapi/management_handler.go:240`); the row keeps
  microseconds, and a `GET` with the same ETag prints the row. With Postgres the
  two bodies may differ in `updatedAt`, and in a new `expiresAt`, although a
  `PATCH` "returns the updated resource and its new `ETag`" (`README.md:227`).
  What holds is `ETagIdentifiesRow`: both name the same row, and two `GET`s with
  one ETag are equal. The memory store keeps everything.
- When the *listener* fails, `run()` returns without `Shutdown`. No context is
  cancelled, and the deferred `pool.Close` waits for every statement under way:
  with a hung Postgres the process never exits. `ShutdownTerminates` is about
  stopping by signal, which the code does bound.
- An expiration less than a microsecond after creation passes `NewLink` and is
  refused by the table's `CHECK (expires_at > created_at)` once both are
  truncated (`CheckFails`): an HTTP 500 for what the domain accepts. For the same
  reason two changes within one microsecond, which the domain demands to be at
  ascending times, leave rows with the same `updated_at`; `LinksMoveForward`
  says "no earlier".

## 5. What is proved

The proofs assume only the named assumptions on the constants (`TimesAssumption`,
`TTLAssumption`, `NoLinkAssumption`, ...): `Times` may be all of `Nat`, every set
any set, `Faults` anything. All but AlgorithmsProofs follow the same argument: the
properties speak of answers, so an inductive invariant must say what a request
knew while it was still in flight.

- **LinkProofs**: a legal mutation yields a link with the next version, keeps it
  rehydratable, and is never one of a deleted link. `KeptTime` is monotone and
  idempotent, so the row of a link that passes the table's check is a link and
  rehydratable, and a row is its own row.
- **LinkManagementProofs**: `ManagementInv` says that what is stored are rows, and
  that the row of a request's copy is never ahead of the stored one and *equals*
  it when the versions are equal. The compare-and-set then turns "the version
  matches" into "nothing has changed since", from which `OneWriterPerVersion`,
  `ETagIdentifiesRow`, `ConflictHasWinner` and the refinement follow, for every
  `Resolution`; `StoredLinksRehydrate` follows
  from the refinement's step, as does `LinksMoveForward`.
- **RedirectSystemProofs**: each step of the system is a management step or
  leaves the management variables alone, so `SystemSpec => ManagementSpec` and
  all of the above carries over. `SystemInv` adds to `OnlyCommittedMappings`
  where mappings come from: stored links and the copies of committed requests
  are in the history. `StalenessBounded` relates a cached entry to commits that
  came after it, but the entry was computed from what a handler had read before.
  `FreshnessInv` follows the mapping from the source through the handler and the
  command into the cache: at each place, whatever replaced it was committed
  after its handler began, and the handler began at most `Latency` ago.
- **PromptnessProofs**: under `HealthyRedis` (a Redis that answers, no
  expirations, TTLs longer than `Latency`: what the two refutations above
  violate), `MutationChangesNextRedirect` and `DelayedFillsRestoreNothing`. The
  cache alone does not say what a write still to come will do to it. `Held` are
  those writes, `Published` says that none of them can bring a version below
  the acknowledged one back, and `Shielded` why: the newer entry it meets
  outlives its handler. The assumption is a hypothesis of the theorems, not an
  ASSUME, and `redirect_healthy` is an instance of it.
- **CreateGeneratedLinkProofs**: `CreationInv` says that a request told 201
  holds the code its key is recorded with (or, without a key, the one it
  inserted), and that a recorded code was inserted by a request with that very
  owner and key. Records and creators never change, so answers stay right.

- **MigrationsProofs**: `MigrationsInv` says that whoever is past the lock has
  it, whatever failed on the way, and that what a run has seen is applied with
  the contents of its release. A commit then appends a version that nobody
  else can have applied meanwhile, and whose predecessors are in the log.

- **ServingProofs**: `TypeInv` has the pool as the set of handlers that run a
  statement. `LifeInv` ties the stage of `run()` to what connections and handlers
  may still be doing, from which `CleanExitCutsNobody` and the refinement of
  GracefulServer follow. `ProbeInv` has the verdict so far be that of the checks
  so far. `StageInv` says what a redirect has recorded by where it is, `CountInv`
  counts the handlers at each place; together they give `MetricsAddUp` and
  `AnalyticsAccounted` for any number of redirects.

- **AlgorithmsProofs**: every property of the run `algorithms`, for every
  constant. `HistogramInv` says that the buckets up to a bound add up to the
  samples up to it and that the total time lies between count times minimum and
  count times maximum; the average and the percentiles follow by arithmetic.
  `ScriptComparesNumbers` is the fact RedirectCache rests on when it compares
  versions as numbers. `EverySourceCounts` gives a bijection between the bytes a
  character comes from and the alphabets that fit into a byte. `PrecisionInv`
  says which truncations the row and the hash have gone through. Sums (folds of
  the community modules) and `Decimal` are recursive: the proofs first show that
  each satisfies its recursion, from functions that do so on smaller arguments,
  and then use well-founded induction over *sets* (`NatInduct`, `SubsetInduct`),
  since theorems that take an operator cannot be instantiated here.

Every safety property that a passing run checks is thus also a theorem. Only
model-checked are the six liveness properties (`UpdatesMakeProgress`,
`RedirectsAnswered`, `MigratorsFinish`, `ShutdownTerminates`, `RedirectsEnd`,
`ProbesEnd`), because fairness and ENABLED are out of the prover's reach.

## 6. What is not modelled

- The body of a replayed creation: the link as created (memory store) or as it
  is now (Postgres). The repository does not say which it should be.
- Memory storage with Redis across a restart (links lost, cache kept): the
  repository of RedirectSystem never loses a link, and a restart would have to
  clear requests, history and acknowledgements with it.
- The table from errors to status codes, routing, JSON, URL normalisation,
  comparison of the metrics and diagnostics tokens.
- Reading migration files (`discoverMigrations` up to its sort): versions are
  distinct positive numbers, and no file has transaction control of its own.
- The metrics families of the resolver (cache, fill, source), which are recorded
  by the same calls as the two in Serving; overflow of their counters.
- Connections that carry several requests; a process killed outright, or by a
  signal before `signal.NotifyContext`: nothing of it is left that a property
  could speak about.
- `NewRedirectEvent` failing, and the analytics result "skipped": neither can
  happen in a server that `main.go` has built.
- Environment variables one by one; deployment files.

## 7. What is left to do

1. A RedirectSystem whose memory repository restarts under a kept cache, with
   the epoch of an acknowledgement made explicit.
2. The management API's representations (status codes, replays), once the
   repository says what they should be.
3. Several requests per connection in Serving, and a pool of two with three
   handlers, on a larger machine.

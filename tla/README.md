# A TLA+ development for rapina

This directory holds formal models of [rapina](../src/README.md), a Rust web
framework: TLA+ modules translated from its source, TLC configurations that
model-check them on small instances, and theorems whose proofs are checked by
TLAPS. Paths below are relative to the repository (`src/`); `lib/` stands for
`src/rapina/src/`.

Contents

1. [The system](#1-the-system): components, state, operations, interactions, what is hard
2. [The modules](#2-the-modules): which module models what, and how
3. [The runs](#3-the-runs): what each run asks, its bounds, what it shows
4. [Fairness](#4-fairness)
5. [The proofs](#5-the-proofs)
6. [Where the code and its documentation disagree](#6-where-the-code-and-its-documentation-disagree)
7. [What is not modelled](#7-what-is-not-modelled)
8. [Plan](#8-plan)
9. [Running](#9-running)

## 1. The system

A rapina process is an HTTP server built by `Rapina` (`lib/app.rs`): a router,
a stack of middlewares, application state, and optional parts that run next to
the requests: job workers, the relay, the cron scheduler, the response cache.
All of it runs on tokio, so every `.await` is a point where another task or
another thread may go on.

| Component | State it keeps | Operations | Interacts with | What is hard |
|---|---|---|---|---|
| **Job queue** `lib/jobs/` | table `rapina_jobs`; per worker the batch it claimed | enqueue (alone or in a transaction), claim, dispatch, success, retry, fail, reap | database, other processes on the same table, handlers, signals | leases that run out under a live worker, crashes between statements, statements that fail or whose answer is lost |
| **Retry policy** `lib/jobs/retry.rs` | none | `backoff_delay`, `apply_failure` | job queue | floating point edges, off-by-one of attempts |
| **Job configuration** `lib/jobs/worker.rs` | queue names, overrides, globals | builder calls, `resolved_queues` | start-up spawns one worker per entry | two lists kept in step over any order of calls |
| **Relay** `lib/relay/` | topic map, broadcast channels, subscriptions, funnels, presence | push, subscribe, unsubscribe, message, disconnect, track, untrack | WebSocket clients, channel handlers (user code), HTTP handlers that push | asynchronous abort, cleanup against subscription, lagging receivers, user code that fails or panics |
| **Server and shutdown** `lib/server.rs`, `lib/app.rs` | accept loop, connections, hooks | listen, accept, drain, time out, run hooks | workers, cron, the operating system | a signal may find each task in any place; who returns first ends the process |
| **Response cache** `lib/cache.rs` | map of responses with expiry, operation counter | get, set, invalidate, cleanup, evict | middleware chain, handlers | a fill racing an invalidation; check and insert as two steps; expiry while looking |
| **Redis cache** `lib/cache_redis.rs` | keys in Redis | the same over a connection | Redis, other processes on it | scans of a part of the keys, errors that are swallowed |
| **Event streams** `lib/response/stream.rs` | channel, timer | yield, poll, keep alive, drop | handler, connection task, browser | two wakers for one task; lines of text inside a line protocol |
| **Router** `lib/router/` | route list, static map, radix trie | route, group, freeze, resolve | server | two lookup structures that must agree with the linear definition |
| **Middleware chain** `lib/middleware/`, `lib/metrics/`, `lib/app.rs` | the stack; gauges and counters | builder calls, `prepare`, `Next::run`, timeout, drop | everything | order; what a request that is cut short leaves behind |
| **Rate limiter** `lib/middleware/rate_limit.rs` | token buckets, request counter | check, clean up | middleware chain | `now` is read before the bucket is locked; cleanup against a request |
| **JWKS client** `lib/jwt/jwks_client.rs` | key cache | warm up, refresh, verify | cron, HTTP client, auth layer | refreshes that fail, run late or overtake each other |
| Authentication `lib/auth/` | public routes | check a request | middleware chain | its place in the stack |
| Cron scheduler `lib/cron_scheduler.rs` | jobs, a library scheduler | schedule, start, shutdown | shutdown hooks | runs of a job that overlap |
| **Pagination** `lib/pagination.rs` | none; the client keeps a token | page by cursor, page by number | database | rows that change between two pages |
| **`schema!`** `src/rapina-macros/src/schema/` | the block it reads | parse, analyse, generate | SeaORM, the import | later passes trust the checks of earlier ones |
| **Developer loop** `src/rapina-cli/src/commands/dev.rs`, `test.rs` | child processes, channel, watcher | build, run, watch, kill, read pipes | files, cargo | saves around a build; two pipes and one reader |
| **Seeds** `.../seed.rs` | seed files, tables | load, dump, generate | database, the running application | order of references; rows written meanwhile |
| **Imports and migrations** `.../import_openapi.rs`, `import/`, `codegen.rs`, `migrate.rs`, `jobs.rs` | source files, `mod.rs` | import, diff, `migrate new`, `jobs init` | a document, a database, each other | names that meet; commands that fail half way; what one command writes and another reads |
| **OpenAPI document** `src/rapina-macros/src/route/`, `lib/openapi/`, `src/rapina-cli/src/commands/openapi.rs` | the document of a version, the committed one | build, export, check, diff | clients generated from an older document | what is compared, and between which versions |
| Extractors, validation, errors, GraphQL, health, WebSocket adapter, other macros and commands | none that outlives a request or a command | conversions | | |

What makes each modelled component correct:

* **Job queue.** A row that runs can always be recovered. Each claim is charged
  exactly once, whoever ends it. A job is worked on by one worker as long as
  leases suffice, and at most a bounded number of times beyond its budget when
  they do not. A finished job stays finished. Every committed job is finished
  in the end.
* **Retry policy, configuration.** Delays follow the documented schedule;
  the budget is the number of executions; one worker per queue,
  with the last override.
* **Relay.** A subscriber is on the channel that pushes go to; pushes arrive in
  order and once; presence says who is there; the limit on subscriptions counts
  live tasks; a closed connection releases what it held.
* **Shutdown.** Hooks wait for the drain or its timeout; a worker stops between
  batches; whoever listened for the signal stops; a drain ends in an exit.
* **Cache.** A stale answer needs a read that a write overtook, and is gone
  after its ttl; the capacity holds; a lookup removes no fresh entry. Over Redis it
  needs that race, too, or a command that failed or looked at a part of the keys.
* **Event streams.** Every event arrives, once, in order and with its text; an idle
  stream is kept alive; no handler waits for a client that is gone.
* **OpenAPI document.** What `openapi diff` lets a branch be merged with breaks no
  client, and what it calls breaking breaks one.
* **Router.** The fast lookup answers what the linear scan answers.
* **Middleware chain.** What headers, log and metrics say of a request is what
  happened to it, in every order of the layers and however the request ends.
* **Rate limiter.** No client gets more than its burst and its rate, and one that
  waits as long as it was told gets through.
* **JWKS client.** Keys are never lost, go back only by a race, and the
  provider's last key set arrives.
* **Pagination.** A walk brings every row that stays, once.
* **`schema!`.** A block that is accepted compiles and means what it says.
* **Command line.** The developer ends up with the last version; a test run ends;
  seeds lose no reference; imports write what they read, and nothing twice.

`PROJECT.json` lists every hazard at its line with the properties that cover it.

## 2. The modules

### JobQueue — `lib/jobs/backend.rs`, `worker.rs`, `retry.rs`, `mod.rs`

`rows[j]` is the row with id `j` as the committed table shows it. Ids are
`Job`; `"absent"` is no row, `"uncommitted"` a row of an open transaction.
`run_at` and `locked_until` are kept relative to the database's clock: zero or
less means that the moment has come, and `Tick` ages all rows by one unit.
`snap[w][j]` is the `attempts` that worker `w` got with its claim: the code
decides on a retry with it.

One statement is one step. `pc[w]` walks through `Worker::run`:

| `pc` | Action | Code |
|---|---|---|
| `fail_expired`, `reclaim` | `FailExpired`, `Reclaim`, `ReapError` | the two statements of `reap_expired`; an error is logged |
| `claim` | `Claim`, `ClaimError`, `ClaimLost` | `claim_batch`; `ClaimResult` is what ORDER BY run_at LIMIT n can return |
| `dispatch` | `Dispatch` | the next job of the batch, with or without a handler |
| `execute` | `HandlerReturns`, `HandlerFails` | Ok; Err or a panic, which `catch_unwind` makes one case |
| `success`, `failure`, `nohandler` | `ApplySuccess`, `ApplyFailure`, `ApplyLost` | `apply_success`, `apply_failure`; the statement may fail |
| `sleep` | `Poll`, `Stop` | the `select!` at the end of the loop |
| `down` | `Restart` | a new process; `Crash` leads here from everywhere |

Producers: `Enqueue`, and `EnqueueWith` followed by `Commit` or `Rollback`.
A claim under SKIP LOCKED may return fewer rows than are due while another
claim is open; the model has that order of the two in which the other claim
committed first. Two variables are history: `claims` counts claims, `overran`
holds the jobs that were reaped while a live worker still held them.

### JobLifecycle — what a client is promised

States `unknown`, `pending`, `running`, `completed`, `failed` and the number of
executions charged. `JobQueue` implements it under the mapping "absent and
uncommitted are unknown, `charged` is `attempts`" (`ImplementsLifecycle`).

### RetryPolicy, RetrySchedule — `lib/jobs/retry.rs`

`RetryPolicy` is `backoff_delay` as an operator: the cap, the exponent from
which the power saturates, zero times infinity, which `f64::min` turns into the
cap, and the jitter. `RetrySchedule` lets one job fail again and again and
computes a second delay, step by step, by multiplying the previous one by four.
`NewJob` is what `#[job]` generates (`src/rapina-macros/src/job.rs`).
`JobQueue` takes the delay as a constant operator; its instances use this module.

### JobConfig — `lib/jobs/worker.rs`

The builder calls as actions, `resolved_queues` as an operator. `subscribed`
and `override` record what a reader of the calls expects.

### Relay — `lib/relay/`

A topic's broadcast channel is a log and, per receiver, a position; only the
last `topic_capacity` entries can still be read. `topics[t]` is the number of
the channel in the map. `fwd[f]` is forwarding task `f`: `idle` (waiting),
`polling` (on a thread), `dropping` (in `BroadcastReceiver::drop`), `gone`.
`JoinHandle::abort` only marks a task (`aborted`); one that is being polled
runs on until it waits. `pc[c]` walks through `connection_loop`; steps that
touch the shared maps are split where the code releases the map's lock:
`Subscribe`/`Spawn` (clone of the sender, then `tx.subscribe()`),
`UntrackConn`/`DropEmpty`, `DropReceiver`/`DropFields`. Handlers are user code:
they may track, push, answer Ok or Err, or panic.

### Shutdown — `lib/server.rs`, `Rapina::listen`, `Worker::run`, `run_worker`

`phase` is where `listen`/`serve` are; `"none"` is a process of workers alone.
`listening` is the set of tasks whose signal future was polled, `notified` those
the signal reached. A signal nobody listens to kills the process. A worker in the
`select!` at the end of its loop is at `"select"`, or at `"signal"` if a signal was
waiting when its sleep began: then the sleep cannot end first. If both ends come during
the sleep, either branch may be taken (`PollAgain`, `Stop`). The counts in
`claimed[w]` are rows that are `running`.

### Cache — `lib/cache.rs`

`entries` is the map from keys to entries, and `created` the rank of an entry's
`created_at`; `data` is the application behind the cache, one number per path, the number of the write. A request walks
through `CacheMiddleware::handle` and `InMemoryCache`, split where the map's
lock is released: lookup and removal of an expired entry, choice of the oldest
and its removal, check of the length and insert. Paths are sequences of
segments, queries sequences of parameters that the key sorts; a prefix may end
inside a segment, as `starts_with` on strings does (`SegmentPrefix`).

### RedisCache — `lib/cache_redis.rs`

Extends `Cache`: the middleware is the same, the backend's `get`, `set`, `SCAN` and
`DEL` are steps of their own, each of which may fail and is then as if there had been
nothing. `scanned[r]` is what the scans of a mutation returned and has still to be
deleted. If there are more keys than `ScanCount`, one SCAN sees any part of them.
A prefix goes into the glob pattern of MATCH unescaped: of the prefixes with such
characters (`GlobPrefix`), `GlobMatch` gives the keys that Redis matches (`Matches`), which
need not be those that begin with the prefix. `Drop` is the end of a request's future at
any of these awaits, when the client leaves or a timeout layer outside answers: a
mutation that wrote then leaves what it had not deleted. An entry that an
invalidation left behind for one of these reasons is `missed`.

### EventStream — `lib/response/stream.rs`

One response of server-sent events, over a channel or an iterator. `wakers` is what
the connection's task sleeps for; `PollEvent`, `PollEnd`, `PollKeepAlive` and
`PollPending` are the ways out of `poll_frame`. `encode` gives the lines of an event,
`Messages` what a browser reads from them.

### ApiContract — `src/rapina-macros/src/route/`, `lib/openapi/spec.rs`, `src/rapina-cli/src/commands/openapi.rs`

A version of the application is its handlers. `ResponseSchema`, `RequestBody` and
`HeaderParameters` are what the macros tell of one, `Accepts` is what their code asks of
a request: the parts that are there, and texts in path and headers that parse (`takes` is
the set of texts that do: all of them for a `Path<String>`, the digits for a `Path<u64>`). A
client's `Calls` carry any of the texts, as the document names no other type for them. A body is always required: `Option<Json<T>>` is no extractor of the library
and does not compile. `Document` the document, which is not there if the version does not start: two
handlers of one name (`Duplicate`) or two names for one parameter among the routes of a
method (`Conflicting`) are a panic. A branch is edited, exported and merged when `check`
and `diff` pass; a client is generated from the main branch some time.

### RateLimit — `lib/middleware/rate_limit.rs`

Tokens are counted in the time their refill takes, so that all is integer. A
request of thread `t` counts itself, may clean up shard by shard (`StartCleanup`,
`Retain`, `EndCleanup`), reads the clock (`ReadClock`) and only then takes the
lock of its bucket (`Allow`, `Reject`): a request with an earlier clock may come
later. Four variables are history: what a client spent, up to when it was
credited, what it was credited for twice (`rewound`), and what a removed bucket
forgave it (`forgiven`). `promised` is the time of the last retry-after header.

### Router — `lib/router/`, `lib/extract/path.rs`

A path is a sequence of bytes, a pattern one of bytes and parameters. The module
has `add_route` and `group`, the sort by specificity of `freeze`, the static map,
the trie's `insert` with its split of a node, its lookup with backtracking and the
clashes it panics at, and `extract_path_params` of the linear scan.

The trie is its arena, a sequence of nodes. `insert` is a walk with one step
(`Descend`) to a parameter, to a child that may have to be split, or to a new child;
each uses a token of the pattern at least. `Lookup` is a function of the depth of
calls: `lookup_recursive` is one call, given the results of the calls it makes, and
`MaxDepth` is a depth no lookup exceeds. Patterns with a colon inside a segment are
left out (`RouterAssumption`): `trie.rs:109` says that they are refused.

### Pagination — `lib/pagination.rs`

A client's walk by cursor (`FirstPage`, `After`, `Before`) or by number
(`StartOffset`, then `FetchPage` and `NumItems` in any order, as the two queries
run together), over a table that other requests change. Limits of 0 and above
the maximum are requests that are refused. The walk by number takes the handler's
`select` to order the rows by id (`Place`); without an order no page is defined.

### Pipeline — `lib/middleware/`, `lib/metrics/`, `lib/auth/middleware.rs`, `lib/app.rs`

The builder calls put layers on a stack, `Prepare` puts auth and metrics behind
them. A request goes inward (`Enter`, `Refuse`), is handled (`Handle`) and goes
outward (`Leave`); where it waits, a timeout layer may answer instead (`Expire`)
or the client be gone (`Disconnect`). Layers are an enumeration with what each
does to the context inward (`ContextInside`, `Logged`, `Guarded`) and to the answer
outward (`Outward`). What a layer answers itself is `AnswerBy`: a preflight has the
`Vary: Origin` of the cors layer.

### Jwks — `lib/jwt/jwks_client.rs`

Warm-up, ticks of the cron job and requests that find the cache empty are tasks
of two or three awaits: discovery, fetch, store. Nothing keeps two of them
apart. The provider numbers its key sets in the order it publishes them.

### DevLoop, TestRun — `src/rapina-cli/src/commands/dev.rs`, `test.rs`

`DevLoop` is `rapina dev`, with and without reload, and `rapina test --watch`: a
first build, the watcher that starts after it, the debouncer, the channel, and the
loop that kills, builds and runs. `TestRun` is one run of the tests: `cargo` prints
into two pipes of bounded room, `run_tests` reads one and then the other.

### Seeds — `src/rapina-cli/src/commands/seed.rs`

Two tables, one of which refers to the other, on SQLite, Postgres or MySQL, with
the foreign key checks and sequences of each, and an application that inserts
and deletes. `load`, with and without `--fresh`, is a transaction of one step per statement:
`LoadBegins`, `LoadEmpties` table by table, `LoadInserts` record by record,
`LoadCommits`. Others see the committed tables until the end and write meanwhile, except
to the rows the transaction has touched and, on SQLite, at all. Any statement may be
refused and any connection lost, the ones that switch the checks off and on and the commit included
(`LoadRefused`, `LoadInterrupted`): all is rolled back. `json_to_sea_value` loses what an `f64` cannot hold
(`exact`), and gives Postgres a text for a column of another type (`column`). A dump reads one
table after another; `generate` writes records without an id, of use only for an entity without
references. The records of a file go in in any order, of which the code's is one. One seed command
runs at a time.

### OpenApiImport — `src/rapina-cli/src/commands/import_openapi.rs`

The document comes operation by operation; each gives a handler to a module and
types to it, under names that are derived and made different. The name of a component's type
(`ComponentType`) and that of an inline body's (`HandlerType`) may be one, as
`to_pascal_case(&to_snake_case(name))` lets them be, and so may those of two components: then one of
the schemas has it. Then modules are written one by one, until one fails; the command can be
repeated.

### Migrations, SchemaTools — `import/`, `codegen.rs`, `schema_source.rs`, `migrate.rs`, `jobs.rs`

`Migrations` is what the three commands that create migrations do to
`src/migrations`. `SchemaTools` extends it with `rapina import database`, table by
table until one fails, with and without `--force`, and with the diff, which reads
the entities back, derives tables from them and compares (`InSync`, `Drift`); the key of an
entity that is not found is an i32. `jobs init` looks for its name in the text of
`mod.rs`, so that one that contains it (`JobsLike`) is enough. A `mod` line goes to the front of
the file and the name to the end of the macro's list, which is the order migrations run in.

### SchemaMacro, ImportedSchema — `src/rapina-macros/src/schema/`

`SchemaMacro` reads a block left to right; `Accepted` is what parsing and analysis
let through, `ModelFields` and `BackEdge` what is generated: a field for each entry of the
key, repeated or not (`WrittenAt`), the others, and those the macro adds. Names are compared as Rust
has them, and the foreign key of a relation has its name in snake case (`Snake`). `ImportedSchema`
composes it with `SchemaTools`: the blocks an import wrote, given to the macro.

### MC modules

`MCJobQueue`, `MCRelay`, `MCShutdown`, `MCCache` and `MCRedis` give the constants of one
component their values. `MCLibrary` (`RetrySchedule`, `JobConfig`, `RateLimit`,
`Router`, `Pagination`, `Pipeline`), `MCTools` (`Shutdown`, `Jwks`, `Cache`,
`EventStream`, `DevLoop`, `TestRun`) and `MCGenerators` (`OpenApiImport`, `SchemaTools`,
`SchemaMacro`, `ApiContract`, `Seeds`, `RedisCache`) each look at several components that share no
state: `part` says which one a behaviour moves.

## 3. The runs

| Run | Asks | Instance | Distinct states |
|---|---|---|---|
| `jobs_safety` | all safety of the job queue and the refinement | 2 workers, 2 jobs, batch 2, lease 1 tick, `max_retries` 2, 1 fault | 173 000 |
| `jobs_liveness` | `EventuallySettled` | 2 workers, 2 jobs, one with `max_retries` 3 and one with 0 and without a handler, batch 1, 1 fault | 86 000 |
| `jobs_execution_budget` | refutes `ExecutionBudget` | 2 workers, 1 job, no fault | |
| `relay_two_clients` | safety of topics, tasks and presence | 2 connections, 1 topic, 2 tasks, 2 pushes, every capacity 1 | 884 000 |
| `relay_liveness` | delivery, release, the limit | 1 connection, 2 topics, limit 1, 2 tasks, 2 pushes | 63 000 |
| `relay_topics_leak` | refutes `TopicsRemoved` | 1 connection, 1 topic | |
| `shutdown_abandons_batch` | refutes `NoJobAbandoned` | 1 worker | |
| `cache_redis_scan` | refutes `InvalidatesAll` | 2 threads, no fault, `ScanCount` 1, no glob | |
| `library` | six parts of the library, see below | | 1 526 000 |
| `tools` | six processes, see below | | 262 000 |
| `generators` | six parts that write or read files, tables and keys, see below | | 1 223 000 |
| `import_blocks` | refutes `ImportedBlocksCompile` | as `generators` | |

Why the bounds are enough for what they are asked:

* **Jobs.** Two workers are what a race needs: an owner, and a thief or reaper.
  With `max_retries` 2 both sides of every comparison with the budget occur,
  and three executions, one beyond the budget, are reachable (the run that
  refutes `ExecutionBudget` does so without a fault). A lease of one tick can
  end at each point of a run, because `Tick` is always enabled. `MaxLate`
  bounds how far in the past `run_at` is followed: earlier moments are all due,
  and only their order is lost (ties are broken freely). One fault is enough
  for each single failure at each point; the theorems do not depend on it.
* **Relay.** With every capacity at 1 lagging, a full funnel and a refused
  subscription happen at the second message or topic. Two connections are what
  a cleanup that harms another needs. `MaxForwarders` bounds subscriptions made
  in a behaviour, so one may unsubscribe and subscribe again.
* **Cache** (in `tools`). 2 threads, room for 1 entry, 2 routes, 2 spellings of a query,
  ttl 1, cleanup every 2 operations and 2 writes. One reader and one writer, or two readers, make every race of the
  code; room for one entry makes each second key evict. `/users2` is named so
  that the prefix `/users` runs into it, and belongs to a route `/:slug`
  without a static segment.

`library`, part by part:

* *Retries.* 4 kinds of policy, delays 0 to 60 under a cap of 50: below, at and
  above the cap divided by 4 and by 16. The budget of 9 passes the saturated exponent and
  the one from which the power is infinite (5 here, 512 for an `f64`).
* *Configuration.* 3 queues, at most 2 names in a call (`MaxNames`) and 4 builder calls: subscribe, override, override
  again and replace the list, in every order.
* *Rate limit.* 2 threads, 1 client, burst 2, 3 ticks to a token, 2 to a second,
  buckets stale after 4, cleanup every 2 requests, up to tick 7. A full refill takes
  longer (6) than a bucket needs to become stale, so that `forgiven` grows; the
  header rounds to whole seconds, 2 of which are no multiple of 3.
* *Router.* Every table of up to 3 of 10 patterns, 2 of them by way of a
  group, and all 121 paths of up to 5 bytes. The patterns share fronts, split nodes
  in the middle of a segment and beside a parameter, and backtrack.
* *Pagination.* 4 rows, two with one value of the cursor column, limits 0, 1, 2 and 9
  around a default of 2 and a maximum of 3.
* *Pipeline.* Every stack of 2 of the 7 kinds of layers, with and without auth and
  metrics behind them, and 2 requests of 3 kinds: a preflight, a traced request for a
  compressed answer, one over the limit without a token. Larger instances (3 layers, all
  32 kinds, 1 request) were checked once with the same result.

`tools`: a server with 2 workers, batches to 2, 2 requests and 2 hooks, or the
workers alone; 2 tasks and 2 rotations of the keys, for an OIDC client; 2 edits;
781 outputs of cargo, up to 4 lines each, over pipes of 2 lines; 7 outputs of a handler
(line ends of all kinds, no data, empty data, an error), a channel and a socket of one
each, and keep-alives of 2 ticks or none.

`generators`: documents of up to 3 of 11 operations in 3 modules, among them a component that is named
like a handler's request and one named like its query; 5 databases
(references of two key types, an entity whose name ends another's, unmappable columns,
a composite key, an irregular plural, reserved words, a table called `rapina_jobs`), 2
commands and 2 seconds; blocks of up to 3 entities with 3 fields in all, keys that list a column twice, and names
that differ in case only; 18 versions of
an interface of up to 5 handlers, among which branch, main branch and client move freely: a
method, a path, a field or a schema goes, a parameter is renamed, a header, a query or a
field of the body is asked for, a path or a header takes fewer texts, a field changes its type,
a body changes its form, two handlers have one name, or a parameter has two.

*Seeds* (in `generators`): SQLite and Postgres with references from the first table to the
second or the other way round, Postgres with and without a column whose JSON is text, MySQL with one
too wide for an `i64`. The application gives
out one id of each table, and a load of generated records a second one (`MaxParent`, `MaxChild`):
a row that refers, one it refers to, one it does not, and an id given out twice. Files with more
records differ in how often a step is taken. The theorem needs no bound.

*Cache over Redis* (in `generators`): 2 threads, 2 paths, 2 writes, commands that fail and requests
that are dropped. Two keys are more than a `ScanCount` of 1, and `/[t]/posts/all` is a pattern
that matches `/t/posts/all` and not itself. A ttl of 0 is one that SETEX refuses.

What they show, beyond passing:

* `NoStrandedRow`, `ClaimsAccounted`: whatever is lost, a `running` row carries
  a lease the reaper can see end, and attempts + (1 if it runs or completed)
  equals the number of claims. Nobody, owner, stale owner or reaper, charges a
  claim twice or not at all.
* `AttemptsFenceClaims`: the pair of id and attempts identifies a claim. The
  statements do not use it as a fence (they ask for id and `running` only), which
  is what lets a stale result through; comparing attempts as well would.
* `ExclusiveUnlessOverrun`, `LockHeldUnlessOverrun`: one worker at a time, and
  no lock ended early, as long as no lease of the job ran out under a live worker.
* `AttemptsBounded`: with overruns, the executions charged exceed the budget by
  at most one per other worker of the queue.
* `ImplementsLifecycle`: no late result revives or fails a finished job.
* `SubscribersReachable`: cloning the sender and subscribing to it are two
  steps, and still no cleanup in between strands a subscriber. This rests on the
  very defect `relay_topics_leak` shows: an entry is never removed. The mutant
  `DropReceiverLast`, which removes the entry as documented, breaks it; whoever
  repairs the leak has to close this window, too.
* `PresenceExact`: the two-step untrack loses nobody; the hub's own cleanup
  leaves nobody, except a join that tracked and was then refused, or a panic.
* `CacheCoherent` (`StaleOnlyByRace` of what the cache holds, `ReadsAcknowledged` of what it
  answers), `SettlesFresh`: the only stale entries
  are fills that a write overtook, routes without a static segment and, over Redis, what
  an invalidation did not see, could not delete or was dropped before; in memory, where
  liveness is checked, all end with their ttl.
  `RedisEntriesStay`: a DEL takes nothing but what the pattern of its prefix matches.
* `EventsArrive`: whichever of channel and timer wakes the task, nothing is lost,
  and silence never exceeds the interval; a lone CR cuts a value short (section 6).
* `ContractKept`: an operation a client knows is never gone while merges pass `diff`, and
  no field of its answer, unless a version in between had no schema to compare. Its calls are
  accepted with whatever texts, unless the document asks for something else by now or the handler for
  something no document tells (`Untold`): a query, or a text that parses. What diff
  calls breaking is so, but for a parameter that has another name now: its URLs still work.
* `CapacityRespected`: more than `max_entries` entries need two overlapping stores.
* `ScheduleKept`, `QueuesResolved`: delays follow the schedule, the budget is the number
  of executions, but where section 6 says that the documents ask for something else: there
  `ScheduleKept` says nothing. One worker per queue has the last override.
* `RateRespected`: a client gets its burst and its rate, plus exactly the time credited
  twice by a request with an early clock and the debt of a bucket removed before it was
  full. `RetryAfterSuffices`: who waits as long as told gets through.
* `ResolveAgrees`: static map and trie answer what the linear scan of the *sorted* routes
  answers, with two differences that section 6 names. Neither goes by the order in which
  routes were added, as the documents have it.
* `WalksCover`: a walk by cursor repeats no row and misses none that stayed, unless it
  shares its value with a row that was brought; a walk by number needs a table at rest.
* `AnswersExplained`: the gauge of requests in flight is exact whatever cuts a request
  short; trace id and Vary follow from the order of the layers as the property says, which
  is not always what the documents say (section 6); of those cases the property says nothing.
* `StopsInOrder` (`HooksAfterDrain`, `StopsBetweenBatches`), `SignalEndsAll`: hooks wait, workers stop
  clean, a drain ends in an exit.
* `KeysGoForward`, `RotationsReachCache`: a failed refresh takes nothing away; the cache
  goes back only by a refresh that was overtaken, and the next tick mends that.
* `CatchesUp`: no save is lost between watcher, channel and a build under way.
  `TestsEnd`: a test run ends and counts what it read, unless cargo fills stderr.
* `SeedsKeepData`: no row is left referring to nothing, unless a load committed unchecked files
  that are not one dump, or beside an application that added referring rows or removed
  referred ones: under READ COMMITTED a row that comes between two DELETEs of `--fresh` stays.
* `ImportFaithful`, `ImportKeepsSchema`, `SchemasSound`: what is written
  is what was read, with the exceptions each property spells out and section 6 lists.

A property that has exceptions states them, and holds only with them: each was put in
after TLC had found it and the code had confirmed it.

Each property of a passing run has a mutant in `PROJECT.json`: a definition with
a plausible slip, under which the run refutes the property.

## 4. Fairness

* `JobQueue!Fairness`: each worker goes on while it is up (tokio polls woken
  tasks, handlers return in the end, a supervisor restarts a process), and time
  passes. Nothing is owed of faults, and `MaxFaults` bounds them.
* `Relay!FairSpec`: tasks and connection loops go on; `select!` picks among
  ready branches at random, so a message waiting in the funnel is delivered if
  the loop returns to `select!` again and again: strong fairness of `Deliver`.
  Clients owe nothing.
* `Shutdown!ShutdownFairness`: worker steps and server steps happen, timers fire; a
  request handler may hang for ever, which is what the drain timeout is for.
* `Cache!CacheFairness`: a request that has begun ends, and time passes.
* `EventStream!StreamFairness`: the handler goes on, the runtime polls a task that is
  awake, time passes, and a client that has not left reads.
* `Jwks!JwksFairness`: ticks come, a future that can go on does, and a provider that is
  asked again and again answers some time (strong fairness of `Discover` and `Fetch`;
  between two answers it may fail as often as it likes).
* `DevLoop!DevFairness`: builds end, the debouncer's timer fires, the loop turns. The
  developer and the server owe nothing.
* `TestRun!RunFairness`: cargo prints and exits if it can, and the reader reads.

In `MCTools` the parts a behaviour does not look at rest where none of their fair
actions is enabled; the server's fairness is asked of its own part only.

`CHECK_DEADLOCK FALSE` is set where the system may stop: a process that has
exited, a builder or a generator that is done, connections that have closed, a bound
reached. The job queue never stops, and is checked for deadlock.

## 5. The proofs

| Theorem | Module | States |
|---|---|---|
| `TypeCorrect` | JobQueueProofs | `Spec => []TypeOK` |
| `ClaimsAreSafe` | JobQueueProofs | `NoStrandedRow`, `ClaimsAccounted`, `AttemptsFenceClaims`, `ExclusiveUnlessOverrun` always hold |
| `RowsNeverStranded`, `EveryClaimCharged`, `ClaimsToldApart` | JobQueueProofs | the first three, one by one |
| `LockIsHeld` | JobQueueProofs | `Spec => LockHeldUnlessOverrun` |
| `BudgetHolds` | JobQueueProofs | `Spec => []AttemptsBounded` |
| `RefinesLifecycle` | JobQueueProofs | `Spec => ImplementsLifecycle` |
| `EverythingStopsInOrder` | ServerProofs | `TypeOK` and `StopsInOrder` |
| `RateTypeCorrect`, `RateHolds`, `RetryAfterHolds` | RequestProofs | `RateTypeOK`, `RateRespected`, `RetryAfterSuffices` |
| `JwksTypeCorrect`, `KeysOnlyForward` | ServerProofs | `JwksTypeOK`, `KeysGoForward` |
| `RelayTypeCorrect`, `TopicsStay` | RelayProofs | `TypeOK`; an entry of the topics map is never removed or replaced |
| `SubscribersAreReached`, `PushesInOrder` | RelayProofs | `SubscribersReachable`, `DeliveredInOrder` |
| `PresenceIsExact`, `TasksWithinLimit` | RelayProofs | `PresenceExact`, `TasksBounded` |
| `CacheIsCoherent` | CacheProofs | `CacheCoherent` of the cache in memory |
| `CapacityIsKept`, `LiveEntriesStay` | CacheProofs | `CapacityRespected`, `FreshEntriesStay` of the cache in memory |
| `RedisIsCoherent`, `RedisLiveEntriesStay` | CacheProofs | `CacheCoherent`, `RedisEntriesStay` over Redis, whatever a SCAN leaves out, a pattern matches, whichever command fails and wherever a request is dropped |
| `EveryWalkCovers` | RequestProofs | `WalksCover` |
| `AnswersAreExplained` | RequestProofs | `AnswersExplained` |
| `ContractIsKept` | GeneratorProofs | `ContractKept` |
| `AcceptedSchemasAreSound` | GeneratorProofs | `SchemasSound` |
| `SeedsAreKept` | GeneratorProofs | `SeedsKeepData` |
| `ImportsAreFaithful` | GeneratorProofs | `ImportFaithful` |
| `TrieAgreesWithScan` | RouterProofs | `ResolveAgrees` |
| `ScheduleIsKept` | JobQueueProofs | `ScheduleKept` |
| `WorkersAreResolved` | JobQueueProofs | `QueuesResolved` |

They hold for every value of the constants: any finite set of jobs and workers, every
assignment of queues, budgets, batch sizes, leases and delays, any number of faults; any
rate, burst, cleanup interval and number of threads; any number of refreshes; any
connections, topics, capacities and limits of the relay; any paths, queries, mutations,
ttls and capacity of the cache; any routes, groups and paths; any finite table, column and page sizes; a stack of any
layers in any order and any number of requests; any versions of an interface, however many
are merged; any base delay, cap, budget and job id; any calls of the builder, with any
queues; any block of entities and fields; any rows, seed files and order of commands; any document that is imported, whatever part
of the modules is asked for and written before.

**Assumptions.** The ASSUMEs of `JobQueue`, `Shutdown`, `RateLimit`, `Jwks`, `Relay`,
`Cache`, `RedisCache`, `Router`, `Pagination`, `Pipeline`, `ApiContract`, `RetryPolicy`,
`RetrySchedule`, `JobConfig`, `SchemaMacro` and `OpenApiImport`, which TLC evaluates on every run:
finite sets, natural numbers where the code has them (a channel of the relay has room for
at least one message, the cache cleans up at least now and then, as the types and the
assertions of the code and of tokio have it; the power of 4 passes the cap before it becomes
infinite, which for an `f64` and a week it does by far), `NULL`, `NoJob`, `NoBucket`, `NoKeys`,
`NoConn`, `NoKey`, `NoToken` and `Missing` different from everything else, and a body that is the last argument of its handler, which
the traits of the extractors enforce; a path and a pattern that are not empty, and
parameters that are segments of their own. Of a document that is imported: one schema is the same
wherever it is used. Nothing is assumed of the names of its types, which may meet.

**The job queue's argument.** None of the invariants is inductive alone.
`ExclusiveUnlessOverrun` needs to know that a row that is claimed has no holder,
which is `AttemptsFenceClaims` (a holder whose attempts are the row's means
`running` or `completed`) together with the definition of `overran`; that in
turn needs that a worker outside `dispatch` holds nothing (`WorkerShape`).
Their conjunction is inductive, by a lemma per action: producers, reaping,
claiming, settling, crashing, and the rest, which leave rows and batches alone.
It is `JobSafe` in `JobQueueProofs.tla`, stated per job.

`LockIsHeld` follows from it: producers and claims touch only rows that do not
run, the reaper only expired ones, and without an overrun the worker that
settles a row is its one holder.

The budget needs a potential. A stale worker can send a job back to pending
only if the attempts it remembers leave budget: it is *granting*. From the last
budgeted execution on, attempts plus granting holders do not grow
(`JobBudget` in `JobQueueProofs.tla`): a claim adds a holder that is not granting, and each attempt
beyond the budget uses a granting holder up. There are at most as many of them
as other workers of the queue. The proof follows cardinalities through every
action.

The refinement is proved action by action: statements that reap or claim
several rows are one `Start` or `GiveUp` of a set, an uncommitted row is
invisible, settlement of a row that is not `running` stutters.

**Shutdown.** `BatchInv` says that rows are claimed only inside a batch; the
rest follows from the guards of `Stop`, `Drained` and `DrainTimeout`.

**Rate limit.** `RateRespected` bounds what a client spent, but not what its bucket
holds, and says nothing of how far `last_refill` may lag. The inductive `RateInv` adds the
account of each client: what it spent and still holds, plus what it was not credited for
yet, is what it started with, the time, and the two extras. `RetryAfterHolds` comes from
the same invariant: a refused request moves tokens and `last_refill` along one line, so
that what a later moment will find does not become less.

**JWKS.** `KeysGoForward` needs that what a task has fetched was published
(`FromProvider`), and that it is not older than the cache unless a store came between
(`FreshUnlessOvertaken`).

**The relay.** That a subscriber is reached needs only `ChannelInv`: a receiver's channel
is the registered one, and so is the one that `connection_loop` is about to subscribe to;
it is inductive because entries stay, which is `TopicsStay`. The order of pushes needs a
chain from end to end (`OrderInv`): for one client and topic, what it was sent, what waits
in its funnel, what the task holds and what the task has still to read follow one another,
and one task at most does the forwarding. For that the hub has to know its tasks
(`SubsInv`: what `subscriptions` lists is what was not aborted), at each of the places
`connection_loop` may be at (`LoopInv`). The limit is kept because a subscription that is
being made has its place already (`BoundInv`).

**The cache.** A stale entry is one that a write made old. `EntryInv` says of each entry
that no answered write is newer, and that a mutation under way that is newer still has to
remove it (`Pending`); `ResponseInv` says the same of a response on its way into the map,
which a mutation can only mark as raced. Both rest on the order of writes and answers
(`WriteInv`) and on one fact about data (`ChangedIsCovered`): what a mutation changes lies
under a prefix of `build_invalidation_prefixes`, or its route has none. The capacity
(`CapacityInv`) follows the store that is under way: the key it chose is counted as gone
before it is removed. Over Redis the same invariant holds with `ScanInv`, which says that
what a SCAN returned matches the prefix that is being removed, and that what it left
out is marked as missed, or was stored since and is current or raced. A request that is
dropped leaves nothing pending: what its mutation had still to delete is missed.

**The router.** The invariant (`RouterIInv`) is simple: patterns stay well formed, and after
`freeze` the routes are sorted and map and trie are what `BuildStatic` and `BuildTrie` make of
them. The work is in what these do, for any table. Linear scan and trie do not even look at
the same things, segments here and common prefixes of bytes there, so both are brought to one
notion: a pattern *reads* a path token by token (`Reads`), in one way only (`ReadsOnce`).
Segments that fit are a pattern that reads, and the other way round, with the same values
(`LinearReads`). The arena is a tree of words: each node stands for the front of some pattern,
different nodes for different fronts, and its edges for what may follow (`Spelled`, `Tree`).
A split, a new child and a parameter keep that, and keep every pattern that was inserted at its
node (`SplitTrie`, `LeafTrie`, `InsertTrie`); that a node has one parameter is where the panic at
two names is needed. A call of the lookup then has a meaning (`Answers`): of the patterns at or
behind its node that read the whole path it returns the one that is preferred, a byte before
a parameter at the first difference, with what it binds; and if there is none, it gives the
parameters back as it got them, which is what the next alternative starts from. This goes by
induction over the depth of calls (`CallAnswers`, `DeepRounds`), with a bound on how deep a call
has to go (`Need`). At last, of two patterns that read one path the preferred one is lower in
the order of the sort (`PreferredBelow`), so that the first of the scan is the one of the trie.

**Pagination.** By cursor, the token separates: what was brought lies on its one side, and
what is owed on the other, or has the value of a row that was brought. By number, as long
as nobody changes the table, the rows have places in one order, and pages are intervals of
places that follow one another (`OffsetInv`).

**The middleware stack.** `RequestInv` says of a request between two layers what the
property says of one that is done: on the way inward its id is the one that the layers
passed so far make (`Carried`), and on the way outward the headers are what the layers
between here and where the answer came from have to say (`Marked`). Each layer moves these
by one place. `CountInv` counts the requests whose guard the metrics layer holds, and a
layer that answers, a timeout or a lost connection gives back exactly one of them;
it also holds before `prepare()`, when there is no metrics layer.

**The API contract.** The document goes by the text of a path, the router by its URLs. That
the handler that answers is the one the document tells of (`ServesWhatItTells`) rests on
the router's panic at a second name of a parameter: two patterns with the same URLs would
differ first at a parameter (`OneNameForAParameter`), and of equal ones both take the last.
Over merges, `StillTold` is inductive: what a client knows is in the document of the main
branch, and what no version hid keeps type and fields. `diff` compares two neighbours only,
and that its answers add up needs that a type is the same on both sides before fields are.
That calls stay accepted (`CallsStayAccepted`) follows from what the document tells, as soon as the
handler takes every text; otherwise it is `Untold`.

**Loops and the settings of jobs.** A power and a loop over names are recursive functions
here. That such a function exists, and that it is what it says, is induction on the
number of rounds. The library's theorem of induction takes the claim as an operator, which
no installed prover instantiates, but the same induction works with the *set* of the rounds
at which a claim fails: if it is not empty it has a least member (`<` is well-founded on
the naturals), and that one contradicts the step. `Rounds` states this once, for all proofs
(`RoundByRound`, `Iteration`). `ScheduleInv` then says that the reference is the scaled
delay of the last failure: four times a delay below the cap is the next power, and at the
cap both stay (`ScaledSteps`, `PowersOfFour`). `ConfigInv` says that no queue is listed
twice and no name overridden twice, so that the first override found is the only one, and the
last that was given.

**The schema! macro.** That the macro's output means what the block says is a property of
every accepted block; the parser's only part is that blocks are typed (`BlockOK`). The hard
half is termination. `resolve_target_pk_type` follows keys that are relations, without a
bound of its own, and relies on `primary_key_relationship_has_cycle` in another pass, which went the
same way with the names it was visiting. `VisitExists` shows that this search is a function at
all: after as many rounds as there are names, another changes nothing. `TypeFound` then goes
along with it: where the search found no cycle with a set of names behind it, what is left
of the names is enough steps for the other one. So the type exists, does not depend on the
steps left (`TypeSettled`), and is the type of the column that the target's key gets
(`KeyTypeFound`, `KeyColumnFits`). That two columns have one name *only* for a repeated key
column or a shadowed foreign key, and always then, is `AcceptedColumnsDiffer`: where two fields of
the Model meet (`NamesMeet`) is followed through the checks of the analysis, and back
(`ShadowsMeet`). The way back of a has_many is settled case by case.

**Seeds.** A load is many steps, and `SeedsInv` says what holds between two of them. What the
transaction sees is the committed rows without those it deleted and with those it added
(`Seen`); where each statement is checked, all references in that view are good after each
(`LoadShape`), even if the load fails later. Where nothing is checked, `DumpGoesIn` follows a
whole dump: each of its records is still to be inserted, or its id is there, as long as nobody else
removes rows that may be referred to; and once a table is emptied, what is there are records of the
dump, as long as nobody adds rows that refer. So all references are good again at the commit,
although not in between, and if nobody wrote at all the dump came back exactly, because ids
differ. The load's state keeps both conditions (`crossed`, `alone`), and an unchecked commit that was
crossed, or of files that are not one dump, sets `excused`. That the
files are one dump is `DumpUnderway` while it is written and nobody writes rows, and
`FilesAreBackup` when it has ended.

**The import of a document.** `ImportInv` follows `parse` operation by operation. The bodies
that were parsed are one list, two for each operation, and the types of a module are what one
pass over it leaves (`TypesOf`): a body's type is its own unless a later inline body of the
same name replaces it, or it is a component's and the name was taken before (`Wins`). Parsing
appends to the list (`BodiesGrow`, `TypesGrow`), and the last inline body, or else the first component, is the one
that wins (`MakerWins`); if no other schema has its name, that is the schema that was asked
for. Handlers differ because the numbers that `seen_handlers` gives out are counted
(`HandlersCounted`), and what was written in full is not touched by a later module that fails
(`WritesKept`).

**Model-checked only.** Every liveness property (the prover handles neither fairness nor
ENABLED): `EventuallySettled`, `ReceiversReleased`, `PushesArrive`, `SignalEndsAll`,
`RotationsReachCache`, `SettlesFresh`, `EventsArrive`, `CatchesUp`, `TestsEnd`. Of the
safety properties: `ImportKeepsSchema`, whose import and diff go through a database table
by table with folds of the community modules, of which the prover sees no step.

## 6. Where the code and its documentation disagree

Shown by a run:

* `jobs_execution_budget`: a stale worker's failure puts a job back that has used
  its budget (`lib/jobs/retry.rs:140`); documented is a total execution count
  (`retry.rs:12`).
* `relay_topics_leak`: `BroadcastReceiver::drop` still counts itself
  (`lib/relay/backend.rs:131`); documented is that empty topics are removed
  (`backend.rs:42`).
* `shutdown_abandons_batch`: the process may exit while a worker is in its batch
  (`lib/app.rs:1187`); documented is that each finishes it (`lib/jobs/mod.rs:57`,
  `worker.rs:437`).
* `import_blocks`: an import of two tables joined by a foreign key writes a `schema!`
  block for each (`codegen.rs:692`), and the macro knows only the entities of its own
  block; documented are relation fields (`docs/content/docs/cli/commands.md:184`).
* `cache_redis_scan`: `invalidate_prefix` runs one SCAN from cursor 0 and leaves
  the returned cursor aside (`lib/cache_redis.rs:137`); documented is that all entries under
  the prefix are invalidated (`lib/cache.rs:69`).

The documents say something else than the code in the following places, too. The models have
what the code does; the property concerned leaves the case out, and its comment says so.

* `ScheduleKept`. `apply_failure` does not ask the policy (`retry.rs:140`), so that a job
  with the policy `none` and `max_retries` above 1 is retried at once; documented is a failure on the
  first error (`retry.rs:43`, `background-jobs.md:286`).
* `ScheduleKept`. The jitter comes on top of the one-week cap (`retry.rs:120`, against
  `:108` and `background-jobs.md:266`).
* `ResolveAgrees`. The static map and the trie go by what is more specific (`router/mod.rs:450`);
  documented is the order in which routes are added (`routing.md:277`).
* `AnswersExplained`. Compression and CORS each insert their `Vary` where they
  should append, and the outer one wins (`compression.rs:231`, `cors.rs:166`); documented are both
  headers (`middleware.md:124`, `:83`).
* `AnswersExplained`. The log's span has the context's own id and never that of an `x-trace-id`
  header, whatever the order (`request_log.rs:135`, against `middleware.md:467`).
* `CacheCoherent`, `RedisEntriesStay`. The pattern of MATCH is the prefix, unescaped
  (`cache_redis.rs:132`): for a path with `*`, `?`, `[`, `]` or a backslash in it other entries go
  than those under the prefix (`cache.rs:69`).
* `SeedsKeepData`. Generated records have no id, and a second load inserts them again
  (`seed.rs:325`); documented is that loads are idempotent (`commands.md:623`).
* `ImportFaithful`. Two schemas whose names come to the same share a type in the generated module
  (`import_openapi.rs:478`).
* `ImportKeepsSchema`. `jobs init` puts its migration at the end of the list (`migrate.rs:135`);
  documented is that it always runs first (`commands.md:418`).
* `ImportKeepsSchema`. `import database --force` removes an entity whose name ends with an imported
  one's (`codegen.rs:625`), although only its own duplicates are to be replaced (`commands.md:197`).
* `ImportKeepsSchema`. Imported migrations lack `created_at` and `updated_at`
  (`import/mod.rs:642`; `codegen.rs:535` says they stay in sync, and so do `commands.md:100` and `:182`).
* `ContractKept`. `openapi diff` looks at no field's type (`openapi.rs:294`); documented is
  that a changed one is breaking (`openapi.md:228`).

Noticed while modelling; the models have this behaviour, as an exception in the
property concerned where there is one.

*Jobs, relay, shutdown, cache*

* A delay of 0 becomes a week from attempt 514 on (`retry.rs:120`); a budget of 0 is one execution.
* A stale worker's result ends the current owner's lock (`backend.rs:191`,
  against `worker.rs:85`).
* A refused join leaves the presence entry its handler made (`hub.rs:202`); a
  broadcast also comes back to its sender (`hub.rs:276`); pushes taken by the old
  task may still arrive after `unsubscribed` (`hub.rs:218`).
* A worker listens for signals from its first `select!` on, so one in its first
  batch misses an earlier signal (`worker.rs:440`); so does a server that is still
  warming up while a worker already listens (`app.rs:1195`).
* A fill that a write overtook is served until its ttl ends (`cache.rs:284`);
  mutations of `/:slug` invalidate nothing (`cache.rs:424`); overlapping stores
  exceed `max_entries` (`cache.rs:108`); a streaming response keeps the internal ttl
  header (`cache.rs:292`).

*Requests*

* The trie takes no empty last segment for a parameter, the linear scan does; of two
  routes with one pattern the static map and the trie answer the last, the scan the
  first. A pattern that names a parameter twice is accepted, and its values depend on
  the lookup. `trie.rs:109` says that `split_pattern` panics for `/:name.txt`; its
  assertion compares a value with itself and cannot fail, and the parameter is
  called `name.txt`. A colon later in a segment is not refused either (`/:x/a:b`): such a
  segment is a parameter for the trie and text for the linear scan; the model has none. Two names at one place do panic, at `freeze`.
* Rows with the same cursor value as the last of a page are skipped; a default larger
  than the maximum is not capped but refused (`pagination.rs`).
* A tower layer inside the trace layer gives the handler another id than the
  answer carries.
* Requests that a layer answers (preflight, limit, auth, timeout) are not in
  `http_requests_total`: metrics is the innermost layer.
* A request that reads the clock before it waits for its bucket sets `last_refill` back
  (`rate_limit.rs:155`), which credits time twice; a stale bucket is forgotten
  with its debt, if a refill takes longer than `STALE_AFTER`.
* The JWKS warm-up has no timeout, and job workers run before it is over; a token
  with a key the cache does not have waits for the next tick, because only an empty
  cache is refreshed by a request.

* `SseEvent::encode` breaks lines at LF only, while a browser ends them at CR as well: of
  data with a CR inside of a line only the part before it arrives (`response/stream.rs`).
* The OpenAPI document tells no query parameters and no body of GET or DELETE
  (`route/mod.rs:147`).

*Developer tools*

* `openapi diff` compares only the `type` of a whole answer; an answer without a schema, or a
  union, whose schema has no `type`, matches everything. The document gives a path
  parameter no type and every header that of a string (`openapi/spec.rs:253`), so that a handler that
  comes to parse a number refuses calls that the document allows, and no diff sees it
  (`extract/path.rs:54`, `extract/header.rs:168`).
* `rapina dev`: a server that was killed for a rebuild that failed is reported as
  crashed; saves before the watcher starts are not noticed.
* `rapina test` hangs if cargo writes more to stderr than a pipe holds before it is done
  with stdout (`test.rs:100`).
* Seeds: `PRAGMA foreign_keys` has no effect in the transaction of `load` on SQLite; a dump
  is no snapshot; a row the application inserts between two DELETEs of `--fresh` may be left
  referring to nothing where the checks are off (`seed.rs:364`); Postgres refuses a text for a column
  of another type, which is what every null and UUID goes in as (`:418`); loaded ids are unknown to a Postgres sequence, and the next inserts
  collide; `generate` writes relations by name, and under a plural the macro may not use.
* `import openapi`: inline types are named before handlers are made different, so the
  last of two wins; a document may name an operation `foo_2` itself; whether a component
  is a type to read or to write depends on its first use; a failure leaves earlier
  modules written.
* `import database --force` removes a hand-written block with several entities, too; a repeated
  import after a failure doubles entities and migrations, and a forced one registers a
  second migration that creates the table. A table called `rapina_jobs` makes `jobs init`
  believe it is done, as does any text that contains the name. A `mod.rs` without the macro registers nothing.
* The diff reports what cannot be expressed: irregular plurals, unmappable columns,
  foreign keys not named or typed like the key they refer to, other timestamps.
* `schema!`: `author: User` beside a scalar `author_id` gives two columns of one name, and so do
  `#[primary_key(a, a)]` and two relations that differ in case only; a
  `Vec` field without a relation back does not compile; entities that only have many of each
  other, or a `#[related]` on a `Vec` field, recurse without end at run time; `Option` on a
  scalar primary key is dropped.

## 7. What is not modelled

* In the modelled parts: payloads, error texts and trace ids of jobs; the
  topic patterns of channels; wire messages that change nothing; statuses, headers
  and bodies of cached responses; keep-alive connections during the drain; rounding of
  floating point numbers in the rate limiter; the encoding of page tokens; headers other
  than those the properties name.
* Redis as a server: connections, expiry in fractions of a second, the encoding of values.
* Authentication beyond its place in the stack: which route is public and what a
  token says are data of one request, and the cryptography is a library's.
* Whether cron jobs still start while hooks run (`app.rs:600` registers the cron hook after
  the application's): when a tick is due is decided by a library.
* Pure conversions: extractors beyond what a request has to bring, validation, errors,
  llms.txt, GraphQL, the relay's JSON.
* Wrappers around libraries: telemetry spans, database set-up, the WebSocket adapter, streams of
  bytes.
* Code and project templates, `add`, `new`, `doctor`, `agents`, `routes`: each
  writes fixed files once or prints what it was told. Relay and config macros
  turn one function into calls of the library.
* Tests: more than half of the lines of many source files are their unit tests, which is
  why the mapped lines are a small share of all.

`PROJECT.json` gives the reason for each component.

## 8. Plan

Done, in this order: the job queue, because its failures lose work; the relay,
shutdown and the cache, the other parts with real concurrency; the request's way
(rate limit, router, pagination, middleware stack, keys); the tools that write what
others read (developer loop, seeds, imports, migrations, `schema!`); the cache over
Redis, event streams, the OpenAPI document.

What could follow:

1. A composition of `Shutdown` and `JobQueue`: a batch abandoned at exit is
   recovered by another process, after the lease.
2. `agents`, which edits a file the developer edits, too.
3. A proof about the import of a database and `migrate diff` (`ImportKeepsSchema`), with their
   loops as recursive functions and `RoundByRound`, as for the import of a document and the trie.

## 9. Running

    tlc -workers 2 -config MCJobQueueSafety.cfg MCJobQueue
    tlapm JobQueueProofs.tla

`PROJECT.json` lists each run with its module and configuration.

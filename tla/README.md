# Evictor: TLA+ models, checks and proofs

Evictor is an observability backend for serverless GPU inference. What the
repository holds today is the process around the product: an API server, a
bounded worker pool with a drain protocol, a process life cycle that turns
outcomes into exit codes, request logging, a PostgreSQL store with its
migrations, and a mock GPU provider. This directory models the parts in which
several goroutines, processes, timers, statements or late requests interact,
checks them with TLC and proves the central ones with TLAPS.

## 1. Inventory

| Component | Source (under `src/backend/`) | State | Operations | Here |
| --- | --- | --- | --- | --- |
| Worker pool | `internal/workers/pool.go` | closed flag, jobs channel, three atomics, two contexts, `done` | `Submit`, `Start`, `Wait`; goroutines `work`, monitor, `drainQueue` | `Pool` and six companions |
| Metrics counters | `internal/metrics/counters.go` | one gauge, four counters | adders, `Snapshot` | adders in `Pool`, `Snapshot` in `Scrape` |
| Process life cycle | `internal/app/{process,shutdown}.go`, `cmd/evictor`, `workers/run.go` | budget, exit code | `Run`, `role`, `serveAPI`, `ShutdownBudget.Context` | `Process` |
| API server | `internal/api/services/server.go` | `serveResult` | `Serve` | `Process` |
| Configuration | `internal/config/config.go` | none | `Load`, `ParseRole` | `Config`, used by `Process` |
| HTTP handlers | `internal/api/handlers/*.go` | none | liveness, readiness, metrics | readiness ping in `Process`, metrics in `Scrape` |
| Request middleware | `internal/api/middleware/*.go` | bounded attribute list per request, behind a mutex | `AddAttrs`, `RequestLogger` | `RequestLog` |
| Storage | `internal/storage/{store,db}.go` | the rows of eight tables | one SQL statement per method | `Storage`; `Open`, `Ping`, `Close` in `Process` |
| Migrations | `internal/migrations/*.sql`, `internal/storage/db.go` | the schema, its recorded version | `RunMigrations`, `MigrateDown` | `Migrations` |
| Identifiers, models | `internal/primitives`, `internal/models` | none | `LogValue` methods, constructors of ids | rows in `Storage`, `LogValue` in `RequestLog` |
| Mock provider | `internal/mockprovider/*.go` | map of endpoints behind a mutex, a clock | `Get`, `SetScenario`, `Status`, `Invoke`, `Reset`, two handlers | `MockProvider`, `EndpointTimeline` |
| Frontend theme | `frontend/src/components/theme-toggle.tsx`, `app/layout.tsx` | `localStorage`, a class on `<html>` | `setPreference`, three listeners | not modelled |
| Logging | `internal/logging/logging.go` | none | `New`: handler and level | the level in `RequestLog` |
| Mock provider command, scripts, placeholder packages | | none worth a model | | not modelled |

How they interact: `Run` loads the configuration, starts the budget's
goroutine, opens the database, starts the pool, serves HTTP until the signal, shuts the server down, and waits
for the pool under the budget's deadline. Pool and budget watch the *same*
context independently; nothing orders them but time. The pool tells callers
about losses only through `Wait` and the abandoned counter. `/metrics` reads
the pool's counters without a lock while it works. Every request passes through
`RequestLogger`, whose attribute list the handler's goroutines share with it.
The store is called from many goroutines of many processes and leaves all
coordination to PostgreSQL's constraints; migrations coordinate by the advisory
lock that golang-migrate takes.

What is hard: the channel is consumed without the lock that guards sends and
the gauge; after the drain deadline two kinds of consumers empty it; the loss is
computed while jobs still settle; every select in the shutdown may find both
branches ready; four timers must nest; mock-provider handlers read the clock
before a delay and use the value after it; a scrape's loads are torn apart;
goroutines outlive the handler whose log line they write to; a reply that never
came leaves a caller to guess whether its statement took effect; a process may
die between any two steps of a migration. `PROJECT.json` lists each hazard at
its line, with the properties that cover it or the reason none does yet.

## 2. Modules

| Module | What it is |
| --- | --- |
| `Pool` | the worker pool; one action per step of one goroutine between two points others can observe |
| `PoolInvariant` | the inductive invariant `IInv`, in named parts |
| `PoolProofs` | theorems about `Pool` |
| `DrainLedger` | abstract: jobs are accepted, settled, or reported lost when shutdown closes |
| `PoolSummary` | abstract: what `Process` reckons with, jobs owed, the monitor's station and the report |
| `PoolRefinement` | refinement mappings from `Pool` to `DrainLedger` and to `PoolSummary` |
| `PoolRefinementProofs` | that every step of `Pool` is one of `DrainLedger`, and one of `PoolSummary`, or a stutter |
| `MCPool` | instances of `Pool` |
| `MockProvider` | store and handlers with lazily advanced endpoints and captured clocks |
| `EndpointTimeline` | abstract: endpoints change state by themselves at the due instant |
| `MockProviderProofs` | theorems about `MockProvider`, and that with the tests' clock it implements `EndpointTimeline` |
| `MCMockProvider` | instances of `MockProvider` |
| `Scrape` | extends `Pool`: a reader of `/metrics` beside it, load by load |
| `ScrapeProofs` | theorems about `Scrape` |
| `MCScrape` | an instance of `Scrape` |
| `Config` | `Load` as operators on an environment |
| `Process` | extends `Config`: start-up and shutdown with timers, exit codes and the pool reduced to `PoolSummary` |
| `ProcessInvariant` | the inductive invariant of `Process`, in named parts |
| `ProcessProofs` | theorems about `Process` |
| `MCProcess` | an instance of `Process`, with the environments it starts in |
| `RequestLog` | `AddAttrs` and `RequestLogger` |
| `RequestLogProofs` | theorems about `RequestLog` |
| `MCRequestLog` | an instance of `RequestLog` |
| `Storage` | the methods of `Store` as statements over the constraints of the schema |
| `StorageProofs` | theorems about `Storage` |
| `MCStorage` | an instance of `Storage`: the rows and the database to begin with |
| `Migrations` | the two callers of golang-migrate over the effects of the four files |
| `MigrationsProofs` | theorems about `Migrations` |
| `MCMigrations` | an instance of `Migrations` |

An operator whose comment begins with "Broken" is not part of a model: it is the
code with a plausible mistake, kept beside the definition it would replace, and
`PROJECT.json` says which property notices.

### Pool

`call[j]` is where the `Submit` of job `j` is: a job in `"sending"` or
`"counting"` owns `stateMu`, so `LockFree` is the mutex. `stage[j]` is where an
accepted job is: `queued`, `pulled` (received, gauge not yet decremented),
`check` (the context test in `work`), `start`, `running`, `failed` (the loop of
`execute`), `dead`, `counted`, `hook` (`recordDeadLetter`), `settling`,
`settled`. `hold[c]` is the loop variable of `range p.jobs` in consumer `c`.
`monitor` and `drainer` are program counters of the two shutdown goroutines.
`drainer # "off"` is the memory of the drain deadline having passed. `recorded`
and `late` are history variables. `recordAbandoned` loads `accepted`, then
`settled`; nothing is accepted any more by then, so the pair of loads is the one
load of `settled`. A panic of a job is a `Fail`, as `runJob` makes it. Timers
are nondeterministic: `DrainExpired` and `UnwindExpired` are enabled from the
moment the timer exists, which covers every duration and both outcomes of a
select with two ready branches.

Outside the model: a job that calls `runtime.Goexit`, and a dead-letter sink
that panics (the process dies). `Wait` only reads; `LossReported` speaks of what
it returns, and `Process` contains the call.

### Scrape

The struct literal of `Snapshot` loads `depth`, `processed`, `failed`,
`deadLettered` and `abandoned` in this order, one atomic load after the other;
`loads` is what remains of it, and every step of `Pool` may fall in between.
`afterDone` remembers that a scrape began when `done` was closed. After a drain
that expired no scrape of the program does (a finding below); a quick drain may
close `done` while the server still answers. The module is about the counters as
a later reader finds them, and about what a torn answer can be trusted for.

### MockProvider

A handler's locals are a record: the captured `now`, and the scenario looked up
before the injected delay. `Advance` is the loop of `advance`, closed: warming
may become warm and at once cold. `VirtualClock` selects the clock: `TRUE` is
the tests' clock, moved only between requests; `FALSE` is real time, which passes
at any point. `lastUse` is a history variable. `WorkersMin` is a constant zero:
the comment at `state.go:112-113` speaks of a bump of it, but nothing writes it.
The service in `cmd/mock-provider` sets no scenario; a delay between the two
uses of `now` is then the scheduler's, and becomes large with a
`Scenario.LatencyMs` set through `Store.SetScenario`.

### Process and Config

The process begins in some environment of `Environments` and with arguments;
`LoadConfig` is `config.Load`, after which `cfg` is what the rest of `Run` uses.
Values are texts, `Trimmed`, `Numerals` and `Lowered` the tables of
`strings.TrimSpace`, `strconv.Atoi` and `strings.ToLower` on the texts that
occur. Which of several errors `Load` names first is left out: every one ends in
exit code 1. `Load` takes any positive port; one above 65535 is refused by
`Listen`, when the database is open and the pool has been started, and `Ports`
is what `Listen` takes.

Time is counted from the signal. Each goroutine that can run does so within
`latency`, chosen once from `Latencies`: how busy the machine is. `mainBy` and
`poolBy` are the instants by which the next step of `Run` and of the pool's
monitor must have happened, and `Tick` waits for them. The pool is the one of
`PoolSummary`, an instance over four of the variables of `Process` (`signalled`,
`pool`, `owed`, `reported`); its steps are conjoined with what they do to the
clock's bounds and the two timers. That `Pool` takes no other steps is
`ImplementsSummary`. `database.Close` waits for connections
to be returned, which is pgxpool's behaviour and not in this repository;
`pinging` counts the readiness pings that hold one. No handler of the repository
submits jobs yet: `JobAccepted` is the pool's interface as a later handler would
use it. `inflight` counts the connections `http.Server.Shutdown` waits for, and
how it waits is `net/http`'s behaviour. Once the exit code is decided the clock
is no longer advanced. A signal during start-up is followed within `latency` by
the next step of start-up.

The budget is made when the configuration is there, and `budget` is the zero time
until its goroutine has anchored it: a wait that read it before `ready` is closed
would expire at once (`BeginWaitEarly`). The branch of `deadline` for a parent that
has not ended is left out: `Run` waits for the pool only after `Serve` has returned
nil, which it does not before the signal.

### RequestLog

An attribute is a key and a value. A key is a spelling, `NameOf` the name that
`isSafeRequestAttr` makes of it (lower case, `-` and `.` read as `_`); a value is
a scalar, an opaque `Any`, a group, or one of the models whose `LogValue` makes
a group or a string of it (`Members`). `adding[r]` is the call of `AddAttrs` that
holds the mutex and the arguments it has left: a step adds one attribute, so
another goroutine and the copy in `attributes()` meet every point in between.
`offered` and `seen` are history variables. A handler that panics is
`HandlerPanics`: `RequestLogger` has no deferred call, so no line is written,
and `FailureLogged` promises one only when the handler returned. `level` is
`LOG_LEVEL`, any of the four: the line is written at `Info`, so at `warn` and
`error` none is, not even for a request that failed, and `FailureLogged` says so.

Left out: request ids and their header, the field for the method, and the lookup
of the logger in the context; they only format.

### Storage

A method of `Store` is one statement and its own transaction. `calls[i].server`
is the statement's fate at PostgreSQL, `calls[i].caller` what the caller knows
of it: it may give up (`GiveUp`) while the statement still waits for a lock,
takes effect, or is dropped. A retry is another call with the same row.
`order` is the place of a commit among the commits, and `now()` of a statement is
the place of its beginning, `Now(i)`. `StoredAs` is what the database keeps of a
key: pgx sends timestamps in microseconds, and `effective_from` is part of the
key of a price. `time` is the other timestamp a caller may send (`expires_at`,
`occurred_at`, `taken_at`), and `Micros` what is left of it. What excuses the loss of
a row is the deletion of the row, its parent, or the project of that parent, which
`Owned` finds among the rows that were there or have been inserted. `Accepts`
is the schema: primary keys, references, the checks and
the partial unique index on active names. `Cascade` is one level of
`ON DELETE CASCADE`; two levels suffice for this schema, which is what
`CascadeTwice` of `StorageProofs` proves. No method deletes yet: `Delete` is what
the schema provides for when an operator or later code does.

### Migrations

`RunMigrations` and `MigrateDown` read the version, then for each file mark its
version as dirty, run it, and mark it as clean, under an advisory lock that ends
with the session. `Succeeds` and `Effect` are the files' preconditions and
effects, from the order of their `CREATE TABLE` and `DROP TABLE` statements and
the references between the tables; a file is one implicit transaction.
`Interrupt` may follow any step of a runner, and stands for a `newMigrator` that
fails, too: such a call never has the lock. golang-migrate gives the lock back
itself before `Up` and `Down` return; the model gives it back with the return
(`Return`). A database is whole for version 1 with its tables, whatever prices are
in them: which prices a half-run seed would leave is not asked, for its file runs in
one transaction. `InsertPricingDefault` is the store
of another process, which may insert a price that a seed collides with. The
database begins empty; the rewriting of the URL's scheme is left out.

## 3. Runs

| Run | Instance | Shows |
| --- | --- | --- |
| `pool_safety` | 3 jobs, 2 workers, capacity 2, 2 attempts; symmetry | type invariant and six safety properties of the pool |
| `pool_shutdown` | 2 jobs, 2 workers, capacity 1, 2 attempts | shutdown always ends whatever jobs and sink do; the pool implements `DrainLedger` and `PoolSummary` |
| `pool_stuck` | 3 jobs, one never returns, 1 worker, capacity 1, 1 attempt | a full queue refuses and gives the lock back; queued jobs are settled by the drainer behind the stuck worker; every other accepted job settles |
| `scrape` | 3 jobs, 1 worker, capacity 1, 1 attempt, one scraper; symmetry of jobs | what a torn snapshot still promises, four properties |
| `mock_late` | 1 endpoint, 2 handlers, real clock, 6 instants, cold start 2, idle timeout 3 | type invariant and no restarted cold start under late requests |
| `mock_timeline` | 1 endpoint, 2 handlers, tests' clock, 7 instants | lazy endpoints implement the eager timeline |
| `mock_stale` | as above with the real clock | **violation** of `IdleHonoured`, a finding |
| `process` | timeout 3, margin 7, unwind window 1, latency 1 or 2; 24 environments | configuration, timers, exit codes and the end of `Run`, seven properties |
| `process_scrape` | the same with latency 1 | **violation** of `LossScrapable`, a finding |
| `request_log` | 1 request, cap 2, 4 calls of up to 3 attributes, a probe and another route, the four levels | what a completion line may carry and when there is one, four properties |
| `storage` | 12 inserts over all tables, 2 medians, 4 rows to delete, 3 statements, 2 instants of one microsecond | constraints under late, lost and repeated statements, five properties |
| `migrations` | 2 runners, 5 calls, 2 seeds and another price; symmetry | what a recorded version and a result promise, five properties |

Why the bounds are enough. Three jobs are one in the sink, one running and one
queued, or two queued behind one in flight; capacity two makes `ErrQueueFull`
reachable with one of them; two workers and the drainer are three consumers;
two attempts make first and last attempt differ. The liveness runs use less
because they explore the behaviour graph with fairness. In `pool_stuck` one
worker is the hard case: no one but the drainer is left. One place in the queue lets
a third job meet a full queue behind a stuck worker, where a caller that waited for
room would hold `stateMu` against the shutdown. In `scrape` worker and
drainer are the two consumers that can fail a job between two loads, and three
jobs are one more than they can hold. For the mock provider,
`ColdStart < IdleTimeout < Horizon` lets one call cross both thresholds and two
handlers hold different instants. In `mock_late` a cold start takes two instants, so
that a late invocation falls inside one. In `Process`, `Timely`
bounds the latency by the two races it decides: five late steps of the pool and
its unwind window (`UnwindWindow + 5 * latency`), and six late steps of `Run`
after a signal during start-up (`6 * latency`), must both stay below `Margin`.
Latency 1 meets both with nothing to spare; latency 2 does not, and the wait can
then expire. With the code's values (1 s, and 100 ms of unwind window) the second
decides: it leaves 166 ms of scheduling latency. In
`RequestLog` requests share nothing, so one is enough; its calls hold an
attribute refused at each depth, and with a cap of two a call may reach the cap
in its middle. Three statements are a row, one that competes with it or depends
on it, and a deletion or a retry; the database to begin with already has an
endpoint of one project with a provider of another, so that all three can be spent
on the race and a provider can go without its endpoint. Five calls let two runners migrate, be interrupted, meet at the lock,
migrate down and start again.

`CHECK_DEADLOCK` stays on everywhere: `Terminated`, `Exited` and the three
actions `Finished` are the stuttering steps of a system that has really ended (or
has used up its bound on calls with nothing under way), and the mock provider
never ends.

### Fairness

A runnable goroutine runs: weak fairness per goroutine. The three lock
acquisitions that compete with callers (`jobDequeued` of each consumer and
`stopAccepting`) are strongly fair, because `sync.Mutex` hands itself over to a
waiter after one millisecond. Timers fire (weak fairness of the select that has
the timer as a branch). Nothing is assumed of callers, of the signal, of jobs,
or of the sink in `FairSpec`; `CooperativeSpec` adds that jobs outside
`StuckJobs` return after their context is cancelled and that the sink returns.
In `Process` the goroutines and time progress; clients, jobs and the database
owe nothing. `Scrape`, `RequestLog`, `Storage` and `Migrations` are about safety
and assume nothing.

### Properties worth knowing

- `LossReported`, `ImplementsLedger`: `Wait` returning nil means that nothing was
  lost; the report never under-counts although jobs keep settling while it is
  taken. It may over-count, and `DrainLedger` says so: a job reported may settle
  later.
- `GraceHonoured`: the signal by itself cancels nothing.
- `LateBounded`: the window between a context test and `runJob` is real; it
  admits one attempt per worker and no more.
- `WaitInBudget`: the order of two independently anchored timers, under bounded
  latency.
- `SignalEnds`: `Run` always decides; only `database.Close` may then wait, for a
  readiness ping that has no deadline of its own.
- `SkewBounded`: failures are loaded before dead letters, so an answer may show
  a failure that is not yet a dead letter, at most one per consumer, however long
  the scrape takes. Loaded the other way round there would be no bound.
- `LossShown`: `recordAbandoned` runs before `done` is closed, so a complete answer
  begun afterwards accounts for every accepted job.
- `FirstComeFirstLogged`: a call of `AddAttrs` is seen by the line as a whole or
  not at all, and the cap keeps the first attributes in the order in which the
  calls got the lock, also when a goroutine outlives its handler.
- `AckedStays`: a retry of an insert that had taken effect is refused and changes
  nothing; what was acknowledged is found with every column of the statement, its
  timestamps at the precision of the database, and the timestamp returned, until
  the row, its parent or the project of its parent is deleted. The deletion of
  another project is no excuse. An endpoint's provider may
  belong to another project, for the schema does not compare the two, and is then
  unset when that project is deleted.
- `FailureLogged`: a failed answer has its line at `debug` and `info`, on probe
  routes, too; an operator who sets `LOG_LEVEL` to `warn` or `error` loses the
  completion lines of failures with all others.
- `ConfigSound`: what `Run` opens, starts and listens on is what its configuration
  allows. It does not say that a bad port is found early: that one is found last.
- `LastUpsertWhole`: a warm median is never a mixture of two upserts; but the last
  commit wins, which need not be the one that began last.
- `DirtyMeansBetween`, `NilMeansReached`: an interruption loses no more than the
  mark; what a dirty version needs is a decision, never a repair of tables.
- `ErrorMeansDirty`: the down file drops tables in an order that the references
  allow, and nothing but a price in the way of a seed makes a file fail.
- `ImplementsSummary`: what joins `Pool` to `Process`. The pool as the process sees
  it may close `done` without a report only when nothing is owed, and with one
  that covers what is owed at that instant, jobs that settle meanwhile included.
- `ImplementsTimeline`: with a clock that stands still during a request, lazy
  advancing cannot be told from eager.

### Findings

- `mock_stale`: a handler delayed between `clock.Now()` and `store.Invoke` moves
  `LastInvokeAt` back, so a warm endpoint goes cold before it was idle for
  `IdleTimeout` (`state.go:70` against the comments at `:18` and `:27`).
- `process_scrape`: `process.go:123-124` says that an abandoned job "surfaces on
  /metrics"; the counter is raised after the listener is closed and the process
  exits next, so no scrape can see it. The log line is the only trace.

## 4. Proofs

`PoolProofs` proves, for any finite sets of jobs and workers, any capacity and
any number of attempts, from `JobsAssumption`, `WorkersAssumption`,
`OptionsAssumption` (`NewPool` replaces values below one) and `StuckAssumption`:

| Theorem | Property |
| --- | --- |
| `TypeCorrect` | `TypeOK` |
| `Inductive` | `IInv` |
| `SendSafe` | `NoSendOnClosed` |
| `RecordsOnce` | `RecordedOnce` |
| `GraceKept` | `GraceHonoured` |
| `AtMostOneLate` | `LateBounded` |
| `CountersInOrder` | `CountersOrdered` |
| `LossIsReported` | `LossReported` |
| `DepthIsSound` | `QueueDepthSound` |
| `RunsByOne` | `RunByOne` |
| `NilIsAccounted` | `NilAccounts` |

None of the properties is inductive. `IInv` adds the structure they rest on:
`LockInv` (one `Submit` at a time in its critical section, none after closing,
and a job is in the channel or beyond exactly when it was sent), `QueueInv` (the
buffer holds each queued job once), `HoldInv` (a job taken has one consumer),
`ShutdownInv` (the order of the shutdown's stations), and on these the counting
parts: `CountInv` ties each counter to the cardinality of a set of jobs,
`LossInv` says that what `recordAbandoned` took covers what is unsettled, since
after `stopAccepting` the set of accepted jobs is fixed and settled jobs only
grow. The proof first sorts the steps into four shapes (`Shapes`: a step of
`Submit`, a receive, a move of one held job, or a step that leaves jobs alone),
so that the structural parts need four cases and not twenty.

`CountersOrdered`, `RunByOne` and `NilAccounts` are consequences of `IInv` that no run
checks on its own. The last says what a caller may conclude from `Wait` returning nil:
no accepted job is owed, and the counters leave none out.

`PoolRefinementProofs` proves `PoolKeepsLedger`, that `Spec` implements
`Ledger!SafetySpec`, which is `DrainLedger` without its fairness. `IInv` gives
`accepted - settled` as the number of jobs the ledger owes (`OwedCount`), so
that `Report` finds a count that covers them; `ReportInv` adds that `abandoned`
is still zero until the report, hence that it is made once.

`PoolKeepsSummary` proves `ImplementsSummary`, so that `Process` and `Pool` are two
halves of one argument: `ZeroAccounts`, say, is about the pool of `Pool` although
`Process` runs only its summary. `StationKept` says that the drainer, once started,
tells which timer the monitor has behind it. The report is the hard step. The
summary reports when `done` is closed, the pool earlier, in `recordAbandoned`, and jobs
go on settling between the two: `LossInv` has the count cover what is still owed,
and `LossFirst` adds that it is no more than was accepted and zero if no timer
expired.

`ScrapeProofs` proves the four properties of a torn answer, for the same constants
as `PoolProofs`:

| Theorem | Property |
| --- | --- |
| `ShownTotalsRise` | `TotalsNeverFall` |
| `ShownAtMostOnce` | `ShownOnce` |
| `LossIsShown` | `LossShown` |
| `SkewIsBounded` | `SkewBounded` |

The scraper only reads, so `IInv` holds beside it (`PoolBeside`). What the pool may
do between two loads is `PoolAdds`: no total falls, and once `done` is closed
nothing more is accepted. `AnswerInv` then says what an answer promises for each
number of loads it still misses, a field that is not yet loaded standing for the
counter itself. `SkewBounded` needs one more fact about the pool: a job between the
two counts of `recordDeadLetter` is held by a consumer of its own (`FailedHeld`,
an injection from those jobs into the consumers).

`StorageProofs` proves, for any keys, rows, statements, any database to begin
with that satisfies the constraints, and any number of statements:

| Theorem | Property |
| --- | --- |
| `StorageTyped` | `TypeOK` |
| `ReferencesKept` | `NoDangling` |
| `ActiveNamesStayUnique` | `ActiveNameUnique` |
| `InsertsStayForever` | `AckedStays` |
| `MediansAreWhole` | `LastUpsertWhole` |
| `RetriesInsertOnce` | `InsertedOnce` |

The first three are inductive together. Inserts and upserts add one row that the
constraints have admitted (`InsertedSound`, `UpsertedSound`). For deletions the
argument is that they only narrow the database (`Narrows`: every row that is left
was there with the same key, parent and name, and is active only if it was), so
that uniqueness carries over, and that references do: `CascadeTwice` shows that
after two cascades nothing refers to a row that is gone, because the table
referred to by a child is `projects` or `endpoints` and the latter refers to the
former. `AckedStays` and `LastUpsertWhole` need what is known of the calls (`CallInv`: places are
numbered by the statements executed, so a commit comes after all others) and
`InsertsKept`, which is `AckedStays` from the commit on, whoever has been told.
Their steps are of two kinds: those that execute nothing (`Quiet`), and commits. A
deletion is the hard one: `Survives` says that a row is still there unless it, its
parent or the project of its parent was deleted, and that it has lost its provider
only if that was deleted or went with its project. Which project that is can only
be told from the past, since the parent may be gone by then: `OwnersKnown` says that
every endpoint and provider there is was there to begin with or has been inserted,
with the project it has. `InsertedOnce`, which no run checks on its
own, is about a retry after a lost reply: where the second insert of a key commits, the key is free, so by
`InsertsKept` something removed the first row, and it did so before the last place,
which is that of the second insert (`InsertOnce`). The only facts assumed are
`StoredAsAssumption`, `ArgumentsAssumption` and `ExistingAssumption`.

`MigrationsProofs` proves, for any set of runners, any seeds among any prices and
any number of calls:

| Theorem | Property |
| --- | --- |
| `MigrationsTyped` | `TypeOK` |
| `CleanIsWhole` | `CleanMeansWhole` |
| `DirtyIsBetween` | `DirtyMeansBetween` |
| `NilIsReached` | `NilMeansReached` |
| `ErrorIsDirty` | `ErrorMeansDirty` |

What is recorded says nothing of how far the holder of the lock has come, so the
invariant adds `UnderWay`: between reading the version and marking it clean, the
record is exactly what the holder wrote last, and the database is whole for the
version before its file or, once it has run, for the file's own. `TypeOK` says
that whoever is at work holds the lock, so the steps of the others leave all this
alone; a step that loses the lock leaves a record that is clean and whole or
dirty and between. `CreatesWork` and `DropsWork` are about the files themselves:
each `CREATE` finds the tables it refers to, and no `DROP` finds one that still
refers to its table. `ErrorIsDirty` needs them: a file can then only fail for
a seed.

`ProcessProofs` proves, for any timers (`TimersAssumption` only asks that
`ShutdownTimeout` is not zero), any latencies and any number of jobs and requests:

| Theorem | Property |
| --- | --- |
| `ProcessTyped` | `TypeOK` |
| `WaitStaysInBudget` | `WaitInBudget` |
| `ZeroAccounts` | `ExitZeroAccounts` |
| `OnlyTheServerFails` | `FailureMeansServer` |
| `DatabaseKept` | `RequestsKeepDatabase` |
| `ConfigLoaded` | `ConfigSound` |
| `EndsInTime` | `DecidedInTime` |

`ProcessInvariant` states what the stations of `Run` and of the pool say of each
other (`StationInv`), what an exit code of zero was decided on (`OutcomeInv`),
and how many latencies after the signal each station's next step can come
(`MainBounded`, `PoolBounded` in `TimeInv`). `WaitInBudget` is then arithmetic:
in `"budget"` the clock is at most `6 * latency + ShutdownTimeout`, in `"wait"` at
most the pool's `5 * latency + ShutdownTimeout + UnwindWindow`, and the budget
ends no earlier than `ShutdownTimeout + Margin`. The instance alone does not tell
which of these bounds is needed: with an unwind window of zero and a margin of
six latencies the first race is won and the second lost, so `Timely` has both.
`FailureMeansServer` also needs `latency < ShutdownTimeout`, or else a shutdown
with nothing to wait for can be late enough to expire.

`DecidedInTime` is what of `SignalEnds` can be said without fairness: whenever the
clock of `Process` has passed the two timers and eight latencies, `Run` has decided
its exit code, and the pool, unless the process ended first, has closed `done`. No run
checks it on its own. `ConfigLoaded` rests on what the texts of an environment are
(`TextsAssumption`):
trimming twice is trimming once, so a secret that is not empty is not blank either,
and what `Load` returns is within its bounds (`LoadedSound`). `ConfigInv`, beside
`IInv`, carries it through `Run` and says at which of its stations there is a
database, a pool or a listener.

`RequestLogProofs` proves, for any requests, spellings, protected names, attributes closed
under their members, any cap above zero and any number of calls:

| Theorem | Property |
| --- | --- |
| `SafeIsClean` | `isSafeRequestAttr` is `Clean` |
| `LogTyped` | `TypeOK` |
| `LinesClean` | `LineClean` |
| `FirstLogged` | `FirstComeFirstLogged` |
| `FailuresLogged` | `FailureLogged` |

`isSafeRequestAttr` calls itself, and `SafeRequestAttr` is a recursive function; the
values nest three deep, so `SafeIsClean` unfolds it from the innermost outwards and
shows it equal to the flat test of everything inside. What is collected must be
related to what has been offered while a call is half done: `Handled` counts the
attributes offered without those the holder of the mutex has left, and `Collecting` says
that the list is the clean ones of the first `Handled` (`FirstClean`). One iteration
of the loop then adds an attribute (`FirstCleanAdds`), passes over one that is not
clean (`FirstCleanSkips`), or stops at the cap (`FirstCleanFull`). A line is written
when nobody holds the mutex, so everything offered so far has been handled; `Logged`
says so of each line from then on, and relates phases to the number of lines.

`MockProviderProofs` proves, for any endpoints,
handlers and durations with `ColdStart < IdleTimeout`, and a clock of any range:

| Theorem | Property | Clock |
| --- | --- | --- |
| `MockTyped` | `TypeOK` | either |
| `StartsNotRepeated` | `ColdStartNotRestarted` | either |
| `IdleKept` | `IdleHonoured` | the tests' |
| `TimelineKept` | `ImplementsTimeline` | the tests' |
| `StoreOnTime` | `OnTime` of `EndpointTimeline` | the tests' |

All rest on the three outcomes of `advance` (`Advanced`): unchanged, warm at the
end of the cold start, or cold at the end of the idle timeout. With either clock
an endpoint is `Sound`: whoever is not cold has been invoked. With the tests'
clock `PunctualInv` holds, too: the `now` a handler captured is still the clock,
`lastUse` is the `LastInvokeAt` of an endpoint that is not cold, and a cold start
begins no later than the last invocation. That last part is why a step of the
clock never finds two transitions due at once. The refinement compares
endpoints by `SameView`, what the timeline can tell apart: `AdvanceTwice` makes
the store's own advancing invisible, `InstantLater` says that one instant later
exactly what was due has happened, and `InvokedUpToDate` that an invocation
leaves nothing to catch up on. `EndpointTimeline` acts on an
instant only when the clock reaches it, so it would promise little if one could be
missed: `StoreOnTime` shows that its invariant `OnTime` is inductive and carries it over
to the store by `TimelineKept`. With the real clock the last three theorems do not
hold, which is what `mock_stale` shows of the first of them.

With the tests' clock `IdleHonoured` is proved (`IdleKept`); the run that checks it has the
real clock, with which it fails.

Only model-checked: what is about liveness, which is out of the prover's reach
(`ShutdownBounded`, `AcceptedSettles`, `StuckDoesNotBury`, `SignalEnds` and the fairness
of `DrainLedger` in `ImplementsLedger`). Every other property of a passing run is stated
by a theorem.

## 5. Not modelled

- The frontend's theme: one preference in the browser's storage that is read at
  every event and applied at once. It shares nothing with the backend.
- The mock provider's command and the scripts: wiring, and shell around docker and
  git. They keep no state. Of logging only the level matters here, and it is in
  `RequestLog`; the choice between a text and a JSON handler is left out.
- The packages `ingest`, `policy`, `prediction`, `providers` and `lib` hold a
  comment each.
- Random ids: that two differ is an assumption about their source. Text: the
  exposition format, reply bodies, log formatting.
- A job that calls `runtime.Goexit`, and a dead-letter sink that panics.
- The writer that must check `provider_request_id` before it inserts, because the
  index on it is not unique: the schema's comment announces it, the code does not
  exist yet.

## 6. Plan

Done: the pool with its ledger and its summary, the scrape, the mock provider with its
timeline, the process with its configuration, the request log, storage and
migrations, each with its proofs.

What remains:

1. Composition. When handlers submit jobs, `Process` should take `JobAccepted`
   from them; when a job writes through `Store`, its retries (`MaxAttempts`) meet
   the lost replies of `Storage`.
2. When code deletes rows or checks `provider_request_id`, its statements belong
   into `Storage`, where `Delete` now stands for them.

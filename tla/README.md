# A TLA+ model of hellnet-lib-database

`hellnet-lib-database` is a Go library that puts a typed, retried and observed
PostgreSQL client on top of pgx and pgxpool. This directory models the parts of
it that are concurrent or must survive failures, checks them with TLC on small
instances and proves their safety properties with TLAPS for every instance.

All source paths are relative to `src/database/`.

## 1. The system

| Part | State it keeps | Operations | Interacts with |
|---|---|---|---|
| Transactions (`transaction.go`, `connection.go`) | the local `done` of `runTransactional`, the pinned connection of a `Conn` and its `closeFn` | `DB.Transactional[Context\|Level]`, the same on `Conn`, `DB.Acquire`, `Conn.Begin`, `Tx.Commit`, `Tx.Rollback`, `Conn.Close` | pool (borrow and give back), server, metrics counters |
| Listener (`listen.go`) | `listenSession` (current connection, release function), `stopCh`, `doneCh`, the loop's `failures` and `backoff` | `Listen`, `ListenWithReconnect`, the fetch loop, reacquisition, `stop` | pinned `Conn`, pool, server |
| Statement execution (`core.go`, `view.go`, `connection.go`) | none between calls; per attempt a timeout context | `Execute`, `Query`, `QueryRow`, `Scalar` on `DB`, `Conn`, `Tx`, `DBView` | hooks, retry policy, slow-query log |
| Retry policy (`resilience.go`) | the loop's `attempt`, the retries counter | `do`, `Do`, `DoValue`, `shouldRetry`, `sleep` | wraps an execution |
| Hook registry (`hooks.go`) | `hs` and `met` under one RWMutex, shared by `DB`, `Conn` and `Tx` | `add`, `remove`, `snapshot`, `setObserved`, `observed` | every attempt; metrics life cycle |
| Prometheus metrics (`metrics.go`) | eight collectors, a sampler goroutine, the handle's once | `EnableMetrics`, `MetricsHandle.Close` | hook registry, Prometheus registry |
| Streaming (`iterate.go`) | the first-row watchdog timer, the stream's context | `Iter`, `ConnIter`, `TxIter` | runner, consumer callback |
| Cluster (`replica.go`) | a uint32 round-robin counter | `Replica`, `Primary`, read and write routing | member `DB`s |
| Options and construction (`database.go`, `../internal/env`) | `Options` | `New`, `Connect`, `withDefaults`, `Validate`, `Close` | everything, once |
| Repository (`repository.go`, `results.go`) | none | CRUD, `Paginate`, specifications | execution |
| Batches, COPY (`batch.go`, `bulk.go`) | `BatchResults` until closed | `SendBatch`, `BulkInsert` | a `Tx` or `Conn` |
| Observability (`observability.go`, `pgx_tracer.go`, `pool_metrics.go`, `statement.go`) | instruments that are only written to | spans, counters | everything |
| sqlx surface (`sqlx.go`) | a separate `database/sql` pool | delegates to sqlx | none of the above |

What is hard here, and hardly reached by the unit tests, which run on fakes:

- a statement, a commit or a rollback whose answer is lost, so that client and
  server disagree about what happened;
- contexts that end between the check of a context and its use;
- one connection that several paths may give back: the success path, an error
  path, a deferred function, `Close`, the pool's own release;
- a background goroutine that replaces the connection another goroutine is about
  to use or to give back;
- hooks and collectors that come and go while statements run;
- a timer that races the first row, and a consumer that leaves a result set, a
  batch or a COPY half-way on a connection others depend on;
- a write that is retried although it took effect, and placeholders that must
  match arguments picked by another index;
- counters and products at the limit of their type.

What makes each part correct: a transaction never leaks its connection, is
atomic, is counted once, and ends; a listener recovers, stops, and gives back
what it borrowed; a statement is tried a bounded number of times, answers nil
only if it took effect, and is seen by the hooks in pairs; metrics are registered
and removed as a whole, without touching anybody else's; a stream that answers
nil is complete and a batch that commits was executed; a cluster spreads its
reads and gets members that are configured alike; a repository's statements do
what its methods promise, once or retried, and its pages partition the table when
the specification orders by a unique column.

`PROJECT.json` lists every hazard at its line, with the properties that cover it.

## 2. Modules

| Module | Models | Abstract specification |
|---|---|---|
| `Transaction` | managed and manual transactions racing for a pool | `AtomicUnit` |
| `Listen` | the listener, its stops and the pool that lends replacements | |
| `Execution` | statement calls under retry, observed by hooks | `AtLeastOnce` |
| `Metrics` | concurrent `EnableMetrics` and `Close` | |
| `Session` | streams, batches and COPY on one connection, up to the end of its transaction | |
| `Options` | what an `Options` value or the environment means (operators only) | |
| `Cluster` | construction of the members of a cluster from `Options`, and routing | |
| `Repository` | the statements of the repository and concurrent calls that run them | `Meaning`, an operator |
| `MCTransaction`, `MCListen`, `MCExecution`, `MCMetrics`, `MCSession`, `MCCluster`, `MCRepository` | instances for TLC | |
| `TransactionProofs`, `ListenProofs`, `ExecutionProofs`, `MetricsProofs`, `SessionProofs`, `ClusterProofs`, `RepositoryProofs` | theorems | |

### Transaction

A *call* is one use of the library by one goroutine, of one of three kinds
(`DBCalls`, `ConnCalls`, `ManualCalls`). `pc` follows the code: `start`
(Acquire), `begin`, then for a managed call `fn`, `rbctx` and `rollback` or
`commit` and `postcommit`, `unwind` (the deferred function), `leave`; for a
manual one `manual`, `txcommit` or `txrollback`; `close` for both kinds that own
a `Conn`. The step between `rbctx` and `rollback` is the gap between
`rollbackCtx` and the rollback; `CancelBase` and `LinkDown` may fall into any
such gap.

The driver and the server are environment, modelled as the library uses them:
`PgxCommit` has four outcomes (acknowledged; refused or answered with ROLLBACK;
sent and the answer lost; never sent), `PgxRollback` answers `ErrTxClosed` once
the `pgx.Tx` is resolved, and kills the connection when it fails. `tx` is the
*server's* view; `indoubt` is a commit whose answer was lost, which the server
settles later either way. A pool slot (`idle`, `link`) stands for a connection;
a closed one that is given back is replaced by a new one. `rec` and `comp` are
the increments of `db_transactions_total` and `db_rollback_compensations_total`.
The answer of a call is what it knows of the unit: "nil" is for committed. A
`Tx.Rollback` that succeeds answers nil in the code; its caller knows that the unit
is not committed, and the model writes "error" for it.

### Listen

`pc` follows `listenLoop`, with `reacquire` and `fresh` inside
`relistenOnFreshConn`; `cur` and `repl` are the `listenSession`, `c` the loop's
local copy. Each stopper has a program of its own: `join` (waits for `doneCh`),
`unlisten`, `release` (takes the release function out of the session under the
mutex), `giveback` (calls it, after unlocking), `stopped`. Two stops may therefore
overlap anywhere, and one may return while the other still holds the replacement
(`rel`); if both send UNLISTEN at once, one may find the connection busy. `swap`
unlocks before it releases the previous replacement too, but only the loop swaps
and no stop passes `join` before the loop has ended, so that it is one step.
`Conn.Close` checks nothing (`connection.go:118-125`): that the caller closes the
`Conn` only when LISTEN was refused or every stop has returned is an assumption
about the caller, the guard of `CloseConn`. `listening` is the server's side: which
sessions are registered on the channel. Statements of the owner on the pinned
`Conn` are not modelled as such; their effect is: pgx may report the pinned
connection busy at any time, without it being dead (`WaitFails`, `Fails`). Using
a released `pgxpool.Conn` is a panic of the stopper. Delays are abstracted to
the values `backoff` takes; time is the free choice between a timer and
`stopCh`. `failures` saturates at `ReacquireAfter`, past which only the
comparison matters. Channel names, payloads and handlers are left out.

### Execution

An attempt is `before`, `run`, `track`, `after`, then `decide` in
`RetryPolicy.do`, then `sleep`. An error is abstracted to what `IsTransient`
tells apart, and an outcome is an error, the effects that are certain and the ones
that are open: a row that cannot be mapped is an error of a statement that took
effect, while an answer lost to the link, to the deadline or to the caller's
context leaves it to the server (`pending`). `ServerSettles` applies or drops such
a statement at any time: during a later attempt, or after the call was answered.
`AtLeastOnce` therefore promises nothing about when effects end, except to a caller
that was refused: nothing was sent, or the server rejected the only attempt. `FireBefore` and
`FireAfter` read the registry separately, as the code does; `SwitchMetrics` is
`EnableMetrics` or `Close` as the registry sees them. A `DBView` has neither
registry nor logger.

### Metrics

One user is one goroutine that calls `EnableMetrics` and later `Close`. Each
step takes one lock once. A Prometheus registry is a function from ids to the
user whose collector it holds (or `None`, or `Other` for one that the
application registered): Prometheus tells collectors apart by their description,
so the ids of all users coincide and `Unregister` removes whatever has the id.

### Session

One goroutine uses one connection for a sequence of streams, batches and COPYs:
on a pool (`Iter`), on a pinned `Conn` (`ConnIter`, `BulkInsert`) or in the body
of a transaction (`TxIter`, `SendBatch`) that `runTransactional` then commits or
rolls back. `pc` follows `runIter`: `query`, `arm`, `next` (rows.Next), `disarm`,
`decode`, `fn`, `err` (rows.Err) and `close` (the deferred calls, in Go's order:
`watchdog.Stop`, `rows.Close`, `scancel`); `drain` is inside
`BatchResults.Close`. A fired timer is two steps, because `time.AfterFunc` runs
`scancel` on a goroutine that `Stop` no longer stops. `busy` is pgx's own lock on
the connection: while a result set or a batch is open, every other statement,
COMMIT and ROLLBACK included, is refused, and pgx closes a connection on which a
transaction cannot be ended. A read that a context interrupts costs the
connection; `cause` remembers whose fault it was. Rows and statements are counted
(`total`, `got`, `seen`; `queued`, `ran`, `read`), their contents left out;
`asked`, `applied` and `told` are the ledger of what was sent, executed and
reported. An empty batch sends nothing, and pgx does not occupy the connection for
it (`SendBatchEmpty`).

### Options and Cluster

`Options` holds the functions of `database.go` and `internal/env` as operators on
a record: durations are milliseconds, and that database, user name and password
are given is one Boolean, since `Validate` only asks for all of them. A value of
the environment is a number, a Boolean, `Unset` or `Invalid`. Host, port and the
text of the DSN are left out. `Cluster` builds each member with `New` from the
application's options or, as a replica often is, from `DB.Options()` of the
primary with the password filled in again; any construction may fail and hand a
nil pointer to `NewCluster`. A read draws a ticket from the counter in one atomic
step and uses it in another; the counter has `Counter` values (2^32 in the code).
`rr` counts from the value before `Add`, so that a ticket is `rr.Add(1) - 1`.

### Repository

A struct is the sequence of its column names, a row a function from them to
integers, the table a set of rows with a unique key. The write builders are kept
with their indices: `FieldMap`, `EntityValues`, consecutive placeholders
(`Assignments`), and arguments picked by position (`WithAssigned`). What the
server makes of a statement (`RunUpsert`, `RunUpdate`) reads placeholders and
arguments only. A `Specification` is abstracted to what the guards look for:
whether its SQL has an ORDER BY or a paging clause, and whether `OrderBy` is
empty, names the unique column (`key`), orders by something else (`loose`), itself
holds an ORDER BY (`order`: `id ORDER BY name` passes `orderByRe`) or a paging word
(`paging`), or is refused. Only `key` fixes an order: otherwise each execution of a
page picks any order of the rows (`Orders`), as PostgreSQL may for LIMIT and OFFSET
without an ORDER BY that decides. A statement with a clause twice is refused by the
server (`WellFormed`). Each statement of a call runs under the retry policy: it is
executed and answered, executed with its answer lost, fails with a transient error
and is retried, or fails with another one, which is answered at once. `Paginate` counts and reads in two
statements. `int` has `2 * (IntMax + 1)` values. A caller that walks through the
pages while `HasNextPage` is part of the model, as the use that the method is
for. That two fields of a struct never share a column name, and that an Update
selects by the key, are assumptions.

## 3. What is checked

| Run | Instance | Properties |
|---|---|---|
| `tx_pooled` | 2 pooled calls, 1 connection | `TypeOK` `NoConnectionLeak` `CountedOnce` `RefinesAtomicUnit` `EveryCallSettles` |
| `tx_pinned` | 1 `Conn` call, 1 manual call, 2 connections | `EveryCallSettles` |
| `listen_reconnect` | 1 pinned and 2 pooled connections, 2 concurrent stops, `ReacquireAfter` 2, backoff 1 to 3 | `TypeOK` `LoopHoldsItsConn` `NoReplacementLeak` `ReplacementsUnregistered` `StopReturns` `Recovers` `ContextEndsListen` |
| `exec_retry` | 1 retried and 1 pinned call, `RetryMaxCount` 2 | `TypeOK` `RetryAccounting` `OneLateAttempt` `RefinesAtLeastOnce` `EveryCallReturns` |
| `exec_hooks` | 1 retried call, 2 hooks and the collector, `RetryMaxCount` 3 | `HookPairs` |
| `metrics_lifecycle` | 3 users, 2 registries, 2 collectors each | `TypeOK` `MetricsStayRegistered` `NothingLeftBehind` `CountedByOne` `SamplerStops` |
| `session` | 2 operations of any kind, result sets of 0 to 2 rows, batches of 0 to 2 statements | `TypeOK` `NoSilentTruncation` `CommitMeansApplied` `UncappedAfterFirstRow` `EarlyStopSparesConnection` `FirstRowBounded` `CloseReturns` |
| `cluster` | 0 to 3 replicas, 2 readers, a counter of 8 values, 10 reads, 420 combinations of options and environments | `EvenSpread` `RoutedToBuilt` `MembersAlike` |
| `repository` | 3 columns, tables of 0, 1 and 3 rows, 2 clients, 1 retry, an `int` of 4 bits | `TypeOK` `PageExact` `WalkComplete` `RetriesHarmless` `StatementsMean` `EveryCallReturns` |

What the paging properties say depends on the specification. `PageExact` holds for
every one in the number of rows, that they are different rows of the table, and
`HasNextPage`; which rows they are, and that a walk sees every row once
(`WalkComplete`), is claimed for an `OrderBy` on the unique column only. Both are
about tables nobody writes to meanwhile: with writes between the statements of
`Paginate`, or between pages, TotalCount and Items disagree and a walk may miss or
repeat rows, which the code does not claim to prevent. The instance contains an
unordered walk too, of which only its end is claimed. The walks have a positive page
size and no wrapping product: `EveryCallReturns` says nothing of the others, which
need not end (see below). `EveryCallSettles` starts when a call has its connection;
the wait inside `Acquire` is pgxpool's, and what ends it is the `ConnectionTimeout`
of its context. `UncappedAfterFirstRow` is about the timer; one that has fired
already may still cancel the stream after the first row, and then
`NoSilentTruncation` is what holds. `NoReplacementLeak` allows one slot to be out of
the pool after a stop has returned: the one that another stop has just taken from
the session. `StopReturns` takes the panic of a second stop for its end.

`tx_pinned` checks liveness only: the safety properties are theorems for any mix of
pooled, pinned and manual calls. `RoutedToBuilt` includes that the pool sizes of
every member are ones pgxpool accepts.

Why these bounds are enough to be interesting. Two calls and one connection make
the pool run dry and let one call inherit the slot the other returned, closed or
broken; with two connections a manual call and a managed one run side by side.
Two replacements allow a swap from one replacement to the next, and two stops meet
at every step of `stop`. Backoff 1 to 3
reaches the cap from below without landing on it. Two retries have a first, a
middle and a last attempt. Two collectors per user are a partial registration,
and three users are an owner, a loser of the race and a late third. Two
operations of a session are one that leaves something behind and one that meets
it; two rows are a first row and one after it. Eight is no multiple of three, so
that ten reads on three replicas pass a wrap in the middle of a rotation. The
options lie at, below and above the zero value, the default and the limit of each
field. The struct has its key in the middle, so that declaration order, list
order and column names all differ; three rows in pages of one and two have a full
last page, a half one and an empty one; the page calls reach a product just
within and just beyond `int`. No state constraint cuts any run short: every
state space is finite by itself (`MaxOps` and `MaxReads` bound the application's
calls in the guards).

`exec_retry` uses a view for its retried call, since its path differs from a DB
call only in hooks and logger; `exec_hooks` uses a DB call.

### Fairness

- *Transaction*: weak fairness of a call's own steps, because every statement is
  bounded by `CommandTimeout` or `ConnectionTimeout` and the body is assumed to
  return; weak fairness of the server, which notices in the end that a client is
  gone. Nothing obliges a pool to lend: `Acquire` has no fairness of its own.
- *Listen*: weak fairness of the loop and of each stop, whose blocking calls are
  bounded by `notifyTick`, `CommandTimeout`, `ConnectionTimeout` or a timer.
  Strong fairness of `SleepStopped`: Go's `select` chooses uniformly among ready
  cases, so it does not prefer the timer for ever. Strong fairness of `Reacquire`
  and `Swap` is an assumption about the environment: a pool asked again and again
  lends in the end, and LISTEN on what it lends succeeds in the end. It matters
  for `Recovers` only.
- *Execution*: weak fairness of a call's steps: `CommandTimeout` bounds the
  runner, timers fire, hooks are assumed to return.
- *Metrics*: weak fairness of each step: it waits only for locks held for a few
  instructions. Nothing obliges a user to call `EnableMetrics` or `Close`.
- *Session*: weak fairness of the goroutine's own steps and of the watchdog's
  timer, and none of the server: `FirstRowBounded` and `CloseReturns` hold even if
  it never answers. The body is free to stop calling.
- *Cluster*: none; nothing must happen.
- *Repository*: weak fairness of each client's steps: a statement is bounded by
  `CommandTimeout` and retried a bounded number of times.

### Where the code and its words disagree

Three runs expect a violation; each checks one sentence of a comment or a test,
quoted in `PROJECT.json` under `findings`.

| Run | What TLC shows |
|---|---|
| `listen_second_stop` | a second `stop` after a swap uses a released connection and panics |
| `exec_view_slow` | a slow statement through a `DBView` panics on a nil logger |
| `batch_close` | `BatchResults.Close` cancels before it drains: with one statement sent and its result unread, the connection is lost |

None of them breaks atomicity or leaks a pool slot: the properties that do hold
are checked in the same model. How far two of them reach is proved: a stop panics
only after a swap and after another stop has returned (`PanicAlwaysFollowsStop`),
and a transaction whose connection `BatchResults.Close` has cost never answers nil
(`LostNeverNil`).

More comments are looser than the code, as behaviours of the same models show; no
run is kept for them:

- `transaction.go:188`, "A failed commit leaves the transaction aborted
  server-side": a commit whose acknowledgement was lost takes the same branch and
  may be committed (`PgxCommit`, then `ServerResolve`);
- `transaction.go:130`, "a rollback never reuses an expired" context: the base
  context may end between `RollbackCtx` and `Rollback`;
- `listen.go:16`, "a stop request is always honored within ~1 tick": a stop that
  arrives at `relisten` may be followed by `Reacquire` and `Swap`;
- `core.go:94`, "um after para cada before": with `SwitchMetrics` between
  `FireBefore` and `FireAfter` it does not hold for the collector of
  `EnableMetrics`; `HookPairs` shows that it does for the hooks of `Options`;
- `transaction.go:176`: a rollback that fails after `fn` returned an error leaves
  `done` false, and the deferred function counts the transaction as a panic;
- `listen.go:96`, "best-effort UNLISTEN on the session": after a swap caused by a
  busy but healthy pinned connection, UNLISTEN goes to the replacement only;
- `database.go:75`, hooks observe "toda operação executada": a `DBView` has no
  registry, so that no hook sees its statements;
- `metrics.go:292`, a second call "retorna erro": two concurrent `EnableMetrics` on
  different registries both pass the check (`Check`, `SetObserved`);
- `iterate.go:30`, CommandTimeout "bounds query start": the watchdog is armed after
  `Query` has returned (`QueryOk`, `Arm`);
- `iterate.go:65-68`: the watchdog cancels, so that its expiry surfaces as
  `context.Canceled` and is never reported as the first-row deadline; the
  `firstrow` answer is reached only through a deadline of the captured context;
- `iterate.go:66`, "mid-stream deadlines cannot happen": a timer that has fired may
  cancel just after the first row (`WatchdogFires`, `Row`, `WatchdogCancels`);
- `database.go:299-300`, "unless the caller explicitly disabled it (signalled by
  leaving the other retry fields at their defaults too)": it is the other way
  round; `RetryEnabled: false` alone is overridden, and `Options` with only a
  `RetryMaxCount` of its own turns retry off (`RetryOffHonoured` states what holds);
- `replica.go:66-67`, the conversion to `int` is lossless only where `int` has 64
  bits; `Target` models such a platform;
- `results.go:37`: with a page size of 0, which means all rows, `HasNextPage` is
  true whenever there are rows, and page times size may wrap; `PageExact` states
  its range. A walk whose last page ends beyond the largest `int` does not end
  rightly; `WalkComplete` states its range too (`LastPageFits`);
- `repository.go:329-334`, what would be "doubly-ordered or double-limited" is
  "rejected up front": the guards look at the SQL before `OrderBy` is appended to it
  (lines 350 and 445), and `orderByRe` (266) lets words through. An `OrderBy` that
  holds an ORDER BY of its own therefore passes everywhere, and one that holds a
  paging word passes `findOneSQL`, and `pageSQL` without a page size; such a statement
  fails at the server. `NoDoubleClause` states the two exceptions;
- `repository.go:345-361`: a specification without any ORDER BY is paged all the same
  (`repository_test.go:51` does), in an order the server is free to change from page
  to page; nothing tells the caller that pages partition the rows only under an order
  that decides;
- `repository.go:566-568`, 0 "when the row was skipped": an insert whose answer was
  lost is retried and answers 0 although the row was inserted (`ExecutedLost`).

## 4. What is proved

Every safety property of the passing runs is also a theorem, for any sets of
calls, connections, users, registries, readers and clients, any tables and
structs, and any values of the options. Each proof module states an inductive invariant `IndInv`, proves that `Init`
establishes it and every action preserves it, one lemma or step per action, and
derives the properties from it.

- `TransactionProofs`: `IndInv` is `TypeOK`, `Shape` (what `pc` says about `done`,
  the answer and the vote), `Pool` (the slots and their holders), `Outcome` (the
  server's view against `closed`, the vote and the answer) and `Count` (the
  counters at each `pc`). `NoConnectionLeak` is not inductive alone: that a
  resolved `pgx.Tx` answers `ErrTxClosed` instead of releasing again needs to
  know which `pc` goes with `closed`. Theorems: `TypeCorrect`, `NeverLeaks`,
  `AlwaysAllOrNothing`, `AlwaysCountedOnce`, `Refinement`, `CallsNeverGoBack`.
- `ListenProofs`: `Slots` (which slots are out of the pool and why), `Session`
  (the loop's copy against the session), `Registered` (which sessions the
  server may have registered: the pinned one, the current one, nothing else) and
  `Stopped` (a replacement that the session no longer holds but still names was given
  back by a stop that has returned, or is the one a stop has in hand). `Slots` needs
  that at most one stop has one in hand.
  That a swapped-out replacement is no longer registered rests on a fact about
  pgx: a LISTEN that fails on a replacement under a live context has taken its
  connection down. Theorems: `TypeCorrect`, `LoopAlwaysHoldsItsConn`,
  `NeverLeaksReplacement`, `AlwaysUnregistered`, `PanicAlwaysFollowsStop`.
- `ExecutionProofs`: `Attempts` (`started` and `retries` against `attempt` at each
  `pc`), `Effected` (effects, those still open included, against attempts and the last error), `Late` (a late
  attempt is the last one) and `Hooked`. Theorems: `TypeCorrect`,
  `AlwaysAccounted`, `AtMostOneLate`, `AlwaysPaired`, `Refinement`, `CallsRunOut`.
- `MetricsProofs`: `Loops` (the indices at each `pc`), `Owned` (a user holds
  exactly the ids `lo .. hi - 1` of its registry) and `Hooked`. The key lemma
  `Exclusive` says that two users of one registry are never both past
  registration: the Prometheus registry is the lock that the check of
  `EnableMetrics` is not. `SamplerFollowsHandle` is inductive beside it. Theorems:
  `TypeCorrect`, `AlwaysRegistered`, `AlwaysCleansUp`, `AlwaysCountedByOne`,
  `AlwaysOthersUntouched`, `SamplerAlwaysFollows`, `UsersRunOut`.
- `SessionProofs`: `RowsInv` (rows received against rows handed over at each
  `pc`), `WatchdogInv` (the watchdog is armed only before the first row; a dead
  stream context has a dead captured context or a fired watchdog behind it),
  `BusyInv` (who occupies the connection) and `LedgerInv`: on a connected, healthy
  transaction, what was asked and not applied is what the running batch still
  has to do. `CommitMeansApplied` needs it, because the commit itself looks at no
  result. `LostConnectionNeverNil` needs `Ends` beside it: a finished session holds
  no connection that could still be lost. Theorems: `TypeCorrect`,
  `NeverTruncates`, `AlwaysDone`, `CommitAlwaysApplied`, `AlwaysUncapped`,
  `AlwaysSpares`, `LostNeverNil`, `StreamsRunOut`.
- `ClusterProofs`: `Balanced` says exactly by how much an earlier replica is ahead
  of a later one: by one inside the rotation under way, and by one for each wrap
  if the remainder of the counter's size falls between them. `EvenSpread` alone is
  not inductive, for it forgets where the rotation stands. The facts about
  remainders are proved from division. `BuiltAlike` says that every member is
  `NewDB(opts)`, by the lemma `Idempotent` about `WithDefaults`. Theorems:
  `TypeCorrect`, `AlwaysEven`, `AlwaysRouted`, `AlwaysAlike`,
  `RetryAlwaysHonoured`.
- `RepositoryProofs`: the lemmas `Aligned`, `AssignMeans` and `InsertMeans` show
  that placeholders, arguments and columns agree, `UpsertMeans`, `IgnoreMeans` and
  `UpdateMeans` that the server's reading of a statement is its `Meaning`, and
  `MeaningTwice` that a meaning applied twice is the same applied once. For pages,
  `PageSize` says how many different rows a page of any order holds; for the order by
  the unique column `RankOnto` shows by counting that the ranks of a finite table are
  1 to its size, `PageMeans` derives what a page holds, and `PageExtends` that
  the rows before a page followed by the page are the rows before the next one.
  The invariant adds
  to each client that its statement is the one of its call (`CallInv`), that an
  undisturbed count and page are those of the table (`PageInv`), that an
  undisturbed write has happened once or not at all (`RetryInv`), and that an
  undisturbed walk has seen exactly the rows before the page it is at and that the
  product `HasNextPage` looks at has not wrapped (`WalkInv`). Theorems:
  `TypeCorrect`, `AlwaysMean`, `AlwaysHarmless`, `PagesAlwaysExact`,
  `WalksAlwaysComplete`, `NeverDoubled`, `CallsRunOut`.

The safety half of liveness. For five components the proof module also states a
measure, the number of steps that are left, with its bound, and proves that every
step of the code lowers it and that nothing, no retry, panic, cancellation or step
of another process, raises it: `CallsNeverGoBack` (8 steps for a transaction),
`CallsRunOut` of `ExecutionProofs` (6 for each attempt), `UsersRunOut` (one pass
over the collectors up and one down), `StreamsRunOut` (4 for each row) and
`CallsRunOut` of `RepositoryProofs` (both statements of a page with their retries;
turning a page is the one step that may raise it). With them a call that does not
end is one that is no longer scheduled, which is what fairness is for. The loop of
`Listen` has no such measure: after a stop was asked for, its `select` may still
choose the timer, any number of times.

Assumptions, all evaluated by TLC too: the kinds of calls are disjoint, the
"no connection", "free" and "taken" values are no connection or user, the
normalized `ListenOptions` have `ReacquireAfter > 0` and
`0 < RetryDelay <= MaxBackoff` (what `normalized` guarantees), `MaxCount` and
`HookCount` are naturals, there is at least one collector; the bounds of a session
are naturals; `Unset`, `Invalid`, `None` and `Nil` are no values of an option or
ticket, and options and environments are well typed; columns have distinct names
and calls refer to entities of the struct, tables are finite with a unique key,
keys are integers. The refinement
theorems cover initial states and steps; the abstract specifications state no
fairness.

Proved and in no run: `AllOrNothing` (what `AtomicUnit` promises, spelt out on the
variables of the code), `OthersUntouched`, `ReportedWasDone` (part of
the ledger in `SessionProofs`), `RetryOffHonoured`, `NoDoubleClause`,
`PanicNeedsEarlierStop`, `SamplerFollowsHandle`, `LostConnectionNeverNil`, the
measures above and the type invariant of `Cluster`.

Only model-checked: the liveness properties (`EveryCallSettles`, `StopReturns`,
`Recovers`, `ContextEndsListen`, `EveryCallReturns`, `SamplerStops`,
`FirstRowBounded`, `CloseReturns`), which rest on fairness and are out of the
prover's reach.

## 5. What is not modelled

- Time: durations are choices between a timer and another event. The width of
  `baseDelay << attempt` is therefore not modelled.
- SQL text beyond clauses and placeholders, row mapping; spans and log lines.
- `DB.Close` and `Ping`: one call into pgxpool each; host, port and DSN text.
- The name of a statement (`statement.go`) and the column lists and identifiers of
  the repository: pure text.
- `sqlx.go`: another pool, whose operations are sqlx's own.
- Two goroutines that use the same `Conn` at once, apart from the listener: a
  `Conn` is for one goroutine at a time. `Conn.Close` clears `closeFn` without a
  lock, which matters only to such a use.
- The order of notification handlers: each runs on a goroutine of its own, and
  `stop` is documented not to wait for one in flight.
- A bound of the wait in `Query` of `runIter`: nothing in the code bounds it, since
  the watchdog is armed after it has returned.
- `RetryPolicy.Do` and `DoValue` for arbitrary functions: they are `do` with a
  context that never ends, a special case of `Execution`.
- The parts marked not_modelled in `PROJECT.json`.

## 6. Plan

Done: `Transaction`, `Listen`, `Execution`, `Metrics`, `Session`, `Options`,
`Cluster` and `Repository`, in this order, with their proofs. What would come
next:

1. A composition of `Execution` and `Metrics` over one hook registry, so that the
   pairing of hooks and the counting by one collector are shown together.
2. `DB.Close` against calls under way: pgxpool waits for connections that are lent,
   so that a `Close` from inside a consumer of `Iter` would wait for itself.
3. Proofs: for the composition, that each statement is counted by at most one
   collector; for `Listen`, how many turns of the loop may follow a stop that does
   not find it asleep.

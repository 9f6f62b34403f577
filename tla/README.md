# Verification of xpg

TLA+ specifications of [xpg](../src/README.md), a Go library over pgx v5: pools,
transactions, advisory locks, primary/replica clusters and shard topologies. TLC
checks the specifications on small instances; TLAPS proves every safety property and
every refinement the runs check, for every value of the constants.

## The system

| Part | State | Operations | What makes it correct |
|---|---|---|---|
| Pool (`pool.go`) | pgx pool, metrics registration, `closeOnce` | `New`, `Open`, `Close`, queries | Close is complete when it returns, for every caller; statistics are never read from a closed pool; nothing leaks when construction fails |
| Transactions (`tx.go`) | none of its own; one connection per call | `InTx`, `InSavepoint` | nil means applied as a whole, an error of the callback means nothing is applied, failed savepoints leave no work behind, connections go back clean |
| Advisory locks (`advisory.go`) | locks of the server's session | `AdvisoryXactLock`, `TryAdvisoryXactLock` | a lock is exclusive while the transaction can still commit, and is released in the end |
| Error classification (`errors.go`) | none | `IsRetryableTransaction`, `IsConnectionError`, ... | what is classified as retryable was not applied |
| Cluster (`topology/cluster`) | primary, replicas, selector with an atomic counter, `closeOnce` | `New`, `ReadPool`, `InPrimaryTx`, `InReadTx`, `Close` | writes on the primary only, policies respected, even spread of reads, order of shutdown |
| Topology (`topology/shard/topology.go`, `shard.go`) | shards in registration order, index by ID, `closeOnce` | `NewTopology`, `Shard`, `Close` | unique IDs, order of shutdown |
| Fan-out (`topology/shard/foreach.go`) | per call: channel, workers, result slots | `ForEachShard` | bounded concurrency, race-free slots, truthful report, termination |
| Grouping (`topology/shard/group.go`) | per call: groups, index of groups | `SameShard`, `GroupByShard`, `PartitionByShard` | no key lost, duplicated or misplaced; order kept; first failure reported |
| Resolvers (`topology/shard/resolver`) | immutable routing tables | `NewRange`/`NewTimeRange`/`NewRendezvous`/`NewCustom`, `Resolve` | exact acceptance of tables, exact lookup, stable placement |
| Options and metadata (`options.go`, labels of pools, clusters and replicas) | maps and slices shared by reference with the caller | setters, `New`, accessors | every pool and cluster says of itself what its own options asked for, whatever happens to shared references |
| Metrics (`extra/otelxpg`, `stats.go`) | callback registrations, a table of instruments | `Register`, `Close`, collection | collection and shutdown exclude each other; every statistic is exported, consistently, in a time series of its own |
| Examples (`examples/`) | none | what callers do with the library | batches over shards stop after a prefix; colocated keys change together |
| Logging (`extra/slogxpg`) | none | one adapter | - |

They interact by calls and callbacks. A topology owns clusters, a cluster owns pools,
and `Close` walks that tree; `ForEachShard` and the transaction functions call back
into user code; a metrics reader calls back into `Pool.Stats` from a goroutine of its
own; resolvers produce the shards that grouping and the cluster's transaction functions
use. Concurrency comes from user goroutines that share pools, clusters and topologies,
from the workers of `ForEachShard`, from the metrics reader, and from PostgreSQL, which
goes on with what it has received after a client has given up. The hard parts are
cancellation, lost connections, unlocked slots, nested `sync.Once`, shared references, and
boundaries.

## Modules

| Module | Models | Runs |
|---|---|---|
| `FanOut` | the promise of `ForEachShard`, without workers or a channel | refined in `fan_out` |
| `ForEachShard` | `ForEachShard` step by step | `fan_out` |
| `Construction` | `New`, `cluster.New`, `NewTopology` and a caller that keeps their ownership rules | `construction` |
| `Lifecycle` | `Close` of topology, clusters, pools and metrics, with users | `shutdown` |
| `AtomicTransaction` | the promise of `InTx`, without connections, sessions, savepoints or locks | refined in `transactions`; used by `ShardBatch` |
| `Transactions` | `InTx`, `InSavepoint`, advisory locks, retry classification | `transactions`, `transactions_live`, `savepoint_own_context` |
| `Routing` | `ReadPool`, selectors, `InPrimaryTx`, `InReadTx` | `routing` |
| `RangeResolver` | `NewRange`, `Resolve` | `ranges` |
| `TimeRange` | `NewTimeRange`, `Resolve`, shown to implement `RangeResolver` | `time_ranges` |
| `Rendezvous` | `NewRendezvous`, `Resolve` and the key encoders | `rendezvous` |
| `Grouping` | `SameShard`, `GroupByShard`, `PartitionByShard` over a `CustomResolver` | extended by `ShardBatch` |
| `ShardBatch` | what `examples/shard_group` does with groups: `Grouping` composed with shard handles and the transactions of `AtomicTransaction` | `shard_batch` |
| `Metadata` | options, `New`'s settings, labels, `cluster.New`'s copies and replica metadata | extended by `Telemetry` |
| `Telemetry` | `Register`, the table of instruments, collection, `Close`: `Metadata` composed with connections and a metrics reader | `telemetry` |
| `ForEachShardProofs`, `LifecycleProofs`, `ConstructionProofs`, `TransactionsProofs`, `RoutingProofs`, `ShardBatchProofs`, `RangeResolverProofs`, `TimeRangeProofs` | theorems about the module they are named after; `ShardBatchProofs` also about `Grouping`, `RoutingProofs` about `Rendezvous`, `LifecycleProofs` about `Metadata` and `Telemetry` | |

`MC...` modules give the constants their values. In every module definitions whose
comment starts with "Mutant:" are not part of the specification: each is a plausible
bug in a named definition, and the property it stands next to in `PROJECT.json` is
known to fail when it takes that definition's place.

### ForEachShard

`pc` is the dispatcher's position in `ForEachShard` and `wpc` that of each worker
goroutine. Every read of `ctx.Err()` is a step (`LoopTest`, `CheckContext`), because
what it returned can be stale when it is acted on; `Send` is the rendezvous on the
unbuffered channel, `SelectDone` the other case of the `select`, `Call` and `Return`
frame the user's callback, `Exit` is a callback that ends its goroutine (`runtime.Goexit`),
`Wait` is the WaitGroup. `results` is allocated nil, as in
Go, so that an unwritten slot looks like a success. `outcome` and `late` are history:
what each callback really did, and how many started after the cancellation.

`fan_out` checks up to three shards, concurrency arguments on both sides of that, nil
callbacks and cancellation anywhere. `SlotsExclusive` is the absence of data races,
`ReportExact` relates the returned slots and error to the real outcomes,
`LateStartsBounded` says precisely what cancellation promises: one late callback per
worker at most. `ImplementsFanOut` is the refinement of `FanOut`, in which the report
appears atomically. Three shards with one to four workers already cover a worker that
serves two jobs, idle workers, and a job handed out after the cancellation; the proofs
remove the bound. Liveness assumes weak fairness of every goroutine that can
proceed; callbacks need not return while the context lives, but do once it is cancelled.
Then the call returns (`CancelReturns`), and it returns whenever its callbacks do, unless
they have ended every worker while shards are left and nobody cancels
(`ReturnsWithCallbacks`): that call blocks for ever.

### Construction

A caller opens the pools of a deployment one by one (`New`, then a ping), wraps the pools of
each cluster with `cluster.New` and the clusters with `NewTopology`. After an error it closes
what it still holds, last first, as `examples/cluster/setup.go` and `examples/shard/setup.go`
do, and as the constructors' comments ask ("takes ownership only after it returns
successfully"). Registering, assigning `p.metrics` and the two steps of `Pool.Close` are
separate steps, because a metrics collection may run between them. `OneOwner` counts who
would close an open pool; `AllOrNothing` says what is left in the end, whatever failed;
`RegisteredIsOpen` is what a collection relies on. `construction` has deployments of up to
two clusters and three pools with good, duplicate and empty IDs, bad labels and clusters
without pools: a failure at any pool then meets a finished cluster, a half-opened one or
none. No pool is used in two places of a deployment (`Lifecycle` covers shared pools).

### Lifecycle

Objects are a topology, clusters and pools, wired by constants. A Close call is: `CallClose`,
then `Enter` by the one caller whose `Once.Do` runs the body, and `ReturnClose` of all
callers when the body is done. Bodies of containers call the Close of their parts with
`CloseNext`; the body of a pool is `UnregisterMetrics`, `ClosePgx`, `FinishPool`. Clients
acquire and release connections, a reader collects. A pool may belong to two clusters,
as the constructors do not forbid it.

`shutdown` has two clusters, three pools (one of them shared), two closers, two clients
and two pools with metrics; it covers concurrent and repeated closes at different levels
of the tree. Fairness, for `CloseReturns`: goroutines that can proceed do, clients release
what they hold, collections end, and `Unregister` gets the SDK's mutex in the end (strong
fairness, since `sync.Mutex` does not starve). Without releasing clients no Close could
return, as its comment says.

### Transactions

Each call of `InTx` has a client side (`pc`, `in` for the savepoint's callback, `open` for
its end of the connection), a server session (`status`, `pending` for what the server has
received and not finished, `outer` and `inner` for the writes and locks outside and since
the open savepoint, `durable`) and history: `told` and `toldInner` are what the callback
has been told it achieved. The callback does anything in any order. Contexts end, connections
break and the server drops sessions between any two steps. pgx and PostgreSQL are
external. What the specification takes from them: `BeginFunc` rolls back on error or panic
and drops the rollback's error; a statement under a finished context is not sent; an
unsent commit or rollback closes the connection; a server executes a received commit even
if the client is gone; locks taken since a savepoint go with the rollback to it.

`transactions` runs two calls with one lock and one savepoint each. One writes; the other
only locks and gives its savepoint a context of its own (writes of different calls meet
nowhere in the model, locks do). It is the smallest instance with contention, dropped
sessions whose locks are taken over, and lost commit answers. What the result of `InTx`
means is said by `AtomicTransaction`: nil for work that is applied as a whole, a final error
for work that is not and never will be, an unknown one when the connection or the context
failed, after which the work may still become durable, as a whole, once. The refinement
`ImplementsAtomicTransaction` maps the work to what the callback has been told it achieved,
so that a failed savepoint must take back exactly its part of it. It is about the calls whose
savepoint runs under the context of the transaction; for the others it does not hold
(`savepoint_own_context`, below). `RetryIsSafe` is
about the errors a caller may replay, `FailedSavepointsStayOut` says that optional work stays
optional, `LocksFence` that a lock is held as long as it matters (`src/README.md:96` says: for the
lifetime of the transaction; a lock taken in a savepoint that is rolled back is released then, by
PostgreSQL, and the property leaves it out), `PooledIsClean` what goes
back to the pool.
`transactions_live` has two locks, so that deadlocks occur, and no writes. Fairness: the
server answers, breaks cycles of waits and notices dead clients; clients notice dead
sessions; callbacks return (strong fairness, as a callback may also wait for locks in
between; `tx.go` asks callbacks to return promptly).

`savepoint_own_context` is the one run that finds a disagreement. `tx.go:47` says that a
savepoint whose callback fails is rolled back. If `InSavepoint` is given a context of its
own, such as a timeout, and it ends between two statements, the rollback is not sent, its
error is dropped, and a transaction that goes on commits the savepoint's work. With one
context for both the commit cannot be sent either, and `FailedSavepointsStayOut` holds.

### Routing

Callers run `InReadTx` with a policy or `InPrimaryTx` with an access mode; drawing a ticket from the
round-robin counter and using it are different steps of a caller. `WritesOnPrimary`
relates pool and access mode to the function called, `FallsBackOnlyWithoutReplica` the pool to
the policy and the selector's answer, also for selectors that return garbage. `EvenShares` bounds the imbalance of the replicas across
the wrap-around of the counter; the counter has three bits and draws are bounded by 20, so
that it wraps twice, with two replicas (no effect) and three (a broken rotation each time).

### RangeResolver

NewRange and Resolve as loops, one iteration a step. NaN stands for floating-point values
that compare with nothing. `AcceptsExactlyWellFormed` compares the neighbour check with the
overlap of any two ranges, `LookupExact` the binary search with containment. `ranges` takes
every list of up to three ranges over four boundaries and NaN, and every arrangement of four
of six unit ranges, so that a search takes up to three probes. The loop
of the search is that of the standard library's `sort.Search`; what the code contributes is the
predicate, `EndsAfter`, and whether the search ends is not a question about this code. A
topology that is nil or empty (`RequireTopology`) and a resolver that is nil, because `NewRange`
failed, only lead to an error.

### TimeRange

The same algorithm over `time.Time`. What can go wrong is the order: two times read from the
clock are compared by their monotonic readings, others by the wall clock, and after the wall
clock has been set the two disagree, so that sorting and searching would have no order to go
by. `timeToUTC` drops the reading. `ImplementsRangeResolver` maps every time to its instant
on the wall clock and says that the behaviour is one of `RangeResolver`, whose properties
therefore hold for times. `time_ranges` gives every time with and without a reading, and the
readings run against the wall clock. Locations are left out, as no comparison looks at them.

### Rendezvous

Two calls of `Resolve` on any two resolvers of up to three shards, with any namespace and any
key of an encoder. The buffer is put together as in the code, each text after its length; a
length is one unit up to `MaxUint32`, here 2, so that longer texts are refused, and an integer
key has two bits. Texts are prefixes of each other and hold bytes that look like lengths. The
hash is an arbitrary function that is made up when first asked, with two values: ties and
zeros are common. `StablePlacement` is about changes of the topology, its order, the buffer
shared by the candidates and the all-zero hash, `InputsApart` about the framing of the hash
input and the conversion of integer keys.

### Grouping and ShardBatch

Up to five keys over three shards and any answer of the resolve function for each, among
them IDs the topology does not know, which `CustomResolver` must turn into an error. A group
holds the positions of its keys, so that `GroupsExact` can tell loss, duplication and
disorder; `FailsAtFirst` is about partial failure. Five keys are the fewest in which a shard
comes back after two others and a further key follows.

`ShardBatch` goes on with what the functions of `examples/shard_group/main.go` do with the
result. `batchActivateUsers` sends one statement per group, without a common transaction: any
of them may find too few rows, or fail with its answer lost, and what has been sent may be
executed after the call has returned (`ExecutedLate`). `BatchPrefix` says what a caller can
rely on all the same. `updateColocatedUsers` runs a transaction on the one shard of all keys;
the transaction is the one `AtomicTransaction` promises, which `Transactions` implements, so
the two runs together carry `ColocatedAllOrNothing` down to connections and sessions.

### Metadata

Go maps and slices are references. `heap` holds their contents and a reference is a position
in it, so that a missing copy is visible: the caller goes on writing to the map, slices and
config it passed and to what accessors returned (`WriteArgument`, `WriteConfig`,
`WriteResult`), and uses the same option list for several pools. `AsConfigured` compares every
pool, cluster and replica description with what was asked for when it was made, in the words
of the options' documentation: last name, last value per key, all tracers in order. What is
asked for is computed from the list by itself (`AskedLabels`, `AskedTracers`), not by applying
the options one after the other. `WithTracers` is the one option that keeps the caller's slice
rather than a copy; it is read when `New` applies it, and the model follows the code.

### Telemetry

A reader invokes the callback of a registered pool, which takes one snapshot and observes the
table of rows, while connections move between states and the pool closes. The SDK is
external: attributes are a set in which the last value for a key counts, an observation of an
instrument that was not registered with the callback is dropped, a successful `Unregister`
excludes collections, and an `Unregister` may fail. `SeriesApart` says that no two rows share a
time series even if labels use the export's own keys; `ConsistentExport` that every statistic
is exported and the counts belong to one moment; `ReadsOfClosedReported` that a pool is read
after it was closed only if its registration failed to close and that was reported.

`telemetry` opens two pools in turn, with eight option lists that repeat keys, names and
tracers and hold every invalid option once; one write behind a reference; labels that
imitate the pool name and the connection state; one connection per pool, which is enough for
two levels read at different times to add up to more than the limit. The collected pool is the
first; the second matters for `SeriesApart` and for shared references. The run does not check
deadlock, because the caller may simply stop when it has opened and closed its pools.

## Proofs

Each proof module EXTENDS its specification and proves the theorems listed in
`PROJECT.json` from the named assumptions on the constants only: lengths, limits and
widths are naturals, objects of different kinds are different, ranges are over integers and
NaN, every pool of a deployment has one place in it, an option list is a list of options. Three
helpers are written out where a library operator would do, so that they can be reasoned about:
`PowerOf2` (the provers know no powers with a variable exponent), `settings` (a fold takes an
operator as its argument) and `Over`, `Entry` (for the map operators of module TLC). The first
two are recursive functions; that a function as defined exists is a lemma (`PowerOf2Def`,
`SettingsDef`, `JoinedDef`), by the smallest bound for which there would be none.

* `ForEachShardProofs`: the inductive invariant `IInv` adds to `TypeOK` how the control
  points of dispatcher and workers, the held slots and the history fit together. It is
  needed because `SlotsExclusive` alone does not say why a worker that waits holds no slot,
  or why a slot below `nextIndex` is either held or answered. `SlotsExclusive`,
  `ReportExact`, `LateStartsBounded` and `BoundedConcurrency` follow from it, the last two
  with a count of workers. `Refinement` shows every step to be a step of `FanOut` or a stutter.
* `LifecycleProofs`: the invariant says that a body is at most one step from its parts, that
  every part before `pos` is closed, and that a finished object is closed below; from it
  `ReturnedIsClosed`, `StatsOfOpenPools` and the action property `ClosesInReverse`, for
  every tree and any number of closers and clients.
* `LifecycleProofs`, export: `ExportInv` says that what the reader holds is a snapshot of levels
  some pool may have at one moment (which need not be those of the pool now), or the exported
  part of one, and that the callback of a pool on which `Close` has begun has been reported. From
  it `ReadsOfClosedReported` and `ConsistentExport`. `SeriesApart` needs no invariant: the values
  of an attribute set are computed key by key (`AttributeValues`), and two rows of one instrument
  differ in an attribute of their own (`RowsApart`), over which no label has power.
* `LifecycleProofs`, metadata: `AsConfigured` is not inductive, since it does not say why a write
  of the caller cannot reach a pool. `MetadataInv` adds that options, pools, the cluster and its
  replica metadata refer to positions of the heap behind the three the caller can write to, and
  that a labels option holds what its map held when it was made; a step only adds to the heap or
  changes one of the three (`Grows`). For `New`, `FoldLast` follows `applyOptions` option by
  option: after i of them the name is that of the last name option, every label that of the last
  option with its key, the tracers all tracers so far. `SettingsAgree` shows that this is what
  `AskedName`, `AskedLabels` and `AskedTracers` say, which are computed from the list as a whole.
* `RangeResolverProofs`: entries are a rearrangement of the valid ranges, sorted after the
  sort and disjoint as far as neighbours have been checked, so that all boundaries increase;
  during a search everything below `lo` ends at or before the key and everything from `hi` on
  ends after it. From it `AcceptsExactlyWellFormed` and `LookupExact` for any number of ranges.
* `TimeRangeProofs`: nothing the resolver keeps has a monotonic reading, hence every
  comparison is one of the wall clock and every step one of `RangeResolver` (`Refinement`). The
  two theorems of `RangeResolverProofs` are instantiated and carried over that refinement
  (`AcceptanceIsExact`, `LookupIsExact` for times).
* `RoutingProofs`, rendezvous: that a placement is stable is about calls that are over, so
  the invariant keeps why each was answered as it was: the answer *beats* every shard of its
  resolver, in score or, when scores are equal, in the order of Go strings, which is proved to
  be total, transitive and asymmetric. During a call the candidate kept beats the candidates
  before it. Both need that a namespace, a key and an ID have one score, that is, that what is
  hashed depends on nothing else: the buffer begins with the part the candidates share, and the
  ID's part is written over whatever a longer ID has left. `Placement` is `StablePlacement` for
  every hash. `Independence` is `InputsApart`: the framing is taken apart from the front, length
  by length, which leaves that an encoder tells its keys apart. For integers of any width
  `BitsDetermine` shows that a number is its bits, and `ComplementDetermines` that two's
  complement does not confuse negative and positive numbers.
* `ConstructionProofs`: `OneOwner` counts who would close a pool, which no step can be shown to
  keep without knowing where the pools come from. The invariant says that the lists a caller
  holds are the beginnings of the lists of the deployment, in which a pool has one place; how
  far they reach is a function of the phase, and on an error path they only get shorter; what
  is open is exactly what is held; what is registered is open. `OneOwner`, `AllOrNothing` and
  `RegisteredIsOpen` follow for every deployment.
* `TransactionsProofs`: the invariant relates, call by call, what the client believes, what the
  server's session is in, and what has been told to whom. `ClientOK` and `SessionOK` fit control
  and session together, `OutcomeOK` says what a commit that is under way or a durable
  transaction excludes of the result, `WorkOK` and `SavepointsOK` that the work outside and
  inside the savepoint is what the callback counts as done as long as a commit is possible, with
  failed savepoints in neither part, `LocksOK` that the locks a callback was told of are where
  it was told, and `LocksExclusive` that no lock has two holders, clients that are gone
  included. One lemma
  per action keeps the invariant of the call that acts; `Frame` keeps that of the others, since a
  step takes no lock another call holds. From it `RetryIsSafe`, `FailedSavepointsStayOut`,
  `LocksFence` and `PooledIsClean`, for any number of calls, keys and savepoints, and
  `ImplementsAtomicTransaction` (`AtomicTransactions`): each step is shown to be a stutter or one
  of the steps of `AtomicTransaction` for the call that acts. These theorems too are about the
  calls whose savepoints share the context of the transaction where the properties are.
* `RoutingProofs`: `WritesOnPrimary` and `FallsBackOnlyWithoutReplica` follow from what is known
  of a caller between the selector's answer and its transaction. `EvenShares` is not inductive:
  the invariant is an account of the tickets, in which every value the counter has had is in the
  share of a replica or held by a caller in flight, and the number of tickets drawn for a replica
  is computed from the number of wrap-arounds by division. That arithmetic is the first section.
* `ShardBatchProofs`: `GroupingInv` is what the loop has done with the keys before `index`: a group
  lists the keys of its shard so far, in order, and the index leads to it; groups are in the
  order of their first keys. From it `GroupsExact` and `FailsAtFirst` for any number of keys. On
  top of it, `LoopOK` says what the groups before the current one have changed and that those
  after it are untouched, a statement still on its way included, and `TxOK` that the one
  transaction changes all keys: `BatchPrefix` and `ColocatedAllOrNothing`.

Only model-checked: the liveness properties, as temporal reasoning with fairness is out of
the prover's reach (`CancelReturns`, `ReturnsWithCallbacks`, `CloseReturns`,
`LocksReleased`, `LockWaitEnds`).

## Not modelled

* A panic in a callback of `ForEachShard`: it ends the process.
* Close from inside a callback of the same pool, listed as a hazard without a property: it waits
  for itself, by design, as in pgxpool.
* Savepoints nested in savepoints; a second connection taken by a transaction's callback, as
  `examples/advisory` does (with a pool of one connection it would wait for itself).
* The choice of the meter provider (`extra/otelxpg/options.go`), the cumulative counters of
  `PoolStats`, which are copied one by one, and error predicates other than
  `IsRetryableTransaction`, which compare one SQLSTATE each.
* The forwarding methods of `shard.Shard` other than those `ShardBatch` uses, and the logging
  adapter (`extra/slogxpg`), which translates levels and attributes: no control of their own.
* The examples other than `shard_group` and the two `setup.go`: sequences of calls of single
  features, which the modules of those features allow any caller to make.
* `pgx`, `pgxpool`, PostgreSQL and the OpenTelemetry SDK beyond what the modules state.

## Plan

1. Nested savepoints; the fan-out of transactions over shards (`ForEachShard` with
   `InPrimaryTx`).
2. `Stats` of a pool whose counters grow, for the cumulative instruments.

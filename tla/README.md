# TLA+ models of the e-commerce lakehouse pipeline

These modules model how `ecommerce_pipeline` moves changes from PostgreSQL to
Gold: a batch run and a CDC stream write the same Silver tables, several jobs
publish the same Gold release, and a lease in a Delta table keeps them apart.
The difficult part of this code is not in its SQL. It is in what happens between
two Delta commits: another writer, a crash, a retry, a message that has not
arrived. The models keep every commit, guard and early return of the code and
abstract the rows to what the properties can tell apart.

Source paths below are relative to the package
(`src/ecommerce_pipeline/` of the repository) unless they start with `README.md`,
`configs/`, `schema/` or `infra/`.

## 1. The system

```
PostgreSQL ──change_events──> Batch Bronze ──run_table──┐
     │                                                  ├─> Unified Silver ──GoldBuilder──> Gold tables
     └──WAL, Debezium──> Raw CDC ──> Typed CDC ─callback┘   + change history                  release marker
                                           └────────────> gold_reconcile_queue ──control loop──┘
             one writer lock around every Silver write and every Gold publication
```

| Component | State it keeps | Operations | What makes it correct |
|---|---|---|---|
| Writer lock (`control/cloud_lock.py`) | one lease row: owner, expiry | MERGE, read back, retry, give up, DELETE | one job inside; a dead job's row expires; nobody removes a live row of another |
| Batch Bronze (`ingestion/batch`) | append-only tables; cursor in the commit | extract a bounded range | rows and cursor move together; nothing is skipped |
| Raw and typed CDC Bronze (`ingestion/streaming/bronze.py`, `typed_bronze.py`) | append-only tables; quarantine; Spark checkpoints | append raw, route, append by `txnVersion`, read back | each event once, in its table; a merge gets its own batch |
| Silver, batch writer (`pipelines/build_silver.py`) | current table, history table, `last_processed_bronze_version` | replace, snapshot merge, incremental merge, no-op | progress is never ahead of the data; older changes lose |
| Silver, stream callback (`ingestion/streaming/unified_silver.py`) | the same tables; txn ids; Spark checkpoint | history append, merge, enqueue | a micro-batch that is run again changes nothing; tombstones stay |
| Reconcile queue (`control/gold_reconcile_queue.py`) | pending and published requests | enqueue, pending, complete | no Silver change is left out of Gold |
| Control loops (`jobs/run_cloud_cdc.py`, `run_silver_streaming.py`) | last reconciled batch id (in memory) | wake up, check readiness, defer, publish | an order is published whole; requests are answered |
| Batch run (`jobs/run_batch.py`) | manifests of the run | Bronze, skip or Silver, Gold, validate | a run that succeeds has been released |
| Gold builder (`pipelines/build_gold.py`) | ten tables, SCD2 checkpoints | incremental, full, metadata-only, no-op | the release shows the Silver it claims |
| Release marker (`control/gold_releases.py`) | a property of `fact_sales` | latest, publish | readers see checked data, never older data |
| Quality gates (`pipelines/quality.py`) | none | full, incremental, SCD2 | nothing rejected is released |
| SCD2 dimensions (`transformations/gold/scd2.py`, `pipelines/build_gold.py`) | versions with deterministic keys; a checkpoint per dimension | replay a history, upsert and delete keys, temporal join | versions follow the history, also when two histories are joined; a fact has the version of its order's time, and that version exists |
| Fact amounts (`transformations/gold/fact_sales.py`) | none | split shipping and discounts over lines | shares add up to the cent; no order is refused for its rounding |

The components share the Delta tables and the lock. They call one another
directly only inside a job: the callback calls the queue, and the control loop
and the batch run call the builder, which calls the gates and the marker. The
hard behaviours are the two channels that deliver each change twice, in either
order and with different timestamps; crashes between two commits of one
operation; the lock that is given up between Silver and Gold of one batch run;
micro-batches that run again, also under other batch ids after a reset; requests that
are deferred; late events that rewrite a dimension under facts already released; and
incremental builds that must give what a full one would.

`PROJECT.json` lists every component, also those left out, and under `hazards`
the lines where these behaviours bite, each with the properties that watch it.

## 2. Modules

| Module | Models | Role |
|---|---|---|
| `WriterMutex` | the promise of `configs/base.yaml:57` | abstract specification |
| `PipelineLock` | `control/cloud_lock.py` | implements `WriterMutex` |
| `PipelineLockProofs` | | theorems about the lock |
| `UnifiedSilver` | one Silver table, its history, both writers | |
| `UnifiedSilverProofs` | | theorems about Silver |
| `CdcIngest` | raw and typed Bronze, quarantine, the batches merged into Silver | |
| `CdcIngestProofs` | | theorems about the ingestion |
| `GoldQueue` | callback, queue, readiness, control loops | |
| `GoldQueueProofs` | | theorems about the queue |
| `GoldPublication` | what `control/gold_releases.py` promises its readers | abstract specification |
| `GoldRelease` | batch run, builder, gates, release marker | implements `GoldPublication` |
| `GoldReleaseProofs` | | theorems about releases |
| `Scd2Dimension` | one customer: history, SCD2 replay, facts, gates, what a release pins | |
| `Scd2DimensionProofs` | | theorems about the dimension and its facts |
| `JoinedDimensions` | categories with parents, variants with products: joined histories, incremental scope | |
| `JoinedDimensionsProofs` | | theorems about the joined dimensions |
| `FactSales` | the amounts of one order | |
| `FactSalesProofs` | | theorems about the amounts |
| `MC...` | | instances for TLC |

The modules meet where one takes as a step what another takes apart. `UnifiedSilver`,
`GoldQueue` and `GoldRelease` treat the writer lock as a mutex that a dead holder frees:
`PipelineLock` says when it is one. `UnifiedSilver` takes a micro-batch for given, `CdcIngest`
says which events it has. `GoldRelease` counts the events a table version reflects,
`Scd2Dimension`, `JoinedDimensions` and `FactSales` say what is in the rows.

Operators named `Bug...` are variants of the operator that follows them, with one
plausible mistake each (a dropped guard, a wrong version, an unchecked result).
No action uses them. Each was put in the place of its original once to see that
the property it is paired with in `PROJECT.json` fails.

### 2.1 PipelineLock

`lease` is the row (owner and polls left before `expires_at`); `phase`, `owner`,
`waited`, `held` say where each job is in `cloud_pipeline_lock`. One action per
step: `Request` draws a uuid, `LeaseMerge` is the optimistic MERGE, `Conflict` a
concurrent-modification error in the MERGE or in the read after it, `ReadBack` the
check of the row's owner, `Retry` / `TimeOut` the deadline, `AcquireError` any other
error, `Release` and `ReleaseError` the conditional DELETE, `Crash` the end of the
driver at any point. `Tick` lets one poll (five seconds) pass for everybody.
`expires_at` is kept as time left, so that time itself has no bound.

Two assumptions stand for the world: `OnTime` says that an acquisition ends one
poll after its deadline and a body within `MaxHold` polls, and `SafeTiming` says
`LockWait + 1 + MaxHold < TTL`. The shipped configuration (`cloud_lock_ttl_seconds`
21600, `lock_wait_seconds` 600) meets `SafeTiming` for bodies of up to about five
hours and fifty minutes.

* `MutualExclusion`, `ImplementsMutex` - with `SafeTiming`. `lock_safe` checks them
  with three jobs, conflicts, errors and crashes.
* `LiveLeaseEndedByOwner`, `ContenderAnswered`, `OrphanExpires` - for every timing.
  `lock_overrun` checks them where bodies outlive the lease.
* Without `SafeTiming` there is no exclusion: the lease is never renewed
  (`cloud_lock.py:88`), so a second job joins a holder that is still writing. With the
  timing of `lock_overrun`, TLC finds `MutualExclusion` violated within a few steps.

### 2.2 UnifiedSilver

A change is its position in the source log. One writer appends to the log
(`README.md:901`), so the position is its event id, its LSN and its `occurred_at`.
Debezium stamps a change with the time of capture instead (`debezium.py:112`), which
is later or equal; `captured` holds these times. A Silver row carries its key, its
sequence columns and `_is_deleted`; `Newer` is `_lexicographic_newer_condition`,
`Newest` the window of `current_state`, `Merge` the MERGE of `upsert_table` with or
without the insertion of tombstones.

The batch run picks a Bronze version (`Extract`, `ReadBronzeVersion`), then reads the
progress under the lock and chooses among replacement, snapshot merge, incremental
merge and nothing; each of its Delta commits is an action. The callback's are
`AppendStreamHistory`, `MergeStream` and Spark's `CommitMicroBatch`; a planned
micro-batch is run again until that last commit. `CrashBatch` and `CrashStream` may
happen before or after any commit. `LockFree` stands for the writer lock, taken as a
mutex that a dead holder frees (2.1 says when that is so).

* `Converged` - when both channels have delivered the whole log, Silver is the source.
* `ProgressReflected` - every change the progress claims is in Silver, or a newer one is.
* `CdcTombstoneFinal` - a CDC tombstone is undone only by a later change or a rebuild.
* `silver_history` shows a disagreement (section 5).
* A key that CDC inserts and deletes before the batch run delivers its insert has no row
  to mark (`adapters/lakehouse.py:394`), so no tombstone: the batch run shows it until it
  reaches the delete, although `README.md:48-49` says that the tombstone is kept. `Converged`
  says what holds afterwards.

### 2.3 GoldQueue

Orders have a header and an item on two topics; `Product` stands for the tables that
are not order scoped. A row's content is the number of transactions it reflects, and
header and item *agree* on the amount when the numbers are equal: every transaction
of the model changes the amount, so equal amounts of different transactions, which
the code would accept, do not occur. The query (`PlanMicroBatch`, `EnterCallback`,
`MergeTable` once per table in any order, `Enqueue`, `CommitMicroBatch`) and the control
loop (`WakeContinuous` / `WakeAvailableNow`, `SelectPending`, then `Defer`,
`PublishGold` and `Complete`, or `SkipOnQuality`) exclude each other by `_cycle_lock`
and otherwise interleave freely. `IdleProgress` is Spark's report for a trigger
without data, whose `batchId` is the id the next data batch will have. `Crash` loses
everything but Delta tables and the checkpoint.

* `UnpublishedIsQueued` - a committed Silver row that Gold does not show is covered by
  a pending request.
* `ReleasedOrdersAreWhole` - every order a publication shows has matching header and
  item. A selection that `max_gold_readiness_order_ids` cut down to requests without
  readiness is excepted, and the exception is stated in the property; with two changes of the
  source, as in the run, it is not reached, and with three it is.
* `WholeSilverIsPublished` - once Silver stands still with a row for everything, Gold comes
  to show it, or the quality gate says why not. The queue itself need not be empty then: a
  cycle with more pending rows than the limit completes the rows it selected, and
  `run_cloud_cdc.py:195-198` does not wake up again for the rest before the next `batchId`,
  although Gold shows everything.
* An order without a row in Silver is the case the readiness check never lets through
  (section 5).

### 2.4 GoldRelease

Two source tables stand for twelve: `app_users` feeds `dim_customer` by way of its
change history and the SCD2 checkpoint, `orders` feeds `fact_sales`. Tables are
sequences of commits, a version is a position in them, and what a version holds is the
number of source events it reflects; a Gold version also says whether a gate passed
it. `run` is the batch run with its Bronze and Silver manifests, `build` the builder
that holds the lock. `OtherBuild` is every builder without a manifest: the stream's
cycle, `--mode gold`, the repair job, incremental or full. `FailRun` and `FailOther`
are crashes and gates that do not pass, at any point.

* `ReleaseShowsItsSilver` - the pinned tables contain what the release claims to have
  consumed, whatever crashed between table, checkpoint and marker.
* `ReleaseNeverRegresses` - no publication takes content back; and only a full rebuild
  of the batch run, which does not refresh its manifest, may claim older versions.
* `SupersededRunCompletes` - a run overtaken between its two locks is neither refused
  nor found lagging (`_refresh_stale_propagated_versions`).
* `SucceededRunIsReleased` - a run that went through Silver and Gold has its events, and
  those of failed runs before it, in the active release.
* `SkippedRunIsReleased` - a run that skips Silver and Gold has nothing left to deliver,
  as long as Silver has processed what Bronze holds. Without that condition it has
  (section 5).
* `ImplementsPublication` - to a reader the release is a prefix of each source table.
  `GoldPublication` has two actions: the source commits, and a publication replaces the whole
  release at once by one that claims no more than it shows, shows no more than is committed,
  and takes nothing back. `ReleaseView` maps the marker to that prefix by what the pinned
  versions hold, so everything a builder, a failed build or the callback writes to the tables
  must be invisible until the marker moves.
* `release_rejected` shows a disagreement (section 5).

### 2.5 Scd2Dimension

`GoldRelease` says which versions of the tables a release pins; this module says what
is in two of them. `source` holds the changes of one customer, `captured` their capture
times. A history event is a change delivered by one channel: `batch` with the time of the
commit, `cdc` with the time of capture. `Type2Starts`, `VersionOf` and `Replay` are the
windows of `_replay_single_entity_scd2`; `Upsert` is the MERGE of
`_upsert_replayed_scd2` with its delete keys; `FactKey` the temporal join with its
fallback before the first version; `ValidScd2` and `FactsPass` the gates. The customer
key is the pair of `effective_from` and attribute hash, as in the code, so it changes when
a version's start moves. `pending` is what the Silver change feed since the release holds
of substance. A build goes through the dimension, its checkpoint, the gate, the facts and
the publication, each an action, and `Fail` may end it in between; `replayed` is the
checkpoint, `gold` the candidate tables, `release` what readers see.

Kept simple on purpose: the history append and the Silver MERGE are one step here (their
split is in `UnifiedSilver` and `GoldRelease`); Silver is not rebuilt; orders are not
deleted; the CDC channel starts at the first change; a release that pins `fact_sales` at
a failed build's version is only marked (`Misplaced`), since `GoldRelease` is about that;
a metadata-only publication is left out.

* `DimensionFollowsHistory` - when the checkpoint has reached the history, whatever failed
  on the way, the dimension shows at each time what the history says.
* `OnlyTiesAreRefused` - the SCD2 gate refuses a replayed dimension only when two
  boundary events have equal times, such as two updates of one source transaction.
* `ReleaseShowsCurrentCustomer` - skipping metadata-only commits loses nothing.
* `KeysLostOnlyToLateEvents` - a key leaves the dimension only when an event arrives that
  sorts before others.
* `BatchFactsAreExact` - without the stream, facts get the attributes the source had.
* Released facts may refer to keys that are gone (section 5).

### 2.6 JoinedDimensions

`dim_category` joins the category history with itself for the parent's name, `dim_product`
joins variants with products. `log` holds the events of each row of the source, `arrived`
how many the Silver history has: in order for one row, in any order between rows, since
tables and partitions are delivered apart. `States`, `Joined` and `ReplayEntity` are
`_history_states`, the interval join and the replay; `Affected` and `Scope` the part of the
history that `update_category` and `update_product` let in; `Upsert` the MERGE that deletes
obsolete keys of the affected members only. Full and incremental builds write the tables one
by one, pass the gate and publish; `Fail` may end them in between.

* `ReplayFollowsSource` - the join says for each time what the rows said then.
* `ReleaseIsFullReplay` - an incremental build, after whatever failed, releases of each
  member what a full rebuild would. A member, or a parent it ever had, that has no row in
  Silver is excepted: the change feed does not report it.
* `TwoLevelsPassTheGate` - the SCD2 gate stops only hierarchies of three levels, which it
  should not stop either (section 5).

### 2.7 FactSales

One order with its lines, in cents. `PlaceOrder` is the source, `ArriveHeader` and
`ArriveLine` Silver, `Ready` the readiness check, `FactSales` the columns of
`build_fact_sales` with `ResidualAllocation` (rounding half to even, the residual on the last
line) and both ways to split the discount, `GatePasses` the amount checks of the gate.

* `SharesAddUp` - shares add up to the header's amounts to the cent, for any lines that
  are there.
* `ShippingIsProportional` - no line is further from its proportion than rounding explains.
* `BearableOrdersPass` - a complete order is refused for a negative line and for nothing
  else, and it is not refused when its lines can bear their shares; the
  condition is sharp enough to name the orders that are refused (section 5).
* The readiness check has a tolerance of a cent (`unified_silver.py:309`), so a line that
  costs nothing, or a cent, may be missing from a fact; the gate has the same tolerance. The
  line rebuilds the fact when it arrives.

### 2.8 CdcIngest

Tables are sequences of commits, a commit has the `checkpoint_version` and the micro-batch
of its application id. The query plans a batch (`StartBatch`), or runs a planned one again
(`RerunBatch`), writes the quarantine, appends the typed tables in any order, merges each
into Silver from what it reads back by `_batch_id`, and commits its checkpoint
(`FinishBatch`); `Crash` may fall anywhere. `BumpVersion` is a deployment with a new
`checkpoint_version`; `ResetState` and `ResetSilver` are the two resets of the Makefile.

* `EachEventLandsOnce`, `CommittedIsInSilver`, `MergesOwnBatch` - a batch that runs again is
  recorded once, and its merge gets that batch, no more and no less.
* `EveryEventArrives` - every event reaches Silver or the quarantine in the end.
* All four except versions whose checkpoint was deleted without their tables; `cdc_replay`
  shows why (section 5).

## 3. Runs, bounds and fairness

| Run | Instance | Shows |
|---|---|---|
| `lock_safe` | 3 jobs, 4 uuids, TTL 5, wait 2, body 1 | exclusion and refinement under `SafeTiming` |
| `lock_overrun` | 2 jobs, TTL 2, wait 1, body 3 | what holds when bodies outlive the lease |
| `silver` | 2 keys, 3 changes, full rebuilds | convergence, progress, tombstones |
| `silver_history` | 1 key, 3 changes | violation of `EveryChangeInHistory` |
| `queue` | 2 orders and a product, 2 transactions, 3 micro-batches, limit 1, 2 crashes | the hand-off, whole orders, and that requests are answered |
| `release` | 2 events, 2 disturbances | releases, and that they implement `GoldPublication` |
| `release_rejected` | 2 events, 2 disturbances | violation of `ReleasePassedQuality` |
| `scd2` | 3 changes, 2 attributes, 1 order, times 1 to 3, 2 captured late | the dimension, its keys and the facts |
| `joined` | 3 categories, a product and a variant, 2 names, times 1 to 3, 6 rows and events | joined dimensions |
| `fact_amounts` | 7 kinds of line, up to 3 lines, 3 shippings, 4 discounts | the amounts of an order |
| `cdc_ingest` | 2 tables and the quarantine, 3 events, 2 versions, 1 crash, 1 reset | the ingestion |
| `cdc_replay` | as `cdc_ingest` with 2 events | violation of `ReplayRestoresSilver` |

Why the bounds are enough:

* Lock: a third job gives a holder, a contender and one that takes over; a uuid more
  than there are jobs leaves one for an orphaned row. The timings are the smallest that
  meet, or break, `SafeTiming` with at least one retry. The theorems have no bounds.
* Silver: three changes give one key an insert, an update and a delete, in batches and
  micro-batches of one to three changes; the second key shares them. There is no bound
  on crashes, retries, runs or rebuilds, because none is counted. The theorems have no
  bounds.
* Queue: two transactions are an insert and an update or delete of an order, two
  orders, or an order and the product. With a limit of one order id, two orders exceed it at
  the enqueue and two requests exceed it at the selection. Three micro-batches deliver the
  tables of an order apart and leave an id for the idle triggers. Two crashes may fall
  between any two steps, the second during the recovery from the first, and the driver may
  also end by itself. Micro-batches are bounded, so `queue` does not check for deadlock.
* Release: two events put one in each table or both in one; a disturbance is
  a commit of the stream, a crash, a gate that does not pass, or a full rebuild other than
  the bootstrap. Two of them give a history append with its merge, or a failure on either
  side of a commit or a rebuild. The number of batch runs and of other incremental
  publications is not bounded. The theorems have no bounds.
* Scd2: three changes are an insert, a change of attribute and a change back or a delete,
  or a Type 1 change between two others; two attributes suffice to tell a version from its
  neighbours. Three times allow changes at equal times, before and after an order, and
  captures late enough to fall behind a later change. Versions of one customer do not
  interact with another's. Builds, failures and loads are not counted.
* Joined: three categories are a hierarchy of three levels, or two children of one
  parent; six rows and events are, say, two rows with two events each, or three with one,
  and every split of them between histories that have arrived and that have not. The theorems
  have no bounds.
* Amounts: the lines include one that is free, one that is fully discounted, and amounts
  whose proportions round up, down and at exactly half a cent; discounts fall below, at and
  above the sum of the line discounts. An order is placed once, so the run does not check
  for deadlock.
* Ingestion: three events give two tables and the quarantine one each, or one table several,
  in one to three batches; a crash and a reset may both fall anywhere. Events are finite, so
  the runs do not check for deadlock. The theorems have no bounds.

Jobs, uuids, keys, orders, attributes, names, rows and tables are interchangeable where a run
declares symmetry; no run with a liveness property does.

Fairness. `PipelineLock!FairSpec` assumes that time passes, that the loop of a live
contender runs on and that a body ends: the code's loop has no other blocking call, and
`OnTime` says how long bodies take. Nothing is assumed of `Conflict`, `Request` or
`Crash`. `GoldQueue!FairSpec` assumes that the orchestration starts the driver again when
it has ended, that Spark runs triggers and callbacks of a started query, and that the
control loop goes on; each is weak. No fairness is assumed of the source, of new
micro-batches, of crashes, or of the choice between publication and a failed quality
gate: a gate that fails every time is the `quality_skipped` outcome of the property.
`CdcIngest!FairSpec` assumes that the raw stream and the downstream query trigger again and
are restarted after a failure, each weakly; deployments, resets and crashes are under no
fairness.

## 4. What is proved

The proofs are in modules of their own; each states its inductive invariant before the lemmas
about the steps.

`PipelineLockProofs`, from `PipelineLockAssumption`:

* `TypeCorrect` - `Spec => []TypeOK`.
* `LiveLeaseProtected` - `Spec => LiveLeaseEndedByOwner`, for every timing. A live row is
  not `Takeable`, and uuids are distinct.
* `LockExcludes` and `LockImplementsMutex` - under `SafeTiming`. `MutualExclusion` is not
  inductive: nothing in it says why a contender cannot take the row of a holder.
  `LockInv` adds `RowAccounted`: the time a job has spent since its MERGE and the time its
  row has left add up to at least the time to live, so that with `SafeTiming` a job inside
  owns a row that has not expired. Two jobs inside would own the same row.

`UnifiedSilverProofs`, from `UnifiedSilverAssumption`, for every set of keys and every
length of the log:

* `TypeCorrect`, `ProgressIsReflected`, `CdcTombstoneStays`, `SilverConverges`.
* `SilverInv` strengthens `ProgressReflected` with `CaptureInOrder` (capture times grow and
  are never before the change), `WriterInv` (at most one writer is between its commits; what
  the batch writer is about to merge starts right after the progress, or at the first
  change when there is none; the last micro-batch merged is the planned or the committed
  one; a missing table has no row), `RowsAreEvents` (each row is an event of its key, of
  one of the channels) and `StreamRowsNewest` (a row that the stream wrote is the newest
  change of its key that the stream has merged).
  The lemmas `NewerIsTotalOrder`, `LastExists`, `MergeRow`, `BatchNewest` and `CdcNewest`
  say what the sequencing and the MERGE compute; convergence follows because the newest
  batch event of a key and its newest CDC event are the same change.

`CdcIngestProofs`, from `CdcIngestAssumption`, for every set of tables, and every number of
events, versions, crashes and resets:

* `TypeCorrect`, `TypedBronzeExactlyOnce`, `CommittedBatchesReachSilver`,
  `MergesExactlyItsBatch`.
* None of the properties is inductive: a checkpoint that counts a batch as finished says
  nothing of the tables. `IngestInv` says that the batches of a version do not overlap
  (`Increasing`), that at most one is outstanding (`OneOutstanding`), that a commit of a
  version whose checkpoint was never deleted alone is its batch as the checkpoint knows it
  (`TablesFaithful`), and what finished batches and the stages of the running one have
  recorded (`CommittedIsRecorded`, `RunningIsRecorded`).

`GoldQueueProofs`, from `GoldQueueAssumption`, for every set of orders and every limit:

* `TypeCorrect`, `QueueKeepsRequests`, `ReleasedWhole`.
* `QueueInv` adds to `UnpublishedIsQueued` what covers a row between its merge and the
  commit of its micro-batch (`ReturnedIsQueued`, `BatchInv`), and that Silver does not move
  between the publication and `complete()` (`CycleLock`): rows leave the queue only then.
* `ReleasedOrdersAreWhole` needs a second invariant, `WholeInv`: an order of which Silver has
  a header that its line does not match is held by a request that names it, or all orders, or
  the micro-batch in work has merged a row of it and will enqueue it (`HalfArrivedIsHeld`);
  merges always have a micro-batch behind them, and after a crash in the middle of one the new
  driver's loop stays idle, with no progress to wake for, until that micro-batch has run again
  (`MergeIsQuiet`); and what a cycle selected is the whole queue or was cut down to one key
  more than the limit, so that by publication every order is whole or the cycle was only about
  metadata (`SelectionInv`). The marks `all-orders` and `metadata-only` are assumed not to be
  order ids.

`GoldReleaseProofs`, from `GoldReleaseAssumption` (the absence of a marker is not a marker,
and the two bounds are numbers), for any number of events, runs, builders, crashes and failed
gates:

* `TypeCorrect`, `ReleaseShowsSilver`, `NeverRegresses`, `SupersededCompletes`,
  `SucceededReleased`, `SkippedReleased`.
* `ReleaseImplementsPublication` - the refinement. Versions keep their content in every step
  (`VersionsStay`), so only `_publish` changes what readers see (`ViewStands`), and what it
  pins is an allowed publication (`PublishIsPublication`).
* `ReleaseShowsItsSilver` is not inductive: nothing in it says what a build that will
  publish has written so far. `ReleaseInv` follows the content along the logs: the logs grow;
  Silver is never ahead of the history, nor Gold of what it is built from (`HistoryLog`,
  `GoldLogs`); a Silver commit that claims a Bronze version shows it (`SilverLogs`); the
  checkpoint is never ahead of the dimension, also while it is being written
  (`CheckpointShown`); while a builder holds the lock, each table is either kept as the
  release has it, because the versions to be claimed show nothing new for it, or its latest
  version shows them (`Building`); and what a run has in its manifests is in Silver
  (`Manifest`). `PinsShow` is the step that matters: what `_publish` pins, shows what it
  claims and no less than the release before.

`FactSalesProofs`, from `FactSalesAssumption`, for any number of lines, any prices and any
header:

* `TypeCorrect`, `SharesAlwaysAddUp`, `ShippingStaysProportional`, `BearableOrdersAlwaysPass`.
* `Total` is a fold over the lines. Its laws (`TotalPoint`: a total over a set is the total
  without one of its lines, plus that line; `TotalPlus`, `TotalNat`, `TotalWithin`) are proved
  from the fold's definition by a smallest counterexample: over numbers for the fold itself,
  and over the strict subsets of a finite set, which are well founded, for its laws.
  `BRoundIsNear` bounds rounding half to even by half a cent, `SharesSum` and `SharesAreNear`
  say what `ResidualAllocation` gives for every list of weights.
* `MoneyInv` says that a fact, being built or released, is what `FactSales` makes of the
  header and of some of the order's lines that are in Silver (`Built`), and that the header
  has the sums of all the lines (`HeaderAddsUp`): only then do the checks of the gate, which
  compare the fact with the header, say something of the order.

`Scd2DimensionProofs`, from `Scd2DimensionAssumption` (the absence of a row, a fact or a
checkpoint is not one), for any number of changes, times, captures, attributes and orders:

* `TypeCorrect`, `DimensionAlwaysFollows`, `GateRefusesOnlyTies`, `ReleaseIsCurrent`,
  `OnlyLateEventsTakeKeys`, `BatchFactsAlwaysExact`: every property of the module.
* The first part is about the replay of any set of events. `Rank` maps events to numbers in
  the order of `_event_order_columns`, so that first and last events exist and a proof may go
  up the history (`EventInduct`). `StartBelow` does that once: every event that is no DELETE
  shows what the latest event that begins a version began. `DimSays`, `DimShows` and
  `DimValid` follow: what the versions say for a time, what the current one says, and when the
  gate passes them.
* The second part is the invariant. `CandidateInv` is what makes `DimensionFollowsHistory`
  hold after a failure: the candidate table always is the replay of *some* part of the history
  that is at least the checkpoint's, and of all of it while a build works on it. `RowInv` says
  when Silver's row is not the newest event, `PublishedInv` what a release shows as long as
  nothing of substance has changed since, `SourceInv` that a history opens with an INSERT and
  the clock does not go back, `OrdersInv` that nobody deletes a customer with orders. TLC
  checked each of them on the instance of `scd2` before it was proved.
* `LostKey` is the step behind `KeysLostOnlyToLateEvents`: if no new event sorts before an
  event, the larger history gives its version the same key.

`JoinedDimensionsProofs`, from `JoinedDimensionsAssumption` (the three kinds of rows are finite
and disjoint; no parent, no name and no release are not one), for any rows, hierarchies,
clocks, bounds and orders of arrival:

* `TypeCorrect`, `ReplayAlwaysFollows`, `TwoLevelsAlwaysPass`, `ReleaseAlwaysFullReplay`: every
  property of the module.
* The replay. For any set of events with times of their own, `StartBelow` goes up the times
  once: every event that deletes nothing shows what some start began; `DimSays` and `DimValid`
  follow. The events of the interval join are such a set, since the later of two overlapping
  states gives the time (`JoinReads`, `JoinIsOneAtATime`), and the newest of them up to a time
  says what the two rows said then (`JoinFinds`). That the first event of the join is the
  member's first (`JoinOpens`) needs the source: a row refers to one that is there before it
  and is not yet deleted (`SourceInv`).
* A part of the history. A scope with all the parents a row ever had is as good as the whole
  (`ScopeIsEnough`). A category replayed without some of its parents has versions that begin
  inside versions of any other replay of it (`ReplaysOverlap`), and has all the keys of the
  whole replay only if it is the whole replay (`KeysNeedParents`).
* `ReleaseIsFullReplay` is not inductive: it says nothing of the tables between releases. `Inv`
  follows each member. One that nothing touched since the release has all its right keys in the
  candidate table, whatever failed builds have merged into it, and if the gate would accept its
  rows they are the right ones (`Kept`, `MergeKeeps`: a row that was left beside the merged ones
  overlaps one of them); one that was touched is right in every table that the build has
  written (`WrittenInv`); a row that Silver does not report has ended and all of it has arrived
  (`SilverInv`), and a table has versions of no member before its first event (`Placed`).
* `TwoLevelsPassTheGate` needs one more: a category that never had a parent is either right or
  absent in the candidate table (`RootsInv`), because it is replayed whole in every scope.
* TLC checked each conjunct on the instance of `joined` before it was proved.

Not proved: the liveness properties (`ContenderAnswered`, `OrphanExpires`,
`WholeSilverIsPublished`, `EveryEventArrives`) are checked by TLC only, since the proof system
does not handle fairness and `ENABLED`.

## 5. Where the code disagrees with what is said of it

1. `silver_history`. `_replace_from_snapshot` commits the progress before the history
   (`build_silver.py:251-285`); a crash in between leaves changes out of the history for good
   (`transformations/silver/common.py:161-162`).
2. `release_rejected`. The release pins `fact_sales` at the previous version plus one
   (`gold_releases.py:57`), which after a rejected full rebuild is the rejected candidate
   (`README.md:72`, `README.md:685`).
3. `cdc_replay`. `make unified-state-reset` (`Makefile:136`) deletes the checkpoint and keeps
   typed Bronze. The replay that `README.md:531-533` promises counts its batches from 0 again,
   and the typed tables take them for batches they have: the append is skipped, the read-back
   returns the old batch. The bootstrap by a batch run, which the same lines ask for first,
   hides the loss for what the source's log still has. A new `checkpoint_version`, as
   `configs/azure.yaml:41` uses one, or `make cdc-state-reset` replays everything
   (`cdc_ingest`).

The following came up while modelling and are not runs of their own; where a property comes
close to one, its definition states the exception.

* An order inserted and deleted within one micro-batch has no Silver row, is enqueued and
  defers every publication of the stream from then on (`unified_silver.py:338`,
  `README.md:511`). The batch run still publishes. Exception `AllHaveRows` in
  `WholeSilverIsPublished`.
* After a failure between Bronze and Silver, a run without new events skips both Silver and
  Gold, though Bronze is ahead (`run_batch.py:184-192`, docstring at `run_batch.py:293`).
  Exception `SilverHasBronze` in `SkippedRunIsReleased`.
* `customer_key` depends on the start of its version, and only orders with changes of their
  own are rebuilt (`build_gold.py:501`). A late event, here an earlier change that the stream
  captured late, changes where versions begin; the upsert deletes the old key and the facts of
  other orders keep it (`README.md:70-72`). `KeysLostOnlyToLateEvents` says that nothing else
  does.
* In a category hierarchy of three levels, an update of a leaf replays its parent without the
  grandparent (`build_gold.py:359`); the version without a parent name stands beside the right
  one, and the gate refuses the build until a full one. Exception `ThreeLevels` in
  `TwoLevelsPassTheGate`.
* The rounding residual falls on the last line (`fact_sales.py:24`). When that line is
  cheaper than the cents left over, or when an order discounted in full has unequal line
  discounts, an amount comes out negative, and the gate refuses the build with every other
  order in it. Condition `Bearable` in `BearableOrdersPass`.
* The lease is never renewed (2.1) although `configs/base.yaml:57` says that the lock
  serializes publication.
* A CDC delete without a row leaves no tombstone (2.2).
* An attribute that is captured after a later change was committed starts a version of its
  own, although the docstring at `transformations/gold/scd2.py:352` orders events by source
  metadata, not processing time.

## 6. What is not modelled, and why

* Types, columns, hashes and formats: no property so far is about them.
* Time zones: `_normalize_history_event_time` shifts batch times (`scd2.py:443-455`), the
  decoder shifts business timestamps; `Scd2Dimension` takes batch, capture and creation times
  to be on one clock afterwards.
* `dim_shop`, which repeats `dim_customer` without a checkpoint, and the dimensions without
  history, which only gain or replace members.
* The guard of `ingestion/streaming/state.py` against a raw table deleted alone; the change of
  a source epoch (`run_cloud_cdc.py:130`), which needs a new Event Hubs namespace; schema
  drift and `_preflight_targets`; the parsing of the Debezium envelope: which events fail
  validation is a choice in `CdcIngest`.
* The staged modes of the batch run, in which Airflow or Databricks carries the same manifests
  between tasks: the guards are those of `run_mode`, and `GoldRelease` lets other jobs commit
  between the two locks.
* Batch Bronze maintenance (OPTIMIZE, VACUUM), the bound of 100 commits on the search for
  progress, and JDBC retries.
* `README.md:901` is an assumption: with several concurrent source transactions an
  `event_id` below the cursor may commit late and be skipped, which the repository says
  itself.
* The local file lock, orchestration by Airflow and Databricks beyond "at most one run per
  job, started again after it ends", provisioning, configuration, reports.
* In `GoldQueue` the batch run does not write Silver. Rows it merges are in no request, and
  a publication of the stream may take them before its readiness check has seen them.
* Reads of a release by consumers: `versionAsOf` is taken as given.

## 7. Plan

Done: the lock and the release, each with the abstract specification it implements, Unified
Silver, the CDC ingestion, the queue, the customer dimension with its facts and the amounts of
an order, the joined dimensions, all with proofs.

What would come next:

1. `StagedRun` - the Airflow form of the batch run: retries of a stage, manifests older than
   the tables.
2. The batch run in `GoldQueue`, whose Silver rows are in no request.

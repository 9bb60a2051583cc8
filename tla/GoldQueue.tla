-------------------------------- MODULE GoldQueue --------------------------------
(***************************************************************************)
(* The durable hand-off from the CDC callback to Gold: the callback merges *)
(* a micro-batch into the Silver tables and enqueues the orders it touched *)
(* (_process_batch, GoldReconcileQueue); the control loop of the driver    *)
(* looks at the query's lastProgress, selects a pending scope, defers it   *)
(* until the order facts of that scope are complete in Silver, publishes   *)
(* Gold and completes the rows it selected.                                *)
(*                                                                         *)
(* A source transaction writes the order and its item, and changes the     *)
(* order's amount: the header and the item agree on the amount when they   *)
(* stand at the same transaction.  Debezium delivers each table on a topic *)
(* of its own, so the callback may see them apart.  The batch run, which   *)
(* shares Silver, is in other modules.                                     *)
(***************************************************************************)
EXTENDS Integers, Sequences, FiniteSets

CONSTANTS Orders,       \* order ids
          Product,      \* a row outside _ORDER_SCOPED_GOLD_TABLES
          NoBatch,      \* no micro-batch: lastProgress is None, nothing reconciled
          MaxOrderIds,  \* max_gold_readiness_order_ids
          MaxChanges,   \* bound on the transactions of the source
          MaxBatches,   \* bound on micro-batches
          MaxCrashes    \* bound on the ends of the driver

ASSUME GoldQueueAssumption ==
    /\ MaxOrderIds \in Nat \ {0}
    /\ MaxChanges \in Nat /\ MaxBatches \in Nat /\ MaxCrashes \in Nat
    /\ Product \notin Orders /\ IsFiniteSet(Orders)
    /\ Orders \cap {"all-orders", "metadata-only"} = {}
    /\ NoBatch \notin Nat

(* The rows of Silver, and the scopes of a queue row. *)
Header(o) == <<"orders", o>>
Item(o) == <<"order_items", o>>
Rows == {Header(o) : o \in Orders} \cup {Item(o) : o \in Orders} \cup {<<"products", Product>>}
Tables == {"orders", "order_items", "products"}
Scopes == Orders \cup {"all-orders", "metadata-only"}

VARIABLES source,      \* the transactions of an order, and of the product
          consumed,    \* changes of a row in committed micro-batches
          planned,     \* the same, with the micro-batch in Spark's offset log
          batch,       \* batchId of the next micro-batch, or of the one planned
          written,     \* tables whose Silver transaction of that batch is committed
          silver,      \* the change a Silver row stands at, 0 if there is no row
          queue,       \* the pending rows of gold_reconcile_queue
          gold,        \* Silver as the active Gold release shows it
          driver,      \* "stopped", "continuous" or "available_now"
          callback,    \* where the query is in the callback
          loop,        \* where the control loop is in a reconcile cycle
          selected,    \* keys of the PendingGoldScope of its cycle
          refused,     \* its last cycle ended in quality_skipped
          lastProgress, lastReconciled,  \* batchIds
          crashes

streamVars == <<consumed, planned, batch, written, silver>>
loopVars == <<loop, selected, refused, lastReconciled>>
vars == <<source, streamVars, queue, gold, driver, callback, loopVars, lastProgress, crashes>>

Ops == {"INSERT", "UPDATE", "DELETE"}
Batches == 0..MaxBatches

TypeOK ==
    /\ source \in [Orders \cup {Product} -> Seq(Ops)]
    /\ \A r \in Rows : /\ planned[r] \in 0..Len(source[r[2]])
                       /\ consumed[r] \in 0..planned[r]
                       /\ silver[r] \in 0..planned[r]
                       /\ gold[r] \in 0..planned[r]
    /\ batch \in Batches /\ written \subseteq Tables
    /\ queue \subseteq Batches \X Scopes /\ selected \subseteq Batches \X Scopes
    /\ driver \in {"stopped", "continuous", "available_now"}
    /\ callback \in {"waiting", "merging", "returned"}
    /\ loop \in {"idle", "woken", "selected", "published"}
    /\ refused \in BOOLEAN
    /\ lastProgress \in Batches \cup {NoBatch} /\ lastReconciled \in Batches \cup {NoBatch}
    /\ crashes \in 0..MaxCrashes

Init ==
    /\ source = [k \in Orders \cup {Product} |-> <<>>]
    /\ consumed = [r \in Rows |-> 0] /\ planned = consumed /\ batch = 0 /\ written = {}
    /\ silver = consumed /\ gold = consumed
    /\ queue = {} /\ selected = {}
    /\ driver = "stopped" /\ callback = "waiting" /\ loop = "idle" /\ refused = FALSE
    /\ lastProgress = NoBatch /\ lastReconciled = NoBatch /\ crashes = 0

--------------------------------------------------------------------------------
(* The source: what an OLTP transaction does to an order or to the product. *)
Live(rows, r) == rows[r] > 0 /\ source[r[2]][rows[r]] # "DELETE"

Transact(k, op) ==
    /\ Cardinality(UNION {{c} \X DOMAIN source[c] : c \in Orders \cup {Product}}) < MaxChanges
    /\ IF op = "INSERT" THEN source[k] = <<>>
       ELSE source[k] # <<>> /\ source[k][Len(source[k])] # "DELETE"
    /\ source' = [source EXCEPT ![k] = Append(@, op)]
    /\ UNCHANGED <<streamVars, queue, gold, driver, callback, loopVars, lastProgress, crashes>>

--------------------------------------------------------------------------------
(* The query: plan, callback, commit.  InBatch are the rows of the planned  *)
(* micro-batch; one that failed is run again with the same rows and id.     *)
InBatch == {r \in Rows : planned[r] > consumed[r]}

(* The longest log bounds the offsets that TLC tries. *)
LongestLog == CHOOSE n \in 0..MaxChanges :
                /\ \A k \in DOMAIN source : Len(source[k]) <= n
                /\ \E k \in DOMAIN source : Len(source[k]) = n

PlanMicroBatch ==
    /\ driver # "stopped" /\ callback = "waiting" /\ InBatch = {}
    /\ batch < MaxBatches
    /\ \E upTo \in [Rows -> 0..LongestLog] :
        /\ \A r \in Rows : upTo[r] \in consumed[r]..Len(source[r[2]])
        /\ upTo # consumed
        /\ planned' = upTo
    /\ UNCHANGED <<source, consumed, batch, written, silver, queue, gold, driver, callback, loopVars,
                   lastProgress, crashes>>

(* _cycle_lock: the callback and a reconcile cycle exclude each other. *)
CycleLockFree == callback # "merging" /\ loop \notin {"selected", "published"}

EnterCallback ==
    /\ driver # "stopped" /\ callback = "waiting" /\ InBatch # {} /\ CycleLockFree
    /\ callback' = "merging"
    /\ UNCHANGED <<source, streamVars, queue, gold, driver, loopVars, lastProgress, crashes>>

(* Operators named Bug... are variants of the operator that follows them,   *)
(* each with one plausible mistake; no action uses them.                    *)

(* It reads the table's newest changes, not those of the micro-batch. *)
BugMergeTable(t) ==
    /\ callback = "merging" /\ t \notin written
    /\ \E r \in InBatch : r[1] = t
    /\ silver' = [r \in Rows |-> IF r[1] # t \/ r \notin InBatch THEN silver[r] ELSE Len(source[r[2]])]
    /\ written' = written \cup {t}
    /\ UNCHANGED <<source, consumed, planned, batch, queue, gold, driver, callback, loopVars,
                   lastProgress, crashes>>

(* Tables are merged in parallel, each in a transaction of its own.  The    *)
(* merge does not insert a tombstone for a row that is not there.           *)
MergeTable(t) ==
    /\ callback = "merging" /\ t \notin written
    /\ \E r \in InBatch : r[1] = t
    /\ silver' = [r \in Rows |->
                    IF r[1] # t \/ r \notin InBatch THEN silver[r]
                    ELSE IF silver[r] = 0 /\ source[r[2]][planned[r]] = "DELETE" THEN 0 ELSE planned[r]]
    /\ written' = written \cup {t}
    /\ UNCHANGED <<source, consumed, planned, batch, queue, gold, driver, callback, loopVars,
                   lastProgress, crashes>>

(* _gold_scope and the scopes of enqueue. *)
GoldScope ==
    LET affected == {o \in Orders : Header(o) \in InBatch \/ Item(o) \in InBatch}
    IN  IF affected = {} THEN {"metadata-only"}
        ELSE IF Cardinality(affected) > MaxOrderIds THEN {"all-orders"} ELSE affected

(* An upsert by (request_id, scope_key): a retry makes the row pending again. *)
Enqueue ==
    /\ callback = "merging" /\ {r[1] : r \in InBatch} \subseteq written
    /\ queue' = queue \cup {<<batch, s>> : s \in GoldScope}
    /\ callback' = "returned"
    /\ UNCHANGED <<source, streamVars, gold, driver, loopVars, lastProgress, crashes>>

CommitMicroBatch ==
    /\ callback = "returned"
    /\ consumed' = planned /\ written' = {} /\ batch' = batch + 1
    /\ callback' = "waiting"
    /\ lastProgress' = batch
    /\ UNCHANGED <<source, planned, silver, queue, gold, driver, loopVars, crashes>>

(* A trigger without data reports the id of the batch it would have run. *)
IdleProgress ==
    /\ driver = "continuous" /\ callback = "waiting" /\ InBatch = {}
    /\ lastProgress # batch
    /\ lastProgress' = batch
    /\ UNCHANGED <<source, streamVars, queue, gold, driver, callback, loopVars, crashes>>

--------------------------------------------------------------------------------
(* The control loop. *)
WakeContinuous ==
    /\ driver = "continuous" /\ loop = "idle"
    /\ lastProgress # NoBatch /\ lastProgress # lastReconciled
    /\ lastReconciled' = lastProgress
    /\ loop' = "woken"
    /\ UNCHANGED <<source, streamVars, queue, gold, driver, callback, selected, refused, lastProgress, crashes>>

(* Available-now: one cycle, after the query has terminated. *)
WakeAvailableNow ==
    /\ driver = "available_now" /\ loop = "idle" /\ lastReconciled = NoBatch
    /\ callback = "waiting" /\ InBatch = {}
    /\ lastReconciled' = batch
    /\ loop' = "woken"
    /\ UNCHANGED <<source, streamVars, queue, gold, driver, callback, selected, refused, lastProgress, crashes>>

(* Facts of an order: complete when header and item agree, or both are gone. *)
Agree(rows, o) == Live(rows, Item(o)) /\ rows[Header(o)] = rows[Item(o)]

(* _source_fact_ready_for_gold(affected_order_ids). *)
OrderReady(o) ==
    /\ silver[Header(o)] > 0
    /\ IF Live(silver, Header(o)) THEN Agree(silver, o) ELSE ~Live(silver, Item(o))

(* A full scope checks the live orders only. *)
AllOrdersReady == \A o \in Orders : Live(silver, Header(o)) => Agree(silver, o)

(* Only the scope of the newest request is looked at. *)
BugScopeReady(keys) ==
    LET newest == {k \in keys : \A l \in keys : l[1] <= k[1]}
    IN  \A k \in newest : k[2] \in Orders => OrderReady(k[2])

(* pending(): more rows than the limit make the scope full. *)
ScopeReady(keys) ==
    LET scopes == {k[2] : k \in keys}
    IN  IF scopes = {"metadata-only"} THEN TRUE
        ELSE IF "all-orders" \in scopes \/ Cardinality(keys) > MaxOrderIds THEN AllOrdersReady
        ELSE \A o \in scopes \cap Orders : OrderReady(o)

NothingPending ==
    /\ loop = "woken" /\ CycleLockFree
    /\ queue = {}
    /\ refused' = FALSE /\ loop' = "idle"
    /\ UNCHANGED <<source, streamVars, queue, gold, driver, callback, selected, lastReconciled, lastProgress,
                   crashes>>

(* The query takes at most MaxOrderIds + 1 rows, in no order. *)
SelectPending ==
    /\ loop = "woken" /\ CycleLockFree
    /\ \E keys \in SUBSET queue :
        /\ keys # {}
        /\ keys = queue \/ Cardinality(keys) = MaxOrderIds + 1
        /\ Cardinality(keys) <= MaxOrderIds + 1
        /\ selected' = keys
    /\ loop' = "selected"
    /\ UNCHANGED <<source, streamVars, queue, gold, driver, callback, refused, lastReconciled, lastProgress,
                   crashes>>

Defer ==
    /\ loop = "selected" /\ ~ScopeReady(selected)
    /\ refused' = FALSE /\ loop' = "idle" /\ selected' = {}
    /\ UNCHANGED <<source, streamVars, queue, gold, driver, callback, lastReconciled, lastProgress, crashes>>

(* GoldBuilder.run publishes all of Silver, not the selected scope. *)
PublishGold ==
    /\ loop = "selected" /\ ScopeReady(selected)
    /\ gold' = silver
    /\ loop' = "published"
    /\ UNCHANGED <<source, streamVars, queue, driver, callback, selected, refused, lastReconciled, lastProgress,
                   crashes>>

(* complete() is called whatever the status. *)
BugSkipOnQuality ==
    /\ loop = "selected" /\ ScopeReady(selected)
    /\ queue' = queue \ selected
    /\ refused' = TRUE /\ loop' = "idle" /\ selected' = {}
    /\ UNCHANGED <<source, streamVars, gold, driver, callback, lastReconciled, lastProgress, crashes>>

(* GoldQualityError: nothing is published and the request stays pending. *)
SkipOnQuality ==
    /\ loop = "selected" /\ ScopeReady(selected)
    /\ refused' = TRUE /\ loop' = "idle" /\ selected' = {}
    /\ UNCHANGED <<source, streamVars, queue, gold, driver, callback, lastReconciled, lastProgress, crashes>>

Complete ==
    /\ loop = "published"
    /\ queue' = queue \ selected
    /\ refused' = FALSE /\ loop' = "idle" /\ selected' = {}
    /\ UNCHANGED <<source, streamVars, gold, driver, callback, lastReconciled, lastProgress, crashes>>

--------------------------------------------------------------------------------
(* A driver keeps what it reconciled in memory only. *)
Start(mode) ==
    /\ driver = "stopped"
    /\ driver' = mode
    /\ UNCHANGED <<source, streamVars, queue, gold, callback, loopVars, lastProgress, crashes>>

EndAvailableNow ==
    /\ driver = "available_now" /\ loop = "idle" /\ lastReconciled # NoBatch
    /\ driver' = "stopped" /\ lastReconciled' = NoBatch /\ lastProgress' = NoBatch
    /\ UNCHANGED <<source, streamVars, queue, gold, callback, loop, selected, refused, crashes>>

(* The batchId alone is remembered, across runs of the query. *)
BugCrash ==
    /\ driver # "stopped" /\ crashes < MaxCrashes
    /\ driver' = "stopped" /\ callback' = "waiting" /\ loop' = "idle" /\ selected' = {}
    /\ refused' = FALSE /\ lastProgress' = NoBatch
    /\ crashes' = crashes + 1
    /\ UNCHANGED <<source, streamVars, queue, gold, lastReconciled>>

(* A stop, a crash, or an exception in the callback, in the query or in     *)
(* GoldBuilder: all that is not in a Delta table or a checkpoint is lost.   *)
Crash ==
    /\ driver # "stopped" /\ crashes < MaxCrashes
    /\ driver' = "stopped" /\ callback' = "waiting" /\ loop' = "idle" /\ selected' = {}
    /\ refused' = FALSE /\ lastReconciled' = NoBatch /\ lastProgress' = NoBatch
    /\ crashes' = crashes + 1
    /\ UNCHANGED <<source, streamVars, queue, gold>>

--------------------------------------------------------------------------------
QueryStep == EnterCallback \/ (\E t \in Tables : MergeTable(t)) \/ Enqueue \/ CommitMicroBatch

CycleStep == NothingPending \/ SelectPending \/ Defer \/ PublishGold \/ SkipOnQuality \/ Complete

Next ==
    \/ \E k \in Orders \cup {Product}, op \in Ops : Transact(k, op)
    \/ PlanMicroBatch \/ QueryStep \/ IdleProgress
    \/ WakeContinuous \/ WakeAvailableNow \/ CycleStep
    \/ (\E mode \in {"continuous", "available_now"} : Start(mode))
    \/ EndAvailableNow \/ Crash

Spec == Init /\ [][Next]_vars

(* The job is started again when it ends, Spark runs the query's triggers,  *)
(* and the loop of the driver goes on.                                      *)
Fairness ==
    /\ WF_vars(\E mode \in {"continuous", "available_now"} : Start(mode)) /\ WF_vars(EndAvailableNow)
    /\ WF_vars(EnterCallback)
    /\ WF_vars(\E t \in Tables : MergeTable(t)) /\ WF_vars(Enqueue) /\ WF_vars(CommitMicroBatch)
    /\ WF_vars(IdleProgress) /\ WF_vars(WakeContinuous) /\ WF_vars(WakeAvailableNow)
    /\ WF_vars(NothingPending \/ SelectPending)
    /\ WF_vars(Defer) /\ WF_vars(PublishGold \/ SkipOnQuality) /\ WF_vars(Complete)

FairSpec == Spec /\ Fairness

--------------------------------------------------------------------------------
(* The queue is a durable hand-off (gold_reconcile_queue.py:23): whatever   *)
(* crashes, when Gold does not show a committed row of Silver, a pending    *)
(* request covers it.                                                       *)
Covers(scope, r) == r[1] = "products" \/ scope \in {r[2], "all-orders"}

UnpublishedIsQueued ==
    \A r \in Rows \ InBatch : gold[r] # silver[r] => \E k \in queue : Covers(k[2], r)

(* A release takes in all of Silver, also the orders outside the scope it   *)
(* was asked for; still every order it shows is whole: header and item      *)
(* agree, though they arrive on two topics (_source_fact_ready_for_gold).   *)
(* The exception is a selection that the limit cut down to requests which   *)
(* do not require fact readiness.                                           *)
CutToMetadata == selected # queue /\ \A k \in selected : k[2] = "metadata-only"

ReleasedOrdersAreWhole ==
    [][ gold' # gold /\ ~CutToMetadata =>
        \A o \in Orders : Live(gold', Header(o)) => Agree(gold', o) ]_vars

(* The source is still, and Silver has all of it. *)
SourceDelivered == \A r \in Rows : consumed[r] = Len(source[r[2]])
AllHaveRows == \A r \in Rows : silver[r] = consumed[r]

(* When Silver stands still with a row for everything the source sent, Gold *)
(* comes to show it or the quality gate says why not, however the ids of    *)
(* idle triggers, restarts and missed wake-ups fall (run_continuous).  Rows *)
(* of the queue that the limit left unselected may stay pending until the   *)
(* next micro-batch: they hold nothing back.                                *)
WholeSilverIsPublished ==
    SourceDelivered /\ AllHaveRows ~>
        gold = silver \/ refused \/ ~(SourceDelivered /\ AllHaveRows)

================================================================================

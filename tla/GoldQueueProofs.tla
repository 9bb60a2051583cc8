----------------------------- MODULE GoldQueueProofs -----------------------------
(***************************************************************************)
(* The queue loses no request, for every set of orders, every limit and    *)
(* every number of batches and crashes.  The argument: a row of Silver     *)
(* differs from Gold either because its micro-batch is not committed, and  *)
(* then the callback enqueues it before the commit, or because a request   *)
(* covers it; and rows leave the queue only in complete(), when Gold has   *)
(* just been published and the cycle lock keeps Silver as it was.          *)
(*                                                                         *)
(* The second half proves that what a release shows of an order is whole,  *)
(* from a second invariant: an order whose header and item stand apart in  *)
(* Silver is asked for in the queue, or the micro-batch that split it is   *)
(* still in the callback, where the cycle lock, or after a crash the loop  *)
(* that has nothing to wake for, keeps Gold away from it.                  *)
(***************************************************************************)
EXTENDS GoldQueue, TLAPS

Queued(r) == \E k \in queue : Covers(k[2], r)

(* A returned callback has enqueued its micro-batch. *)
ReturnedIsQueued ==
    callback = "returned" => \A r \in InBatch : gold[r] # silver[r] => Queued(r)

(* The cycle lock, and what it protects. *)
CycleLock ==
    /\ loop \in {"selected", "published"} => callback # "merging"
    /\ loop = "published" => gold = silver

BatchInv ==
    /\ InBatch # {} => batch < MaxBatches
    /\ callback # "waiting" => InBatch # {}

QueueInv ==
    /\ TypeOK
    /\ UnpublishedIsQueued
    /\ ReturnedIsQueued
    /\ CycleLock
    /\ BatchInv

--------------------------------------------------------------------------------
LEMMA RowsHaveKeys ==
    \A r \in Rows : r[2] \in Orders \cup {Product} /\ r[1] \in Tables
  BY DEF Rows, Header, Item, Tables

(* The scopes of a micro-batch cover all its rows (_gold_scope, enqueue). *)
LEMMA ScopesCoverBatch ==
    ASSUME NEW r \in InBatch
    PROVE  \E s \in GoldScope : Covers(s, r)
<1>. DEFINE affected == {o \in Orders : Header(o) \in InBatch \/ Item(o) \in InBatch}
<1>1. CASE r[1] = "products"
  BY <1>1 DEF GoldScope, Covers
<1>2. CASE r[1] # "products"
  <2>1. r \in Rows
    BY DEF InBatch
  <2>2. PICK o \in Orders : r = Header(o) \/ r = Item(o)
    BY <1>2, <2>1 DEF Rows
  <2>3. o \in affected /\ r[2] = o
    BY <2>2 DEF Header, Item
  <2>. QED BY <2>3 DEF GoldScope, Covers
<1>. QED BY <1>1, <1>2

LEMMA ScopesAreScopes == GoldScope \subseteq Scopes
  BY DEF GoldScope, Scopes

LEMMA QueueInvInit == Init => QueueInv
<1>. SUFFICES ASSUME Init PROVE QueueInv
  OBVIOUS
<1>. USE GoldQueueAssumption
<1>1. TypeOK
  <2>1. source = [k \in Orders \cup {Product} |-> <<>>]
    BY DEF Init
  <2>2. source \in [Orders \cup {Product} -> Seq(Ops)] /\ \A k \in Orders \cup {Product} : Len(source[k]) = 0
    BY <2>1
  <2>3. \A r \in Rows : /\ Len(source[r[2]]) = 0
                       /\ planned[r] = 0 /\ consumed[r] = 0 /\ silver[r] = 0 /\ gold[r] = 0
    BY <2>2, RowsHaveKeys DEF Init
  <2>4. 0 \in Batches /\ 0 \in 0..MaxCrashes /\ 0 \in 0..0
    BY DEF Batches
  <2>. QED BY <2>2, <2>3, <2>4 DEF Init, TypeOK
<1>2. InBatch = {} /\ gold = silver
  BY DEF Init, InBatch
<1>. QED BY <1>1, <1>2 DEF Init, QueueInv, UnpublishedIsQueued, ReturnedIsQueued, CycleLock, BatchInv

--------------------------------------------------------------------------------
(* Steps of the source and of the query. *)

LEMMA TransactKeepsInv ==
    ASSUME QueueInv, NEW k \in Orders \cup {Product}, NEW op \in Ops, Transact(k, op)
    PROVE  QueueInv'
<1>1. /\ source' = [source EXCEPT ![k] = Append(@, op)]
      /\ UNCHANGED <<consumed, planned, batch, written, silver, queue, gold, driver, callback, loop,
                     selected, refused, lastReconciled, lastProgress, crashes>>
  BY DEF Transact, streamVars, loopVars
<1>2. /\ source' \in [Orders \cup {Product} -> Seq(Ops)]
      /\ \A c \in Orders \cup {Product} : /\ Len(source[c]) \in Nat /\ Len(source'[c]) \in Nat
                                          /\ Len(source[c]) <= Len(source'[c])
  <2>1. source \in [Orders \cup {Product} -> Seq(Ops)]
    BY DEF QueueInv, TypeOK
  <2>2. \A s \in Seq(Ops) : /\ Append(s, op) \in Seq(Ops) /\ Len(s) \in Nat
                            /\ Len(Append(s, op)) = Len(s) + 1
    OBVIOUS
  <2>. QED BY <1>1, <2>1, <2>2
<1>3. TypeOK'
  <2>1. \A r \in Rows : planned[r] \in 0..Len(source[r[2]])
    BY DEF QueueInv, TypeOK
  <2>2. \A r \in Rows : planned[r] \in 0..Len(source'[r[2]])
    BY <2>1, <1>2, RowsHaveKeys
  <2>. QED BY <1>1, <1>2, <2>2 DEF QueueInv, TypeOK
<1>. QED BY <1>1, <1>3
  DEF QueueInv, UnpublishedIsQueued, ReturnedIsQueued, CycleLock, BatchInv, InBatch, Queued

LEMMA PlanKeepsInv == QueueInv /\ PlanMicroBatch => QueueInv'
<1>. SUFFICES ASSUME QueueInv, PlanMicroBatch PROVE QueueInv'
  OBVIOUS
<1>1. PICK upTo : /\ \A r \in Rows : upTo[r] \in consumed[r]..Len(source[r[2]])
                  /\ planned' = upTo
  BY DEF PlanMicroBatch
<1>2. /\ callback = "waiting" /\ InBatch = {} /\ batch < MaxBatches
      /\ UNCHANGED <<source, consumed, batch, written, silver, queue, gold, driver, callback, loop,
                     selected, refused, lastReconciled, lastProgress, crashes>>
  BY DEF PlanMicroBatch, loopVars
<1>3. \A r \in Rows : /\ planned'[r] \in 0..Len(source[r[2]])
                      /\ consumed[r] \in 0..planned'[r]
                      /\ silver[r] \in 0..planned'[r]
                      /\ gold[r] \in 0..planned'[r]
  <2>. SUFFICES ASSUME NEW r \in Rows
                PROVE  /\ planned'[r] \in 0..Len(source[r[2]])
                       /\ consumed[r] \in 0..planned'[r]
                       /\ silver[r] \in 0..planned'[r]
                       /\ gold[r] \in 0..planned'[r]
    OBVIOUS
  <2>1. /\ planned[r] \in 0..Len(source[r[2]]) /\ consumed[r] \in 0..planned[r]
        /\ silver[r] \in 0..planned[r] /\ gold[r] \in 0..planned[r]
    BY DEF QueueInv, TypeOK
  <2>2. planned[r] <= consumed[r]
    BY <2>1, <1>2 DEF InBatch
  <2>3. Len(source[r[2]]) \in Nat
    BY RowsHaveKeys DEF QueueInv, TypeOK
  <2>. QED BY <1>1, <2>1, <2>2, <2>3
<1>4. TypeOK'
  BY <1>2, <1>3 DEF QueueInv, TypeOK
<1>. QED BY <1>2, <1>4
  DEF QueueInv, UnpublishedIsQueued, ReturnedIsQueued, CycleLock, BatchInv, Queued

LEMMA EnterCallbackKeepsInv == QueueInv /\ EnterCallback => QueueInv'
<1>. SUFFICES ASSUME QueueInv, EnterCallback PROVE QueueInv'
  OBVIOUS
<1>1. /\ callback' = "merging" /\ InBatch # {} /\ loop \notin {"selected", "published"}
      /\ UNCHANGED <<source, consumed, planned, batch, written, silver, queue, gold, driver, loop,
                     selected, refused, lastReconciled, lastProgress, crashes>>
  BY DEF EnterCallback, CycleLockFree, streamVars, loopVars
<1>2. TypeOK'
  BY <1>1 DEF QueueInv, TypeOK
<1>. QED BY <1>1, <1>2
  DEF QueueInv, UnpublishedIsQueued, ReturnedIsQueued, CycleLock, BatchInv, InBatch, Queued

LEMMA MergeTableKeepsInv ==
    ASSUME QueueInv, NEW t \in Tables, MergeTable(t)
    PROVE  QueueInv'
<1>1. /\ callback = "merging" /\ written' = written \cup {t}
      /\ silver' = [r \in Rows |->
                      IF r[1] # t \/ r \notin InBatch THEN silver[r]
                      ELSE IF silver[r] = 0 /\ source[r[2]][planned[r]] = "DELETE" THEN 0 ELSE planned[r]]
      /\ UNCHANGED <<source, consumed, planned, batch, queue, gold, driver, callback, loop,
                     selected, refused, lastReconciled, lastProgress, crashes>>
  BY DEF MergeTable, loopVars
<1>2. \A r \in Rows : /\ silver'[r] \in 0..planned[r]
                      /\ r \notin InBatch => silver'[r] = silver[r]
  <2>. SUFFICES ASSUME NEW r \in Rows
                PROVE  /\ silver'[r] \in 0..planned[r]
                       /\ r \notin InBatch => silver'[r] = silver[r]
    OBVIOUS
  <2>1. planned[r] \in Nat /\ silver[r] \in 0..planned[r]
    BY RowsHaveKeys DEF QueueInv, TypeOK
  <2>2. silver'[r] \in {0, silver[r], planned[r]} /\ (r \notin InBatch => silver'[r] = silver[r])
    BY <1>1
  <2>. QED BY <2>1, <2>2
<1>3. TypeOK'
  BY <1>1, <1>2 DEF QueueInv, TypeOK
<1>4. UnpublishedIsQueued'
  <2>1. InBatch' = InBatch
    BY <1>1 DEF InBatch
  <2>. QED BY <2>1, <1>1, <1>2 DEF QueueInv, UnpublishedIsQueued
<1>. QED BY <1>1, <1>3, <1>4
  DEF QueueInv, ReturnedIsQueued, CycleLock, BatchInv, InBatch

LEMMA EnqueueKeepsInv == QueueInv /\ Enqueue => QueueInv'
<1>. SUFFICES ASSUME QueueInv, Enqueue PROVE QueueInv'
  OBVIOUS
<1>1. /\ queue' = queue \cup {<<batch, s>> : s \in GoldScope}
      /\ callback = "merging" /\ callback' = "returned"
      /\ UNCHANGED <<source, consumed, planned, batch, written, silver, gold, driver, loop,
                     selected, refused, lastReconciled, lastProgress, crashes>>
  BY DEF Enqueue, streamVars, loopVars
<1>2. InBatch' = InBatch
  BY <1>1 DEF InBatch
<1>3. TypeOK'
  BY <1>1, ScopesAreScopes DEF QueueInv, TypeOK
<1>4. \A r \in InBatch : Queued(r)'
  <2>. SUFFICES ASSUME NEW r \in InBatch PROVE Queued(r)'
    OBVIOUS
  <2>1. PICK s \in GoldScope : Covers(s, r)
    BY ScopesCoverBatch
  <2>2. <<batch, s>> \in queue' /\ <<batch, s>>[2] = s
    BY <1>1
  <2>. QED BY <2>1, <2>2 DEF Queued, Covers
<1>5. UnpublishedIsQueued' /\ ReturnedIsQueued'
  BY <1>1, <1>2, <1>4 DEF QueueInv, UnpublishedIsQueued, ReturnedIsQueued, Queued
<1>. QED BY <1>1, <1>2, <1>3, <1>5 DEF QueueInv, CycleLock, BatchInv

LEMMA CommitKeepsInv == QueueInv /\ CommitMicroBatch => QueueInv'
<1>. SUFFICES ASSUME QueueInv, CommitMicroBatch PROVE QueueInv'
  OBVIOUS
<1>. USE GoldQueueAssumption
<1>1. /\ callback = "returned" /\ callback' = "waiting"
      /\ consumed' = planned /\ written' = {} /\ batch' = batch + 1 /\ lastProgress' = batch
      /\ UNCHANGED <<source, planned, silver, queue, gold, driver, loop,
                     selected, refused, lastReconciled, crashes>>
  BY DEF CommitMicroBatch, loopVars
<1>2. batch \in Nat /\ batch < MaxBatches
  BY <1>1 DEF QueueInv, TypeOK, BatchInv, Batches
<1>3. InBatch' = {}
  <2>1. \A r \in Rows : planned[r] \in Nat
    BY RowsHaveKeys DEF QueueInv, TypeOK
  <2>. QED BY <2>1, <1>1 DEF InBatch
<1>4. TypeOK'
  <2>1. batch \in Batches /\ batch + 1 \in Batches
    BY <1>2 DEF Batches
  <2>2. \A r \in Rows : planned[r] \in 0..planned[r]
    BY RowsHaveKeys DEF QueueInv, TypeOK
  <2>. QED BY <1>1, <2>1, <2>2 DEF QueueInv, TypeOK
<1>5. UnpublishedIsQueued'
  <2>. SUFFICES ASSUME NEW r \in Rows, gold[r] # silver[r] PROVE Queued(r)
    BY <1>1 DEF UnpublishedIsQueued, Queued
  <2>. QED BY <1>1 DEF QueueInv, UnpublishedIsQueued, ReturnedIsQueued, Queued
<1>. QED BY <1>1, <1>3, <1>4, <1>5 DEF QueueInv, ReturnedIsQueued, CycleLock, BatchInv

--------------------------------------------------------------------------------
(* Steps of the control loop. *)

LEMMA IdleProgressKeepsInv == QueueInv /\ IdleProgress => QueueInv'
<1>. SUFFICES ASSUME QueueInv, IdleProgress PROVE QueueInv'
  OBVIOUS
<1>1. /\ lastProgress' = batch
      /\ UNCHANGED <<source, consumed, planned, batch, written, silver, queue, gold, driver,
                     callback, loop, selected, refused, lastReconciled, crashes>>
  BY DEF IdleProgress, streamVars, loopVars
<1>2. TypeOK'
  BY <1>1 DEF QueueInv, TypeOK
<1>. QED BY <1>1, <1>2
  DEF QueueInv, UnpublishedIsQueued, ReturnedIsQueued, CycleLock, BatchInv, InBatch, Queued

LEMMA WakeContinuousKeepsInv == QueueInv /\ WakeContinuous => QueueInv'
<1>. SUFFICES ASSUME QueueInv, WakeContinuous PROVE QueueInv'
  OBVIOUS
<1>1. /\ lastReconciled' = lastProgress /\ lastProgress # NoBatch /\ loop' = "woken"
      /\ UNCHANGED <<source, consumed, planned, batch, written, silver, queue, gold, driver,
                     callback, selected, refused, lastProgress, crashes>>
  BY DEF WakeContinuous, streamVars
<1>2. TypeOK'
  BY <1>1 DEF QueueInv, TypeOK
<1>. QED BY <1>1, <1>2
  DEF QueueInv, UnpublishedIsQueued, ReturnedIsQueued, CycleLock, BatchInv, InBatch, Queued

LEMMA WakeAvailableNowKeepsInv == QueueInv /\ WakeAvailableNow => QueueInv'
<1>. SUFFICES ASSUME QueueInv, WakeAvailableNow PROVE QueueInv'
  OBVIOUS
<1>1. /\ lastReconciled' = batch /\ loop' = "woken"
      /\ UNCHANGED <<source, consumed, planned, batch, written, silver, queue, gold, driver,
                     callback, selected, refused, lastProgress, crashes>>
  BY DEF WakeAvailableNow, streamVars
<1>2. TypeOK'
  BY <1>1 DEF QueueInv, TypeOK
<1>. QED BY <1>1, <1>2
  DEF QueueInv, UnpublishedIsQueued, ReturnedIsQueued, CycleLock, BatchInv, InBatch, Queued

LEMMA NothingPendingKeepsInv == QueueInv /\ NothingPending => QueueInv'
<1>. SUFFICES ASSUME QueueInv, NothingPending PROVE QueueInv'
  OBVIOUS
<1>1. /\ refused' = FALSE /\ loop' = "idle"
      /\ UNCHANGED <<source, consumed, planned, batch, written, silver, queue, gold, driver,
                     callback, selected, lastReconciled, lastProgress, crashes>>
  BY DEF NothingPending, streamVars
<1>2. TypeOK'
  BY <1>1 DEF QueueInv, TypeOK
<1>. QED BY <1>1, <1>2
  DEF QueueInv, UnpublishedIsQueued, ReturnedIsQueued, CycleLock, BatchInv, InBatch, Queued

LEMMA SelectPendingKeepsInv == QueueInv /\ SelectPending => QueueInv'
<1>. SUFFICES ASSUME QueueInv, SelectPending PROVE QueueInv'
  OBVIOUS
<1>1. /\ selected' \subseteq queue /\ loop' = "selected" /\ callback # "merging"
      /\ UNCHANGED <<source, consumed, planned, batch, written, silver, queue, gold, driver,
                     callback, refused, lastReconciled, lastProgress, crashes>>
  BY DEF SelectPending, CycleLockFree, streamVars
<1>2. TypeOK'
  BY <1>1 DEF QueueInv, TypeOK
<1>. QED BY <1>1, <1>2
  DEF QueueInv, UnpublishedIsQueued, ReturnedIsQueued, CycleLock, BatchInv, InBatch, Queued

LEMMA DeferKeepsInv == QueueInv /\ Defer => QueueInv'
<1>. SUFFICES ASSUME QueueInv, Defer PROVE QueueInv'
  OBVIOUS
<1>1. /\ refused' = FALSE /\ selected' = {} /\ loop' = "idle"
      /\ UNCHANGED <<source, consumed, planned, batch, written, silver, queue, gold, driver,
                     callback, lastReconciled, lastProgress, crashes>>
  BY DEF Defer, streamVars
<1>2. TypeOK'
  BY <1>1 DEF QueueInv, TypeOK
<1>. QED BY <1>1, <1>2
  DEF QueueInv, UnpublishedIsQueued, ReturnedIsQueued, CycleLock, BatchInv, InBatch, Queued

LEMMA PublishGoldKeepsInv == QueueInv /\ PublishGold => QueueInv'
<1>. SUFFICES ASSUME QueueInv, PublishGold PROVE QueueInv'
  OBVIOUS
<1>1. /\ gold' = silver /\ loop = "selected" /\ loop' = "published"
      /\ UNCHANGED <<source, consumed, planned, batch, written, silver, queue, driver, callback,
                     selected, refused, lastReconciled, lastProgress, crashes>>
  BY DEF PublishGold, streamVars
<1>2. TypeOK'
  BY <1>1 DEF QueueInv, TypeOK
<1>. QED BY <1>1, <1>2
  DEF QueueInv, UnpublishedIsQueued, ReturnedIsQueued, CycleLock, BatchInv, InBatch, Queued

LEMMA SkipOnQualityKeepsInv == QueueInv /\ SkipOnQuality => QueueInv'
<1>. SUFFICES ASSUME QueueInv, SkipOnQuality PROVE QueueInv'
  OBVIOUS
<1>1. /\ refused' = TRUE /\ selected' = {} /\ loop' = "idle"
      /\ UNCHANGED <<source, consumed, planned, batch, written, silver, queue, gold, driver,
                     callback, lastReconciled, lastProgress, crashes>>
  BY DEF SkipOnQuality, streamVars
<1>2. TypeOK'
  BY <1>1 DEF QueueInv, TypeOK
<1>. QED BY <1>1, <1>2
  DEF QueueInv, UnpublishedIsQueued, ReturnedIsQueued, CycleLock, BatchInv, InBatch, Queued

(* complete() takes rows off the queue while Gold shows all of Silver. *)
LEMMA CompleteKeepsInv == QueueInv /\ Complete => QueueInv'
<1>. SUFFICES ASSUME QueueInv, Complete PROVE QueueInv'
  OBVIOUS
<1>1. /\ queue' = queue \ selected /\ loop = "published"
      /\ refused' = FALSE /\ selected' = {} /\ loop' = "idle"
      /\ UNCHANGED <<source, consumed, planned, batch, written, silver, gold, driver, callback,
                     lastReconciled, lastProgress, crashes>>
  BY DEF Complete, streamVars
<1>2. TypeOK'
  BY <1>1 DEF QueueInv, TypeOK
<1>. QED BY <1>1, <1>2
  DEF QueueInv, UnpublishedIsQueued, ReturnedIsQueued, CycleLock, BatchInv, InBatch, Queued

LEMMA StartKeepsInv ==
    ASSUME QueueInv, NEW mode \in {"continuous", "available_now"}, Start(mode)
    PROVE  QueueInv'
<1>1. /\ driver' = mode
      /\ UNCHANGED <<source, consumed, planned, batch, written, silver, queue, gold, callback,
                     loop, selected, refused, lastReconciled, lastProgress, crashes>>
  BY DEF Start, streamVars, loopVars
<1>2. TypeOK'
  BY <1>1 DEF QueueInv, TypeOK
<1>. QED BY <1>1, <1>2
  DEF QueueInv, UnpublishedIsQueued, ReturnedIsQueued, CycleLock, BatchInv, InBatch, Queued

LEMMA EndAvailableNowKeepsInv == QueueInv /\ EndAvailableNow => QueueInv'
<1>. SUFFICES ASSUME QueueInv, EndAvailableNow PROVE QueueInv'
  OBVIOUS
<1>1. /\ driver' = "stopped" /\ lastReconciled' = NoBatch /\ lastProgress' = NoBatch
      /\ UNCHANGED <<source, consumed, planned, batch, written, silver, queue, gold, callback,
                     loop, selected, refused, crashes>>
  BY DEF EndAvailableNow, streamVars
<1>2. TypeOK'
  BY <1>1 DEF QueueInv, TypeOK
<1>. QED BY <1>1, <1>2
  DEF QueueInv, UnpublishedIsQueued, ReturnedIsQueued, CycleLock, BatchInv, InBatch, Queued

LEMMA CrashKeepsInv == QueueInv /\ Crash => QueueInv'
<1>. SUFFICES ASSUME QueueInv, Crash PROVE QueueInv'
  OBVIOUS
<1>. USE GoldQueueAssumption
<1>1. /\ driver' = "stopped" /\ callback' = "waiting" /\ loop' = "idle" /\ selected' = {}
      /\ refused' = FALSE /\ lastReconciled' = NoBatch /\ lastProgress' = NoBatch
      /\ crashes < MaxCrashes /\ crashes' = crashes + 1
      /\ UNCHANGED <<source, consumed, planned, batch, written, silver, queue, gold>>
  BY DEF Crash, streamVars
<1>2. crashes' \in 0..MaxCrashes
  BY <1>1 DEF QueueInv, TypeOK
<1>3. TypeOK'
  BY <1>1, <1>2 DEF QueueInv, TypeOK
<1>. QED BY <1>1, <1>3
  DEF QueueInv, UnpublishedIsQueued, ReturnedIsQueued, CycleLock, BatchInv, InBatch, Queued

LEMMA QueueInvStep == QueueInv /\ [Next]_vars => QueueInv'
<1>. SUFFICES ASSUME QueueInv, [Next]_vars PROVE QueueInv'
  OBVIOUS
<1>1. ASSUME NEW k \in Orders \cup {Product}, NEW op \in Ops, Transact(k, op) PROVE QueueInv'
  BY <1>1, TransactKeepsInv
<1>2. CASE PlanMicroBatch
  BY <1>2, PlanKeepsInv
<1>3. CASE QueryStep
  <2>1. CASE EnterCallback
    BY <2>1, EnterCallbackKeepsInv
  <2>2. ASSUME NEW t \in Tables, MergeTable(t) PROVE QueueInv'
    BY <2>2, MergeTableKeepsInv
  <2>3. CASE Enqueue
    BY <2>3, EnqueueKeepsInv
  <2>4. CASE CommitMicroBatch
    BY <2>4, CommitKeepsInv
  <2>. QED BY <1>3, <2>1, <2>2, <2>3, <2>4 DEF QueryStep
<1>4. CASE IdleProgress
  BY <1>4, IdleProgressKeepsInv
<1>5. CASE WakeContinuous \/ WakeAvailableNow
  BY <1>5, WakeContinuousKeepsInv, WakeAvailableNowKeepsInv
<1>6. CASE CycleStep
  BY <1>6, NothingPendingKeepsInv, SelectPendingKeepsInv, DeferKeepsInv, PublishGoldKeepsInv,
     SkipOnQualityKeepsInv, CompleteKeepsInv DEF CycleStep
<1>7. ASSUME NEW mode \in {"continuous", "available_now"}, Start(mode) PROVE QueueInv'
  BY <1>7, StartKeepsInv
<1>8. CASE EndAvailableNow \/ Crash
  BY <1>8, EndAvailableNowKeepsInv, CrashKeepsInv
<1>9. CASE UNCHANGED vars
  <2>1. UNCHANGED <<source, consumed, planned, batch, written, silver, queue, gold, driver, callback,
                    loop, selected, refused, lastReconciled, lastProgress, crashes>>
    BY <1>9 DEF vars, streamVars, loopVars
  <2>2. TypeOK'
    BY <2>1 DEF QueueInv, TypeOK
  <2>. QED BY <2>1, <2>2
    DEF QueueInv, UnpublishedIsQueued, ReturnedIsQueued, CycleLock, BatchInv, InBatch, Queued
<1>. QED BY <1>1, <1>2, <1>3, <1>4, <1>5, <1>6, <1>7, <1>8, <1>9 DEF Next

--------------------------------------------------------------------------------
LEMMA QueueInvAlways == Spec => []QueueInv
<1>. QED BY QueueInvInit, QueueInvStep, PTL DEF Spec

(* Every variable of the hand-off keeps its type: Silver and Gold never run *)
(* ahead of the planned offsets (PlanMicroBatch, MergeTable, PublishGold).  *)
THEOREM TypeCorrect == Spec => []TypeOK
<1>1. QueueInv => TypeOK
  BY DEF QueueInv
<1>. QED BY <1>1, QueueInvAlways, PTL

(* No request is lost: enqueue before the commit of the micro-batch, the    *)
(* cycle lock and complete() after the publication leave every unpublished  *)
(* row of Silver covered by a pending request, however the driver crashes.  *)
THEOREM QueueKeepsRequests == Spec => []UnpublishedIsQueued
<1>1. QueueInv => UnpublishedIsQueued
  BY DEF QueueInv
<1>. QED BY <1>1, QueueInvAlways, PTL

--------------------------------------------------------------------------------
(* Released orders are whole. *)

Whole(o) == Live(silver, Header(o)) => Agree(silver, o)

Requested(o) == \E k \in queue : k[2] \in {o, "all-orders"}

(* A merge of the micro-batch in work has reached a row of the order. *)
BeingMerged(o) ==
    /\ callback # "returned"
    /\ \E r \in {Header(o), Item(o)} : r \in InBatch /\ r[1] \in written

HalfArrivedIsHeld == \A o \in Orders : Whole(o) \/ Requested(o) \/ BeingMerged(o)

(* After a crash in the middle of the merges the new driver's loop finds no *)
(* progress to wake for until the micro-batch has run again.                *)
MergeIsQuiet ==
    /\ written # {} => InBatch # {}
    /\ written # {} /\ callback = "waiting" => loop = "idle" /\ lastProgress = NoBatch

SelectionInv ==
    /\ loop = "selected" => /\ selected \subseteq queue
                            /\ selected = queue \/ Cardinality(selected) = MaxOrderIds + 1
    /\ loop = "published" => \/ \A o \in Orders : Whole(o)
                             \/ \A k \in selected : k[2] = "metadata-only"

WholeInv == HalfArrivedIsHeld /\ MergeIsQuiet /\ SelectionInv

LEMMA WholeInvInit == Init => WholeInv
<1>. SUFFICES ASSUME Init PROVE WholeInv
  OBVIOUS
<1>1. \A r \in Rows : silver[r] = 0
  BY DEF Init
<1>2. \A o \in Orders : Header(o) \in Rows
  BY DEF Rows
<1>3. HalfArrivedIsHeld
  BY <1>1, <1>2 DEF HalfArrivedIsHeld, Whole, Live
<1>. QED BY <1>3 DEF Init, WholeInv, MergeIsQuiet, SelectionInv

(* The log of a key only grows: what a Silver row stands at stays as it is. *)
LEMMA TransactKeepsWhole ==
    ASSUME QueueInv, WholeInv, NEW k \in Orders \cup {Product}, NEW op \in Ops, Transact(k, op)
    PROVE  WholeInv'
<1>1. /\ source' = [source EXCEPT ![k] = Append(@, op)]
      /\ UNCHANGED <<consumed, planned, written, silver, queue, callback, loop, selected, lastProgress>>
  BY DEF Transact, streamVars, loopVars
<1>2. \A r \in Rows : Live(silver, r)' <=> Live(silver, r)
  <2>. SUFFICES ASSUME NEW r \in Rows PROVE Live(silver, r)' <=> Live(silver, r)
    OBVIOUS
  <2>1. /\ r[2] \in Orders \cup {Product} /\ source \in [Orders \cup {Product} -> Seq(Ops)]
        /\ silver[r] \in 0..planned[r] /\ planned[r] \in 0..Len(source[r[2]])
    BY RowsHaveKeys DEF QueueInv, TypeOK
  <2>2. \A s \in Seq(Ops) : \A i \in 1..Len(s) : Append(s, op)[i] = s[i]
    OBVIOUS
  <2>3. source[r[2]] \in Seq(Ops) /\ Len(source[r[2]]) \in Nat
    BY <2>1
  <2>4. silver[r] > 0 => source'[r[2]][silver[r]] = source[r[2]][silver[r]]
    <3>1. silver[r] > 0 => silver[r] \in 1..Len(source[r[2]])
      BY <2>1, <2>3
    <3>. QED BY <1>1, <2>1, <2>2, <2>3, <3>1
  <2>. QED BY <2>4, <1>1 DEF Live
<1>3. \A o \in Orders : Whole(o)' <=> Whole(o)
  BY <1>1, <1>2 DEF Whole, Agree, Rows
<1>. QED BY <1>1, <1>3
  DEF WholeInv, HalfArrivedIsHeld, Requested, BeingMerged, MergeIsQuiet, SelectionInv, InBatch

LEMMA PlanKeepsWhole == QueueInv /\ WholeInv /\ PlanMicroBatch => WholeInv'
<1>. SUFFICES ASSUME QueueInv, WholeInv, PlanMicroBatch PROVE WholeInv'
  OBVIOUS
<1>1. /\ callback = "waiting" /\ InBatch = {}
      /\ UNCHANGED <<source, written, silver, queue, callback, loop, selected>>
  BY DEF PlanMicroBatch, loopVars
<1>2. written = {} /\ \A o \in Orders : ~BeingMerged(o)
  BY <1>1 DEF WholeInv, MergeIsQuiet, BeingMerged
<1>. QED BY <1>1, <1>2
  DEF WholeInv, HalfArrivedIsHeld, Whole, Requested, MergeIsQuiet, SelectionInv, Live, Agree

LEMMA EnterCallbackKeepsWhole == QueueInv /\ WholeInv /\ EnterCallback => WholeInv'
<1>. SUFFICES ASSUME QueueInv, WholeInv, EnterCallback PROVE WholeInv'
  OBVIOUS
<1>1. /\ callback = "waiting" /\ callback' = "merging"
      /\ UNCHANGED <<source, consumed, planned, written, silver, queue, loop, selected, lastProgress>>
  BY DEF EnterCallback, streamVars, loopVars
<1>. QED BY <1>1
  DEF WholeInv, HalfArrivedIsHeld, Whole, Requested, BeingMerged, MergeIsQuiet, SelectionInv, Live, Agree,
      InBatch

(* A merge splits an order only by a row of the micro-batch in work. *)
LEMMA MergeTableKeepsWhole ==
    ASSUME QueueInv, WholeInv, NEW t \in Tables, MergeTable(t)
    PROVE  WholeInv'
<1>1. /\ callback = "merging" /\ written' = written \cup {t} /\ InBatch # {}
      /\ \A r \in Rows : r[1] # t \/ r \notin InBatch => silver'[r] = silver[r]
      /\ UNCHANGED <<source, consumed, planned, queue, callback, loop, selected, lastProgress>>
  BY DEF MergeTable, loopVars
<1>2. InBatch' = InBatch
  BY <1>1 DEF InBatch
<1>3. ASSUME NEW o \in Orders PROVE (Whole(o) \/ Requested(o) \/ BeingMerged(o))'
  <2>1. Header(o) \in Rows /\ Item(o) \in Rows
    BY DEF Rows
  <2>2. CASE \E r \in {Header(o), Item(o)} : r[1] = t /\ r \in InBatch
    BY <1>1, <1>2, <2>2 DEF BeingMerged
  <2>3. CASE \A r \in {Header(o), Item(o)} : r[1] # t \/ r \notin InBatch
    <3>1. silver'[Header(o)] = silver[Header(o)] /\ silver'[Item(o)] = silver[Item(o)]
      BY <1>1, <2>1, <2>3
    <3>2. Whole(o)' <=> Whole(o)
      BY <1>1, <3>1 DEF Whole, Live, Agree
    <3>. QED BY <1>1, <1>2, <3>2 DEF WholeInv, HalfArrivedIsHeld, Requested, BeingMerged
  <2>. QED BY <2>2, <2>3
<1>4. MergeIsQuiet'
  BY <1>1, <1>2 DEF MergeIsQuiet
<1>5. SelectionInv'
  BY <1>1 DEF QueueInv, CycleLock, SelectionInv
<1>. QED BY <1>3, <1>4, <1>5 DEF WholeInv, HalfArrivedIsHeld

(* What the merges split, the scopes of the request name. *)
LEMMA EnqueueKeepsWhole == QueueInv /\ WholeInv /\ Enqueue => WholeInv'
<1>. SUFFICES ASSUME QueueInv, WholeInv, Enqueue PROVE WholeInv'
  OBVIOUS
<1>1. /\ queue' = queue \cup {<<batch, s>> : s \in GoldScope}
      /\ callback = "merging" /\ callback' = "returned"
      /\ UNCHANGED <<source, consumed, planned, written, silver, loop, selected, lastProgress>>
  BY DEF Enqueue, streamVars, loopVars
<1>2. ASSUME NEW o \in Orders PROVE (Whole(o) \/ Requested(o) \/ BeingMerged(o))'
  <2>1. CASE BeingMerged(o)
    <3>1. GoldScope = {"all-orders"} \/ o \in GoldScope
      BY <2>1 DEF BeingMerged, GoldScope
    <3>2. PICK s \in GoldScope : s \in {o, "all-orders"}
      BY <3>1
    <3>3. <<batch, s>> \in queue' /\ <<batch, s>>[2] = s
      BY <1>1
    <3>. QED BY <3>2, <3>3 DEF Requested
  <2>2. CASE Whole(o) \/ Requested(o)
    BY <1>1, <2>2 DEF Whole, Live, Agree, Requested
  <2>. QED BY <2>1, <2>2 DEF WholeInv, HalfArrivedIsHeld
<1>3. MergeIsQuiet'
  BY <1>1 DEF WholeInv, MergeIsQuiet, InBatch
<1>4. SelectionInv'
  BY <1>1 DEF QueueInv, CycleLock, SelectionInv
<1>. QED BY <1>2, <1>3, <1>4 DEF WholeInv, HalfArrivedIsHeld

LEMMA CommitKeepsWhole == QueueInv /\ WholeInv /\ CommitMicroBatch => WholeInv'
<1>. SUFFICES ASSUME QueueInv, WholeInv, CommitMicroBatch PROVE WholeInv'
  OBVIOUS
<1>1. /\ callback = "returned" /\ written' = {}
      /\ UNCHANGED <<source, silver, queue, loop, selected>>
  BY DEF CommitMicroBatch, loopVars
<1>. QED BY <1>1
  DEF WholeInv, HalfArrivedIsHeld, Whole, Requested, BeingMerged, MergeIsQuiet, SelectionInv, Live, Agree

LEMMA WakeKeepsWhole ==
    QueueInv /\ WholeInv /\ (IdleProgress \/ WakeContinuous \/ WakeAvailableNow) => WholeInv'
<1>. SUFFICES ASSUME QueueInv, WholeInv, IdleProgress \/ WakeContinuous \/ WakeAvailableNow
              PROVE  WholeInv'
  OBVIOUS
<1>1. UNCHANGED <<source, consumed, planned, written, silver, queue, callback, selected>>
  BY DEF IdleProgress, WakeContinuous, WakeAvailableNow, streamVars, loopVars
<1>2. ~(written # {} /\ callback = "waiting")
  BY DEF IdleProgress, WakeContinuous, WakeAvailableNow, WholeInv, MergeIsQuiet
<1>3. loop' = loop \/ loop' = "woken"
  BY DEF IdleProgress, WakeContinuous, WakeAvailableNow, loopVars
<1>4. HalfArrivedIsHeld'
  BY <1>1 DEF WholeInv, HalfArrivedIsHeld, Whole, Requested, BeingMerged, Live, Agree, InBatch
<1>5. MergeIsQuiet'
  BY <1>1, <1>2 DEF WholeInv, MergeIsQuiet, InBatch
<1>6. SelectionInv'
  BY <1>1, <1>3 DEF WholeInv, SelectionInv, Whole, Live, Agree
<1>. QED BY <1>4, <1>5, <1>6 DEF WholeInv

LEMMA LoopKeepsWhole ==
    QueueInv /\ WholeInv /\ (NothingPending \/ SelectPending \/ Defer \/ SkipOnQuality) => WholeInv'
<1>. SUFFICES ASSUME QueueInv, WholeInv, NothingPending \/ SelectPending \/ Defer \/ SkipOnQuality
              PROVE  WholeInv'
  OBVIOUS
<1>1. /\ loop \in {"woken", "selected"}
      /\ UNCHANGED <<source, consumed, planned, written, silver, queue, callback, lastProgress>>
  BY DEF NothingPending, SelectPending, Defer, SkipOnQuality, streamVars
<1>2. \/ loop' = "idle"
      \/ /\ loop' = "selected" /\ selected' \subseteq queue
         /\ selected' = queue \/ Cardinality(selected') = MaxOrderIds + 1
  BY DEF NothingPending, SelectPending, Defer, SkipOnQuality
<1>3. HalfArrivedIsHeld'
  BY <1>1 DEF WholeInv, HalfArrivedIsHeld, Whole, Requested, BeingMerged, Live, Agree, InBatch
<1>4. MergeIsQuiet'
  BY <1>1 DEF WholeInv, MergeIsQuiet, InBatch
<1>5. SelectionInv'
  BY <1>1, <1>2 DEF SelectionInv
<1>. QED BY <1>3, <1>4, <1>5 DEF WholeInv

(* The selection of a cycle that passed the readiness check asked for every *)
(* order that stands apart in Silver, unless the limit cut it down.         *)
LEMMA ReadyScopeIsWhole ==
    ASSUME QueueInv, WholeInv, loop = "selected", ScopeReady(selected), ~CutToMetadata
    PROVE  \A o \in Orders : Whole(o)
<1>. USE GoldQueueAssumption
<1>. DEFINE scopes == {k[2] : k \in selected}
<1>1. \A o \in Orders : ~BeingMerged(o)
  BY DEF QueueInv, CycleLock, TypeOK, WholeInv, MergeIsQuiet, BeingMerged
<1>2. /\ selected \subseteq queue
      /\ selected = queue \/ Cardinality(selected) = MaxOrderIds + 1
  BY DEF WholeInv, SelectionInv
<1>3. CASE scopes = {"metadata-only"}
  <2>1. \A k \in selected : k[2] = "metadata-only"
    BY <1>3
  <2>2. selected = queue
    BY <2>1 DEF CutToMetadata
  <2>3. \A o \in Orders : ~Requested(o)
    BY <2>1, <2>2 DEF Requested
  <2>. QED BY <1>1, <2>3 DEF WholeInv, HalfArrivedIsHeld
<1>4. CASE scopes # {"metadata-only"} /\ ("all-orders" \in scopes \/ Cardinality(selected) > MaxOrderIds)
  BY <1>4 DEF ScopeReady, AllOrdersReady, Whole
<1>5. CASE scopes # {"metadata-only"} /\ "all-orders" \notin scopes /\ ~(Cardinality(selected) > MaxOrderIds)
  <2>1. selected = queue
    BY <1>2, <1>5
  <2>2. \A o \in scopes \cap Orders : OrderReady(o)
    BY <1>5 DEF ScopeReady
  <2>3. ASSUME NEW o \in Orders, Requested(o) PROVE Whole(o)
    <3>1. o \in scopes
      BY <1>5, <2>1, <2>3 DEF Requested
    <3>. QED BY <2>2, <3>1 DEF OrderReady, Whole
  <2>. QED BY <1>1, <2>3 DEF WholeInv, HalfArrivedIsHeld
<1>. QED BY <1>3, <1>4, <1>5

LEMMA PublishGoldKeepsWhole == QueueInv /\ WholeInv /\ PublishGold => WholeInv'
<1>. SUFFICES ASSUME QueueInv, WholeInv, PublishGold PROVE WholeInv'
  OBVIOUS
<1>1. /\ loop = "selected" /\ loop' = "published" /\ ScopeReady(selected)
      /\ UNCHANGED <<source, consumed, planned, written, silver, queue, callback, selected, lastProgress>>
  BY DEF PublishGold, streamVars
<1>2. (\A o \in Orders : Whole(o)) \/ (\A k \in selected : k[2] = "metadata-only")
  BY <1>1, ReadyScopeIsWhole DEF CutToMetadata
<1>3. HalfArrivedIsHeld'
  BY <1>1 DEF WholeInv, HalfArrivedIsHeld, Whole, Requested, BeingMerged, Live, Agree, InBatch
<1>4. MergeIsQuiet'
  BY <1>1 DEF WholeInv, MergeIsQuiet, InBatch
<1>5. SelectionInv'
  BY <1>1, <1>2 DEF SelectionInv, Whole, Live, Agree
<1>. QED BY <1>3, <1>4, <1>5 DEF WholeInv

(* complete() takes off only requests of orders that are whole by now. *)
LEMMA CompleteKeepsWhole == QueueInv /\ WholeInv /\ Complete => WholeInv'
<1>. SUFFICES ASSUME QueueInv, WholeInv, Complete PROVE WholeInv'
  OBVIOUS
<1>. USE GoldQueueAssumption
<1>1. /\ loop = "published" /\ loop' = "idle" /\ queue' = queue \ selected
      /\ UNCHANGED <<source, consumed, planned, written, silver, callback, lastProgress>>
  BY DEF Complete, streamVars
<1>2. ASSUME NEW o \in Orders PROVE (Whole(o) \/ Requested(o) \/ BeingMerged(o))'
  <2>1. CASE \A c \in Orders : Whole(c)
    BY <1>1, <2>1 DEF Whole, Live, Agree
  <2>2. CASE \A k \in selected : k[2] = "metadata-only"
    <3>1. Requested(o) => Requested(o)'
      BY <1>1, <2>2 DEF Requested
    <3>. QED BY <1>1, <3>1 DEF WholeInv, HalfArrivedIsHeld, Whole, BeingMerged, Live, Agree, InBatch
  <2>. QED BY <1>1, <2>1, <2>2 DEF WholeInv, SelectionInv
<1>3. MergeIsQuiet' /\ SelectionInv'
  BY <1>1 DEF WholeInv, MergeIsQuiet, SelectionInv, InBatch
<1>. QED BY <1>2, <1>3 DEF WholeInv, HalfArrivedIsHeld

LEMMA DriverKeepsWhole ==
    ASSUME QueueInv, WholeInv,
           (\E mode \in {"continuous", "available_now"} : Start(mode)) \/ EndAvailableNow \/ Crash
    PROVE  WholeInv'
<1>1. UNCHANGED <<source, consumed, planned, written, silver, queue>>
  BY DEF Start, EndAvailableNow, Crash, streamVars
<1>2. \/ UNCHANGED <<callback, loop, selected>> /\ lastProgress' \in {lastProgress, NoBatch}
      \/ callback' = "waiting" /\ loop' = "idle" /\ lastProgress' = NoBatch
  BY DEF Start, EndAvailableNow, Crash, loopVars
<1>3. HalfArrivedIsHeld'
  BY <1>1, <1>2 DEF WholeInv, HalfArrivedIsHeld, Whole, Requested, BeingMerged, Live, Agree, InBatch
<1>4. MergeIsQuiet'
  BY <1>1, <1>2 DEF WholeInv, MergeIsQuiet, InBatch
<1>5. SelectionInv'
  BY <1>1, <1>2 DEF WholeInv, SelectionInv, Whole, Live, Agree
<1>. QED BY <1>3, <1>4, <1>5 DEF WholeInv

LEMMA WholeInvStep == QueueInv /\ WholeInv /\ [Next]_vars => WholeInv'
<1>. SUFFICES ASSUME QueueInv, WholeInv, [Next]_vars PROVE WholeInv'
  OBVIOUS
<1>1. ASSUME NEW k \in Orders \cup {Product}, NEW op \in Ops, Transact(k, op) PROVE WholeInv'
  BY <1>1, TransactKeepsWhole
<1>2. CASE PlanMicroBatch
  BY <1>2, PlanKeepsWhole
<1>3. CASE QueryStep
  <2>1. CASE EnterCallback
    BY <2>1, EnterCallbackKeepsWhole
  <2>2. ASSUME NEW t \in Tables, MergeTable(t) PROVE WholeInv'
    BY <2>2, MergeTableKeepsWhole
  <2>3. CASE Enqueue
    BY <2>3, EnqueueKeepsWhole
  <2>4. CASE CommitMicroBatch
    BY <2>4, CommitKeepsWhole
  <2>. QED BY <1>3, <2>1, <2>2, <2>3, <2>4 DEF QueryStep
<1>4. CASE IdleProgress \/ WakeContinuous \/ WakeAvailableNow
  BY <1>4, WakeKeepsWhole
<1>5. CASE CycleStep
  BY <1>5, LoopKeepsWhole, PublishGoldKeepsWhole, CompleteKeepsWhole DEF CycleStep
<1>6. CASE (\E mode \in {"continuous", "available_now"} : Start(mode)) \/ EndAvailableNow \/ Crash
  BY <1>6, DriverKeepsWhole
<1>7. CASE UNCHANGED vars
  <2>1. UNCHANGED <<source, consumed, planned, written, silver, queue, callback, loop, selected, lastProgress>>
    BY <1>7 DEF vars, streamVars, loopVars
  <2>. QED BY <2>1
    DEF WholeInv, HalfArrivedIsHeld, Whole, Requested, BeingMerged, MergeIsQuiet, SelectionInv, Live, Agree,
        InBatch
<1>. QED BY <1>1, <1>2, <1>3, <1>4, <1>5, <1>6, <1>7 DEF Next

LEMMA OnlyPublishGoldChangesGold == [Next]_vars /\ gold' # gold => PublishGold
<1>. SUFFICES ASSUME [Next]_vars, gold' # gold PROVE PublishGold
  OBVIOUS
<1>1. \A k \in Orders \cup {Product}, op \in Ops : ~Transact(k, op)
  BY DEF Transact
<1>2. ~PlanMicroBatch /\ ~EnterCallback /\ (\A t \in Tables : ~MergeTable(t)) /\ ~Enqueue /\ ~CommitMicroBatch
  BY DEF PlanMicroBatch, EnterCallback, MergeTable, Enqueue, CommitMicroBatch
<1>3. ~IdleProgress /\ ~WakeContinuous /\ ~WakeAvailableNow /\ ~NothingPending /\ ~SelectPending
  BY DEF IdleProgress, WakeContinuous, WakeAvailableNow, NothingPending, SelectPending
<1>4. ~Defer /\ ~SkipOnQuality /\ ~Complete /\ (\A mode \in {"continuous", "available_now"} : ~Start(mode))
  BY DEF Defer, SkipOnQuality, Complete, Start
<1>5. ~EndAvailableNow /\ ~Crash /\ ~UNCHANGED vars
  BY DEF EndAvailableNow, Crash, vars
<1>. QED BY <1>1, <1>2, <1>3, <1>4, <1>5 DEF Next, QueryStep, CycleStep

(* The readiness check of the selected scope (_source_fact_ready_for_gold)  *)
(* suffices for all of Silver: every order that a release shows has its     *)
(* item at the transaction of its header, except after a selection that the *)
(* limit of pending() cut down to requests without order scope.             *)
THEOREM ReleasedWhole == Spec => ReleasedOrdersAreWhole
<1>. DEFINE Step == gold' # gold /\ ~CutToMetadata =>
                      \A o \in Orders : Live(gold', Header(o)) => Agree(gold', o)
<1>1. QueueInv /\ WholeInv /\ [Next]_vars => [Step]_vars
  <2>. SUFFICES ASSUME QueueInv, WholeInv, [Next]_vars, gold' # gold, ~CutToMetadata
                PROVE  \A o \in Orders : Live(gold', Header(o)) => Agree(gold', o)
    OBVIOUS
  <2>1. loop = "selected" /\ ScopeReady(selected) /\ gold' = silver
    BY OnlyPublishGoldChangesGold DEF PublishGold
  <2>. QED BY <2>1, ReadyScopeIsWhole DEF Whole
<1>2. Spec => []WholeInv
  BY WholeInvInit, WholeInvStep, QueueInvAlways, PTL DEF Spec
<1>. QED BY <1>1, <1>2, QueueInvAlways, PTL DEF Spec, ReleasedOrdersAreWhole

================================================================================

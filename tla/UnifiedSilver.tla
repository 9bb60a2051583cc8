------------------------------ MODULE UnifiedSilver ------------------------------
(***************************************************************************)
(* One Unified Silver table, its change history, and the two writers that  *)
(* merge the same source changes into both: the batch run (change_events   *)
(* -> Batch Bronze -> SilverBuilder.run_table) and the stream callback     *)
(* (Debezium -> raw CDC -> UnifiedSilverMaterializer._process_batch).      *)
(*                                                                         *)
(* A change is a position of the source log, which one writer appends to   *)
(* (README.md:901), so that its position is also its event_id, its LSN and *)
(* its occurred_at.  Debezium stamps a change with the time at which it    *)
(* captures it, which may be later.  A Bronze version stands for the       *)
(* last_event_id its commit carries.  Each writer may die between any two  *)
(* Delta commits; a dead writer's lock is free again (PipelineLock models  *)
(* when that is so).                                                       *)
(***************************************************************************)
EXTENDS Integers, Sequences

CONSTANTS Keys,        \* primary keys of the table
          MaxChanges,  \* bound on the source log
          FullRebuild, \* whether runs may pass --full-rebuild-silver
          NoRow,       \* a key the table has no row for
          NoTable,     \* the Silver table does not exist
          NoProgress   \* it exists, but no Silver commit of the batch run is in it

(* A row of Silver current: its key, its sequence columns, its _is_deleted. *)
Rows == [key : Keys, time : Nat, priority : {1, 2}, change : Nat, deleted : BOOLEAN]

ASSUME UnifiedSilverAssumption ==
    /\ MaxChanges \in Nat
    /\ FullRebuild \in BOOLEAN
    /\ NoRow \notin Rows
    /\ NoTable \notin Nat /\ NoProgress \notin Nat /\ NoTable # NoProgress

VARIABLES source,    \* the changes of the table, in commit order
          captured,  \* the capture times of the changes Debezium has read
          bronze,    \* last_event_id of the newest Batch Bronze commit
          batch,     \* the batch run: its phase, and the Bronze versions it merges
          progress,  \* last_processed_bronze_version of the Silver table
          batchTxn,  \* last txnVersion of the batch run in the history table
          consumed,  \* captured changes of committed micro-batches
          planned,   \* end of the micro-batch in Spark's offset log
          stream,    \* the phase of the callback
          streamTxn, \* its last txnVersion in the history and in the Silver table
          silver,    \* Silver current: a row or NoRow for each key
          history    \* Silver change history: changes by channel

sourceVars == <<source, captured>>
batchVars == <<bronze, batch, progress, batchTxn>>
streamVars == <<consumed, planned, stream, streamTxn>>
vars == <<sourceVars, batchVars, streamVars, silver, history>>

Ops == {"INSERT", "UPDATE", "DELETE"}
BatchPhases == {"idle", "extracted", "append", "merge", "replace", "replaceHistory"}

TypeOK ==
    /\ source \in Seq([key : Keys, op : Ops])
    /\ captured \in Seq(Nat) /\ Len(captured) <= Len(source)
    /\ bronze \in 0..Len(source)
    /\ batch \in [phase : BatchPhases, from : Nat \ {0}, upTo : 0..bronze]
    /\ progress \in 0..bronze \cup {NoTable, NoProgress}
    /\ batchTxn \in 0..bronze
    /\ planned \in 0..Len(captured) /\ consumed \in 0..planned
    /\ stream \in {"idle", "append", "merge", "written"}
    /\ streamTxn \in [history : 0..planned, silver : 0..planned]
    /\ silver \in [Keys -> Rows \cup {NoRow}]
    /\ history \subseteq [channel : {"batch", "cdc"}, change : 1..Len(source)]

Init ==
    /\ source = <<>> /\ captured = <<>>
    /\ bronze = 0 /\ progress = NoTable /\ batchTxn = 0
    /\ batch = [phase |-> "idle", from |-> 1, upTo |-> 0]
    /\ consumed = 0 /\ planned = 0 /\ stream = "idle"
    /\ streamTxn = [history |-> 0, silver |-> 0]
    /\ silver = [k \in Keys |-> NoRow] /\ history = {}

--------------------------------------------------------------------------------
(* Events as Silver sees them, and SILVER_SEQUENCE_COLUMNS. *)
BatchEvent(i) == [key |-> source[i].key, time |-> i, priority |-> 1, change |-> i,
                  deleted |-> source[i].op = "DELETE"]

CdcEvent(i) == [key |-> source[i].key, time |-> captured[i], priority |-> 2, change |-> i,
                deleted |-> source[i].op = "DELETE"]

BatchEvents(from, upTo) == {BatchEvent(i) : i \in from..upTo}
CdcEvents(from, upTo) == {CdcEvent(i) : i \in from..upTo}

(* Operators named Bug... are variants of the operator that follows them,   *)
(* each with one plausible mistake; no action uses them.                    *)

(* Changes captured in the same instant are not told apart. *)
BugNewerNoTieBreak(s, t) ==
    \/ s.time > t.time
    \/ s.time = t.time /\ s.priority > t.priority

Newer(s, t) ==
    \/ s.time > t.time
    \/ s.time = t.time /\ s.priority > t.priority
    \/ s.time = t.time /\ s.priority = t.priority /\ s.change > t.change

(* current_state: the newest event of a key. *)
Newest(events) == CHOOSE e \in events : \A f \in events : ~Newer(f, e)

(* Every source row overwrites its target. *)
BugMergeUnguarded(table, events, insertsTombstones) ==
    [k \in Keys |->
        LET mine == {e \in events : e.key = k}
        IN  IF mine = {} THEN table[k] ELSE Newest(mine)]

(* The MERGE of upsert_table.  The one of the callback passes              *)
(* preserve_target_on_soft_delete, and so does not insert a tombstone.     *)
Merge(table, events, insertsTombstones) ==
    [k \in Keys |->
        LET mine == {e \in events : e.key = k}
            newest == Newest(mine)
        IN  IF mine = {} THEN table[k]
            ELSE IF table[k] = NoRow
                 THEN IF newest.deleted /\ ~insertsTombstones THEN NoRow ELSE newest
                 ELSE IF Newer(newest, table[k]) THEN newest ELSE table[k]]

EmptyTable == [k \in Keys |-> NoRow]

--------------------------------------------------------------------------------
(* The source and its capture. *)
LastChange(k) == {i \in 1..Len(source) : source[i].key = k /\ \A j \in (i + 1)..Len(source) : source[j].key # k}
Exists(k) == \E i \in LastChange(k) : source[i].op # "DELETE"

(* Keys are identity columns: a deleted one is not inserted again. *)
Change(k, op) ==
    /\ Len(source) < MaxChanges
    /\ IF op = "INSERT" THEN LastChange(k) = {} ELSE Exists(k)
    /\ source' = Append(source, [key |-> k, op |-> op])
    /\ UNCHANGED <<captured, batchVars, streamVars, silver, history>>

(* Debezium reads the log in order and stamps the envelope with its clock. *)
Capture ==
    /\ Len(captured) < Len(source)
    /\ captured' = Append(captured, Len(source))
    /\ UNCHANGED <<source, batchVars, streamVars, silver, history>>

--------------------------------------------------------------------------------
(* The batch run. *)
LockFree == batch.phase \in {"idle", "extracted"} /\ stream \in {"idle", "written"}

(* BronzeExtractor: at least one new event if there is one, at most        *)
(* max_events_per_batch, in the commit that carries the cursor.            *)
Extract ==
    /\ batch.phase = "idle"
    /\ \E upTo \in bronze..Len(source) :
        /\ upTo = bronze => bronze = Len(source)
        /\ bronze' = upTo
        /\ batch' = [batch EXCEPT !.phase = "extracted", !.upTo = upTo]
    /\ UNCHANGED <<sourceVars, progress, batchTxn, streamVars, silver, history>>

(* --mode silver: the newest Bronze version, without an extraction. *)
ReadBronzeVersion ==
    /\ batch.phase = "idle" /\ bronze > 0
    /\ batch' = [batch EXCEPT !.phase = "extracted", !.upTo = bronze]
    /\ UNCHANGED <<sourceVars, bronze, progress, batchTxn, streamVars, silver, history>>

(* run_table reads the progress and chooses what to merge. *)
ChooseReplace ==
    /\ batch.phase = "extracted" /\ LockFree
    /\ progress = NoTable \/ FullRebuild
    /\ batch' = [batch EXCEPT !.phase = "replace"]
    /\ UNCHANGED <<sourceVars, bronze, progress, batchTxn, streamVars, silver, history>>

ChooseSnapshotMerge ==
    /\ batch.phase = "extracted" /\ LockFree
    /\ progress = NoProgress
    /\ batch' = [batch EXCEPT !.phase = "append", !.from = 1]
    /\ UNCHANGED <<sourceVars, bronze, progress, batchTxn, streamVars, silver, history>>

(* The change feed is read from the processed version itself. *)
BugFeedStartsAfterGap ==
    /\ batch.phase = "extracted" /\ LockFree
    /\ progress \in Nat /\ progress < batch.upTo
    /\ batch' = [batch EXCEPT !.phase = "append", !.from = progress + 2]
    /\ UNCHANGED <<sourceVars, bronze, progress, batchTxn, streamVars, silver, history>>

ChooseIncremental ==
    /\ batch.phase = "extracted" /\ LockFree
    /\ progress \in Nat /\ progress < batch.upTo
    /\ batch' = [batch EXCEPT !.phase = "append", !.from = progress + 1]
    /\ UNCHANGED <<sourceVars, bronze, progress, batchTxn, streamVars, silver, history>>

(* Nothing to do, or "Silver progress is ahead of Bronze": the run ends. *)
ChooseNothing ==
    /\ batch.phase = "extracted" /\ LockFree
    /\ progress \in Nat /\ progress >= batch.upTo
    /\ batch' = [batch EXCEPT !.phase = "idle"]
    /\ UNCHANGED <<sourceVars, bronze, progress, batchTxn, streamVars, silver, history>>

(* append_change_history with txnVersion = the Bronze version. *)
AppendBatchHistory ==
    /\ batch.phase = "append"
    /\ IF batch.upTo > batchTxn
       THEN /\ history' = history \cup {[channel |-> "batch", change |-> i] : i \in batch.from..batch.upTo}
            /\ batchTxn' = batch.upTo
       ELSE UNCHANGED <<history, batchTxn>>
    /\ batch' = [batch EXCEPT !.phase = "merge"]
    /\ UNCHANGED <<sourceVars, bronze, progress, streamVars, silver>>

(* The progress is the next event, not the last one. *)
BugMergeBatchNextEvent ==
    /\ batch.phase = "merge"
    /\ silver' = Merge(silver, BatchEvents(batch.from, batch.upTo), TRUE)
    /\ progress' = batch.upTo + 1
    /\ batch' = [batch EXCEPT !.phase = "idle"]
    /\ UNCHANGED <<sourceVars, bronze, batchTxn, streamVars, history>>

(* One commit: the rows and last_processed_bronze_version. *)
MergeBatch ==
    /\ batch.phase = "merge"
    /\ silver' = Merge(silver, BatchEvents(batch.from, batch.upTo), TRUE)
    /\ progress' = batch.upTo
    /\ batch' = [batch EXCEPT !.phase = "idle"]
    /\ UNCHANGED <<sourceVars, bronze, batchTxn, streamVars, history>>

(* _replace_from_snapshot: the current table first ... *)
ReplaceCurrent ==
    /\ batch.phase = "replace"
    /\ silver' = Merge(EmptyTable, BatchEvents(1, batch.upTo), TRUE)
    /\ progress' = batch.upTo
    /\ batch' = [batch EXCEPT !.phase = "replaceHistory"]
    /\ UNCHANGED <<sourceVars, bronze, batchTxn, streamVars, history>>

(* ... then its history. *)
ReplaceHistory ==
    /\ batch.phase = "replaceHistory"
    /\ history' = {[channel |-> "batch", change |-> i] : i \in 1..batch.upTo}
    /\ batch' = [batch EXCEPT !.phase = "idle"]
    /\ UNCHANGED <<sourceVars, bronze, progress, batchTxn, streamVars, silver>>

CrashBatch ==
    /\ batch.phase # "idle"
    /\ batch' = [batch EXCEPT !.phase = "idle"]
    /\ UNCHANGED <<sourceVars, bronze, progress, batchTxn, streamVars, silver, history>>

--------------------------------------------------------------------------------
(* The stream callback.  A micro-batch that was planned is run again, with *)
(* the same id and the same changes, until its commit is logged.           *)
PlanMicroBatch ==
    /\ stream = "idle" /\ planned = consumed
    /\ \E upTo \in (consumed + 1)..Len(captured) : planned' = upTo
    /\ UNCHANGED <<sourceVars, batchVars, consumed, stream, streamTxn, silver, history>>

EnterCallback ==
    /\ stream = "idle" /\ planned > consumed /\ LockFree
    /\ stream' = "append"
    /\ UNCHANGED <<sourceVars, batchVars, consumed, planned, streamTxn, silver, history>>

AppendStreamHistory ==
    /\ stream = "append"
    /\ IF planned > streamTxn.history
       THEN /\ history' = history \cup {[channel |-> "cdc", change |-> i] : i \in (consumed + 1)..planned}
            /\ streamTxn' = [streamTxn EXCEPT !.history = planned]
       ELSE UNCHANGED <<history, streamTxn>>
    /\ stream' = "merge"
    /\ UNCHANGED <<sourceVars, batchVars, consumed, planned, silver>>

(* A missing table is written whole, tombstones included. *)
MergeStream ==
    /\ stream = "merge"
    /\ IF planned > streamTxn.silver
       THEN /\ silver' = IF progress = NoTable
                         THEN Merge(EmptyTable, CdcEvents(consumed + 1, planned), TRUE)
                         ELSE Merge(silver, CdcEvents(consumed + 1, planned), FALSE)
            /\ progress' = IF progress = NoTable THEN NoProgress ELSE progress
            /\ streamTxn' = [streamTxn EXCEPT !.silver = planned]
       ELSE UNCHANGED <<silver, progress, streamTxn>>
    /\ stream' = "written"
    /\ UNCHANGED <<sourceVars, bronze, batch, batchTxn, consumed, planned, history>>

CommitMicroBatch ==
    /\ stream = "written"
    /\ consumed' = planned
    /\ stream' = "idle"
    /\ UNCHANGED <<sourceVars, batchVars, planned, streamTxn, silver, history>>

CrashStream ==
    /\ stream # "idle"
    /\ stream' = "idle"
    /\ UNCHANGED <<sourceVars, batchVars, consumed, planned, streamTxn, silver, history>>

--------------------------------------------------------------------------------
BatchStep ==
    \/ Extract \/ ReadBronzeVersion
    \/ ChooseReplace \/ ChooseSnapshotMerge \/ ChooseIncremental \/ ChooseNothing
    \/ AppendBatchHistory \/ MergeBatch \/ ReplaceCurrent \/ ReplaceHistory \/ CrashBatch

StreamStep ==
    \/ PlanMicroBatch \/ EnterCallback \/ AppendStreamHistory \/ MergeStream
    \/ CommitMicroBatch \/ CrashStream

Next ==
    \/ \E k \in Keys, op \in Ops : Change(k, op)
    \/ Capture
    \/ BatchStep
    \/ StreamStep

Spec == Init /\ [][Next]_vars

--------------------------------------------------------------------------------
(* The change that a reader of Silver, and of the source, sees for a key. *)
Shown(k) == IF silver[k] = NoRow \/ silver[k].deleted THEN {} ELSE {silver[k].change}
Expected(k) == IF Exists(k) THEN LastChange(k) ELSE {}

(* Once both channels have delivered everything, Silver is the source, in   *)
(* whatever order, after whatever crashes, retries and rebuilds the two     *)
(* writers merged the same changes (the guard of upsert_table).             *)
Converged ==
    progress = Len(source) /\ consumed = Len(source) => \A k \in Keys : Shown(k) = Expected(k)

(* Silver reflects every change its progress claims, with the change itself *)
(* or with an event that the sequence columns order after it: no crash      *)
(* between the history append and the merge, and no rebuild, loses one      *)
(* (run_table reads the feed from the processed version).                   *)
ProgressReflected ==
    progress \in Nat =>
        \A i \in 1..progress :
            /\ silver[source[i].key] # NoRow
            /\ ~Newer(BatchEvent(i), silver[source[i].key])

(* A tombstone that the callback wrote is undone only by a rebuild of the   *)
(* table, never by an older change that the batch run merges later          *)
(* (README.md:48-49).                                                       *)
CdcTombstoneFinal ==
    [][ batch.phase = "replace" \/
        \A k \in Keys :
            silver[k] # NoRow /\ silver[k].priority = 2 /\ silver[k].deleted =>
                silver'[k] # NoRow /\ (silver'[k].deleted \/ silver'[k].change > silver[k].change) ]_vars

(* Every change the progress claims is in the change history that the SCD2  *)
(* dimensions are replayed from (common.py:161).                            *)
EveryChangeInHistory ==
    progress \in Nat /\ batch.phase # "replaceHistory" =>
        \A i \in 1..progress : \E h \in history : h.change = i

================================================================================

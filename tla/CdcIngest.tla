------------------------------- MODULE CdcIngest -------------------------------
(* From the Kafka topics to Unified Silver: the raw stream appends what Kafka *)
(* delivers to the raw Bronze table; the downstream query reads that table in *)
(* micro-batches, appends the valid events to the typed Bronze tables and the *)
(* others to the quarantine, reads its own batch back and merges it.          *)
(*                                                                            *)
(* A Delta table is the sequence of its commits.  A commit carries a          *)
(* transaction id: an application id built from the query name, the           *)
(* checkpoint_version and the output, and the id of the micro-batch; Delta    *)
(* skips a commit when the table has one of that application with the same or *)
(* a later batch.  The progress of the query lives in its checkpoint          *)
(* directory, which has the same query name and checkpoint_version in its     *)
(* path but may be deleted without the tables.                                *)
(*                                                                            *)
(* An event is its place in the order of delivery.  Spark numbers batches     *)
(* from 0, this module from 1.  Which rows a merge leaves in Silver is the    *)
(* matter of UnifiedSilver; here a Silver table is the events merged into it. *)
EXTENDS Integers, Sequences

CONSTANTS
    Tables,       \* the typed tables
    Quarantine,   \* the table of events that fail validation
    Length,       \* how many events Kafka delivers
    Versions,     \* the values checkpoint_version takes, in order 1..n
    MaxCrashes,   \* bound on crashes of the downstream query
    MaxResets     \* bound on resets by the operator

ASSUME CdcIngestAssumption ==
    /\ Quarantine \notin Tables
    /\ Length \in Nat /\ Versions \in Nat /\ Versions > 0
    /\ MaxCrashes \in Nat /\ MaxResets \in Nat

VARIABLES
    source,       \* what each event is: the table it belongs to, or Quarantine
    raw,          \* how many events the raw Bronze table has
    version,      \* the configured checkpoint_version
    offsets,      \* per version, the ends of the planned batches
    finished,     \* per version, how many of them are committed
    bronze,       \* the commits of the typed tables and of the quarantine
    silver,       \* the commits of the Silver tables
    phase,        \* where the callback is; "idle" when no batch is running
    todo,         \* the tables its current stage has yet to write
    forgotten,    \* versions whose checkpoint was deleted and whose rows were not
    crashes, resets

checkpoint == <<version, offsets, finished>>
tables == <<bronze, silver>>
callback == <<phase, todo>>
operator == <<forgotten, resets>>
vars == <<source, raw, checkpoint, tables, callback, operator, crashes>>

Events == 1..Length
Outputs == Tables \cup {Quarantine}
Phases == {"idle", "quarantine", "typed", "silver"}
Commits == [version : 1..Versions, batch : Nat, events : SUBSET Events]

--------------------------------------------------------------------------------
(* The batches of a version, as its checkpoint knows them.                    *)

LastEnd(ends) == IF ends = <<>> THEN 0 ELSE ends[Len(ends)]

BatchEvents(ends, n) == (IF n = 1 THEN 1 ELSE ends[n - 1] + 1)..ends[n]

Batch == Len(offsets[version])

EventsFor(output) == {e \in BatchEvents(offsets[version], Batch) : source[e] = output}

\* table_statistics: the tables with valid rows in the running batch.
ChangedTables == {t \in Tables : EventsFor(t) # {}}

\* Bug: The application id lacks the checkpoint version.
BugRecorded(commits) == \E i \in DOMAIN commits : commits[i].batch >= Batch

\* A write with txnAppId and txnVersion: Delta skips what is already recorded.
Recorded(commits) ==
    \E i \in DOMAIN commits : commits[i].version = version /\ commits[i].batch >= Batch

\* Bug: The transaction option is set without the batch id being compared.
BugWrite(commits, events) ==
    Append(commits, [version |-> version, batch |-> Batch, events |-> events])

Write(commits, events) ==
    IF Recorded(commits) THEN commits
    ELSE Append(commits, [version |-> version, batch |-> Batch, events |-> events])

\* Bug: The batch id in the rows lacks the checkpoint version.
BugReadBack(t) ==
    UNION {bronze[t][i].events : i \in {j \in DOMAIN bronze[t] : bronze[t][j].batch = Batch}}

\* The rows of a typed table whose _batch_id is that of the running batch.
ReadBack(t) ==
    UNION {bronze[t][i].events :
             i \in {j \in DOMAIN bronze[t] : /\ bronze[t][j].version = version
                                             /\ bronze[t][j].batch = Batch}}

--------------------------------------------------------------------------------
Init ==
    /\ source \in [Events -> Outputs]
    /\ raw = 0
    /\ version = 1
    /\ offsets = [v \in 1..Versions |-> <<>>]
    /\ finished = [v \in 1..Versions |-> 0]
    /\ bronze = [o \in Outputs |-> <<>>]
    /\ silver = [t \in Tables |-> <<>>]
    /\ phase = "idle" /\ todo = {}
    /\ forgotten = {}
    /\ crashes = 0 /\ resets = 0

\* A batch of the raw stream.  Its sink is exactly once: the application id of
\* its commits is a random query id, kept in the checkpoint itself.
Ingest ==
    /\ raw < Length
    /\ raw' \in (raw + 1)..Length
    /\ UNCHANGED <<source, checkpoint, tables, callback, operator, crashes>>

\* Bug: The batch is planned although the query has read the raw table to its end.
BugStartBatch ==
    /\ phase = "idle"
    /\ Batch = finished[version]
    /\ offsets' = [offsets EXCEPT ![version] = Append(@, LastEnd(@) + 1)]
    /\ phase' = "quarantine"
    /\ UNCHANGED <<source, raw, version, finished, tables, todo, operator, crashes>>

\* The query plans its next batch and calls the callback.
StartBatch ==
    /\ phase = "idle"
    /\ Batch = finished[version]
    /\ \E end \in (LastEnd(offsets[version]) + 1)..raw :
          offsets' = [offsets EXCEPT ![version] = Append(@, end)]
    /\ phase' = "quarantine"
    /\ UNCHANGED <<source, raw, version, finished, tables, todo, operator, crashes>>

\* After a crash the query runs the planned batch again: the same rows, the same id.
RerunBatch ==
    /\ phase = "idle"
    /\ Batch > finished[version]
    /\ phase' = "quarantine"
    /\ UNCHANGED <<source, raw, checkpoint, tables, todo, operator, crashes>>

\* Bug: Invalid rows are filtered out and not kept.
BugWriteQuarantine ==
    /\ phase = "quarantine"
    /\ phase' = "typed" /\ todo' = ChangedTables
    /\ UNCHANGED <<source, raw, checkpoint, tables, operator, crashes>>

\* (The first batch of a process creates the tables that are missing, empty: a
\* table without commits.)
WriteQuarantine ==
    /\ phase = "quarantine"
    /\ bronze' = IF EventsFor(Quarantine) = {} THEN bronze
                 ELSE [bronze EXCEPT ![Quarantine] = Write(@, EventsFor(Quarantine))]
    /\ phase' = "typed" /\ todo' = ChangedTables
    /\ UNCHANGED <<source, raw, checkpoint, silver, operator, crashes>>

\* One worker of the pool; the changed tables are appended in any order.
AppendTable(t) ==
    /\ phase = "typed" /\ t \in todo
    /\ bronze' = [bronze EXCEPT ![t] = Write(@, EventsFor(t))]
    /\ todo' = todo \ {t}
    /\ UNCHANGED <<source, raw, checkpoint, silver, phase, operator, crashes>>

\* All tables are appended: with valid rows the callback goes on to Silver.
HandOver ==
    /\ phase = "typed" /\ todo = {}
    /\ phase' = "silver" /\ todo' = ChangedTables
    /\ UNCHANGED <<source, raw, checkpoint, tables, operator, crashes>>

MergeTable(t) ==
    /\ phase = "silver" /\ t \in todo
    /\ silver' = [silver EXCEPT ![t] = Write(@, ReadBack(t))]
    /\ todo' = todo \ {t}
    /\ UNCHANGED <<source, raw, checkpoint, bronze, phase, operator, crashes>>

\* The callback has returned and the query commits the batch.
FinishBatch ==
    /\ phase = "silver" /\ todo = {}
    /\ finished' = [finished EXCEPT ![version] = Batch]
    /\ phase' = "idle"
    /\ UNCHANGED <<source, raw, version, offsets, tables, todo, operator, crashes>>

\* The callback raises (a table failed, the writer lock was refused) or the
\* driver dies.
Crash ==
    /\ phase # "idle" /\ crashes < MaxCrashes
    /\ crashes' = crashes + 1
    /\ phase' = "idle" /\ todo' = {}
    /\ UNCHANGED <<source, raw, checkpoint, tables, operator>>

\* A deployment with the next checkpoint_version: a new checkpoint directory and
\* new application ids; the raw table is read again from its first event.
BumpVersion ==
    /\ phase = "idle" /\ version < Versions
    /\ version' = version + 1
    /\ UNCHANGED <<source, raw, offsets, finished, tables, callback, operator, crashes>>

EmptyCheckpoints ==
    /\ offsets' = [v \in 1..Versions |-> <<>>]
    /\ finished' = [v \in 1..Versions |-> 0]

\* make cdc-state-reset: raw and typed Bronze, Silver and all checkpoints.
ResetState ==
    /\ phase = "idle" /\ resets < MaxResets
    /\ resets' = resets + 1
    /\ EmptyCheckpoints
    /\ raw' = 0
    /\ bronze' = [o \in Outputs |-> <<>>]
    /\ silver' = [t \in Tables |-> <<>>]
    /\ forgotten' = {}
    /\ UNCHANGED <<source, version, callback, crashes>>

\* make unified-state-reset: Silver and the checkpoint of the downstream query;
\* typed Bronze and the quarantine stay.
ResetSilver ==
    /\ phase = "idle" /\ resets < MaxResets
    /\ resets' = resets + 1
    /\ EmptyCheckpoints
    /\ silver' = [t \in Tables |-> <<>>]
    /\ forgotten' = forgotten \cup {v \in 1..Versions : offsets[v] # <<>>}
    /\ UNCHANGED <<source, raw, version, bronze, callback, crashes>>

RunBatch ==
    \/ StartBatch \/ RerunBatch \/ WriteQuarantine \/ HandOver \/ FinishBatch
    \/ \E t \in Tables : AppendTable(t) \/ MergeTable(t)

Next == Ingest \/ RunBatch \/ Crash \/ BumpVersion \/ ResetState \/ ResetSilver

Spec == Init /\ [][Next]_vars

(* Both queries trigger again and again and are restarted after a failure.    *)
FairSpec == Spec /\ WF_vars(Ingest) /\ WF_vars(RunBatch)

--------------------------------------------------------------------------------
(* Types of the variables.                                                    *)
TypeOK ==
    /\ source \in [Events -> Outputs]
    /\ raw \in 0..Length
    /\ version \in 1..Versions
    /\ offsets \in [1..Versions -> Seq(1..Length)]
    /\ finished \in [1..Versions -> Nat]
    /\ bronze \in [Outputs -> Seq(Commits)]
    /\ silver \in [Tables -> Seq(Commits)]
    /\ phase \in Phases /\ todo \subseteq Tables
    /\ forgotten \subseteq 1..Versions
    /\ crashes \in 0..MaxCrashes /\ resets \in 0..MaxResets

\* The events of the batches a version has committed.
Consumed(v) ==
    UNION {BatchEvents(offsets[v], n) : n \in 1..finished[v]}

Copies(v, e) ==
    {i \in DOMAIN bronze[source[e]] : /\ bronze[source[e]][i].version = v
                                      /\ e \in bronze[source[e]][i].events}

(* Under one checkpoint_version every event is at most once in the typed table *)
(* or the quarantine it belongs to, whatever crashed and ran again, and it is   *)
(* there once its batch is committed (typed_bronze.py:42-74, 165-191).          *)
EachEventLandsOnce ==
    \A v \in (1..Versions) \ forgotten :
       /\ \A e \in Events : \A i, j \in Copies(v, e) : i = j
       /\ \A e \in Consumed(v) : Copies(v, e) # {}

InSilver(e) == \E i \in DOMAIN silver[source[e]] : e \in silver[source[e]][i].events

(* Every valid event of a committed batch was merged into Silver: what the      *)
(* callback reads back is never less than its batch                             *)
(* (typed_bronze.py:66-73, unified_silver.py:102-108).                          *)
CommittedIsInSilver ==
    \A v \in (1..Versions) \ forgotten :
       \A e \in Consumed(v) : source[e] \in Tables => InSilver(e)

(* Nor is it more: no row of another batch, another version or an earlier       *)
(* attempt gets into the merge of a micro-batch.                                *)
MergesOwnBatch ==
    [][\A t \in Tables :
          Len(silver'[t]) > Len(silver[t]) /\ version \notin forgotten
             => silver'[t][Len(silver'[t])].events = EventsFor(t)]_vars

(* Every event Kafka delivers reaches Silver or the quarantine in the end, as   *)
(* long as the checkpoint was not deleted alone.                                *)
EveryEventArrives ==
    <>[](\/ version \in forgotten
         \/ \A e \in Events : IF source[e] = Quarantine THEN Copies(version, e) # {}
                              ELSE InSilver(e))

(* README.md:531-533: after make unified-state-reset the query replays Raw CDC. *)
(* Once it has consumed the raw table, Silver has every valid event again.      *)
ReplayRestoresSilver ==
    \A e \in Consumed(version) : source[e] \in Tables => InSilver(e)

================================================================================

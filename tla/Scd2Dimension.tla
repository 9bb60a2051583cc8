------------------------------ MODULE Scd2Dimension ------------------------------
(***************************************************************************)
(* One customer in dim_customer and the orders that refer to it: the       *)
(* change history of app_users, filled by both channels; the SCD2 replay   *)
(* with its checkpoint; the temporal join of fact_sales; the quality gates *)
(* and the release, which pins dimension and facts together.               *)
(*                                                                         *)
(* An event of the history has a time: the batch channel's is occurred_at, *)
(* the time of the source transaction; the CDC channel's is the time of    *)
(* capture.  Both channels deliver every change.  Attributes stand for the *)
(* attribute hash; a change that keeps the attribute is Type 1.  Silver's  *)
(* writers and the builder hold the writer lock, so that nothing is loaded *)
(* during a build.  A build may end at any step (Fail).  One that finds no *)
(* substantive change publishes what is there (GoldRelease) and is left    *)
(* out.                                                                    *)
(***************************************************************************)
EXTENDS Integers, Sequences, FiniteSets

CONSTANTS Attrs,       \* attribute hashes
          Orders,      \* orders of the customer
          MaxTime,     \* bound on event times
          MaxChanges,  \* bound on the changes of the customer
          MaxCaptured, \* bound on the changes that Debezium captures
          NoRow,       \* Silver current has no row for it
          NoFact,      \* the order is not in fact_sales
          UnknownKey,  \* the key 0 of the unknown member
          Misplaced,   \* a release pins fact_sales at a version of a failed build
          NoRelease,   \* no release has been published
          NoCheckpoint \* no SCD2 checkpoint has been written

Open == MaxTime + 1    \* OPEN_ENDED_EFFECTIVE_TO
Ops == {"INSERT", "UPDATE", "DELETE"}
Channels == {"batch", "cdc"}
Events == [time : 1..MaxTime, channel : Channels, change : 1..MaxChanges]
Keys == [from : 1..MaxTime, attr : Attrs]
Versions == [from : 1..MaxTime, attr : Attrs, to : 1..Open, current : BOOLEAN, deleted : BOOLEAN]

ASSUME Scd2DimensionAssumption ==
    /\ MaxTime \in Nat \ {0} /\ MaxChanges \in Nat /\ MaxCaptured \in Nat
    /\ NoRow \notin Events
    /\ NoFact \notin Keys \cup {UnknownKey} /\ UnknownKey \notin Keys
    /\ NoCheckpoint \notin [batch : Nat, cdc : Nat]

VARIABLES source,   \* the changes of the customer, in commit order
          captured, \* the times at which Debezium captured them
          loaded,   \* how many changes each channel has appended to the history
          row,      \* Silver current: the event its row comes from
          orders,   \* created_at of the orders in Silver, 0 for an order not there
          pending,  \* what the substantive Silver changes since the release touch
          replayed, \* the history at the SCD2 checkpoint
          gold,     \* the candidate tables dim_customer and fact_sales
          release,  \* the tables as the active release pins them
          build     \* the builder: its phase, and whether it rebuilds everything

sourceVars == <<source, captured>>
silverVars == <<loaded, row, orders>>
vars == <<sourceVars, silverVars, pending, replayed, gold, release, build>>

Phases == {"idle", "checkpoint", "gate", "fact", "publish"}
NothingPending == [customer |-> FALSE, orders |-> {}]
Idle == [phase |-> "idle", full |-> FALSE]

(* Types, and that neither the channels nor the checkpoint run ahead of    *)
(* what they read.                                                         *)
TypeOK ==
    /\ source \in Seq([time : 1..MaxTime, op : Ops, attr : Attrs])
    /\ captured \in Seq(1..MaxTime) /\ Len(captured) <= Len(source)
    /\ loaded \in [batch : 0..Len(source), cdc : 0..Len(captured)]
    /\ row \in Events \cup {NoRow}
    /\ orders \in [Orders -> 0..MaxTime]
    /\ pending \in [customer : BOOLEAN, orders : SUBSET Orders]
    /\ replayed = NoCheckpoint \/ replayed \in [batch : 0..loaded.batch, cdc : 0..loaded.cdc]
    /\ gold \in [dim : SUBSET Versions, facts : [Orders -> Keys \cup {NoFact, UnknownKey}]]
    /\ release = NoRelease \/
       release \in [dim : SUBSET Versions, facts : [Orders -> Keys \cup {NoFact}] \cup {Misplaced}]
    /\ build \in [phase : Phases, full : BOOLEAN]

Init ==
    /\ source = <<>> /\ captured = <<>>
    /\ loaded = [batch |-> 0, cdc |-> 0] /\ row = NoRow
    /\ orders = [o \in Orders |-> 0]
    /\ pending = NothingPending /\ replayed = NoCheckpoint
    /\ gold = [dim |-> {}, facts |-> [o \in Orders |-> NoFact]]
    /\ release = NoRelease /\ build = Idle

--------------------------------------------------------------------------------
(* The change history and its order. *)
BatchEvent(i) == [time |-> source[i].time, channel |-> "batch", change |-> i]
CdcEvent(i) == [time |-> captured[i], channel |-> "cdc", change |-> i]
History(h) == {BatchEvent(i) : i \in 1..h.batch} \cup {CdcEvent(i) : i \in 1..h.cdc}

Covered == IF replayed = NoCheckpoint THEN {} ELSE History(replayed)

Op(e) == source[e.change].op
Attr(e) == source[e.change].attr

(* _event_order_columns: CDC after batch at the same time. *)
Before(e, f) ==
    \/ e.time < f.time
    \/ e.time = f.time /\ e.channel = "batch" /\ f.channel = "cdc"
    \/ e.time = f.time /\ e.channel = f.channel /\ e.change < f.change

First(events) == CHOOSE e \in events : \A f \in events \ {e} : Before(e, f)
Last(events) == CHOOSE e \in events : \A f \in events \ {e} : Before(f, e)

--------------------------------------------------------------------------------
(* _replay_single_entity_scd2. *)
Type2Starts(events) ==
    {e \in events :
        LET earlier == {f \in events : Before(f, e)}
            alive == {f \in earlier : Op(f) # "DELETE"}
        IN  /\ Op(e) # "DELETE"
            /\ \/ alive = {}
               \/ Attr(e) # Attr(Last(alive))
               \/ Op(Last(earlier)) = "DELETE"}

Deletes(events) == {e \in events : Op(e) = "DELETE"}

(* registered_at, which the customer's rows all carry. *)
CreatedAt == source[1].time

(* Operators named Bug... are variants of the operator that follows them,   *)
(* each with one plausible mistake; no action uses them.                   *)

(* Every version begins with the customer. *)
BugVersionOf(e, isFirst, later) ==
    [from |-> CreatedAt, attr |-> Attr(e),
     to |-> IF later = {} THEN Open ELSE First(later).time,
     current |-> later = {},
     deleted |-> later # {} /\ Op(First(later)) = "DELETE"]

VersionOf(e, isFirst, later) ==
    [from |-> IF isFirst /\ CreatedAt < e.time THEN CreatedAt ELSE e.time,
     attr |-> Attr(e),
     to |-> IF later = {} THEN Open ELSE First(later).time,
     current |-> later = {},
     deleted |-> later # {} /\ Op(First(later)) = "DELETE"]

(* Only the events after the checkpoint are replayed. *)
BugReplay(h) ==
    LET starts == Type2Starts(History(h) \ Covered)
        boundaries == starts \cup Deletes(History(h) \ Covered)
    IN  {VersionOf(e, e = First(starts), {b \in boundaries : Before(e, b)}) : e \in starts}

Replay(h) ==
    LET starts == Type2Starts(History(h))
        boundaries == starts \cup Deletes(History(h))
    IN  {VersionOf(e, e = First(starts), {b \in boundaries : Before(e, b)}) : e \in starts}

(* customer_key: a hash of source key, effective_from and attributes. *)
KeyOf(v) == [from |-> v.from, attr |-> v.attr]
KeysIn(dim) == {KeyOf(v) : v \in dim}

(* _upsert_replayed_scd2: rows whose key the replay no longer has are      *)
(* deleted, the others updated, new ones inserted.  A replay may give two  *)
(* versions one key, when they begin at the same time; Delta's MERGE       *)
(* refuses two source rows for a row of its target.                        *)
MergeRefused(dim, versions) ==
    \E v, w \in versions : v # w /\ KeyOf(v) = KeyOf(w) /\ KeyOf(v) \in KeysIn(dim)

(* Obsolete keys stay. *)
BugStaleKeys(dim, versions) == {}

StaleKeys(dim, versions) == KeysIn(dim) \ KeysIn(versions)
Upsert(dim, versions) ==
    {v \in dim : KeyOf(v) \notin StaleKeys(dim, versions) \cup KeysIn(versions)} \cup versions

(* _scd2_violations. *)
ValidScd2(dim) ==
    LET current == {v \in dim : v.current}
    IN  /\ Cardinality(current) <= 1
        /\ dim # {} /\ current = {} => \E v \in dim : v.deleted
        /\ \A v \in dim : v.from < v.to
        /\ \A v, w \in dim : v # w /\ v.from <= w.from => v.to <= w.from

(* The temporal join of build_fact_sales; an order before the first        *)
(* version takes the first version.                                        *)
(* Intervals closed at the wrong end. *)
BugAsOf(dim, t) == {v \in dim : v.from < t /\ t <= v.to}

AsOf(dim, t) == {v \in dim : v.from <= t /\ t < v.to}
FactKey(dim, t) ==
    IF AsOf(dim, t) # {} THEN KeyOf(CHOOSE v \in AsOf(dim, t) : TRUE)
    ELSE IF dim # {} /\ \A v \in dim : t < v.from
         THEN KeyOf(CHOOSE v \in dim : \A w \in dim : v.from <= w.from)
         ELSE UnknownKey

Facts(dim, scope) ==
    [o \in Orders |-> IF o \in scope THEN FactKey(dim, orders[o]) ELSE gold.facts[o]]

(* _assert_fact_metrics: one fact per order item, and no unresolved key;   *)
(* _assert_dimension_integrity: the keys are in the dimension.             *)
FactsPass(dim, facts, scope) ==
    \A o \in scope : Cardinality(AsOf(dim, orders[o])) <= 1 /\ facts[o] \in KeysIn(dim)

--------------------------------------------------------------------------------
(* The source and Debezium share a clock, which has reached every time      *)
(* that either has given away.                                             *)
Given == {source[i].time : i \in 1..Len(source)} \cup {captured[i] : i \in 1..Len(captured)}
             \cup {orders[o] : o \in Orders}
Now == {t \in 1..MaxTime : \A past \in Given : past <= t}

Exists == source # <<>> /\ source[Len(source)].op # "DELETE"

(* Time begins with the customer.  A key is never inserted again, and a    *)
(* customer with orders not deleted.                                       *)
SourceChange(op, attr, t) ==
    /\ Len(source) < MaxChanges
    /\ IF op = "INSERT" THEN source = <<>> /\ t = 1 ELSE Exists
    /\ op = "DELETE" => attr = source[Len(source)].attr /\ \A o \in Orders : orders[o] = 0
    /\ source' = Append(source, [time |-> t, op |-> op, attr |-> attr])
    /\ UNCHANGED <<captured, silverVars, pending, replayed, gold, release, build>>

Capture(t) ==
    /\ Len(captured) < Len(source) /\ Len(captured) < MaxCaptured
    /\ captured' = Append(captured, t)
    /\ UNCHANGED <<source, silverVars, pending, replayed, gold, release, build>>

--------------------------------------------------------------------------------
(* The writers of Silver, under the writer lock. *)

(* _substantive_changes: an insert, or an update of business columns, which *)
(* the two events of one change have in common.                            *)
(* Only inserts and deletes of the change feed count. *)
BugSubstantive(old, new) == new # NoRow /\ old = NoRow

Substantive(old, new) == new # NoRow /\ (old = NoRow \/ new.change # old.change)

(* One Bronze version or micro-batch: the append to the history, and the   *)
(* MERGE into Silver current, which of the stream inserts no tombstone.    *)
Load(newest, upTo) ==
    /\ build.phase = "idle"
    /\ loaded' = upTo
    /\ row' = IF row = NoRow
              THEN IF newest.channel = "cdc" /\ Op(newest) = "DELETE" THEN NoRow ELSE newest
              ELSE IF Before(row, newest) THEN newest ELSE row
    /\ pending' = [pending EXCEPT !.customer = @ \/ Substantive(row, row')]
    /\ UNCHANGED <<sourceVars, orders, replayed, gold, release, build>>

LoadBatch == \E n \in (loaded.batch + 1)..Len(source) :
    Load(BatchEvent(n), [loaded EXCEPT !.batch = n])
LoadCdc == \E n \in (loaded.cdc + 1)..Len(captured) :
    Load(CdcEvent(n), [loaded EXCEPT !.cdc = n])

(* An order, or a change of one: created at t, in Silver now. *)
LoadOrder(o, t) ==
    /\ build.phase = "idle"
    /\ IF orders[o] = 0 THEN Exists /\ source[1].time <= t ELSE t = orders[o]
    /\ orders' = [orders EXCEPT ![o] = t]
    /\ pending' = [pending EXCEPT !.orders = @ \cup {o}]
    /\ UNCHANGED <<sourceVars, loaded, row, replayed, gold, release, build>>

--------------------------------------------------------------------------------
(* GoldBuilder.run.  A build begins with its first write. *)
GoTo(phase) == build' = [build EXCEPT !.phase = phase]

RebuildDimension ==
    /\ build.phase = "idle" /\ loaded.batch + loaded.cdc > 0
    /\ gold' = [gold EXCEPT !.dim = Replay(loaded)]
    /\ build' = [phase |-> "checkpoint", full |-> TRUE]
    /\ UNCHANGED <<sourceVars, silverVars, pending, replayed, release>>

UpdateDimension ==
    /\ build.phase = "idle" /\ release # NoRelease /\ pending.customer
    /\ replayed # loaded
    /\ LET versions == Replay(loaded)
       IN  /\ ~MergeRefused(gold.dim, versions)
           /\ gold' = [gold EXCEPT !.dim = Upsert(@, versions)]
    /\ build' = [phase |-> "checkpoint", full |-> FALSE]
    /\ UNCHANGED <<sourceVars, silverVars, pending, replayed, release>>

(* _read_scd2_history_increment finds nothing after the checkpoint; the     *)
(* dimension is validated and published all the same.                      *)
SkipDimension ==
    /\ build.phase = "idle" /\ release # NoRelease /\ pending.customer
    /\ replayed = loaded
    /\ build' = [phase |-> "gate", full |-> FALSE]
    /\ UNCHANGED <<sourceVars, silverVars, pending, replayed, gold, release>>

(* The checkpoint takes the version of the source, not of the history. *)
BugWriteCheckpoint ==
    /\ build.phase = "checkpoint"
    /\ replayed' = [batch |-> Len(source), cdc |-> Len(captured)]
    /\ GoTo(IF build.full THEN "fact" ELSE "gate")
    /\ UNCHANGED <<sourceVars, silverVars, pending, gold, release>>

WriteCheckpoint ==
    /\ build.phase = "checkpoint"
    /\ replayed' = loaded
    /\ GoTo(IF build.full THEN "fact" ELSE "gate")
    /\ UNCHANGED <<sourceVars, silverVars, pending, gold, release>>

(* validate_scd2 if the dimension changed, then the facts of the affected   *)
(* orders, which are those with changes of their own, then run_incremental. *)
MergeFacts ==
    /\ ~build.full /\ release # NoRelease /\ pending.orders # {}
    /\ IF pending.customer THEN build.phase = "gate" /\ ValidScd2(gold.dim) ELSE build.phase = "idle"
    /\ LET facts == Facts(gold.dim, pending.orders)
       IN  /\ FactsPass(gold.dim, facts, pending.orders)
           /\ gold' = [gold EXCEPT !.facts = facts]
    /\ GoTo("publish")
    /\ UNCHANGED <<sourceVars, silverVars, pending, replayed, release>>

InSilver == {o \in Orders : orders[o] # 0}

(* A full rebuild writes the facts first and checks everything then. *)
WriteFullFacts ==
    /\ build.phase = "fact" /\ build.full
    /\ gold' = [gold EXCEPT !.facts = Facts(gold.dim, InSilver)]
    /\ GoTo("gate")
    /\ UNCHANGED <<sourceVars, silverVars, pending, replayed, release>>

(* _publish: a table that the build has not written stays pinned as it is. *)
(* An unwritten fact_sales is so only when no build since the release has  *)
(* changed it and failed; GoldRelease says what is pinned then.            *)
Pinned ==
    [dim |-> IF build.full \/ pending.customer THEN gold.dim ELSE release.dim,
     facts |-> IF build.full \/ pending.orders # {} THEN gold.facts
               ELSE IF release.facts = gold.facts THEN release.facts ELSE Misplaced]

Publish ==
    /\ \/ build.phase = "publish"
       \/ /\ build.phase = "gate" /\ ValidScd2(gold.dim)
          /\ IF build.full THEN FactsPass(gold.dim, gold.facts, InSilver) ELSE pending.orders = {}
    /\ release' = Pinned /\ pending' = NothingPending /\ build' = Idle
    /\ UNCHANGED <<sourceVars, silverVars, replayed, gold>>

(* A crash, or a gate that does not pass. *)
Fail ==
    /\ build.phase # "idle" /\ build' = Idle
    /\ UNCHANGED <<sourceVars, silverVars, pending, replayed, gold, release>>

SilverStep == LoadBatch \/ LoadCdc \/ \E o \in Orders, t \in 1..MaxTime : LoadOrder(o, t)

BuildStep ==
    \/ RebuildDimension \/ UpdateDimension \/ SkipDimension \/ WriteCheckpoint
    \/ MergeFacts \/ WriteFullFacts \/ Publish \/ Fail

Next ==
    \/ \E op \in Ops, attr \in Attrs, t \in Now : SourceChange(op, attr, t)
    \/ \E t \in Now : Capture(t)
    \/ SilverStep
    \/ BuildStep

Spec == Init /\ [][Next]_vars

--------------------------------------------------------------------------------
(* Whenever the checkpoint covers the whole history, whatever failed on    *)
(* the way, the dimension says for each time what the last event up to     *)
(* that time says: nothing for a DELETE, its attributes otherwise, and     *)
(* those of the first version back to the creation of the customer.        *)
(* (scd2.py:_replay_single_entity_scd2, build_gold.py:_upsert_replayed_scd2) *)
AttrsOfHistory(events, t) ==
    LET past == {e \in events : e.time <= t}
        shown == IF past # {} THEN Last(past) ELSE First(events)
    IN  IF Op(shown) = "DELETE" \/ t < CreatedAt THEN {} ELSE {Attr(shown)}

DimensionFollowsHistory ==
    replayed = loaded =>
        \A t \in 1..MaxTime : {v.attr : v \in AsOf(gold.dim, t)} = AttrsOfHistory(History(loaded), t)

(* The gate refuses a freshly replayed dimension only when two events of   *)
(* the history that begin or end a version have the same time: the replay  *)
(* then has a version of no length, and so has every later one unless a    *)
(* late event makes one of the two no boundary.                            *)
(* (quality.py:_scd2_violations)                                           *)
OnlyTiesAreRefused ==
    /\ build.phase = "gate"
    /\ \A e, f \in Type2Starts(History(loaded)) \cup Deletes(History(loaded)) : e # f => e.time # f.time
    => ValidScd2(gold.dim)

(* A release with no substantive customer change after it shows the        *)
(* customer as Silver current does, although metadata-only commits are not *)
(* replayed: unless Silver's row is not the newest event, which happens    *)
(* when a CDC DELETE came first and left no tombstone.                     *)
(* (build_gold.py:_substantive_changes)                                    *)
ReleaseShowsCurrentCustomer ==
    release # NoRelease /\ ~pending.customer /\ row # NoRow /\ row = Last(History(loaded)) =>
        {v.attr : v \in {w \in release.dim : w.current}} = IF Op(row) = "DELETE" THEN {} ELSE {Attr(row)}

(* A version's key is taken from the dimension only by a replay that       *)
(* finds a late event, one that sorts before an event of the history:      *)
(* facts that no order change rebuilds keep the key.                       *)
(* (build_gold.py:_affected_order_ids, _upsert_replayed_scd2)              *)
KeysLostOnlyToLateEvents ==
    [][\A k \in KeysIn(gold.dim) \ KeysIn(gold'.dim) :
          \E late \in History(loaded) \ Covered, e \in History(loaded) :
              Before(late, e) /\ late.time <= k.from]_vars

(* Without the stream, a fact gets the attributes that the source had when *)
(* its order was created, once the changes up to then are loaded.          *)
(* (fact_sales.py:build_fact_sales)                                        *)
SourceAttr(t) ==
    LET past == {i \in 1..Len(source) : source[i].time <= t}
    IN  source[CHOOSE i \in past : \A j \in past : j <= i].attr

BatchFactsAreExact ==
    [][\A o \in Orders :
          /\ gold'.facts[o] # gold.facts[o] /\ gold'.facts[o] \in Keys
          /\ loaded.cdc = 0 /\ \A i \in (loaded.batch + 1)..Len(source) : source[i].time > orders[o]
          => gold'.facts[o].attr = SourceAttr(orders[o])]_vars

================================================================================

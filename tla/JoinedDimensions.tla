----------------------------- MODULE JoinedDimensions -----------------------------
(***************************************************************************)
(* dim_category and dim_product: the SCD2 dimensions that join two         *)
(* histories.  A version of a category carries its parent's name (a left   *)
(* join of the category history with itself), one of a variant carries its *)
(* product's attributes (an inner join).  An incremental build replays a   *)
(* part of the history only and merges the result into the whole table;    *)
(* the SCD2 gate decides whether the tables are published.                 *)
(*                                                                         *)
(* The events of a row reach the Silver history in order, those of two     *)
(* rows in any order: a table has several Kafka partitions, and two tables *)
(* have two topics.  A name stands for the Type 2 columns of a row; Type 1 *)
(* columns are left out.  The events of one row have different times: ties *)
(* are the subject of Scd2Dimension.  Silver's writers and the builder     *)
(* hold the writer lock (PipelineLock), so nothing arrives during a build. *)
(* A build may end at any step (Fail), by a crash or by the gate.          *)
(***************************************************************************)
EXTENDS Integers, Sequences, FiniteSets

CONSTANTS Categories, Products, Variants,
          Names,      \* the attributes of a row
          NoParent,   \* parent_category_id is NULL; a product has none
          NoName,     \* parent_category_name is NULL
          NoRelease,  \* no release has been published
          MaxTime,    \* bound on the clock of the source
          MaxSize     \* bound on the rows and events of the histories, together

Entities == Categories \cup Products \cup Variants
Dimensions == {"dim_category", "dim_product"}
Open == MaxTime + 1    \* OPEN_ENDED_EFFECTIVE_TO
Events == [at : 1..MaxTime, name : Names, parent : Entities \cup {NoParent}, deleted : BOOLEAN]
Versions == [of : Entities, from : 0..MaxTime, to : 1..Open, name : Names,
             parent : Entities \cup {NoParent}, parentName : Names \cup {NoName},
             current : BOOLEAN, deleted : BOOLEAN]

ASSUME JoinedDimensionsAssumption ==
    /\ MaxTime \in Nat \ {0} /\ MaxSize \in Nat
    /\ IsFiniteSet(Entities) /\ Categories \cap Products = {}
    /\ Variants \cap (Categories \cup Products) = {}
    /\ NoParent \notin Entities /\ NoName \notin Names
    /\ NoRelease \notin [Dimensions -> SUBSET Versions]

VARIABLES now,      \* the clock of the source
          log,      \* the events of each row, in order
          arrived,  \* how many of them the Silver history has
          rows,     \* rows of Silver current, tombstones included
          changed,  \* rows in the Silver change feed since the release
          gold,     \* the two candidate tables
          release,  \* the two tables as the active release pins them
          build     \* the builder: what it rebuilds, and the tables left to write

sourceVars == <<now, log>>
silverVars == <<arrived, rows, changed>>
vars == <<sourceVars, silverVars, gold, release, build>>

Idle == [mode |-> "idle", todo |-> {}]

TypeOK ==
    /\ now \in 1..MaxTime
    /\ log \in [Entities -> Seq(Events)]
    /\ \A e \in Entities : arrived[e] \in 0..Len(log[e])
    /\ rows \subseteq {e \in Entities : arrived[e] > 0} /\ changed \subseteq rows
    /\ gold \in [Dimensions -> SUBSET Versions]
    /\ release = NoRelease \/ release \in [Dimensions -> SUBSET Versions]
    /\ build \in [mode : {"idle", "full", "incremental"}, todo : SUBSET Dimensions]

Init ==
    /\ now = 1 /\ log = [e \in Entities |-> <<>>]
    /\ arrived = [e \in Entities |-> 0] /\ rows = {} /\ changed = {}
    /\ gold = [d \in Dimensions |-> {}] /\ release = NoRelease
    /\ build = Idle

--------------------------------------------------------------------------------
(* The source (oltpSchema.sql): a category's parent is another category, a  *)
(* variant keeps its product.                                               *)

(* The snapshot finds rows at time 1; later no two transactions share a     *)
(* time.                                                                    *)
Times == (IF now = 1 THEN {1, 2} ELSE {now + 1}) \cap 1..MaxTime

Newest(e) == log[e][Len(log[e])]
Live(e) == log[e] # <<>> /\ ~Newest(e).deleted

MayRefer(e, parent) ==
    \/ e \in Categories \cup Products /\ parent = NoParent
    \/ e \in Categories /\ parent \in Categories \ {e} /\ Live(parent)
    \/ e \in Variants /\ parent \in Products /\ Live(parent)
       /\ (log[e] # <<>> => Newest(e).parent = parent)

(* The rows of the histories, and their events. *)
Recorded(histories) ==
    {e \in Entities : histories[e] # <<>>}
        \cup UNION {{e} \X DOMAIN histories[e] : e \in Entities}
WithinBounds == Cardinality(Recorded(log')) <= MaxSize

(* A row changes once at a time. *)
FreeAt(e, t) == log[e] # <<>> => Newest(e).at < t

Write(e, name, parent, t) ==
    /\ log[e] = <<>> \/ Live(e)
    /\ FreeAt(e, t) /\ MayRefer(e, parent)
    /\ log' = [log EXCEPT ![e] =
                 Append(@, [at |-> t, name |-> name, parent |-> parent, deleted |-> FALSE])]
    /\ WithinBounds
    /\ now' = t
    /\ UNCHANGED <<silverVars, gold, release, build>>

(* In the same transaction ON DELETE SET NULL writes the children of a      *)
(* category and ON DELETE CASCADE deletes the variants of a product.        *)
Delete(e, t) ==
    LET children == {c \in Entities : Live(c) /\ Newest(c).parent = e}
        Gone(c) == [Newest(c) EXCEPT !.at = t, !.deleted = TRUE]
        Orphan(c) == [Newest(c) EXCEPT !.at = t, !.parent = NoParent]
    IN  /\ Live(e) /\ \A c \in children \cup {e} : FreeAt(c, t)
        /\ log' = [c \in Entities |->
                     IF c = e \/ (c \in children /\ c \in Variants) THEN Append(log[c], Gone(c))
                     ELSE IF c \in children THEN Append(log[c], Orphan(c)) ELSE log[c]]
        /\ WithinBounds
        /\ now' = t
        /\ UNCHANGED <<silverVars, gold, release, build>>

--------------------------------------------------------------------------------
(* Operators named Bug... are variants of the operator that follows them,   *)
(* each with one plausible mistake; no action uses them.                    *)

(* Every event of the history counts as a change of Silver. *)
BugArrive(e, channel) ==
    /\ build = Idle /\ arrived[e] < Len(log[e])
    /\ arrived' = [arrived EXCEPT ![e] = Len(log[e])]
    /\ rows' = IF Live(e) \/ channel = "batch" THEN rows \cup {e} ELSE rows
    /\ changed' = changed \cup {e}
    /\ UNCHANGED <<sourceVars, gold, release, build>>

(* Silver: the events of a row are appended to the history and merged into  *)
(* the current table, from where the change feed shows the row.  A stream   *)
(* merge inserts no tombstone for a row that is not there.                  *)
Arrive(e, channel) ==
    /\ build = Idle /\ arrived[e] < Len(log[e])
    /\ arrived' = [arrived EXCEPT ![e] = Len(log[e])]
    /\ LET merged == IF e \in rows \/ Live(e) \/ channel = "batch" THEN {e} ELSE {}
       IN  rows' = rows \cup merged /\ changed' = changed \cup merged
    /\ UNCHANGED <<sourceVars, gold, release, build>>

--------------------------------------------------------------------------------
(* The replay. *)

(* _history_states: validity intervals of the events of a row, of those the *)
(* scope of the build lets in.                                              *)
States(e, scope) ==
    {[of |-> e, from |-> log[e][i].at, to |-> IF i < arrived[e] THEN log[e][i + 1].at ELSE Open,
      name |-> log[e][i].name, parent |-> log[e][i].parent, deleted |-> log[e][i].deleted]
        : i \in {i \in 1..arrived[e] : e \in scope}}

ParentStates(s, scope) == IF s.parent = NoParent THEN {} ELSE States(s.parent, scope)

(* Only the parent's state at the child's own event is joined. *)
BugOverlaps(s, p) == p.from <= s.from /\ s.from < p.to

Overlaps(s, p) == s.from < p.to /\ p.from < s.to

(* An event of the joined history begins with the later of its two states;  *)
(* no two of one child begin together.                                      *)
Joined(s, p) ==
    [at |-> IF s.from < p.from THEN p.from ELSE s.from,
     attrs |-> <<s.parent, s.name, IF p.deleted THEN NoName ELSE p.name>>,
     deleted |-> s.deleted \/ (s.of \in Variants /\ p.deleted)]

(* The left join keeps a category without a parent state. *)
Unmatched(s) ==
    IF s.of \in Categories
    THEN {[at |-> s.from, attrs |-> <<s.parent, s.name, NoName>>, deleted |-> s.deleted]} ELSE {}

JoinedEvents(e, scope) ==
    UNION {LET matches == {p \in ParentStates(s, scope) : Overlaps(s, p)}
           IN  IF matches = {} THEN Unmatched(s) ELSE {Joined(s, p) : p \in matches}
             : s \in States(e, scope)}

(* What the snapshot finds, at time 1, was created before. *)
CreatedAt(e) == IF log[e][1].at = 1 THEN 0 ELSE log[e][1].at

Earliest(events) == CHOOSE f \in events : \A g \in events : f.at <= g.at
Latest(events) == CHOOSE f \in events : \A g \in events : g.at <= f.at

(* _replay_single_entity_scd2. *)
ReplayEntity(e, scope) ==
    LET events == JoinedEvents(e, scope)
        Before(f) == {g \in events : g.at < f.at}
        Alive(f) == {g \in Before(f) : ~g.deleted}
        starts == {f \in events : /\ ~f.deleted
                                  /\ \/ Alive(f) = {}
                                     \/ Latest(Alive(f)).attrs # f.attrs
                                     \/ Latest(Before(f)).deleted}
        boundaries == starts \cup {f \in events : f.deleted}
        Version(f) ==
            LET next == {g \in boundaries : f.at < g.at}
            IN  [of |-> e,
                 from |-> IF f = Earliest(starts) /\ CreatedAt(e) < f.at THEN CreatedAt(e) ELSE f.at,
                 to |-> IF next = {} THEN Open ELSE Earliest(next).at,
                 parent |-> f.attrs[1], name |-> f.attrs[2], parentName |-> f.attrs[3],
                 current |-> next = {},
                 deleted |-> next # {} /\ Earliest(next).deleted]
    IN  {Version(f) : f \in starts}

Members(d) == IF d = "dim_category" THEN Categories ELSE Variants
Replay(d, scope) == UNION {ReplayEntity(e, scope) : e \in Members(d) \cap scope}

--------------------------------------------------------------------------------
(* The scope of an incremental build (update_category, update_product).     *)
PastParents(e) == {log[e][i].parent : i \in 1..arrived[e]} \ {NoParent}

(* The children of a changed category are left as they are. *)
BugAffected(d) ==
    IF d = "dim_category" THEN changed \cap Categories
    ELSE {p \in Products : p \in changed \/ \E v \in changed \cap Variants : p \in PastParents(v)}

Affected(d) ==
    IF d = "dim_category"
    THEN {c \in Categories : c \in changed \/ PastParents(c) \cap changed # {}}
    ELSE {p \in Products : p \in changed \/ \E v \in changed \cap Variants : p \in PastParents(v)}

Scope(d) ==
    IF d = "dim_category" THEN Affected(d) \cup UNION {PastParents(c) : c \in Affected(d)}
    ELSE Affected(d) \cup {v \in Variants : PastParents(v) \cap Affected(d) # {}}

(* The surrogate key, and the source key that the affected ids select.      *)
KeyOf(v) == <<v.of, v.from, v.parent, v.name, v.parentName>>
KeysIn(versions) == {KeyOf(v) : v \in versions}
SourceKey(v) == IF v.of \in Variants THEN v.parent ELSE v.of

(* Keys that the replay does not have again are left where they are. *)
BugUpsert(table, replayed, affected) ==
    {v \in table : KeyOf(v) \notin KeysIn(replayed)} \cup replayed

(* _upsert_replayed_scd2: everything replayed is merged, the parents that   *)
(* were let in for their names too; obsolete keys are deleted only of the   *)
(* affected members.                                                        *)
Upsert(table, replayed, affected) ==
    {v \in table : KeyOf(v) \notin KeysIn(replayed) /\ SourceKey(v) \notin affected} \cup replayed

(* _scd2_violations; members without versions are not in the table.         *)
ValidScd2(table) ==
    \A e \in {v.of : v \in table} :
        LET versions == {v \in table : v.of = e}
            current == {v \in versions : v.current}
        IN  /\ Cardinality(current) <= 1
            /\ current = {} => \E v \in versions : v.deleted
            /\ \A v \in versions : v.from < v.to
            /\ \A v, w \in versions : v # w /\ v.from <= w.from => v.to <= w.from

--------------------------------------------------------------------------------
(* GoldBuilder.run. *)
StartFull ==
    /\ build = Idle
    /\ build' = [mode |-> "full", todo |-> Dimensions]
    /\ UNCHANGED <<sourceVars, silverVars, gold, release>>

ChangedDimensions == {d \in Dimensions : Affected(d) # {}}

StartIncremental ==
    /\ build = Idle /\ release # NoRelease /\ changed # {}
    /\ build' = [mode |-> "incremental", todo |-> ChangedDimensions]
    /\ UNCHANGED <<sourceVars, silverVars, gold, release>>

(* The tables are written in parallel, each in a transaction of its own.    *)
WriteDimension(d) ==
    /\ d \in build.todo
    /\ gold' = [gold EXCEPT ![d] = IF build.mode = "full" THEN Replay(d, Entities)
                                   ELSE Upsert(@, Replay(d, Scope(d)), Affected(d))]
    /\ build' = [build EXCEPT !.todo = @ \ {d}]
    /\ UNCHANGED <<sourceVars, silverVars, release>>

Written == IF build.mode = "full" THEN Dimensions ELSE ChangedDimensions

(* The gate (validate_scd2), and then _publish: the release pins what was   *)
(* written, and what it had of the other tables.                            *)
Publish ==
    /\ build # Idle /\ build.todo = {}
    /\ \A d \in Written : ValidScd2(gold[d])
    /\ release' = [d \in Dimensions |-> IF d \in Written THEN gold[d] ELSE release[d]]
    /\ changed' = {} /\ build' = Idle
    /\ UNCHANGED <<sourceVars, arrived, rows, gold>>

Fail ==
    /\ build # Idle /\ build' = Idle
    /\ UNCHANGED <<sourceVars, silverVars, gold, release>>

Next ==
    \/ \E t \in Times, e \in Entities :
          \/ \E name \in Names, parent \in Entities \cup {NoParent} : Write(e, name, parent, t)
          \/ Delete(e, t)
    \/ \E e \in Entities, channel \in {"batch", "cdc"} : Arrive(e, channel)
    \/ StartFull \/ StartIncremental
    \/ \E d \in Dimensions : WriteDimension(d)
    \/ Publish \/ Fail

Spec == Init /\ [][Next]_vars

--------------------------------------------------------------------------------
(* The interval join says for each time what the two rows said then: of a   *)
(* category its own columns and the name of the parent it had, of a variant *)
(* its own columns and its product's; nothing once the row, or a variant's  *)
(* product, is deleted.  Before the first event the first version stands.   *)
(* (scd2.py:build_dim_category_from_history, build_dim_product_from_history) *)
EventAt(e, t) ==
    LET past == {i \in 1..arrived[e] : log[e][i].at <= t}
    IN  log[e][IF past = {} THEN 1 ELSE CHOOSE i \in past : \A j \in past : j <= i]

SaidAt(e, t) ==
    LET own == EventAt(e, t)
        parents == {EventAt(p, t) : p \in {p \in Entities : p = own.parent /\ arrived[p] > 0}}
        names == {p.name : p \in {p \in parents : ~p.deleted}}
    IN  IF own.deleted \/ (e \in Variants /\ names = {}) THEN {}
        ELSE {<<own.parent, own.name, IF names = {} THEN NoName ELSE CHOOSE n \in names : TRUE>>}

ReplayFollowsSource ==
    \A e \in {m \in Categories \cup Variants : arrived[m] > 0} :
        LET versions == ReplayEntity(e, Entities)
        IN  \A t \in {t \in 1..MaxTime : CreatedAt(e) <= t} :
                {<<v.parent, v.name, v.parentName>> :
                    v \in {w \in versions : w.from <= t /\ t < w.to}} = SaidAt(e, t)

(* A release that an incremental build publishes says of each member what a *)
(* full rebuild would say, though the build replayed a part of the history  *)
(* and failed builds left their rows in the tables; where a member, or a    *)
(* parent it ever had, has no row in Silver current, the change feed does   *)
(* not report all of its events.                                            *)
(* (build_gold.py:update_category, update_product, _upsert_replayed_scd2)   *)
ReleaseIsFullReplay ==
    [][release' # release =>
        \A d \in Dimensions, e \in Entities :
            e \in Members(d) /\ {e} \cup PastParents(e) \subseteq rows =>
                {v \in release'[d] : v.of = e} = ReplayEntity(e, Entities)]_vars

(* The gate refuses a build only over a hierarchy of three levels: the      *)
(* parent of a changed category is replayed without its own parent, and the *)
(* version without a parent name stands beside the right one.               *)
(* (build_gold.py:update_category, quality.py:_scd2_violations)             *)
ThreeLevels == \E c \in Categories : \E p \in PastParents(c) : PastParents(p) # {}

TwoLevelsPassTheGate ==
    build # Idle /\ build.todo = {} /\ ~ThreeLevels => \A d \in Written : ValidScd2(gold[d])

================================================================================

------------------------------- MODULE GoldRelease -------------------------------
(***************************************************************************)
(* From a batch run to the active Gold release: run_mode of run_batch.py   *)
(* (Bronze, the skip decision, Silver under the writer lock, Gold under it *)
(* again), GoldBuilder.run, and GoldReleaseStore.publish.  The other jobs  *)
(* that publish Gold (the stream's reconcile cycle, --mode gold,           *)
(* reconcile_gold) run the same builder without a Silver manifest, and the *)
(* CDC callback commits to Silver whenever the lock is free.               *)
(*                                                                         *)
(* Two source tables stand for twelve: app_users feeds dim_customer by way *)
(* of the change history and the SCD2 checkpoint, orders feeds fact_sales. *)
(* A table version is a position in the sequence of its commits; what it   *)
(* holds is the number of source events it reflects.  Silver has been      *)
(* bootstrapped, and its rebuild is not in this module (UnifiedSilver).    *)
(***************************************************************************)
EXTENDS Integers, Sequences, FiniteSets

CONSTANTS MaxEvents,        \* bound on the events of the two source tables
          MaxDisturbances,  \* bound on commits of the CDC callback, full rebuilds of Gold
                            \* (the first build aside), crashes and failed gates, together
          NoRelease         \* no pipeline.goldActiveRelease property

Sources == {"app_users", "orders"}
GoldTables == {"dim_customer", "fact_sales"}

(* What the marker records of a release: the versions of both sides. *)
Releases == [silver : [Sources -> Nat], gold : [GoldTables -> Nat]]

ASSUME GoldReleaseAssumption ==
    /\ MaxEvents \in Nat /\ MaxDisturbances \in Nat
    /\ NoRelease \notin Releases

VARIABLES events,      \* events committed in each source table
          bronze,      \* Bronze commits: the cursor last_event_id of each
          silver,      \* Silver commits: events reflected, Bronze version processed (0: CDC)
          history,     \* commits of the app_users change history, likewise
          gold,        \* Gold commits: events reflected, whether a quality gate passed it
          checkpoint,  \* last_processed_history_version of dim_customer
          release,     \* the release marker: pinned Silver and Gold versions
          lock,        \* who holds the shared writer lock
          run,         \* the batch run: phase, extraction, manifests
          build,       \* the GoldBuilder under the lock
          disturbances

tables == <<bronze, silver, history, gold>>
vars == <<events, tables, checkpoint, release, lock, run, build, disturbances>>

RunPhases == {"idle", "bronze", "extracted", "silver", "silverDone", "gold", "validate",
              "succeeded", "skipped", "ahead", "lagging"}
BuildPhases == {"none", "dimension", "checkpoint", "dimensionQuality", "fact", "fullFact",
                "fullQuality", "publish"}

TypeOK ==
    /\ events \in [Sources -> 0..MaxEvents]
    /\ \A t \in Sources :
        /\ \A v \in DOMAIN bronze[t] : bronze[t][v] \in 0..events[t]
        /\ \A v \in DOMAIN silver[t] : /\ silver[t][v].upTo \in 0..events[t]
                                       /\ silver[t][v].fed \in 0..Len(bronze[t])
    /\ \A v \in DOMAIN history : /\ history[v].upTo \in 0..events["app_users"]
                                 /\ history[v].fed \in 0..Len(bronze["app_users"])
    /\ \A g \in GoldTables : \A v \in DOMAIN gold[g] :
        gold[g][v].upTo \in 0..MaxEvents /\ gold[g][v].passed \in BOOLEAN
    /\ checkpoint \in 0..Len(history)
    /\ release # NoRelease =>
        /\ \A t \in Sources : release.silver[t] \in DOMAIN silver[t]
        /\ \A g \in GoldTables : release.gold[g] \in DOMAIN gold[g]
    /\ lock \in {"free", "batch", "other"}
    /\ run.phase \in RunPhases
    /\ \A t \in Sources : run.bronzeTo[t] \in 0..Len(bronze[t]) /\ run.silverTo[t] \in 0..Len(silver[t])
    /\ build.phase \in BuildPhases /\ build.substantive \subseteq Sources
    /\ disturbances \in 0..MaxDisturbances

NoVersion == [t \in Sources |-> 0]
IdleRun == [phase |-> "idle", bronzeTo |-> NoVersion, silverTo |-> NoVersion, quiet |-> TRUE, full |-> FALSE]
NoBuild == [phase |-> "none", silver |-> NoVersion, substantive |-> {}, changed |-> {}]

Init ==
    /\ events = NoVersion
    /\ bronze = [t \in Sources |-> <<0>>]
    /\ silver = [t \in Sources |-> <<[upTo |-> 0, fed |-> 1]>>]
    /\ history = <<[upTo |-> 0, fed |-> 1]>>
    /\ gold = [g \in GoldTables |-> <<>>]
    /\ checkpoint = 0 /\ release = NoRelease
    /\ lock = "free" /\ run = IdleRun /\ build = NoBuild
    /\ disturbances = 0

Latest(log) == log[Len(log)]
AtLeast(a, b) == IF a > b THEN a ELSE b

(* Operators named Bug... are variants of the operator that follows them,   *)
(* each with one plausible mistake; no action uses them.                    *)

--------------------------------------------------------------------------------
(* The source, and the CDC callback: history first, then the merge.  A      *)
(* commit may bring nothing but newer sequence columns.                     *)
SourceEvent(t) ==
    /\ events["app_users"] + events["orders"] < MaxEvents
    /\ events' = [events EXCEPT ![t] = @ + 1]
    /\ UNCHANGED <<tables, checkpoint, release, lock, run, build, disturbances>>

StreamHistory ==
    /\ lock = "free" /\ disturbances < MaxDisturbances
    /\ \E upTo \in Latest(silver["app_users"]).upTo..events["app_users"] :
        history' = Append(history, [upTo |-> AtLeast(upTo, Latest(history).upTo), fed |-> 0])
    /\ disturbances' = disturbances + 1
    /\ UNCHANGED <<events, bronze, silver, gold, checkpoint, release, lock, run, build>>

(* The merge does not wait for the history. *)
BugStreamMerge(t) ==
    /\ lock = "free" /\ disturbances < MaxDisturbances
    /\ \E upTo \in Latest(silver[t]).upTo..events[t] :
        silver' = [silver EXCEPT ![t] = Append(@, [upTo |-> upTo, fed |-> 0])]
    /\ disturbances' = disturbances + 1
    /\ UNCHANGED <<events, bronze, history, gold, checkpoint, release, lock, run, build>>

StreamMerge(t) ==
    /\ lock = "free" /\ disturbances < MaxDisturbances
    /\ \E upTo \in Latest(silver[t]).upTo..events[t] :
        /\ t = "app_users" => \E v \in DOMAIN history : history[v].upTo = upTo
        /\ silver' = [silver EXCEPT ![t] = Append(@, [upTo |-> upTo, fed |-> 0])]
    /\ disturbances' = disturbances + 1
    /\ UNCHANGED <<events, bronze, history, gold, checkpoint, release, lock, run, build>>

--------------------------------------------------------------------------------
(* The batch run, --mode all or workflow. *)
StartRun(full) ==
    /\ run.phase \in {"idle", "succeeded", "skipped", "ahead", "lagging"}
    /\ full => disturbances < MaxDisturbances
    /\ disturbances' = disturbances + IF full THEN 1 ELSE 0
    /\ run' = [IdleRun EXCEPT !.phase = "bronze", !.full = full]
    /\ UNCHANGED <<events, tables, checkpoint, release, lock, build>>

(* The predicted version counts an append that a table without events does  *)
(* not make.                                                                *)
BugExtractTable(t) ==
    /\ run.phase = "bronze" /\ run.bronzeTo[t] = 0
    /\ bronze' = IF events[t] > Latest(bronze[t]) THEN [bronze EXCEPT ![t] = Append(@, events[t])] ELSE bronze
    /\ run' = [run EXCEPT !.bronzeTo[t] = Len(bronze[t]) + 1, !.quiet = FALSE]
    /\ UNCHANGED <<events, silver, history, gold, checkpoint, release, lock, build, disturbances>>

(* One append with its cursor, or none without events; _result names the    *)
(* version the append is going to have.                                     *)
ExtractTable(t) ==
    /\ run.phase = "bronze" /\ run.bronzeTo[t] = 0
    /\ IF events[t] > Latest(bronze[t])
       THEN \E upTo \in (Latest(bronze[t]) + 1)..events[t] :
                /\ bronze' = [bronze EXCEPT ![t] = Append(@, upTo)]
                /\ run' = [run EXCEPT !.bronzeTo[t] = Len(bronze[t]) + 1, !.quiet = FALSE]
       ELSE /\ UNCHANGED bronze
            /\ run' = [run EXCEPT !.bronzeTo[t] = Len(bronze[t])]
    /\ UNCHANGED <<events, silver, history, gold, checkpoint, release, lock, build, disturbances>>

Extracted == run.phase = "bronze" /\ \A t \in Sources : run.bronzeTo[t] > 0

(* Some release is enough. *)
BugDownstreamIsCurrent == release # NoRelease

(* _downstream_is_current. *)
DownstreamIsCurrent ==
    release # NoRelease /\ \A t \in Sources : release.silver[t] = Len(silver[t])

SkipDownstream ==
    /\ Extracted /\ run.quiet /\ ~run.full /\ DownstreamIsCurrent
    /\ run' = [run EXCEPT !.phase = "skipped"]
    /\ UNCHANGED <<events, tables, checkpoint, release, lock, build, disturbances>>

LockSilver ==
    /\ Extracted /\ ~(run.quiet /\ ~run.full /\ DownstreamIsCurrent)
    /\ lock = "free" /\ lock' = "batch"
    /\ run' = [run EXCEPT !.phase = "silver", !.quiet = TRUE]
    /\ UNCHANGED <<events, tables, checkpoint, release, build, disturbances>>

(* last_processed_bronze_version and the commit that carries it. *)
ProgressVersion(t) ==
    CHOOSE v \in DOMAIN silver[t] : silver[t][v].fed > 0 /\ \A w \in (v + 1)..Len(silver[t]) : silver[t][w].fed = 0
Progress(t) == silver[t][ProgressVersion(t)].fed

SilverUpToDate(t) ==
    /\ run.phase = "silver" /\ run.silverTo[t] = 0 /\ Progress(t) = run.bronzeTo[t]
    /\ run' = [run EXCEPT !.silverTo[t] = ProgressVersion(t)]
    /\ UNCHANGED <<events, tables, checkpoint, release, lock, build, disturbances>>

(* The bootstrapped history is taken for the history of this version. *)
BugHistoryHas(version) == Len(history) > 0

(* txnVersion = the Bronze version: a retry does not append again. *)
HistoryHas(version) == \E v \in DOMAIN history : history[v].fed >= version

AppendHistory ==
    /\ run.phase = "silver" /\ run.silverTo["app_users"] = 0
    /\ Progress("app_users") < run.bronzeTo["app_users"] /\ ~HistoryHas(run.bronzeTo["app_users"])
    /\ LET version == run.bronzeTo["app_users"]
       IN  history' = Append(history, [upTo |-> AtLeast(bronze["app_users"][version], Latest(history).upTo),
                                       fed |-> version])
    /\ UNCHANGED <<events, bronze, silver, gold, checkpoint, release, lock, run, build, disturbances>>

MergeSilver(t) ==
    /\ run.phase = "silver" /\ run.silverTo[t] = 0 /\ Progress(t) < run.bronzeTo[t]
    /\ t = "app_users" => HistoryHas(run.bronzeTo[t])
    /\ silver' = [silver EXCEPT ![t] = Append(@, [upTo |-> AtLeast(bronze[t][run.bronzeTo[t]], Latest(silver[t]).upTo),
                                                  fed |-> run.bronzeTo[t]])]
    /\ run' = [run EXCEPT !.silverTo[t] = Len(silver[t]) + 1]
    /\ UNCHANGED <<events, bronze, history, gold, checkpoint, release, lock, build, disturbances>>

UnlockSilver ==
    /\ run.phase = "silver" /\ \A t \in Sources : run.silverTo[t] > 0
    /\ lock' = "free"
    /\ run' = [run EXCEPT !.phase = "silverDone"]
    /\ UNCHANGED <<events, tables, checkpoint, release, build, disturbances>>

--------------------------------------------------------------------------------
(* GoldBuilder.run: which Silver versions to build from, and how. *)
LiveVersions == [t \in Sources |-> Len(silver[t])]

(* The manifest is used as it came. *)
BugRefresh(propagated) == propagated

(* _refresh_stale_propagated_versions. *)
Refresh(propagated) ==
    IF \E t \in Sources : release.silver[t] > propagated[t] THEN LiveVersions ELSE propagated

(* Only the last commit of the range is compared with its predecessor. *)
BugSubstantive(t, from, to) == silver[t][to].upTo > silver[t][to - 1].upTo

(* _substantive_changes: some commit of the range changes business columns. *)
Substantive(t, from, to) == silver[t][to].upTo > silver[t][from].upTo

(* The first phase of the build, by what has changed since the release. *)
BuildOf(versions, full) ==
    IF full \/ release = NoRelease
    THEN [phase |-> "dimension", silver |-> versions, substantive |-> Sources, changed |-> GoldTables]
    ELSE LET changed == {t \in Sources : versions[t] > release.silver[t]}
             substantive == {t \in changed : Substantive(t, release.silver[t], versions[t])}
         IN  [phase |-> IF changed = {} THEN "none"
                        ELSE IF substantive = {} THEN "publish"
                        ELSE IF "app_users" \in substantive THEN "dimension" ELSE "fact",
              silver |-> versions,
              substantive |-> substantive,
              changed |-> {g \in GoldTables : g = "dim_customer" /\ "app_users" \in substantive}]

LockGold ==
    /\ run.phase = "silverDone" /\ lock = "free"
    /\ LET versions == IF run.full \/ release = NoRelease THEN run.silverTo ELSE Refresh(run.silverTo)
           next == BuildOf(versions, run.full)
           ahead == ~run.full /\ release # NoRelease /\ \E t \in Sources : release.silver[t] > versions[t]
       IN  /\ build' = IF ahead THEN NoBuild ELSE next
           /\ run' = [run EXCEPT !.phase = IF ahead THEN "ahead" ELSE IF next.phase = "none" THEN "validate" ELSE "gold"]
           /\ lock' = IF ahead \/ next.phase = "none" THEN "free" ELSE "batch"
    /\ UNCHANGED <<events, tables, checkpoint, release, disturbances>>

(* A builder without a manifest: the stream's cycle, --mode gold, repair. *)
OtherBuild(full) ==
    /\ lock = "free"
    /\ full => disturbances < MaxDisturbances
    /\ BuildOf(LiveVersions, full).phase # "none"
    /\ build' = BuildOf(LiveVersions, full)
    /\ lock' = "other"
    /\ disturbances' = disturbances + IF full THEN 1 ELSE 0
    /\ UNCHANGED <<events, tables, checkpoint, release, run>>

(* All of Gold is written again, not only what has changed. *)
IsFull == build.changed = GoldTables /\ build.phase # "publish"

(* update_customer: replay what the checkpoint has not seen; a full build   *)
(* replays the whole history.                                               *)
WriteDimension ==
    /\ build.phase = "dimension"
    /\ IF IsFull \/ Len(history) > checkpoint
       THEN /\ gold' = [gold EXCEPT !["dim_customer"] = Append(@, [upTo |-> Latest(history).upTo, passed |-> FALSE])]
            /\ build' = [build EXCEPT !.phase = "checkpoint"]
       ELSE /\ UNCHANGED gold
            /\ build' = [build EXCEPT !.phase = "dimensionQuality"]
    /\ UNCHANGED <<events, bronze, silver, history, checkpoint, release, lock, run, disturbances>>

(* _write_scd2_checkpoint. *)
WriteCheckpoint ==
    /\ build.phase = "checkpoint"
    /\ checkpoint' = Len(history)
    /\ build' = [build EXCEPT !.phase = IF IsFull THEN "fullFact" ELSE "dimensionQuality"]
    /\ UNCHANGED <<events, tables, release, lock, run, disturbances>>

Passed(log) == [log EXCEPT ![Len(log)].passed = TRUE]

(* validate_scd2. *)
DimensionPasses ==
    /\ build.phase = "dimensionQuality"
    /\ gold' = [gold EXCEPT !["dim_customer"] = Passed(@)]
    /\ build' = [build EXCEPT !.phase = IF "orders" \in build.substantive THEN "fact" ELSE "publish"]
    /\ UNCHANGED <<events, bronze, silver, history, checkpoint, release, lock, run, disturbances>>

(* Incremental: the affected facts are checked before they are merged. *)
MergeFact ==
    /\ build.phase = "fact"
    /\ gold' = [gold EXCEPT !["fact_sales"] =
                    Append(@, [upTo |-> AtLeast(silver["orders"][build.silver["orders"]].upTo, Latest(@).upTo),
                               passed |-> TRUE])]
    /\ build' = [build EXCEPT !.phase = "publish", !.changed = @ \cup {"fact_sales"}]
    /\ UNCHANGED <<events, bronze, silver, history, checkpoint, release, lock, run, disturbances>>

(* The facts are read at the versions of the manifest, however old. *)
BugWriteFullFact ==
    /\ build.phase = "fullFact"
    /\ gold' = [gold EXCEPT !["fact_sales"] =
                    Append(@, [upTo |-> silver["orders"][build.silver["orders"]].upTo, passed |-> FALSE])]
    /\ build' = [build EXCEPT !.phase = "fullQuality"]
    /\ UNCHANGED <<events, bronze, silver, history, checkpoint, release, lock, run, disturbances>>

(* Full: the facts are written, and then everything is checked. *)
WriteFullFact ==
    /\ build.phase = "fullFact"
    /\ gold' = [gold EXCEPT !["fact_sales"] = Append(@, [upTo |-> Latest(silver["orders"]).upTo, passed |-> FALSE])]
    /\ build' = [build EXCEPT !.phase = "fullQuality"]
    /\ UNCHANGED <<events, bronze, silver, history, checkpoint, release, lock, run, disturbances>>

FullPasses ==
    /\ build.phase = "fullQuality"
    /\ gold' = [g \in GoldTables |-> Passed(gold[g])]
    /\ build' = [build EXCEPT !.phase = "publish"]
    /\ UNCHANGED <<events, bronze, silver, history, checkpoint, release, lock, run, disturbances>>

(* _publish: the latest version of the tables just written, the pinned one  *)
(* of the others.  fact_sales is pinned at the version the property commit  *)
(* is going to have.                                                        *)
Pinned(g) ==
    LET version == IF g \in build.changed THEN Len(gold[g]) ELSE release.gold[g]
    IN  IF g = "fact_sales" THEN version + 1 ELSE version

(* GoldReleaseStore.publish: a metadata commit on fact_sales, which keeps   *)
(* its rows.                                                                *)
Publish ==
    /\ build.phase = "publish"
    /\ gold' = [gold EXCEPT !["fact_sales"] = Append(@, Latest(@))]
    /\ release' = [silver |-> build.silver, gold |-> [g \in GoldTables |-> Pinned(g)]]
    /\ lock' = "free" /\ build' = NoBuild
    /\ run' = IF lock = "batch" THEN [run EXCEPT !.phase = "validate"] ELSE run
    /\ UNCHANGED <<events, bronze, silver, history, checkpoint, disturbances>>

(* validate_gold_release with the manifest. *)
ValidateRelease ==
    /\ run.phase = "validate"
    /\ run' = [IdleRun EXCEPT !.phase = IF \E t \in Sources : release.silver[t] < run.silverTo[t]
                                    THEN "lagging" ELSE "succeeded", !.bronzeTo = run.bronzeTo]
    /\ UNCHANGED <<events, tables, checkpoint, release, lock, build, disturbances>>

--------------------------------------------------------------------------------
(* A crash, an error, or a gate that does not pass: what is committed stays. *)
EndOf(holder) ==
    /\ disturbances < MaxDisturbances
    /\ disturbances' = disturbances + 1
    /\ IF lock = holder THEN lock' = "free" /\ build' = NoBuild ELSE UNCHANGED <<lock, build>>

FailRun ==
    /\ run.phase \in {"bronze", "silver", "silverDone", "gold", "validate"}
    /\ EndOf("batch")
    /\ run' = IdleRun
    /\ UNCHANGED <<events, tables, checkpoint, release>>

FailOther ==
    /\ lock = "other"
    /\ EndOf("other")
    /\ UNCHANGED <<events, tables, checkpoint, release, run>>

--------------------------------------------------------------------------------
RunStep ==
    \/ (\E full \in BOOLEAN : StartRun(full)) \/ (\E t \in Sources : ExtractTable(t))
    \/ SkipDownstream \/ LockSilver
    \/ (\E t \in Sources : SilverUpToDate(t) \/ MergeSilver(t)) \/ AppendHistory \/ UnlockSilver
    \/ LockGold \/ ValidateRelease \/ FailRun

BuildStep ==
    \/ (\E full \in BOOLEAN : OtherBuild(full))
    \/ WriteDimension \/ WriteCheckpoint \/ DimensionPasses \/ MergeFact
    \/ WriteFullFact \/ FullPasses \/ Publish \/ FailOther

Next ==
    \/ (\E t \in Sources : SourceEvent(t) \/ StreamMerge(t)) \/ StreamHistory
    \/ RunStep
    \/ BuildStep

Spec == Init /\ [][Next]_vars

--------------------------------------------------------------------------------
ShownBy(pins, g) == gold[g][pins.gold[g]].upTo

(* What a release claims to have consumed of Silver, its pinned snapshots   *)
(* show: no crash between a candidate and its publication, no checkpoint    *)
(* that ran ahead of the release, and no stale manifest drops a change      *)
(* (README.md:685).                                                         *)
ReleaseShowsItsSilver ==
    release # NoRelease =>
        /\ ShownBy(release, "dim_customer") >= silver["app_users"][release.silver["app_users"]].upTo
        /\ ShownBy(release, "fact_sales") >= silver["orders"][release.silver["orders"]].upTo

(* A release never takes back what an earlier one showed, whichever job     *)
(* publishes it, with whatever manifest; and only a full rebuild, which     *)
(* does not refresh its manifest, may claim older Silver versions.          *)
ReleaseNeverRegresses ==
    [][ release # NoRelease /\ release' # release =>
        /\ \A g \in GoldTables : gold'[g][release'.gold[g]].upTo >= ShownBy(release, g)
        /\ \/ \A t \in Sources : release'.silver[t] >= release.silver[t]
           \/ lock = "batch" /\ run.full ]_vars

(* A run whose manifest was superseded between its two locks completes: it  *)
(* is not refused as being ahead of Silver, and the release it validates is *)
(* not behind its manifest (_refresh_stale_propagated_versions).            *)
SupersededRunCompletes == run.phase \notin {"ahead", "lagging"}

(* A run that went through Silver and Gold and succeeded has the events it  *)
(* extracted, and those of failed runs before it, in the active release.    *)
Delivered ==
    /\ ShownBy(release, "dim_customer") >= bronze["app_users"][run.bronzeTo["app_users"]]
    /\ ShownBy(release, "fact_sales") >= bronze["orders"][run.bronzeTo["orders"]]
SucceededRunIsReleased == run.phase = "succeeded" => Delivered

(* A run without new events skips Silver and Gold safely (run_batch.py:293): *)
(* the release has what it and the runs before it extracted.  The run        *)
(* compares the release with Silver, not Silver with Bronze: what a failed   *)
(* run left in Bronze is the exception.                                      *)
SilverHasBronze == \A t \in Sources : Progress(t) = run.bronzeTo[t]
SkippedRunIsReleased == run.phase = "skipped" /\ SilverHasBronze => Delivered

(* Candidate data that is not complete is never published, and Gold is      *)
(* published after its quality gate (README.md:72, 685).                    *)
ReleasePassedQuality ==
    release # NoRelease => \A g \in GoldTables : gold[g][release.gold[g]].passed

(* To its readers a release is a prefix of each source table.  Publishing   *)
(* is one step, it never claims more than it shows, and nothing a builder   *)
(* or a failed one writes to the tables changes what is shown               *)
(* (gold_releases.py:publish, snapshot).                                    *)
TableOf(t) == IF t = "app_users" THEN "dim_customer" ELSE "fact_sales"
ReleaseView ==
    IF release = NoRelease THEN NoRelease
    ELSE [claimed |-> [t \in Sources |-> silver[t][release.silver[t]].upTo],
          shown |-> [t \in Sources |-> ShownBy(release, TableOf(t))]]

Publication == INSTANCE GoldPublication
    WITH Tables <- Sources, Nothing <- NoRelease, source <- events, release <- ReleaseView
ImplementsPublication == Publication!Spec

================================================================================

---------------------------- MODULE GoldReleaseProofs ----------------------------
(***************************************************************************)
(* A release shows the Silver it claims and never regresses, for every     *)
(* number of events, runs, builders, crashes and failed gates.  The        *)
(* argument: every log grows; Silver is never ahead of the history, nor    *)
(* Gold of what it is built from; the checkpoint is never ahead of the     *)
(* dimension; and while a builder holds the lock, each table is either     *)
(* kept as the release has it, because Silver shows nothing new for it, or *)
(* its latest version is a candidate that shows the versions the builder   *)
(* publishes.                                                              *)
(***************************************************************************)
EXTENDS GoldRelease, TLAPS

Commits == [upTo : Nat, fed : Nat]
GoldCommits == [upTo : Nat, passed : BOOLEAN]
Runs == [phase : RunPhases, bronzeTo : [Sources -> Nat], silverTo : [Sources -> Nat],
         quiet : BOOLEAN, full : BOOLEAN]
Builds == [phase : BuildPhases, silver : [Sources -> Nat], substantive : SUBSET Sources,
           changed : SUBSET GoldTables]

Shapes ==
    /\ events \in [Sources -> Nat] /\ checkpoint \in Nat /\ disturbances \in Nat
    /\ bronze \in [Sources -> Seq(Nat)] /\ \A t \in Sources : bronze[t] # <<>>
    /\ silver \in [Sources -> Seq(Commits)] /\ \A t \in Sources : silver[t] # <<>>
    /\ history \in Seq(Commits) /\ history # <<>>
    /\ gold \in [GoldTables -> Seq(GoldCommits)]
    /\ release \in Releases \cup {NoRelease}
    /\ run \in Runs /\ build \in Builds

(* Content grows with the versions. *)
Growing(log) == \A v, w \in DOMAIN log : v <= w => log[v].upTo <= log[w].upTo

BronzeLog == \A t \in Sources : \A v, w \in DOMAIN bronze[t] : v <= w => bronze[t][v] <= bronze[t][w]

(* A commit that processed a Bronze version shows what that version has. *)
Fed(log, t) == \A v \in DOMAIN log : log[v].fed > 0 => bronze[t][log[v].fed] <= log[v].upTo

IsProgress(log, v) ==
    /\ v \in DOMAIN log /\ log[v].fed > 0
    /\ \A w \in (v + 1)..Len(log) : log[w].fed = 0

SilverLogs == \A t \in Sources : /\ Growing(silver[t]) /\ Fed(silver[t], t)
                                 /\ \E v \in DOMAIN silver[t] : IsProgress(silver[t], v)

(* The history is written first, so Silver is never ahead of it. *)
HistoryLog ==
    /\ Growing(history) /\ Fed(history, "app_users")
    /\ Latest(silver["app_users"]).upTo <= Latest(history).upTo

GoldLogs ==
    /\ \A g \in GoldTables : Growing(gold[g])
    /\ gold["dim_customer"] # <<>> => Latest(gold["dim_customer"]).upTo <= Latest(history).upTo
    /\ gold["fact_sales"] # <<>> => Latest(gold["fact_sales"]).upTo <= Latest(silver["orders"]).upTo

(* The latest version of the dimension shows the history up to its checkpoint. *)
DimensionShows(v) == gold["dim_customer"] # <<>> /\ history[v].upTo <= Latest(gold["dim_customer"]).upTo
CheckpointShown ==
    /\ checkpoint > 0 => DimensionShows(checkpoint)
    /\ build.phase = "checkpoint" => DimensionShows(Len(history))

Holders ==
    /\ lock = "batch" <=> run.phase \in {"silver", "gold"}
    /\ build.phase # "none" <=> lock = "other" \/ run.phase = "gold"

--------------------------------------------------------------------------------
SourceOf(g) == IF g = "dim_customer" THEN "app_users" ELSE "orders"

(* What the builder is going to claim for a table. *)
Claimed(g) == silver[SourceOf(g)][build.silver[SourceOf(g)]].upTo

(* The latest version of a table shows it, or the release does already. *)
Candidate(g) == gold[g] # <<>> /\ Claimed(g) <= Latest(gold[g]).upTo
Kept(g) ==
    /\ release # NoRelease
    /\ Claimed(g) <= silver[SourceOf(g)][release.silver[SourceOf(g)]].upTo

(* The phases of a build and the tables it has written and will write. *)
Building ==
    /\ \A t \in Sources : build.silver[t] \in DOMAIN silver[t]
    /\ build.changed = GoldTables \/ release # NoRelease
    /\ build.phase \in {"fullFact", "fullQuality"} => build.changed = GoldTables
    /\ build.phase \in {"dimension", "checkpoint", "dimensionQuality"} => "dim_customer" \in build.changed
    /\ build.phase \in {"dimensionQuality", "fact"} => "fact_sales" \notin build.changed
    /\ "dim_customer" \in build.changed => build.phase \in {"dimension", "checkpoint"} \/ Candidate("dim_customer")
    /\ "dim_customer" \notin build.changed => Kept("dim_customer")
    /\ build.phase \in {"fullQuality", "publish"} /\ "fact_sales" \in build.changed => Candidate("fact_sales")
    /\ "orders" \notin build.substantive => Kept("fact_sales")
    /\ build.phase = "publish" /\ "fact_sales" \notin build.changed => Kept("fact_sales")
    /\ \/ release = NoRelease
       \/ lock = "batch" /\ run.full
       \/ \A t \in Sources : release.silver[t] <= build.silver[t]

(* The manifest of a run. *)
HasManifest == run.phase \in {"silverDone", "gold", "validate"}
Manifest ==
    /\ \A t \in Sources : run.silverTo[t] > 0 =>
          run.bronzeTo[t] > 0 /\ bronze[t][run.bronzeTo[t]] <= silver[t][run.silverTo[t]].upTo
    /\ run.phase \in {"silver", "succeeded", "skipped"} => \A t \in Sources : run.bronzeTo[t] > 0
    /\ HasManifest => \A t \in Sources : run.silverTo[t] > 0
    /\ run.phase = "gold" => \A t \in Sources : run.silverTo[t] <= build.silver[t]
    /\ run.phase \in {"validate", "succeeded"} => release # NoRelease
    /\ run.phase = "validate" => \A t \in Sources : run.silverTo[t] <= release.silver[t]
    /\ run.phase = "skipped" => release # NoRelease

ReleaseInv ==
    /\ TypeOK /\ Shapes
    /\ BronzeLog /\ SilverLogs /\ HistoryLog /\ GoldLogs
    /\ CheckpointShown
    /\ Holders /\ (build.phase # "none" => Building)
    /\ Manifest
    /\ ReleaseShowsItsSilver /\ SupersededRunCompletes /\ SucceededRunIsReleased /\ SkippedRunIsReleased

--------------------------------------------------------------------------------
(* Logs. *)
LEMMA AppendLog ==
    ASSUME NEW S, NEW log \in Seq(S), NEW e \in S
    PROVE  /\ Append(log, e) \in Seq(S) /\ Append(log, e) # <<>>
           /\ Len(log) \in Nat /\ Len(Append(log, e)) = Len(log) + 1
           /\ DOMAIN log = 1..Len(log) /\ DOMAIN Append(log, e) = 1..Len(log) + 1
           /\ \A v \in DOMAIN log : Append(log, e)[v] = log[v] /\ log[v] \in S
           /\ Append(log, e)[Len(log) + 1] = e /\ Latest(Append(log, e)) = e
  BY DEF Latest

LEMMA LatestExists ==
    ASSUME NEW S, NEW log \in Seq(S), log # <<>>
    PROVE  /\ Len(log) \in Nat \ {0} /\ DOMAIN log = 1..Len(log) /\ Len(log) \in DOMAIN log
           /\ Latest(log) = log[Len(log)] /\ Latest(log) \in S
           /\ \A v \in DOMAIN log : v \in Nat \ {0} /\ v <= Len(log) /\ log[v] \in S
  BY DEF Latest

LEMMA LatestIsGreatest ==
    ASSUME NEW S, NEW log \in Seq(S), Growing(log), NEW v \in DOMAIN log
    PROVE  log # <<>> /\ log[v].upTo <= Latest(log).upTo
  BY LatestExists DEF Growing, Latest

LEMMA AppendGrows ==
    ASSUME NEW S, \A e \in S : e.upTo \in Nat, NEW log \in Seq(S), NEW e \in S,
           Growing(log), log # <<>> => Latest(log).upTo <= e.upTo
    PROVE  Growing(Append(log, e))
<1>. DEFINE new == Append(log, e)
<1>. SUFFICES ASSUME NEW v \in DOMAIN new, NEW w \in DOMAIN new, v <= w
              PROVE  new[v].upTo <= new[w].upTo
  BY DEF Growing
<1>1. CASE w \in DOMAIN log
  BY <1>1, AppendLog DEF Growing
<1>2. CASE w \notin DOMAIN log
  <2>1. w = Len(log) + 1 /\ new[w] = e
    BY <1>2, AppendLog
  <2>2. CASE v \in DOMAIN log
    <3>1. log[v].upTo <= Latest(log).upTo /\ log # <<>> /\ new[v] = log[v]
      BY <2>2, LatestIsGreatest, AppendLog
    <3>2. log[v].upTo \in Nat /\ Latest(log).upTo \in Nat /\ e.upTo \in Nat
      BY <3>1, <2>2, LatestExists
    <3>. QED BY <3>1, <3>2, <2>1
  <2>3. CASE v \notin DOMAIN log
    BY <2>1, <2>3, AppendLog
  <2>. QED BY <2>2, <2>3
<1>. QED BY <1>1, <1>2

(* A gate that passes changes no content. *)
LEMMA PassedKeepsContent ==
    ASSUME NEW log \in Seq(GoldCommits), log # <<>>
    PROVE  /\ Passed(log) \in Seq(GoldCommits) /\ Passed(log) # <<>>
           /\ Len(Passed(log)) = Len(log) /\ DOMAIN Passed(log) = DOMAIN log
           /\ \A v \in DOMAIN log : Passed(log)[v].upTo = log[v].upTo
           /\ Latest(Passed(log)).upTo = Latest(log).upTo
           /\ Growing(log) => Growing(Passed(log))
<1>. DEFINE last == [log[Len(log)] EXCEPT !.passed = TRUE]
<1>1. /\ Passed(log) = [log EXCEPT ![Len(log)] = last]
      /\ last \in GoldCommits /\ last.upTo = log[Len(log)].upTo
  <2>1. \A c \in GoldCommits : [c EXCEPT !.passed = TRUE] \in GoldCommits
    BY DEF GoldCommits
  <2>2. \A c \in GoldCommits : [c EXCEPT !.passed = TRUE].upTo = c.upTo
    BY DEF GoldCommits
  <2>3. log[Len(log)] \in GoldCommits
    BY LatestExists
  <2>4. Passed(log) = [log EXCEPT ![Len(log)] = last]
    BY Zenon DEF Passed
  <2>. QED BY <2>1, <2>2, <2>3, <2>4, Zenon
<1>. HIDE DEF last
<1>2. /\ Passed(log) \in Seq(GoldCommits)
      /\ Len(Passed(log)) = Len(log) /\ DOMAIN Passed(log) = DOMAIN log
  BY <1>1
<1>3. \A v \in DOMAIN log : Passed(log)[v].upTo = log[v].upTo
  BY <1>1
<1>. QED BY <1>2, <1>3, LatestExists DEF Growing, Latest

(* last_processed_bronze_version exists, and only one commit carries it. *)
LEMMA ProgressExists ==
    ASSUME Shapes, SilverLogs, NEW t \in Sources
    PROVE  /\ IsProgress(silver[t], ProgressVersion(t))
           /\ ProgressVersion(t) \in DOMAIN silver[t]
           /\ Progress(t) = silver[t][ProgressVersion(t)].fed /\ Progress(t) > 0
  BY DEF SilverLogs, IsProgress, ProgressVersion, Progress

LEMMA ProgressIsUnique ==
    ASSUME NEW log \in Seq(Commits), NEW v, NEW w, IsProgress(log, v), IsProgress(log, w)
    PROVE  v = w
  BY DEF IsProgress

--------------------------------------------------------------------------------
LEMMA ReleaseInvInit == Init => ReleaseInv
<1>. SUFFICES ASSUME Init PROVE ReleaseInv
  OBVIOUS
<1>. USE GoldReleaseAssumption
<1>. DEFINE first == [upTo |-> 0, fed |-> 1]
<1>1. /\ events = [t \in Sources |-> 0] /\ checkpoint = 0 /\ release = NoRelease /\ disturbances = 0
      /\ lock = "free" /\ run = IdleRun /\ build = NoBuild
      /\ gold = [g \in GoldTables |-> <<>>] /\ \A g \in GoldTables : gold[g] = <<>>
      /\ bronze = [t \in Sources |-> <<0>>]
      /\ silver = [t \in Sources |-> <<first>>] /\ history = <<first>>
  BY DEF Init, NoVersion
<1>2. /\ <<first>> \in Seq(Commits) /\ <<first>> # <<>> /\ Len(<<first>>) = 1
      /\ DOMAIN <<first>> = {1} /\ <<first>>[1] = first /\ first \in Commits
      /\ first.upTo = 0 /\ first.fed = 1 /\ Latest(<<first>>) = first
  BY DEF Commits, Latest
<1>3. <<0>> \in Seq(Nat) /\ <<0>> # <<>> /\ Len(<<0>>) = 1 /\ DOMAIN <<0>> = {1} /\ <<0>>[1] = 0
  OBVIOUS
<1>. HIDE DEF first
<1>4. /\ IdleRun \in Runs /\ IdleRun.phase = "idle"
      /\ \A t \in Sources : IdleRun.bronzeTo[t] = 0 /\ IdleRun.silverTo[t] = 0
  BY DEF IdleRun, Runs, RunPhases, NoVersion
<1>5. NoBuild \in Builds /\ NoBuild.phase = "none" /\ NoBuild.substantive = {}
  BY DEF NoBuild, Builds, BuildPhases, NoVersion
<1>6. Shapes
  <2>1. events \in [Sources -> Nat] /\ checkpoint \in Nat /\ disturbances \in Nat
    BY <1>1
  <2>2. bronze \in [Sources -> Seq(Nat)] /\ \A t \in Sources : bronze[t] # <<>>
    BY <1>1, <1>3
  <2>3. silver \in [Sources -> Seq(Commits)] /\ \A t \in Sources : silver[t] # <<>>
    BY <1>1, <1>2
  <2>4. history \in Seq(Commits) /\ history # <<>>
    BY <1>1, <1>2
  <2>5. gold \in [GoldTables -> Seq(GoldCommits)]
    <3>1. <<>> \in Seq(GoldCommits)
      OBVIOUS
    <3>. QED BY <1>1, <3>1
  <2>6. release \in Releases \cup {NoRelease} /\ run \in Runs /\ build \in Builds
    BY <1>1, <1>4, <1>5
  <2>. QED BY <2>1, <2>2, <2>3, <2>4, <2>5, <2>6 DEF Shapes
<1>7. TypeOK
  <2>1. \A g \in GoldTables : DOMAIN gold[g] = {}
    BY <1>1
  <2>. QED BY <1>1, <1>2, <1>3, <1>4, <1>5, <2>1 DEF TypeOK, RunPhases, BuildPhases, Sources
<1>8. BronzeLog /\ SilverLogs /\ HistoryLog
  <2>1. \A t \in Sources : bronze[t] = <<0>> /\ silver[t] = <<first>>
    BY <1>1
  <2>2. Growing(<<first>>)
    BY <1>2 DEF Growing
  <2>3. IsProgress(<<first>>, 1)
    BY <1>2 DEF IsProgress
  <2>4. \A t \in Sources : Fed(<<first>>, t)
    BY <1>2, <1>3, <2>1 DEF Fed
  <2>5. BronzeLog
    BY <1>3, <2>1 DEF BronzeLog
  <2>6. SilverLogs
    BY <1>2, <2>1, <2>2, <2>3, <2>4 DEF SilverLogs
  <2>7. HistoryLog
    BY <1>1, <1>2, <2>1, <2>2, <2>4 DEF HistoryLog, Sources
  <2>. QED BY <2>5, <2>6, <2>7
<1>9. GoldLogs /\ CheckpointShown
  BY <1>1, <1>5 DEF GoldLogs, CheckpointShown, Growing, GoldTables
<1>10. Holders /\ Manifest
  BY <1>1, <1>4, <1>5 DEF Holders, Manifest, HasManifest
<1>. QED BY <1>1, <1>4, <1>5, <1>6, <1>7, <1>8, <1>9, <1>10
  DEF ReleaseInv, ReleaseShowsItsSilver, SupersededRunCompletes, SucceededRunIsReleased, SkippedRunIsReleased

--------------------------------------------------------------------------------
(* Steps that commit to no table. *)
LEMMA ControlStep ==
    ASSUME ReleaseInv, UNCHANGED <<events, tables, checkpoint, release>>,
           run' \in Runs, build' \in Builds, lock' \in {"free", "batch", "other"},
           disturbances' \in 0..MaxDisturbances,
           \A t \in Sources : /\ run'.bronzeTo[t] \in 0..Len(bronze[t])
                              /\ run'.silverTo[t] \in 0..Len(silver[t]),
           build'.phase = "checkpoint" => build.phase = "checkpoint"
    PROVE  /\ TypeOK' /\ Shapes' /\ BronzeLog' /\ SilverLogs' /\ HistoryLog' /\ GoldLogs'
           /\ CheckpointShown' /\ ReleaseShowsItsSilver'
<1>1. UNCHANGED <<events, bronze, silver, history, gold, checkpoint, release>>
  BY DEF tables
<1>2. /\ run'.phase \in RunPhases /\ build'.phase \in BuildPhases /\ build'.substantive \subseteq Sources
      /\ disturbances' \in Nat
  BY GoldReleaseAssumption DEF Runs, Builds
<1>3. TypeOK'
  BY <1>1, <1>2 DEF ReleaseInv, TypeOK
<1>4. Shapes'
  BY <1>1, <1>2 DEF ReleaseInv, Shapes
<1>5. BronzeLog' /\ SilverLogs' /\ HistoryLog' /\ GoldLogs'
  BY <1>1 DEF ReleaseInv, BronzeLog, SilverLogs, HistoryLog, GoldLogs, Growing, Fed, IsProgress
<1>6. CheckpointShown' /\ ReleaseShowsItsSilver'
  BY <1>1 DEF ReleaseInv, CheckpointShown, DimensionShows, ReleaseShowsItsSilver, ShownBy
<1>. QED BY <1>3, <1>4, <1>5, <1>6

LEMMA IdleRunFields ==
    /\ IdleRun \in Runs /\ IdleRun.phase = "idle"
    /\ \A t \in Sources : IdleRun.bronzeTo[t] = 0 /\ IdleRun.silverTo[t] = 0
  BY DEF IdleRun, Runs, RunPhases, NoVersion

LEMMA NoBuildFields == NoBuild \in Builds /\ NoBuild.phase = "none"
  BY DEF NoBuild, Builds, BuildPhases, NoVersion

(* The types of versions and phases, without the logs they point into. *)
LEMMA Pointers ==
    ASSUME ReleaseInv
    PROVE  /\ run \in Runs /\ build \in Builds /\ disturbances \in 0..MaxDisturbances
           /\ run.phase \in RunPhases /\ build.phase \in BuildPhases
           /\ \A t \in Sources : /\ run.bronzeTo[t] \in Nat /\ run.bronzeTo[t] \in 0..Len(bronze[t])
                                  /\ run.silverTo[t] \in Nat /\ run.silverTo[t] \in 0..Len(silver[t])
                                  /\ build.silver[t] \in Nat
                                  /\ Len(bronze[t]) \in Nat \ {0} /\ Len(silver[t]) \in Nat \ {0}
           /\ release # NoRelease =>
                \A t \in Sources : release.silver[t] \in DOMAIN silver[t] /\ release.silver[t] \in Nat
           /\ lock \in {"free", "batch", "other"}
<1>1. TypeOK /\ Shapes
  BY DEF ReleaseInv
<1>2. run.phase \in RunPhases /\ \A t \in Sources : run.bronzeTo[t] \in Nat /\ run.silverTo[t] \in Nat
  BY <1>1 DEF Shapes, Runs
<1>3. build.phase \in BuildPhases /\ \A t \in Sources : build.silver[t] \in Nat
  BY <1>1 DEF Shapes, Builds
<1>4. \A t \in Sources : /\ Len(bronze[t]) \in Nat \ {0} /\ Len(silver[t]) \in Nat \ {0}
                          /\ DOMAIN silver[t] = 1..Len(silver[t])
  BY <1>1, LatestExists DEF Shapes
<1>. QED BY <1>1, <1>2, <1>3, <1>4 DEF TypeOK, Shapes

LEMMA StartRunKeepsInv ==
    ASSUME ReleaseInv, NEW full \in BOOLEAN, StartRun(full)
    PROVE  ReleaseInv'
<1>1. /\ run.phase \notin {"silver", "gold"}
      /\ run' = [IdleRun EXCEPT !.phase = "bronze", !.full = full]
      /\ UNCHANGED <<events, tables, checkpoint, release, lock, build>>
  BY DEF StartRun
<1>2. disturbances' \in 0..MaxDisturbances
  BY Pointers, GoldReleaseAssumption DEF StartRun
<1>3. run' \in Runs /\ run'.phase = "bronze"
  BY <1>1, IdleRunFields DEF Runs, RunPhases
<1>4. \A t \in Sources : run'.bronzeTo[t] = 0 /\ run'.silverTo[t] = 0
  BY <1>1, IdleRunFields DEF Runs
<1>5. /\ TypeOK' /\ Shapes' /\ BronzeLog' /\ SilverLogs' /\ HistoryLog' /\ GoldLogs'
      /\ CheckpointShown' /\ ReleaseShowsItsSilver'
  BY <1>1, <1>2, <1>3, <1>4, Pointers, ControlStep
<1>6. lock # "batch" /\ Holders'
  BY <1>1, <1>3 DEF ReleaseInv, Holders
<1>7. build'.phase # "none" => Building'
  BY <1>1, <1>6 DEF ReleaseInv, Building, Candidate, Kept, Claimed, tables
<1>8. Manifest'
  BY <1>3, <1>4 DEF Manifest, HasManifest
<1>. QED BY <1>3, <1>5, <1>6, <1>7, <1>8
  DEF ReleaseInv, SupersededRunCompletes, SucceededRunIsReleased, SkippedRunIsReleased

(* The content of versions, and what reaches a release. *)
LEMMA SilverShowsBronze ==
    ASSUME ReleaseInv, NEW t \in Sources, NEW v \in DOMAIN silver[t]
    PROVE  /\ silver[t][v].upTo \in Nat /\ silver[t][v].fed \in Nat
           /\ silver[t][v].fed > 0 => /\ silver[t][v].fed \in DOMAIN bronze[t]
                                     /\ bronze[t][silver[t][v].fed] \in Nat
                                     /\ bronze[t][silver[t][v].fed] <= silver[t][v].upTo
<1>1. silver[t] \in Seq(Commits) /\ bronze[t] \in Seq(Nat) /\ bronze[t] # <<>>
  BY DEF ReleaseInv, Shapes
<1>2. silver[t][v] \in Commits /\ silver[t][v].fed \in 0..Len(bronze[t])
  BY <1>1, LatestExists DEF ReleaseInv, TypeOK
<1>3. silver[t][v].upTo \in Nat /\ silver[t][v].fed \in Nat
  BY <1>2 DEF Commits
<1>4. Fed(silver[t], t)
  BY DEF ReleaseInv, SilverLogs
<1>5. ASSUME silver[t][v].fed > 0
      PROVE  silver[t][v].fed \in DOMAIN bronze[t] /\ bronze[t][silver[t][v].fed] \in Nat
  BY <1>1, <1>2, <1>3, <1>5
<1>. QED BY <1>3, <1>4, <1>5 DEF Fed

LEMMA ReleaseShows ==
    ASSUME ReleaseInv, release # NoRelease, NEW g \in GoldTables,
           NEW v \in DOMAIN silver[SourceOf(g)], v <= release.silver[SourceOf(g)]
    PROVE  /\ release.gold[g] \in DOMAIN gold[g] /\ ShownBy(release, g) \in Nat
           /\ silver[SourceOf(g)][v].upTo <= ShownBy(release, g)
<1>. DEFINE t == SourceOf(g)
<1>1. t \in Sources /\ silver[t] \in Seq(Commits) /\ gold[g] \in Seq(GoldCommits)
  BY DEF SourceOf, Sources, ReleaseInv, Shapes
<1>2. release.silver[t] \in DOMAIN silver[t] /\ release.gold[g] \in DOMAIN gold[g]
  BY <1>1 DEF ReleaseInv, TypeOK
<1>3. silver[t][v].upTo <= silver[t][release.silver[t]].upTo
  BY <1>1, <1>2 DEF ReleaseInv, SilverLogs, Growing
<1>4. silver[t][release.silver[t]].upTo <= ShownBy(release, g)
  <2>1. CASE g = "dim_customer"
    BY <2>1 DEF ReleaseInv, ReleaseShowsItsSilver, SourceOf
  <2>2. CASE g = "fact_sales"
    BY <2>2 DEF ReleaseInv, ReleaseShowsItsSilver, SourceOf
  <2>. QED BY <2>1, <2>2 DEF GoldTables
<1>5. gold[g][release.gold[g]] \in GoldCommits
  BY <1>1, <1>2, LatestExists
<1>6. ShownBy(release, g) \in Nat
  BY <1>5 DEF ShownBy, GoldCommits
<1>7. silver[t][v].upTo \in Nat /\ silver[t][release.silver[t]].upTo \in Nat
  BY <1>1, <1>2, SilverShowsBronze
<1>. QED BY <1>2, <1>3, <1>4, <1>6, <1>7

LEMMA DeliveredByTable ==
    Delivered <=> \A g \in GoldTables : ShownBy(release, g) >= bronze[SourceOf(g)][run.bronzeTo[SourceOf(g)]]
  BY DEF Delivered, SourceOf, GoldTables

LEMMA OutcomeStays ==
    ASSUME ReleaseInv, UNCHANGED <<bronze, silver, gold, release, run>>
    PROVE  SupersededRunCompletes' /\ SucceededRunIsReleased' /\ SkippedRunIsReleased'
  BY DEF ReleaseInv, SupersededRunCompletes, SucceededRunIsReleased, SkippedRunIsReleased, Delivered,
         ShownBy, SilverHasBronze, Progress, ProgressVersion

LEMMA SkipKeepsInv == ReleaseInv /\ SkipDownstream => ReleaseInv'
<1>. SUFFICES ASSUME ReleaseInv, SkipDownstream PROVE ReleaseInv'
  OBVIOUS
<1>1. /\ run.phase = "bronze" /\ \A t \in Sources : run.bronzeTo[t] > 0
      /\ release # NoRelease /\ \A t \in Sources : release.silver[t] = Len(silver[t])
      /\ run' = [run EXCEPT !.phase = "skipped"]
      /\ UNCHANGED <<events, tables, checkpoint, release, lock, build, disturbances>>
  BY DEF SkipDownstream, Extracted, DownstreamIsCurrent
<1>2. /\ run' \in Runs /\ run'.phase = "skipped"
      /\ run'.bronzeTo = run.bronzeTo /\ run'.silverTo = run.silverTo /\ run'.full = run.full
  BY <1>1, Pointers DEF Runs, RunPhases
<1>3. /\ TypeOK' /\ Shapes' /\ BronzeLog' /\ SilverLogs' /\ HistoryLog' /\ GoldLogs'
      /\ CheckpointShown' /\ ReleaseShowsItsSilver'
  BY <1>1, <1>2, Pointers, ControlStep
<1>4. Holders' /\ lock # "batch"
  BY <1>1, <1>2 DEF ReleaseInv, Holders
<1>5. build'.phase # "none" => Building'
  BY <1>1, <1>4 DEF ReleaseInv, Building, Candidate, Kept, Claimed, tables
<1>6. Manifest'
  BY <1>1, <1>2 DEF ReleaseInv, Manifest, HasManifest, tables
<1>7. SilverHasBronze => Delivered
  <2>. SUFFICES ASSUME SilverHasBronze, NEW g \in GoldTables
                PROVE  ShownBy(release, g) >= bronze[SourceOf(g)][run.bronzeTo[SourceOf(g)]]
    BY DeliveredByTable
  <2>. DEFINE t == SourceOf(g)
  <2>1. t \in Sources
    BY DEF SourceOf, Sources
  <2>2. /\ ProgressVersion(t) \in DOMAIN silver[t]
        /\ silver[t][ProgressVersion(t)].fed = run.bronzeTo[t] /\ run.bronzeTo[t] > 0
    BY <1>1, <2>1, ProgressExists DEF SilverHasBronze, ReleaseInv
  <2>3. /\ silver[t][ProgressVersion(t)].upTo \in Nat /\ bronze[t][run.bronzeTo[t]] \in Nat
        /\ bronze[t][run.bronzeTo[t]] <= silver[t][ProgressVersion(t)].upTo
    BY <2>1, <2>2, SilverShowsBronze
  <2>4. ProgressVersion(t) <= release.silver[t]
    BY <1>1, <2>1, <2>2, LatestExists DEF ReleaseInv, Shapes
  <2>5. /\ silver[t][ProgressVersion(t)].upTo <= ShownBy(release, g)
        /\ ShownBy(release, g) \in Nat
    BY <1>1, <2>2, <2>4, ReleaseShows
  <2>. QED BY <2>3, <2>5
<1>8. SkippedRunIsReleased'
  BY <1>1, <1>2, <1>7 DEF SkippedRunIsReleased, Delivered, ShownBy, SilverHasBronze, Progress,
     ProgressVersion, tables
<1>. QED BY <1>2, <1>3, <1>4, <1>5, <1>6, <1>8
  DEF ReleaseInv, SupersededRunCompletes, SucceededRunIsReleased

LEMMA LockSilverKeepsInv == ReleaseInv /\ LockSilver => ReleaseInv'
<1>. SUFFICES ASSUME ReleaseInv, LockSilver PROVE ReleaseInv'
  OBVIOUS
<1>1. /\ run.phase = "bronze" /\ \A t \in Sources : run.bronzeTo[t] > 0
      /\ lock = "free" /\ lock' = "batch"
      /\ run' = [run EXCEPT !.phase = "silver", !.quiet = TRUE]
      /\ UNCHANGED <<events, tables, checkpoint, release, build, disturbances>>
  BY DEF LockSilver, Extracted
<1>2. /\ run' \in Runs /\ run'.phase = "silver"
      /\ run'.bronzeTo = run.bronzeTo /\ run'.silverTo = run.silverTo
  BY <1>1, Pointers DEF Runs, RunPhases
<1>3. /\ TypeOK' /\ Shapes' /\ BronzeLog' /\ SilverLogs' /\ HistoryLog' /\ GoldLogs'
      /\ CheckpointShown' /\ ReleaseShowsItsSilver'
  BY <1>1, <1>2, Pointers, ControlStep
<1>4. Holders' /\ build'.phase = "none"
  BY <1>1, <1>2 DEF ReleaseInv, Holders
<1>5. Manifest'
  BY <1>1, <1>2 DEF ReleaseInv, Manifest, HasManifest, tables
<1>. QED BY <1>2, <1>3, <1>4, <1>5
  DEF ReleaseInv, SupersededRunCompletes, SucceededRunIsReleased, SkippedRunIsReleased

LEMMA SilverUpToDateKeepsInv ==
    ASSUME ReleaseInv, NEW t \in Sources, SilverUpToDate(t)
    PROVE  ReleaseInv'
<1>1. /\ run.phase = "silver" /\ run.silverTo[t] = 0 /\ Progress(t) = run.bronzeTo[t]
      /\ run' = [run EXCEPT !.silverTo[t] = ProgressVersion(t)]
      /\ UNCHANGED <<events, tables, checkpoint, release, lock, build, disturbances>>
  BY DEF SilverUpToDate
<1>2. /\ ProgressVersion(t) \in DOMAIN silver[t] /\ ProgressVersion(t) \in 1..Len(silver[t])
      /\ ProgressVersion(t) \in Nat
      /\ silver[t][ProgressVersion(t)].fed = run.bronzeTo[t] /\ run.bronzeTo[t] > 0
  BY <1>1, ProgressExists, LatestExists DEF ReleaseInv, Shapes
<1>3. /\ run' \in Runs /\ run'.phase = "silver" /\ run'.bronzeTo = run.bronzeTo
      /\ run'.silverTo = [run.silverTo EXCEPT ![t] = ProgressVersion(t)]
  BY <1>1, <1>2, Pointers DEF Runs
<1>4. \A u \in Sources : run'.silverTo[u] = IF u = t THEN ProgressVersion(t) ELSE run.silverTo[u]
  BY <1>3, Pointers DEF Runs
<1>5. \A u \in Sources : /\ run'.bronzeTo[u] \in 0..Len(bronze[u])
                         /\ run'.silverTo[u] \in 0..Len(silver[u])
  BY <1>2, <1>3, <1>4, Pointers
<1>6. /\ TypeOK' /\ Shapes' /\ BronzeLog' /\ SilverLogs' /\ HistoryLog' /\ GoldLogs'
      /\ CheckpointShown' /\ ReleaseShowsItsSilver'
  BY <1>1, <1>3, <1>5, Pointers, ControlStep
<1>7. Holders' /\ build'.phase = "none"
  BY <1>1, <1>3 DEF ReleaseInv, Holders
<1>8. bronze[t][run.bronzeTo[t]] <= silver[t][ProgressVersion(t)].upTo
  BY <1>2, SilverShowsBronze
<1>9. Manifest'
  BY <1>1, <1>2, <1>3, <1>4, <1>8 DEF ReleaseInv, Manifest, HasManifest, tables
<1>. QED BY <1>3, <1>6, <1>7, <1>9
  DEF ReleaseInv, SupersededRunCompletes, SucceededRunIsReleased, SkippedRunIsReleased

LEMMA UnlockSilverKeepsInv == ReleaseInv /\ UnlockSilver => ReleaseInv'
<1>. SUFFICES ASSUME ReleaseInv, UnlockSilver PROVE ReleaseInv'
  OBVIOUS
<1>1. /\ run.phase = "silver" /\ \A t \in Sources : run.silverTo[t] > 0
      /\ lock' = "free"
      /\ run' = [run EXCEPT !.phase = "silverDone"]
      /\ UNCHANGED <<events, tables, checkpoint, release, build, disturbances>>
  BY DEF UnlockSilver
<1>2. /\ run' \in Runs /\ run'.phase = "silverDone"
      /\ run'.bronzeTo = run.bronzeTo /\ run'.silverTo = run.silverTo
  BY <1>1, Pointers DEF Runs, RunPhases
<1>3. /\ TypeOK' /\ Shapes' /\ BronzeLog' /\ SilverLogs' /\ HistoryLog' /\ GoldLogs'
      /\ CheckpointShown' /\ ReleaseShowsItsSilver'
  BY <1>1, <1>2, Pointers, ControlStep
<1>4. Holders' /\ build'.phase = "none"
  BY <1>1, <1>2 DEF ReleaseInv, Holders
<1>5. Manifest'
  BY <1>1, <1>2 DEF ReleaseInv, Manifest, HasManifest, tables
<1>. QED BY <1>2, <1>3, <1>4, <1>5
  DEF ReleaseInv, SupersededRunCompletes, SucceededRunIsReleased, SkippedRunIsReleased

(* GoldBuilder.run begins a build that keeps every table without news. *)
LEMMA BuildBegins ==
    ASSUME ReleaseInv, UNCHANGED <<silver, gold, release>>,
           NEW versions \in [Sources -> Nat], \A t \in Sources : versions[t] \in DOMAIN silver[t],
           NEW full \in BOOLEAN, build' = BuildOf(versions, full),
           \/ release = NoRelease
           \/ lock' = "batch" /\ run'.full
           \/ \A t \in Sources : release.silver[t] <= versions[t]
    PROVE  /\ build' \in Builds /\ build'.phase # "checkpoint" /\ build'.silver = versions
           /\ build'.phase = "none" =>
                release # NoRelease /\ \A t \in Sources : versions[t] <= release.silver[t]
           /\ build'.phase # "none" => Building'
<1>1. CASE full \/ release = NoRelease
  <2>1. build' = [phase |-> "dimension", silver |-> versions, substantive |-> Sources, changed |-> GoldTables]
    BY <1>1 DEF BuildOf
  <2>2. build' \in Builds
    BY <2>1 DEF Builds, BuildPhases
  <2>3. /\ build'.phase = "dimension" /\ build'.silver = versions
        /\ build'.substantive = Sources /\ build'.changed = GoldTables
    BY <2>1
  <2>4. Building'
    BY <2>3 DEF Building, GoldTables, Sources
  <2>. QED BY <2>2, <2>3, <2>4
<1>2. CASE ~full /\ release # NoRelease
  <2>. DEFINE news == {t \in Sources : versions[t] > release.silver[t]}
              substantive == {t \in news : Substantive(t, release.silver[t], versions[t])}
              phase == IF news = {} THEN "none"
                       ELSE IF substantive = {} THEN "publish"
                       ELSE IF "app_users" \in substantive THEN "dimension" ELSE "fact"
              changed == {g \in GoldTables : g = "dim_customer" /\ "app_users" \in substantive}
  <2>1. build' = [phase |-> phase, silver |-> versions, substantive |-> substantive, changed |-> changed]
    BY <1>2 DEF BuildOf
  <2>2. /\ build'.phase = phase /\ build'.silver = versions
        /\ build'.substantive = substantive /\ build'.changed = changed
    BY <2>1
  <2>3. phase \in {"none", "publish", "dimension", "fact"} /\ substantive \subseteq news /\ news \subseteq Sources
    OBVIOUS
  <2>4. build' \in Builds
    BY <2>1, <2>3 DEF Builds, BuildPhases
  <2>5. \A t \in Sources : /\ release.silver[t] \in DOMAIN silver[t] /\ release.silver[t] \in Nat
                           /\ silver[t] \in Seq(Commits) /\ Growing(silver[t])
                           /\ silver[t][versions[t]].upTo \in Nat
                           /\ silver[t][release.silver[t]].upTo \in Nat
    BY <1>2, Pointers, SilverShowsBronze DEF ReleaseInv, Shapes, SilverLogs
  <2>6. \A t \in Sources : t \notin substantive =>
            silver[t][versions[t]].upTo <= silver[t][release.silver[t]].upTo
    <3>. SUFFICES ASSUME NEW t \in Sources, t \notin substantive
                  PROVE  silver[t][versions[t]].upTo <= silver[t][release.silver[t]].upTo
      OBVIOUS
    <3>1. CASE t \in news
      BY <2>5, <3>1 DEF Substantive
    <3>2. CASE t \notin news
      BY <2>5, <3>2 DEF Growing
    <3>. QED BY <3>1, <3>2
  <2>7. \A g \in GoldTables : SourceOf(g) \notin substantive => Kept(g)'
    BY <1>2, <2>2, <2>6 DEF Kept, Claimed, SourceOf, Sources
  <2>8. phase = "none" => \A t \in Sources : versions[t] <= release.silver[t]
    BY <2>5
  <2>9. /\ "fact_sales" \notin changed
        /\ "dim_customer" \in changed <=> "app_users" \in substantive
        /\ phase = "dimension" <=> "app_users" \in substantive
        /\ phase = "publish" => substantive = {}
    BY <2>3 DEF GoldTables
  <2>. HIDE DEF news, substantive, phase, changed
  <2>10. /\ "app_users" \notin substantive => Kept("dim_customer")'
         /\ "orders" \notin substantive => Kept("fact_sales")'
    BY <2>7 DEF SourceOf, GoldTables
  <2>11. Building'
    BY <1>2, <2>2, <2>3, <2>9, <2>10 DEF Building
  <2>. QED BY <1>2, <2>2, <2>3, <2>4, <2>8, <2>11
<1>. QED BY <1>1, <1>2

LEMMA LiveVersionsExist ==
    ASSUME ReleaseInv
    PROVE  /\ LiveVersions \in [Sources -> Nat]
           /\ \A t \in Sources : /\ LiveVersions[t] \in DOMAIN silver[t] /\ LiveVersions[t] = Len(silver[t])
                                 /\ DOMAIN silver[t] = 1..Len(silver[t])
  BY LatestExists DEF ReleaseInv, Shapes, LiveVersions

(* _refresh_stale_propagated_versions: never behind the manifest, nor behind *)
(* the release.                                                              *)
LEMMA RefreshIsNotBehind ==
    ASSUME ReleaseInv, release # NoRelease, \A t \in Sources : run.silverTo[t] > 0
    PROVE  /\ Refresh(run.silverTo) \in [Sources -> Nat]
           /\ \A t \in Sources : /\ Refresh(run.silverTo)[t] \in DOMAIN silver[t]
                                 /\ run.silverTo[t] <= Refresh(run.silverTo)[t]
                                 /\ release.silver[t] <= Refresh(run.silverTo)[t]
<1>1. run.silverTo \in [Sources -> Nat]
  BY DEF ReleaseInv, Shapes, Runs
<1>2. \A t \in Sources : /\ release.silver[t] \in 1..Len(silver[t]) /\ run.silverTo[t] \in 1..Len(silver[t])
                         /\ Len(silver[t]) \in Nat
  BY Pointers, LiveVersionsExist
<1>3. CASE \E t \in Sources : release.silver[t] > run.silverTo[t]
  BY <1>2, <1>3, LiveVersionsExist DEF Refresh
<1>4. CASE ~\E t \in Sources : release.silver[t] > run.silverTo[t]
  BY <1>1, <1>2, <1>4, LiveVersionsExist DEF Refresh
<1>. QED BY <1>3, <1>4

LEMMA LockGoldKeepsInv == ReleaseInv /\ LockGold => ReleaseInv'
<1>. SUFFICES ASSUME ReleaseInv, LockGold PROVE ReleaseInv'
  OBVIOUS
<1>. DEFINE versions == IF run.full \/ release = NoRelease THEN run.silverTo ELSE Refresh(run.silverTo)
            next == BuildOf(versions, run.full)
            ahead == ~run.full /\ release # NoRelease /\ \E t \in Sources : release.silver[t] > versions[t]
<1>1. /\ run.phase = "silverDone" /\ lock = "free"
      /\ build' = IF ahead THEN NoBuild ELSE next
      /\ run' = [run EXCEPT !.phase = IF ahead THEN "ahead" ELSE IF next.phase = "none" THEN "validate" ELSE "gold"]
      /\ lock' = IF ahead \/ next.phase = "none" THEN "free" ELSE "batch"
      /\ UNCHANGED <<events, tables, checkpoint, release, disturbances>>
  BY DEF LockGold
<1>2. /\ run.silverTo \in [Sources -> Nat] /\ run.full \in BOOLEAN
      /\ \A t \in Sources : /\ run.silverTo[t] \in DOMAIN silver[t] /\ run.silverTo[t] \in Nat
                            /\ run.silverTo[t] > 0
  BY <1>1, Pointers, LiveVersionsExist DEF Runs, ReleaseInv, Manifest, HasManifest
<1>3. /\ versions \in [Sources -> Nat]
      /\ \A t \in Sources : versions[t] \in DOMAIN silver[t] /\ run.silverTo[t] <= versions[t]
      /\ run.full \/ release = NoRelease \/ \A t \in Sources : release.silver[t] <= versions[t]
  <2>1. CASE run.full \/ release = NoRelease
    BY <1>2, <2>1
  <2>2. CASE ~(run.full \/ release = NoRelease)
    BY <1>2, <2>2, RefreshIsNotBehind
  <2>. QED BY <2>1, <2>2
<1>4. ~ahead
  BY <1>3, Pointers
<1>. HIDE DEF versions, ahead
<1>5. /\ build' = next /\ lock' = IF next.phase = "none" THEN "free" ELSE "batch"
      /\ run' = [run EXCEPT !.phase = IF next.phase = "none" THEN "validate" ELSE "gold"]
  BY <1>1, <1>4
<1>6. /\ run' \in Runs /\ run'.phase = (IF next.phase = "none" THEN "validate" ELSE "gold")
      /\ run'.bronzeTo = run.bronzeTo /\ run'.silverTo = run.silverTo /\ run'.full = run.full
  <2>. HIDE DEF next
  <2>. QED BY <1>5, Pointers DEF Runs, RunPhases
<1>7. /\ build' \in Builds /\ build'.phase # "checkpoint" /\ build'.silver = versions
      /\ build'.phase = "none" =>
           release # NoRelease /\ \A t \in Sources : versions[t] <= release.silver[t]
      /\ build'.phase # "none" => Building'
  <2>1. CASE next.phase = "none"
    <3>1. CASE run.full \/ release = NoRelease
      BY <2>1, <3>1 DEF BuildOf
    <3>2. CASE ~(run.full \/ release = NoRelease)
      BY <1>1, <1>2, <1>3, <1>5, <3>2, BuildBegins DEF tables
    <3>. QED BY <3>1, <3>2
  <2>2. CASE next.phase # "none"
    <3>1. lock' = "batch"
      BY <1>5, <2>2
    <3>. QED BY <1>1, <1>2, <1>3, <1>5, <1>6, <3>1, BuildBegins DEF tables
  <2>. QED BY <2>1, <2>2
<1>8. /\ build'.phase = "none" => run'.phase = "validate" /\ lock' = "free"
      /\ build'.phase # "none" => run'.phase = "gold" /\ lock' = "batch"
  BY <1>5, <1>6
<1>. HIDE DEF next
<1>9. /\ TypeOK' /\ Shapes' /\ BronzeLog' /\ SilverLogs' /\ HistoryLog' /\ GoldLogs'
      /\ CheckpointShown' /\ ReleaseShowsItsSilver'
  BY <1>1, <1>6, <1>7, <1>8, Pointers, ControlStep
<1>10. Holders'
  BY <1>8 DEF Holders
<1>11. Manifest'
  <2>1. build'.phase = "none" => \A t \in Sources : run.silverTo[t] <= release.silver[t]
    BY <1>2, <1>3, <1>7, Pointers
  <2>. QED BY <1>1, <1>2, <1>3, <1>6, <1>7, <1>8, <2>1 DEF ReleaseInv, Manifest, HasManifest, tables
<1>. QED BY <1>6, <1>7, <1>9, <1>10, <1>11
  DEF ReleaseInv, SupersededRunCompletes, SucceededRunIsReleased, SkippedRunIsReleased

LEMMA OtherBuildKeepsInv ==
    ASSUME ReleaseInv, NEW full \in BOOLEAN, OtherBuild(full)
    PROVE  ReleaseInv'
<1>1. /\ lock = "free" /\ lock' = "other"
      /\ build' = BuildOf(LiveVersions, full) /\ build'.phase # "none"
      /\ UNCHANGED <<events, tables, checkpoint, release, run>>
  BY DEF OtherBuild
<1>2. disturbances' \in 0..MaxDisturbances
  BY Pointers, GoldReleaseAssumption DEF OtherBuild
<1>3. release = NoRelease \/ \A t \in Sources : release.silver[t] <= LiveVersions[t]
  BY Pointers, LiveVersionsExist
<1>4. build' \in Builds /\ build'.phase # "checkpoint" /\ Building'
  BY <1>1, <1>3, LiveVersionsExist, BuildBegins DEF tables
<1>5. /\ TypeOK' /\ Shapes' /\ BronzeLog' /\ SilverLogs' /\ HistoryLog' /\ GoldLogs'
      /\ CheckpointShown' /\ ReleaseShowsItsSilver'
  BY <1>1, <1>2, <1>4, Pointers, ControlStep
<1>6. Holders' /\ run.phase # "gold"
  BY <1>1 DEF ReleaseInv, Holders
<1>7. Manifest'
  BY <1>1, <1>6 DEF ReleaseInv, Manifest, HasManifest, tables
<1>8. SupersededRunCompletes' /\ SucceededRunIsReleased' /\ SkippedRunIsReleased'
  BY <1>1, OutcomeStays DEF tables
<1>. QED BY <1>4, <1>5, <1>6, <1>7, <1>8 DEF ReleaseInv

LEMMA ValidateKeepsInv == ReleaseInv /\ ValidateRelease => ReleaseInv'
<1>. SUFFICES ASSUME ReleaseInv, ValidateRelease PROVE ReleaseInv'
  OBVIOUS
<1>. DEFINE phase == IF \E t \in Sources : release.silver[t] < run.silverTo[t] THEN "lagging" ELSE "succeeded"
<1>1. /\ run.phase = "validate"
      /\ run' = [IdleRun EXCEPT !.phase = phase, !.bronzeTo = run.bronzeTo]
      /\ UNCHANGED <<events, tables, checkpoint, release, lock, build, disturbances>>
  BY DEF ValidateRelease
<1>2. /\ release # NoRelease
      /\ \A t \in Sources : run.silverTo[t] > 0 /\ run.silverTo[t] <= release.silver[t]
  BY <1>1 DEF ReleaseInv, Manifest, HasManifest
<1>3. phase = "succeeded"
  BY <1>2, Pointers
<1>. HIDE DEF phase
<1>4. /\ run' \in Runs /\ run'.phase = "succeeded" /\ run'.bronzeTo = run.bronzeTo
      /\ run'.silverTo = IdleRun.silverTo
  BY <1>1, <1>3, IdleRunFields, Pointers DEF Runs, RunPhases
<1>5. \A t \in Sources : /\ run'.bronzeTo[t] = run.bronzeTo[t] /\ run'.bronzeTo[t] \in 0..Len(bronze[t])
                         /\ run'.silverTo[t] = 0 /\ 0 \in 0..Len(silver[t])
  BY <1>4, IdleRunFields, Pointers
<1>6. /\ TypeOK' /\ Shapes' /\ BronzeLog' /\ SilverLogs' /\ HistoryLog' /\ GoldLogs'
      /\ CheckpointShown' /\ ReleaseShowsItsSilver'
  BY <1>1, <1>4, <1>5, Pointers, ControlStep
<1>7. Holders' /\ lock # "batch"
  BY <1>1, <1>4 DEF ReleaseInv, Holders
<1>8. build'.phase # "none" => Building'
  BY <1>1, <1>7 DEF ReleaseInv, Building, Candidate, Kept, Claimed, tables
<1>9. \A t \in Sources : run.bronzeTo[t] > 0 /\ bronze[t][run.bronzeTo[t]] <= silver[t][run.silverTo[t]].upTo
  BY <1>2 DEF ReleaseInv, Manifest
<1>10. Manifest'
  BY <1>2, <1>4, <1>5, <1>9, <1>1 DEF Manifest, HasManifest
<1>11. Delivered
  <2>. SUFFICES ASSUME NEW g \in GoldTables
                PROVE  ShownBy(release, g) >= bronze[SourceOf(g)][run.bronzeTo[SourceOf(g)]]
    BY DeliveredByTable
  <2>. DEFINE t == SourceOf(g)
  <2>1. t \in Sources
    BY DEF SourceOf, Sources
  <2>2. run.silverTo[t] \in DOMAIN silver[t] /\ run.silverTo[t] <= release.silver[t]
    BY <1>2, <2>1, Pointers, LiveVersionsExist
  <2>3. /\ silver[t][run.silverTo[t]].upTo <= ShownBy(release, g) /\ ShownBy(release, g) \in Nat
        /\ silver[t][run.silverTo[t]].upTo \in Nat
    BY <1>2, <2>1, <2>2, ReleaseShows, SilverShowsBronze
  <2>4. bronze[t] \in Seq(Nat) /\ run.bronzeTo[t] \in 1..Len(bronze[t]) /\ bronze[t][run.bronzeTo[t]] \in Nat
    BY <1>9, <2>1, Pointers DEF ReleaseInv, Shapes
  <2>5. bronze[t][run.bronzeTo[t]] <= silver[t][run.silverTo[t]].upTo
    BY <1>9, <2>1
  <2>6. bronze[t][run.bronzeTo[t]] <= ShownBy(release, g)
    BY <2>3, <2>4, <2>5
  <2>. QED BY <2>3, <2>4, <2>6
<1>12. SucceededRunIsReleased'
  BY <1>1, <1>4, <1>11 DEF SucceededRunIsReleased, Delivered, ShownBy, tables
<1>. QED BY <1>4, <1>6, <1>7, <1>8, <1>10, <1>12
  DEF ReleaseInv, SupersededRunCompletes, SkippedRunIsReleased

LEMMA FailRunKeepsInv == ReleaseInv /\ FailRun => ReleaseInv'
<1>. SUFFICES ASSUME ReleaseInv, FailRun PROVE ReleaseInv'
  OBVIOUS
<1>1. /\ run' = IdleRun /\ UNCHANGED <<events, tables, checkpoint, release>>
      /\ disturbances < MaxDisturbances /\ disturbances' = disturbances + 1
      /\ IF lock = "batch" THEN lock' = "free" /\ build' = NoBuild ELSE UNCHANGED <<lock, build>>
  BY DEF FailRun, EndOf
<1>2. disturbances' \in 0..MaxDisturbances
  BY <1>1, Pointers, GoldReleaseAssumption
<1>3. /\ build' \in Builds /\ lock' \in {"free", "other"}
      /\ build'.phase # "none" => UNCHANGED <<lock, build>> /\ lock # "batch"
  BY <1>1, Pointers, NoBuildFields
<1>4. \A t \in Sources : 0 \in 0..Len(bronze[t]) /\ 0 \in 0..Len(silver[t])
  BY Pointers
<1>5. /\ TypeOK' /\ Shapes' /\ BronzeLog' /\ SilverLogs' /\ HistoryLog' /\ GoldLogs'
      /\ CheckpointShown' /\ ReleaseShowsItsSilver'
  BY <1>1, <1>2, <1>3, <1>4, IdleRunFields, ControlStep
<1>6. Holders'
  BY <1>1, <1>3, IdleRunFields, NoBuildFields DEF ReleaseInv, Holders
<1>7. build'.phase # "none" => Building'
  BY <1>1, <1>3 DEF ReleaseInv, Building, Candidate, Kept, Claimed, tables
<1>8. Manifest'
  BY <1>1, IdleRunFields DEF Manifest, HasManifest
<1>. QED BY <1>1, <1>5, <1>6, <1>7, <1>8, IdleRunFields
  DEF ReleaseInv, SupersededRunCompletes, SucceededRunIsReleased, SkippedRunIsReleased

LEMMA FailOtherKeepsInv == ReleaseInv /\ FailOther => ReleaseInv'
<1>. SUFFICES ASSUME ReleaseInv, FailOther PROVE ReleaseInv'
  OBVIOUS
<1>1. /\ lock = "other" /\ lock' = "free" /\ build' = NoBuild
      /\ disturbances < MaxDisturbances /\ disturbances' = disturbances + 1
      /\ UNCHANGED <<events, tables, checkpoint, release, run>>
  BY DEF FailOther, EndOf
<1>2. disturbances' \in 0..MaxDisturbances
  BY <1>1, Pointers, GoldReleaseAssumption
<1>3. /\ TypeOK' /\ Shapes' /\ BronzeLog' /\ SilverLogs' /\ HistoryLog' /\ GoldLogs'
      /\ CheckpointShown' /\ ReleaseShowsItsSilver'
  BY <1>1, <1>2, NoBuildFields, Pointers, ControlStep
<1>4. Holders' /\ run.phase # "gold"
  BY <1>1, NoBuildFields DEF ReleaseInv, Holders
<1>5. Manifest'
  BY <1>1, <1>4 DEF ReleaseInv, Manifest, HasManifest, tables
<1>6. SupersededRunCompletes' /\ SucceededRunIsReleased' /\ SkippedRunIsReleased'
  BY <1>1, OutcomeStays DEF tables
<1>. QED BY <1>1, <1>3, <1>4, <1>5, <1>6, NoBuildFields DEF ReleaseInv

LEMMA SourceEventKeepsInv ==
    ASSUME ReleaseInv, NEW s \in Sources, SourceEvent(s)
    PROVE  ReleaseInv'
<1>1. /\ events["app_users"] + events["orders"] < MaxEvents
      /\ events' = [events EXCEPT ![s] = @ + 1]
      /\ UNCHANGED <<bronze, silver, history, gold, checkpoint, release, lock, run, build, disturbances>>
  BY DEF SourceEvent, tables
<1>2. /\ events' \in [Sources -> 0..MaxEvents] /\ events' \in [Sources -> Nat]
      /\ \A t \in Sources : \A n : n \in 0..events[t] => n \in 0..events'[t]
  <2>1. MaxEvents \in Nat /\ events \in [Sources -> 0..MaxEvents]
    BY GoldReleaseAssumption DEF ReleaseInv, TypeOK
  <2>2. events["app_users"] \in Nat /\ events["orders"] \in Nat /\ \A t \in Sources : events[t] \in Nat
    BY <2>1 DEF Sources
  <2>3. events[s] + 1 \in 0..MaxEvents
    BY <1>1, <2>1, <2>2 DEF Sources
  <2>4. \A t \in Sources : events'[t] = IF t = s THEN events[t] + 1 ELSE events[t]
    BY <1>1, <2>1
  <2>5. events' \in [Sources -> 0..MaxEvents]
    BY <1>1, <2>1, <2>3
  <2>6. \A t \in Sources : events[t] <= events'[t] /\ events'[t] \in Nat
    BY <2>2, <2>4
  <2>. QED BY <2>1, <2>2, <2>5, <2>6
<1>3. TypeOK'
  BY <1>1, <1>2 DEF ReleaseInv, TypeOK, Sources
<1>4. Shapes' /\ BronzeLog' /\ SilverLogs' /\ HistoryLog' /\ GoldLogs'
  BY <1>1, <1>2 DEF ReleaseInv, Shapes, BronzeLog, SilverLogs, HistoryLog, GoldLogs, Growing, Fed, IsProgress
<1>5. CheckpointShown' /\ ReleaseShowsItsSilver' /\ Holders' /\ (build'.phase # "none" => Building') /\ Manifest'
  BY <1>1 DEF ReleaseInv, CheckpointShown, DimensionShows, ReleaseShowsItsSilver, ShownBy, Holders, Building,
     Candidate, Kept, Claimed, Manifest, HasManifest
<1>6. SupersededRunCompletes' /\ SucceededRunIsReleased' /\ SkippedRunIsReleased'
  BY <1>1, OutcomeStays
<1>. QED BY <1>3, <1>4, <1>5, <1>6 DEF ReleaseInv

--------------------------------------------------------------------------------
(* The latest versions. *)
LEMMA LatestSilver ==
    ASSUME ReleaseInv, NEW t \in Sources
    PROVE  /\ silver[t] \in Seq(Commits) /\ silver[t] # <<>> /\ Growing(silver[t])
           /\ Latest(silver[t]) = silver[t][Len(silver[t])] /\ Len(silver[t]) \in DOMAIN silver[t]
           /\ Len(silver[t]) \in Nat \ {0} /\ DOMAIN silver[t] = 1..Len(silver[t])
           /\ Latest(silver[t]).upTo \in Nat /\ Latest(silver[t]).upTo \in 0..events[t]
           /\ events[t] \in Nat
           /\ \A v \in DOMAIN silver[t] : silver[t][v].upTo <= Latest(silver[t]).upTo
<1>1. silver[t] \in Seq(Commits) /\ silver[t] # <<>> /\ Growing(silver[t]) /\ events[t] \in Nat
  BY DEF ReleaseInv, Shapes, SilverLogs
<1>2. /\ Latest(silver[t]) = silver[t][Len(silver[t])] /\ Len(silver[t]) \in DOMAIN silver[t]
      /\ Len(silver[t]) \in Nat \ {0} /\ DOMAIN silver[t] = 1..Len(silver[t])
  BY <1>1, LatestExists
<1>3. Latest(silver[t]).upTo \in 0..events[t]
  BY <1>2 DEF ReleaseInv, TypeOK
<1>4. \A v \in DOMAIN silver[t] : silver[t][v].upTo <= Latest(silver[t]).upTo
  BY <1>1, LatestIsGreatest
<1>. QED BY <1>1, <1>2, <1>3, <1>4

LEMMA LatestGold ==
    ASSUME ReleaseInv, NEW g \in GoldTables, gold[g] # <<>>
    PROVE  /\ gold[g] \in Seq(GoldCommits) /\ Growing(gold[g])
           /\ Latest(gold[g]) = gold[g][Len(gold[g])] /\ Len(gold[g]) \in DOMAIN gold[g]
           /\ Len(gold[g]) \in Nat \ {0} /\ DOMAIN gold[g] = 1..Len(gold[g])
           /\ Latest(gold[g]) \in GoldCommits /\ Latest(gold[g]).upTo \in Nat
           /\ \A v \in DOMAIN gold[g] : gold[g][v].upTo \in Nat /\ gold[g][v].upTo <= Latest(gold[g]).upTo
<1>1. gold[g] \in Seq(GoldCommits) /\ Growing(gold[g])
  BY DEF ReleaseInv, Shapes, GoldLogs
<1>2. /\ Latest(gold[g]) = gold[g][Len(gold[g])] /\ Len(gold[g]) \in DOMAIN gold[g]
      /\ Len(gold[g]) \in Nat \ {0} /\ DOMAIN gold[g] = 1..Len(gold[g])
      /\ Latest(gold[g]) \in GoldCommits
      /\ \A v \in DOMAIN gold[g] : gold[g][v] \in GoldCommits
  BY <1>1, LatestExists
<1>3. \A c \in GoldCommits : c.upTo \in Nat
  BY DEF GoldCommits
<1>4. \A v \in DOMAIN gold[g] : gold[g][v].upTo <= Latest(gold[g]).upTo
  BY <1>1, LatestIsGreatest
<1>. QED BY <1>1, <1>2, <1>3, <1>4

--------------------------------------------------------------------------------
(* Commits to the history. *)
LEMMA HistoryHolds ==
    ASSUME ReleaseInv, NEW v \in DOMAIN history
    PROVE  /\ history[v].upTo \in 0..events["app_users"] /\ history[v].upTo \in Nat
           /\ history[v].fed \in 0..Len(bronze["app_users"]) /\ history[v].fed \in Nat
           /\ history[v].upTo <= Latest(history).upTo
           /\ history[v].fed > 0 => bronze["app_users"][history[v].fed] <= history[v].upTo
           /\ v \in Nat \ {0} /\ DOMAIN history = 1..Len(history)
<1>1. history \in Seq(Commits) /\ history # <<>> /\ Growing(history) /\ Fed(history, "app_users")
  BY DEF ReleaseInv, Shapes, HistoryLog
<1>2. history[v] \in Commits /\ v \in Nat \ {0} /\ DOMAIN history = 1..Len(history)
  BY <1>1, LatestExists
<1>3. history[v].upTo \in 0..events["app_users"] /\ history[v].fed \in 0..Len(bronze["app_users"])
  BY DEF ReleaseInv, TypeOK
<1>4. history[v].upTo <= Latest(history).upTo
  BY <1>1, LatestIsGreatest
<1>. QED BY <1>1, <1>2, <1>3, <1>4 DEF Commits, Fed

LEMMA LatestHistory ==
    ASSUME ReleaseInv
    PROVE  /\ history \in Seq(Commits) /\ history # <<>> /\ Growing(history)
           /\ Latest(history) = history[Len(history)] /\ Len(history) \in DOMAIN history
           /\ Len(history) \in Nat \ {0}
           /\ Latest(history).upTo \in 0..events["app_users"] /\ events["app_users"] \in Nat
           /\ Latest(silver["app_users"]).upTo <= Latest(history).upTo
<1>1. history \in Seq(Commits) /\ history # <<>> /\ Growing(history)
  BY DEF ReleaseInv, Shapes, HistoryLog
<1>2. Latest(history) = history[Len(history)] /\ Len(history) \in DOMAIN history /\ Len(history) \in Nat \ {0}
  BY <1>1, LatestExists
<1>3. Latest(history).upTo \in 0..events["app_users"]
  BY <1>2, HistoryHolds
<1>. QED BY <1>1, <1>2, <1>3 DEF ReleaseInv, HistoryLog, Shapes, Sources

LEMMA HistoryAppends ==
    ASSUME ReleaseInv, NEW c \in Commits, history' = Append(history, c),
           UNCHANGED <<events, bronze, silver, gold, checkpoint, release, lock, run, build>>,
           build.phase = "none", disturbances' \in 0..MaxDisturbances,
           Latest(history).upTo <= c.upTo, c.upTo \in 0..events["app_users"],
           c.fed \in 0..Len(bronze["app_users"]),
           c.fed > 0 => bronze["app_users"][c.fed] <= c.upTo
    PROVE  ReleaseInv'
<1>1. /\ history \in Seq(Commits) /\ history # <<>> /\ Growing(history)
      /\ Latest(history).upTo \in Nat /\ c.upTo \in Nat
  BY LatestHistory DEF Commits
<1>2. /\ history' \in Seq(Commits) /\ history' # <<>>
      /\ Len(history) \in Nat /\ Len(history') = Len(history) + 1
      /\ DOMAIN history = 1..Len(history) /\ DOMAIN history' = 1..Len(history) + 1
      /\ \A v \in DOMAIN history : history'[v] = history[v]
      /\ history'[Len(history) + 1] = c /\ Latest(history') = c
  BY <1>1, AppendLog
<1>3. Growing(history')
  <2>1. \A e \in Commits : e.upTo \in Nat
    BY DEF Commits
  <2>. QED BY <1>1, <2>1, AppendGrows
<1>4. \A v \in DOMAIN history' : v \in DOMAIN history \/ history'[v] = c
  BY <1>2
<1>5. TypeOK'
  <2>1. \A v \in DOMAIN history' : /\ history'[v].upTo \in 0..events["app_users"]
                                   /\ history'[v].fed \in 0..Len(bronze["app_users"])
    BY <1>2, <1>4, HistoryHolds
  <2>2. checkpoint \in 0..Len(history')
    BY <1>2 DEF ReleaseInv, TypeOK
  <2>. QED BY <2>1, <2>2 DEF ReleaseInv, TypeOK
<1>6. Shapes' /\ BronzeLog' /\ SilverLogs'
  BY <1>2, GoldReleaseAssumption DEF ReleaseInv, Shapes, BronzeLog, SilverLogs, Growing, Fed, IsProgress
<1>7. HistoryLog'
  <2>1. \A v \in DOMAIN history' : history'[v].fed > 0 =>
            bronze["app_users"][history'[v].fed] <= history'[v].upTo
    BY <1>2, <1>4, HistoryHolds DEF Fed
  <2>2. Latest(silver["app_users"]).upTo \in Nat
    BY LatestSilver DEF Sources
  <2>3. Latest(silver["app_users"]).upTo <= Latest(history').upTo
    BY <1>1, <1>2, <2>2, LatestHistory
  <2>. QED BY <1>3, <2>1, <2>3 DEF HistoryLog, Latest, Growing, Fed
<1>8. GoldLogs'
  <2>1. ASSUME gold["dim_customer"] # <<>>
        PROVE  Latest(gold["dim_customer"]).upTo <= Latest(history').upTo
    <3>1. "dim_customer" \in GoldTables
      BY DEF GoldTables
    <3>2. Latest(gold["dim_customer"]).upTo \in Nat
      BY <2>1, <3>1, LatestGold
    <3>3. Latest(gold["dim_customer"]).upTo <= Latest(history).upTo
      BY <2>1 DEF ReleaseInv, GoldLogs
    <3>. QED BY <1>1, <1>2, <3>2, <3>3
  <2>. QED BY <2>1 DEF ReleaseInv, GoldLogs, Growing, Latest
<1>9. CheckpointShown'
  <2>1. checkpoint > 0 => checkpoint \in DOMAIN history
    BY <1>2 DEF ReleaseInv, TypeOK
  <2>. QED BY <1>2, <2>1 DEF ReleaseInv, CheckpointShown, DimensionShows, Latest
<1>10. ReleaseShowsItsSilver' /\ Holders' /\ Manifest'
  BY DEF ReleaseInv, ReleaseShowsItsSilver, ShownBy, Holders, Manifest, HasManifest
<1>11. SupersededRunCompletes' /\ SucceededRunIsReleased' /\ SkippedRunIsReleased'
  BY OutcomeStays
<1>. QED BY <1>5, <1>6, <1>7, <1>8, <1>9, <1>10, <1>11 DEF ReleaseInv

LEMMA AtLeastIsMax ==
    ASSUME NEW a \in Nat, NEW b \in Nat
    PROVE  /\ AtLeast(a, b) \in {a, b} /\ AtLeast(a, b) \in Nat
           /\ a <= AtLeast(a, b) /\ b <= AtLeast(a, b)
  BY DEF AtLeast

LEMMA StreamHistoryKeepsInv == ReleaseInv /\ StreamHistory => ReleaseInv'
<1>. SUFFICES ASSUME ReleaseInv, StreamHistory PROVE ReleaseInv'
  OBVIOUS
<1>1. PICK upTo \in Latest(silver["app_users"]).upTo..events["app_users"] :
        history' = Append(history, [upTo |-> AtLeast(upTo, Latest(history).upTo), fed |-> 0])
  BY DEF StreamHistory
<1>2. /\ lock = "free" /\ disturbances < MaxDisturbances /\ disturbances' = disturbances + 1
      /\ UNCHANGED <<events, bronze, silver, gold, checkpoint, release, lock, run, build>>
  BY DEF StreamHistory
<1>. DEFINE c == [upTo |-> AtLeast(upTo, Latest(history).upTo), fed |-> 0]
<1>3. upTo \in 0..events["app_users"]
  <2>1. Latest(silver["app_users"]).upTo \in Nat
    BY LatestSilver DEF Sources
  <2>. QED BY <1>1, <2>1, LatestHistory
<1>4. /\ c \in Commits /\ Latest(history).upTo <= c.upTo /\ c.upTo \in 0..events["app_users"]
      /\ c.fed = 0
  <2>. DEFINE to == AtLeast(upTo, Latest(history).upTo)
  <2>1. to \in Nat /\ Latest(history).upTo <= to /\ to \in 0..events["app_users"]
    <3>1. upTo \in Nat /\ Latest(history).upTo \in Nat /\ Latest(history).upTo \in 0..events["app_users"]
      BY <1>3, LatestHistory
    <3>. QED BY <1>3, <3>1, AtLeastIsMax
  <2>. HIDE DEF to
  <2>2. [upTo |-> to, fed |-> 0] \in Commits
    BY <2>1 DEF Commits
  <2>. QED BY <2>1, <2>2 DEF to
<1>5. build.phase = "none"
  BY <1>2 DEF ReleaseInv, Holders
<1>6. disturbances' \in 0..MaxDisturbances /\ 0 \in 0..Len(bronze["app_users"])
  BY <1>2, Pointers, GoldReleaseAssumption DEF Sources
<1>. QED BY <1>1, <1>2, <1>4, <1>5, <1>6, HistoryAppends

LEMMA AppendHistoryKeepsInv == ReleaseInv /\ AppendHistory => ReleaseInv'
<1>. SUFFICES ASSUME ReleaseInv, AppendHistory PROVE ReleaseInv'
  OBVIOUS
<1>. DEFINE version == run.bronzeTo["app_users"]
            c == [upTo |-> AtLeast(bronze["app_users"][version], Latest(history).upTo), fed |-> version]
<1>1. /\ run.phase = "silver"
      /\ history' = Append(history, c)
      /\ UNCHANGED <<events, bronze, silver, gold, checkpoint, release, lock, run, build, disturbances>>
  BY DEF AppendHistory
<1>2. version \in DOMAIN bronze["app_users"] /\ version \in 0..Len(bronze["app_users"]) /\ version \in Nat
  <2>1. version > 0
    BY <1>1 DEF ReleaseInv, Manifest, Sources
  <2>2. bronze["app_users"] \in Seq(Nat)
    BY DEF ReleaseInv, Shapes, Sources
  <2>. QED BY <2>1, <2>2, Pointers DEF Sources
<1>3. bronze["app_users"][version] \in 0..events["app_users"]
  BY <1>2 DEF ReleaseInv, TypeOK, Sources
<1>4. /\ c \in Commits /\ Latest(history).upTo <= c.upTo /\ c.upTo \in 0..events["app_users"]
      /\ bronze["app_users"][version] <= c.upTo /\ c.fed = version
  <2>. DEFINE to == AtLeast(bronze["app_users"][version], Latest(history).upTo)
  <2>1. /\ to \in Nat /\ Latest(history).upTo <= to /\ to \in 0..events["app_users"]
        /\ bronze["app_users"][version] <= to
    BY <1>3, LatestHistory, AtLeastIsMax
  <2>. HIDE DEF to
  <2>2. [upTo |-> to, fed |-> version] \in Commits
    BY <1>2, <2>1 DEF Commits
  <2>. QED BY <2>1, <2>2 DEF to
<1>5. build.phase = "none"
  BY <1>1 DEF ReleaseInv, Holders
<1>6. disturbances' \in 0..MaxDisturbances
  BY <1>1, Pointers
<1>. HIDE DEF version, c
<1>. QED BY <1>1, <1>2, <1>4, <1>5, <1>6, HistoryAppends

--------------------------------------------------------------------------------
(* Commits to Silver: the logs, the release and the checkpoint stand. *)
LEMMA SilverAppends ==
    ASSUME ReleaseInv, NEW t \in Sources, NEW c \in Commits,
           silver' = [silver EXCEPT ![t] = Append(@, c)],
           UNCHANGED <<events, bronze, history, gold, checkpoint, release, lock, build>>,
           Latest(silver[t]).upTo <= c.upTo, c.upTo \in 0..events[t],
           c.fed \in 0..Len(bronze[t]), c.fed > 0 => bronze[t][c.fed] <= c.upTo,
           t = "app_users" => c.upTo <= Latest(history).upTo,
           run' \in Runs, disturbances' \in 0..MaxDisturbances,
           \A u \in Sources : /\ run'.bronzeTo[u] \in 0..Len(bronze[u])
                              /\ run'.silverTo[u] \in 0..Len(silver'[u])
    PROVE  /\ TypeOK' /\ Shapes' /\ BronzeLog' /\ SilverLogs' /\ HistoryLog' /\ GoldLogs'
           /\ CheckpointShown' /\ ReleaseShowsItsSilver'
<1>. DEFINE new == Append(silver[t], c)
<1>1. /\ silver[t] \in Seq(Commits) /\ silver[t] # <<>> /\ Growing(silver[t])
      /\ Latest(silver[t]).upTo \in Nat /\ c.upTo \in Nat
  BY LatestSilver DEF Commits
<1>2. /\ new \in Seq(Commits) /\ new # <<>> /\ Len(silver[t]) \in Nat
      /\ Len(new) = Len(silver[t]) + 1
      /\ DOMAIN silver[t] = 1..Len(silver[t]) /\ DOMAIN new = 1..Len(silver[t]) + 1
      /\ \A v \in DOMAIN silver[t] : new[v] = silver[t][v]
      /\ new[Len(silver[t]) + 1] = c /\ Latest(new) = c
  BY <1>1, AppendLog
<1>3. Growing(new)
  <2>1. \A e \in Commits : e.upTo \in Nat
    BY DEF Commits
  <2>. QED BY <1>1, <2>1, AppendGrows
<1>4. \A v \in DOMAIN new : (v \in DOMAIN silver[t] /\ new[v] = silver[t][v]) \/ new[v] = c
  BY <1>2
<1>5. silver \in [Sources -> Seq(Commits)] /\ \A u \in Sources : silver[u] # <<>>
  BY DEF ReleaseInv, Shapes
<1>. HIDE DEF new
<1>6. /\ silver' \in [Sources -> Seq(Commits)] /\ silver'[t] = new
      /\ \A u \in Sources : u # t => silver'[u] = silver[u]
  BY <1>2, <1>5 DEF new
<1>7. \A u \in Sources : /\ DOMAIN silver[u] \subseteq DOMAIN silver'[u]
                         /\ \A v \in DOMAIN silver[u] : silver'[u][v] = silver[u][v]
  BY <1>2, <1>6
<1>8. \A u \in Sources : \A v \in DOMAIN silver'[u] :
        \/ v \in DOMAIN silver[u] /\ silver'[u][v] = silver[u][v]
        \/ u = t /\ silver'[u][v] = c
  BY <1>4, <1>6
<1>8a. \E v \in DOMAIN new : IsProgress(new, v)
  <2>1. PICK v \in DOMAIN silver[t] : IsProgress(silver[t], v)
    BY DEF ReleaseInv, SilverLogs
  <2>2. CASE c.fed > 0
    <3>1. IsProgress(new, Len(silver[t]) + 1)
      BY <1>2, <2>2 DEF IsProgress
    <3>. QED BY <1>2, <3>1
  <2>3. CASE ~(c.fed > 0)
    <3>1. c.fed = 0
      BY <2>3 DEF Commits
    <3>2. v \in Nat /\ v <= Len(silver[t]) /\ silver[t][v].fed > 0
      BY <1>2, <2>1 DEF IsProgress
    <3>3. ASSUME NEW w \in (v + 1)..Len(new)
          PROVE  new[w].fed = 0
      <4>1. CASE w \in DOMAIN silver[t]
        <5>1. w \in (v + 1)..Len(silver[t])
          BY <1>2, <3>2, <3>3, <4>1
        <5>. QED BY <1>2, <2>1, <4>1, <5>1 DEF IsProgress
      <4>2. CASE w \notin DOMAIN silver[t]
        <5>1. w = Len(silver[t]) + 1
          BY <1>2, <3>2, <3>3, <4>2
        <5>. QED BY <1>2, <3>1, <5>1
      <4>. QED BY <4>1, <4>2
    <3>4. v \in DOMAIN new /\ new[v].fed > 0
      <4>1. v \in DOMAIN silver[t] /\ v \in DOMAIN new
        BY <1>2, <2>1
      <4>2. new[v] = silver[t][v]
        BY <1>2, <4>1
      <4>. QED BY <3>2, <4>1, <4>2
    <3>5. IsProgress(new, v)
      BY <3>3, <3>4 DEF IsProgress
    <3>. QED BY <3>4, <3>5
  <2>. QED BY <2>2, <2>3
<1>9. TypeOK'
  <2>1. \A u \in Sources : \A v \in DOMAIN silver'[u] : /\ silver'[u][v].upTo \in 0..events[u]
                                                        /\ silver'[u][v].fed \in 0..Len(bronze[u])
    BY <1>8 DEF ReleaseInv, TypeOK
  <2>2. run'.phase \in RunPhases
    BY DEF Runs
  <2>3. release # NoRelease => \A u \in Sources : release.silver[u] \in DOMAIN silver'[u]
    BY <1>7 DEF ReleaseInv, TypeOK
  <2>4. TypeOK
    BY DEF ReleaseInv
  <2>5. /\ events \in [Sources -> 0..MaxEvents]
        /\ \A u \in Sources : \A v \in DOMAIN bronze[u] : bronze[u][v] \in 0..events[u]
        /\ \A v \in DOMAIN history : /\ history[v].upTo \in 0..events["app_users"]
                                     /\ history[v].fed \in 0..Len(bronze["app_users"])
        /\ \A g \in GoldTables : \A v \in DOMAIN gold[g] :
             gold[g][v].upTo \in 0..MaxEvents /\ gold[g][v].passed \in BOOLEAN
        /\ checkpoint \in 0..Len(history)
        /\ release # NoRelease => \A g \in GoldTables : release.gold[g] \in DOMAIN gold[g]
        /\ lock \in {"free", "batch", "other"}
        /\ build.phase \in BuildPhases /\ build.substantive \subseteq Sources
    BY <2>4 DEF TypeOK
  <2>. QED BY <2>1, <2>2, <2>3, <2>5 DEF TypeOK
<1>10. Shapes'
  <2>1. Shapes
    BY DEF ReleaseInv
  <2>2. \A u \in Sources : silver'[u] # <<>>
    BY <1>2, <1>6, <2>1 DEF Shapes
  <2>3. disturbances' \in Nat
    BY GoldReleaseAssumption
  <2>. QED BY <1>6, <2>1, <2>2, <2>3 DEF Shapes
<1>11. SilverLogs'
  <2>. SUFFICES ASSUME NEW u \in Sources
                PROVE  /\ Growing(silver'[u]) /\ \E v \in DOMAIN silver'[u] : IsProgress(silver'[u], v)
                       /\ \A v \in DOMAIN silver'[u] : silver'[u][v].fed > 0 =>
                            bronze[u][silver'[u][v].fed] <= silver'[u][v].upTo
    BY DEF SilverLogs, Fed, Growing, IsProgress
  <2>1. Growing(silver'[u])
    BY <1>3, <1>6 DEF ReleaseInv, SilverLogs
  <2>2. \A v \in DOMAIN silver'[u] : silver'[u][v].fed > 0 =>
            bronze[u][silver'[u][v].fed] <= silver'[u][v].upTo
    BY <1>8, SilverShowsBronze
  <2>3. \E v \in DOMAIN silver'[u] : IsProgress(silver'[u], v)
    <3>1. PICK v \in DOMAIN silver[u] : IsProgress(silver[u], v)
      BY DEF ReleaseInv, SilverLogs
    <3>2. CASE u # t
      BY <1>6, <3>1, <3>2
    <3>3. CASE u = t
      BY <1>6, <3>1, <3>3, <1>8a
    <3>. QED BY <3>2, <3>3
  <2>. QED BY <2>1, <2>2, <2>3
<1>12. HistoryLog'
  <2>1. Latest(silver'["app_users"]).upTo <= Latest(history).upTo
    BY <1>2, <1>6, LatestHistory DEF Sources
  <2>. QED BY <2>1 DEF ReleaseInv, HistoryLog, Fed, Growing, Latest
<1>13. GoldLogs'
  <2>1. ASSUME gold["fact_sales"] # <<>>
        PROVE  Latest(gold["fact_sales"]).upTo <= Latest(silver'["orders"]).upTo
    <3>1. Latest(gold["fact_sales"]).upTo <= Latest(silver["orders"]).upTo
      BY <2>1 DEF ReleaseInv, GoldLogs
    <3>2. Latest(gold["fact_sales"]).upTo \in Nat /\ Latest(silver["orders"]).upTo \in Nat
      BY <2>1, LatestGold, LatestSilver DEF GoldTables, Sources
    <3>3. CASE t = "orders"
      <4>1. Latest(silver'["orders"]) = c /\ Latest(silver["orders"]).upTo <= c.upTo
        BY <1>2, <1>6, <3>3
      <4>. QED BY <1>1, <3>1, <3>2, <4>1
    <3>4. CASE t # "orders"
      BY <1>6, <3>1, <3>4 DEF Sources
    <3>. QED BY <3>3, <3>4
  <2>. QED BY <2>1 DEF ReleaseInv, GoldLogs, Growing, Latest
<1>14. CheckpointShown'
  BY DEF ReleaseInv, CheckpointShown, DimensionShows, Latest
<1>15. ReleaseShowsItsSilver'
  <2>. SUFFICES ASSUME release # NoRelease
                PROVE  /\ ShownBy(release, "dim_customer") >= silver'["app_users"][release.silver["app_users"]].upTo
                       /\ ShownBy(release, "fact_sales") >= silver'["orders"][release.silver["orders"]].upTo
    BY DEF ReleaseShowsItsSilver, ShownBy
  <2>1. \A u \in Sources : silver'[u][release.silver[u]] = silver[u][release.silver[u]]
    BY <1>7 DEF ReleaseInv, TypeOK
  <2>. QED BY <2>1 DEF ReleaseInv, ReleaseShowsItsSilver, Sources
<1>16. BronzeLog'
  BY DEF ReleaseInv, BronzeLog
<1>. QED BY <1>9, <1>10, <1>11, <1>12, <1>13, <1>14, <1>15, <1>16

(* Versions of Silver and Bronze that exist keep their content. *)
LEMMA SilverContentStays ==
    ASSUME ReleaseInv, NEW t \in Sources, NEW c \in Commits,
           silver' = [silver EXCEPT ![t] = Append(@, c)]
    PROVE  /\ silver'[t] = Append(silver[t], c) /\ Len(silver'[t]) = Len(silver[t]) + 1
           /\ silver'[t][Len(silver[t]) + 1] = c
           /\ \A u \in Sources : /\ Len(silver[u]) \in Nat /\ Len(silver'[u]) \in Nat
                                 /\ Len(silver[u]) <= Len(silver'[u])
                                 /\ u # t => silver'[u] = silver[u]
                                 /\ \A v \in 1..Len(silver[u]) : silver'[u][v] = silver[u][v]
<1>1. silver \in [Sources -> Seq(Commits)]
  BY DEF ReleaseInv, Shapes
<1>2. \A u \in Sources : silver'[u] = IF u = t THEN Append(silver[t], c) ELSE silver[u]
  BY <1>1
<1>3. /\ Len(Append(silver[t], c)) = Len(silver[t]) + 1 /\ Append(silver[t], c)[Len(silver[t]) + 1] = c
      /\ \A v \in 1..Len(silver[t]) : Append(silver[t], c)[v] = silver[t][v]
  BY <1>1, AppendLog
<1>4. \A u \in Sources : Len(silver[u]) \in Nat
  BY LatestSilver
<1>5. silver'[t] = Append(silver[t], c)
  BY <1>2
<1>6. ASSUME NEW u \in Sources
      PROVE  /\ Len(silver[u]) \in Nat /\ Len(silver'[u]) \in Nat
             /\ Len(silver[u]) <= Len(silver'[u])
             /\ u # t => silver'[u] = silver[u]
             /\ \A v \in 1..Len(silver[u]) : silver'[u][v] = silver[u][v]
  <2>1. CASE u = t
    BY <1>3, <1>4, <1>5, <2>1
  <2>2. CASE u # t
    BY <1>2, <1>4, <2>2
  <2>. QED BY <2>1, <2>2
<1>. QED BY <1>3, <1>5, <1>6

LEMMA FedVersionIs ==
    ASSUME NEW log \in Seq(Commits), NEW v, IsProgress(log, v)
    PROVE  v = CHOOSE w \in DOMAIN log : log[w].fed > 0 /\ \A x \in (w + 1)..Len(log) : log[x].fed = 0
<1>. DEFINE w == CHOOSE w \in DOMAIN log : log[w].fed > 0 /\ \A x \in (w + 1)..Len(log) : log[x].fed = 0
<1>1. IsProgress(log, w)
  BY DEF IsProgress
<1>. QED BY <1>1, ProgressIsUnique

(* A commit of the CDC callback does not change the batch progress. *)
LEMMA StreamKeepsProgress ==
    ASSUME ReleaseInv, NEW t \in Sources, NEW c \in Commits, c.fed = 0,
           silver' = [silver EXCEPT ![t] = Append(@, c)]
    PROVE  \A u \in Sources : Progress(u)' = Progress(u)
<1>1. SUFFICES ASSUME NEW u \in Sources PROVE Progress(u)' = Progress(u)
  OBVIOUS
<1>2. CASE u # t
  BY <1>2, SilverContentStays DEF Progress, ProgressVersion
<1>3. CASE u = t
  <2>. DEFINE v == ProgressVersion(t)
              new == Append(silver[t], c)
  <2>1. silver[t] \in Seq(Commits) /\ silver'[t] = new
    BY LatestSilver, SilverContentStays
  <2>2. IsProgress(silver[t], v) /\ Progress(t) = silver[t][v].fed
    BY ProgressExists DEF ReleaseInv
  <2>. HIDE DEF v
  <2>3. /\ new \in Seq(Commits) /\ Len(silver[t]) \in Nat /\ Len(new) = Len(silver[t]) + 1
        /\ DOMAIN silver[t] = 1..Len(silver[t]) /\ DOMAIN new = 1..Len(silver[t]) + 1
        /\ \A w \in DOMAIN silver[t] : new[w] = silver[t][w]
        /\ new[Len(silver[t]) + 1] = c
    BY <2>1, AppendLog
  <2>. HIDE DEF new
  <2>4. v \in DOMAIN silver[t] /\ v \in Nat /\ v <= Len(silver[t]) /\ silver[t][v].fed > 0
    BY <2>2, <2>3 DEF IsProgress
  <2>5. ASSUME NEW w \in (v + 1)..Len(new)
        PROVE  new[w].fed = 0
    <3>1. CASE w \in DOMAIN silver[t]
      <4>1. w \in (v + 1)..Len(silver[t])
        BY <2>3, <2>4, <2>5, <3>1
      <4>. QED BY <2>2, <2>3, <3>1, <4>1 DEF IsProgress
    <3>2. CASE w \notin DOMAIN silver[t]
      <4>1. w = Len(silver[t]) + 1
        BY <2>3, <2>4, <2>5, <3>2
      <4>. QED BY <2>3, <4>1
    <3>. QED BY <3>1, <3>2
  <2>6. IsProgress(new, v) /\ new[v] = silver[t][v]
    BY <2>3, <2>4, <2>5 DEF IsProgress
  <2>7. ProgressVersion(t)' = v
    BY <2>1, <2>3, <2>6, FedVersionIs DEF ProgressVersion
  <2>. QED BY <1>3, <2>1, <2>2, <2>6, <2>7 DEF Progress
<1>. QED BY <1>2, <1>3

LEMMA StreamMergeKeepsInv ==
    ASSUME ReleaseInv, NEW t \in Sources, StreamMerge(t)
    PROVE  ReleaseInv'
<1>1. PICK upTo \in Latest(silver[t]).upTo..events[t] :
        /\ t = "app_users" => \E v \in DOMAIN history : history[v].upTo = upTo
        /\ silver' = [silver EXCEPT ![t] = Append(@, [upTo |-> upTo, fed |-> 0])]
  BY DEF StreamMerge
<1>2. /\ lock = "free" /\ disturbances < MaxDisturbances /\ disturbances' = disturbances + 1
      /\ UNCHANGED <<events, bronze, history, gold, checkpoint, release, lock, run, build>>
  BY DEF StreamMerge
<1>. DEFINE c == [upTo |-> upTo, fed |-> 0]
<1>3. upTo \in Nat /\ upTo \in 0..events[t] /\ Latest(silver[t]).upTo <= upTo
  BY <1>1, LatestSilver
<1>4. /\ c \in Commits /\ c.upTo = upTo /\ c.fed = 0
      /\ t = "app_users" => upTo <= Latest(history).upTo
  BY <1>1, <1>3, HistoryHolds DEF Commits
<1>5. silver' = [silver EXCEPT ![t] = Append(@, c)]
  BY <1>1
<1>. HIDE DEF c
<1>6. build.phase = "none" /\ run.phase # "gold"
  BY <1>2 DEF ReleaseInv, Holders
<1>7. disturbances' \in 0..MaxDisturbances /\ 0 \in 0..Len(bronze[t])
  BY <1>2, Pointers, GoldReleaseAssumption
<1>8. \A u \in Sources : run.silverTo[u] \in 0..Len(silver'[u])
  BY <1>4, <1>5, Pointers, SilverContentStays
<1>9. run' \in Runs /\ \A u \in Sources : run'.bronzeTo[u] \in 0..Len(bronze[u]) /\ run'.silverTo[u] \in 0..Len(silver'[u])
  BY <1>2, <1>8, Pointers
<1>10. /\ TypeOK' /\ Shapes' /\ BronzeLog' /\ SilverLogs' /\ HistoryLog' /\ GoldLogs'
       /\ CheckpointShown' /\ ReleaseShowsItsSilver'
  <2>1. /\ Latest(silver[t]).upTo <= c.upTo /\ c.upTo \in 0..events[t]
        /\ c.fed \in 0..Len(bronze[t]) /\ ~(c.fed > 0)
        /\ t = "app_users" => c.upTo <= Latest(history).upTo
    BY <1>3, <1>4, <1>7
  <2>. QED BY <1>2, <1>4, <1>5, <1>7, <1>9, <2>1, SilverAppends
<1>11. Holders' /\ build'.phase = "none"
  BY <1>2, <1>6 DEF ReleaseInv, Holders
<1>12. Manifest'
  <2>1. \A u \in Sources : run.silverTo[u] > 0 => silver'[u][run.silverTo[u]] = silver[u][run.silverTo[u]]
    BY <1>4, <1>5, Pointers, SilverContentStays
  <2>. QED BY <1>2, <1>6, <2>1 DEF ReleaseInv, Manifest, HasManifest
<1>13. SupersededRunCompletes' /\ SucceededRunIsReleased'
  BY <1>2 DEF ReleaseInv, SupersededRunCompletes, SucceededRunIsReleased, Delivered, ShownBy
<1>14. SkippedRunIsReleased'
  <2>1. SilverHasBronze' => SilverHasBronze
    BY <1>2, <1>4, <1>5, StreamKeepsProgress DEF SilverHasBronze
  <2>. QED BY <1>2, <2>1 DEF ReleaseInv, SkippedRunIsReleased, Delivered, ShownBy
<1>. QED BY <1>10, <1>11, <1>12, <1>13, <1>14 DEF ReleaseInv

LEMMA BronzeOf ==
    ASSUME ReleaseInv, NEW t \in Sources
    PROVE  /\ bronze[t] \in Seq(Nat) /\ DOMAIN bronze[t] = 1..Len(bronze[t]) /\ Len(bronze[t]) \in Nat \ {0}
           /\ Latest(bronze[t]) = bronze[t][Len(bronze[t])]
           /\ \A v \in 1..Len(bronze[t]) : bronze[t][v] \in Nat /\ bronze[t][v] \in 0..events[t]
           /\ \A v, w \in 1..Len(bronze[t]) : v <= w => bronze[t][v] <= bronze[t][w]
<1>1. bronze[t] \in Seq(Nat) /\ bronze[t] # <<>>
  BY DEF ReleaseInv, Shapes
<1>2. DOMAIN bronze[t] = 1..Len(bronze[t])
  BY <1>1, LatestExists
<1>. QED BY <1>1, <1>2, LatestExists DEF ReleaseInv, TypeOK, BronzeLog

LEMMA RunReachesSilver ==
    ASSUME NEW r \in Runs, NEW t \in Sources, NEW n \in Nat
    PROVE  LET q == [r EXCEPT !.silverTo[t] = n]
           IN  /\ q \in Runs /\ q.phase = r.phase /\ q.bronzeTo = r.bronzeTo
               /\ q.silverTo = [r.silverTo EXCEPT ![t] = n]
  BY DEF Runs

LEMMA RunReachesBronze ==
    ASSUME NEW r \in Runs, NEW t \in Sources, NEW n \in Nat
    PROVE  LET q == [r EXCEPT !.bronzeTo[t] = n, !.quiet = FALSE]
           IN  /\ q \in Runs /\ q.phase = r.phase /\ q.silverTo = r.silverTo /\ q.full = r.full
               /\ q.bronzeTo = [r.bronzeTo EXCEPT ![t] = n]
  BY DEF Runs

LEMMA MergeSilverKeepsInv ==
    ASSUME ReleaseInv, NEW t \in Sources, MergeSilver(t)
    PROVE  ReleaseInv'
<1>. DEFINE version == run.bronzeTo[t]
            to == AtLeast(bronze[t][version], Latest(silver[t]).upTo)
            c == [upTo |-> to, fed |-> version]
<1>1. /\ run.phase = "silver" /\ run.silverTo[t] = 0
      /\ t = "app_users" => HistoryHas(version)
      /\ silver' = [silver EXCEPT ![t] = Append(@, c)]
      /\ run' = [run EXCEPT !.silverTo[t] = Len(silver[t]) + 1]
      /\ UNCHANGED <<events, bronze, history, gold, checkpoint, release, lock, build, disturbances>>
  BY DEF MergeSilver
<1>2. version \in 1..Len(bronze[t]) /\ version \in Nat \ {0} /\ version \in 0..Len(bronze[t])
  <2>1. version > 0
    BY <1>1 DEF ReleaseInv, Manifest
  <2>. QED BY <2>1, Pointers
<1>3. /\ bronze[t][version] \in Nat /\ bronze[t][version] \in 0..events[t]
      /\ Latest(silver[t]).upTo \in Nat /\ Latest(silver[t]).upTo \in 0..events[t]
  BY <1>2, BronzeOf, LatestSilver
<1>4. /\ to \in {bronze[t][version], Latest(silver[t]).upTo} /\ to \in Nat
      /\ bronze[t][version] <= to /\ Latest(silver[t]).upTo <= to
  BY <1>3, AtLeastIsMax
<1>5. t = "app_users" => to <= Latest(history).upTo
  <2>. SUFFICES ASSUME t = "app_users" PROVE to <= Latest(history).upTo
    OBVIOUS
  <2>1. PICK v \in DOMAIN history : history[v].fed >= version
    BY <1>1 DEF HistoryHas
  <2>2. /\ history[v].fed \in 1..Len(bronze[t]) /\ bronze[t][history[v].fed] <= history[v].upTo
        /\ history[v].upTo <= Latest(history).upTo /\ history[v].upTo \in Nat
        /\ Latest(history).upTo \in Nat
    BY <1>2, <2>1, HistoryHolds, LatestHistory
  <2>3. bronze[t][version] <= bronze[t][history[v].fed] /\ bronze[t][history[v].fed] \in Nat
    BY <1>2, <2>1, <2>2, BronzeOf
  <2>4. Latest(silver[t]).upTo <= Latest(history).upTo
    BY LatestHistory
  <2>5. bronze[t][version] <= Latest(history).upTo
    BY <1>3, <2>2, <2>3
  <2>. HIDE DEF to, version
  <2>. QED BY <1>4, <2>4, <2>5
<1>. HIDE DEF to
<1>6. /\ c \in Commits /\ c.upTo = to /\ c.fed = version /\ to \in 0..events[t]
  BY <1>2, <1>3, <1>4 DEF Commits
<1>. HIDE DEF c
<1>7. /\ run' \in Runs /\ run'.phase = "silver" /\ run'.bronzeTo = run.bronzeTo
      /\ run'.silverTo = [run.silverTo EXCEPT ![t] = Len(silver[t]) + 1]
  <2>1. Len(silver[t]) + 1 \in Nat /\ run \in Runs
    BY Pointers
  <2>2. LET q == [run EXCEPT !.silverTo[t] = Len(silver[t]) + 1]
        IN  /\ q \in Runs /\ q.phase = run.phase /\ q.bronzeTo = run.bronzeTo
            /\ q.silverTo = [run.silverTo EXCEPT ![t] = Len(silver[t]) + 1]
    BY <2>1, RunReachesSilver
  <2>. QED BY <1>1, <2>2
<1>8. \A u \in Sources : run'.silverTo[u] = IF u = t THEN Len(silver[t]) + 1 ELSE run.silverTo[u]
  BY <1>7, Pointers DEF Runs
<1>9. \A u \in Sources : /\ run'.bronzeTo[u] \in 0..Len(bronze[u])
                         /\ run'.silverTo[u] \in 0..Len(silver'[u])
  <2>. SUFFICES ASSUME NEW u \in Sources PROVE run'.silverTo[u] \in 0..Len(silver'[u])
    BY <1>7, Pointers
  <2>1. /\ run.silverTo[u] \in 0..Len(silver[u]) /\ Len(silver[u]) \in Nat /\ Len(silver'[u]) \in Nat
        /\ Len(silver[u]) <= Len(silver'[u]) /\ Len(silver'[t]) = Len(silver[t]) + 1
    BY <1>1, <1>6, Pointers, SilverContentStays
  <2>. QED BY <1>8, <2>1
<1>10. /\ TypeOK' /\ Shapes' /\ BronzeLog' /\ SilverLogs' /\ HistoryLog' /\ GoldLogs'
       /\ CheckpointShown' /\ ReleaseShowsItsSilver'
  <2>1. /\ Latest(silver[t]).upTo <= c.upTo /\ c.upTo \in 0..events[t]
        /\ c.fed \in 0..Len(bronze[t]) /\ bronze[t][c.fed] <= c.upTo
        /\ t = "app_users" => c.upTo <= Latest(history).upTo
    BY <1>2, <1>4, <1>5, <1>6
  <2>2. disturbances' \in 0..MaxDisturbances
    BY <1>1, Pointers
  <2>. QED BY <1>1, <1>6, <1>7, <1>9, <2>1, <2>2, SilverAppends
<1>11. Holders' /\ build'.phase = "none"
  BY <1>1, <1>7 DEF ReleaseInv, Holders
<1>12. Manifest'
  <2>1. ASSUME NEW u \in Sources, run'.silverTo[u] > 0
        PROVE  run'.bronzeTo[u] > 0 /\ bronze[u][run'.bronzeTo[u]] <= silver'[u][run'.silverTo[u]].upTo
    <3>1. CASE u = t
      <4>1. run'.silverTo[t] = Len(silver[t]) + 1 /\ silver'[t][Len(silver[t]) + 1] = c
        BY <1>1, <1>6, <1>8, SilverContentStays
      <4>. QED BY <1>2, <1>4, <1>6, <1>7, <3>1, <4>1
    <3>2. CASE u # t
      <4>1. silver'[u] = silver[u] /\ run'.silverTo[u] = run.silverTo[u]
        BY <1>1, <1>6, <1>8, <3>2, SilverContentStays
      <4>. QED BY <1>7, <2>1, <4>1 DEF ReleaseInv, Manifest
    <3>. QED BY <3>1, <3>2
  <2>2. \A u \in Sources : run'.bronzeTo[u] > 0
    BY <1>1, <1>7 DEF ReleaseInv, Manifest
  <2>. QED BY <1>1, <1>7, <2>1, <2>2 DEF Manifest, HasManifest
<1>. QED BY <1>7, <1>10, <1>11, <1>12
  DEF ReleaseInv, SupersededRunCompletes, SucceededRunIsReleased, SkippedRunIsReleased

LEMMA ExtractKeepsInv ==
    ASSUME ReleaseInv, NEW t \in Sources, ExtractTable(t)
    PROVE  ReleaseInv'
<1>1. /\ run.phase = "bronze" /\ run.bronzeTo[t] = 0
      /\ UNCHANGED <<events, silver, history, gold, checkpoint, release, lock, build, disturbances>>
  BY DEF ExtractTable
<1>2. run.silverTo[t] = 0
  <2>1. run.silverTo[t] \in Nat /\ ~(run.bronzeTo[t] > 0)
    BY <1>1, Pointers
  <2>. QED BY <2>1 DEF ReleaseInv, Manifest
<1>3. CASE UNCHANGED bronze /\ run' = [run EXCEPT !.bronzeTo[t] = Len(bronze[t])]
  <2>1. /\ run' \in Runs /\ run'.phase = "bronze" /\ run'.silverTo = run.silverTo /\ run'.full = run.full
        /\ run'.bronzeTo = [run.bronzeTo EXCEPT ![t] = Len(bronze[t])]
    BY <1>1, <1>3, Pointers DEF Runs
  <2>2. \A u \in Sources : run'.bronzeTo[u] = IF u = t THEN Len(bronze[t]) ELSE run.bronzeTo[u]
    BY <2>1, Pointers DEF Runs
  <2>3. \A u \in Sources : /\ run'.bronzeTo[u] \in 0..Len(bronze[u])
                           /\ run'.silverTo[u] \in 0..Len(silver[u])
    BY <2>1, <2>2, Pointers
  <2>4. /\ TypeOK' /\ Shapes' /\ BronzeLog' /\ SilverLogs' /\ HistoryLog' /\ GoldLogs'
        /\ CheckpointShown' /\ ReleaseShowsItsSilver'
    BY <1>1, <1>3, <2>1, <2>3, Pointers, ControlStep DEF tables
  <2>5. Holders'
    BY <1>1, <2>1 DEF ReleaseInv, Holders
  <2>6. build'.phase # "none" => Building'
    BY <1>1, <2>1 DEF ReleaseInv, Building, Candidate, Kept, Claimed
  <2>7. Manifest'
    BY <1>1, <1>2, <1>3, <2>1, <2>2 DEF ReleaseInv, Manifest, HasManifest
  <2>. QED BY <2>1, <2>4, <2>5, <2>6, <2>7
    DEF ReleaseInv, SupersededRunCompletes, SucceededRunIsReleased, SkippedRunIsReleased
<1>4. ASSUME NEW upTo \in (Latest(bronze[t]) + 1)..events[t],
             bronze' = [bronze EXCEPT ![t] = Append(@, upTo)],
             run' = [run EXCEPT !.bronzeTo[t] = Len(bronze[t]) + 1, !.quiet = FALSE]
      PROVE  ReleaseInv'
  <2>. DEFINE new == Append(bronze[t], upTo)
  <2>1. /\ bronze \in [Sources -> Seq(Nat)] /\ upTo \in Nat /\ upTo \in 0..events[t]
        /\ Latest(bronze[t]) \in Nat /\ Latest(bronze[t]) <= upTo
    <3>1. Latest(bronze[t]) \in Nat /\ events[t] \in Nat
      BY BronzeOf, LatestSilver
    <3>2. bronze \in [Sources -> Seq(Nat)]
      BY DEF ReleaseInv, Shapes
    <3>3. upTo \in Nat /\ upTo \in 0..events[t] /\ Latest(bronze[t]) <= upTo
      BY <1>4, <3>1
    <3>. QED BY <3>1, <3>2, <3>3
  <2>2. /\ new \in Seq(Nat) /\ new # <<>> /\ Len(bronze[t]) \in Nat /\ Len(new) = Len(bronze[t]) + 1
        /\ DOMAIN new = 1..Len(bronze[t]) + 1
        /\ \A v \in 1..Len(bronze[t]) : new[v] = bronze[t][v]
        /\ new[Len(bronze[t]) + 1] = upTo
    <3>1. bronze[t] \in Seq(Nat) /\ upTo \in Nat
      BY <2>1
    <3>. QED BY <3>1, AppendLog
  <2>. HIDE DEF new
  <2>3. /\ bronze' \in [Sources -> Seq(Nat)] /\ bronze'[t] = new
        /\ \A u \in Sources : u # t => bronze'[u] = bronze[u]
    BY <1>4, <2>1, <2>2 DEF new
  <2>4. /\ run' \in Runs /\ run'.phase = "bronze" /\ run'.silverTo = run.silverTo /\ run'.full = run.full
        /\ run'.bronzeTo = [run.bronzeTo EXCEPT ![t] = Len(bronze[t]) + 1]
    <3>1. Len(bronze[t]) + 1 \in Nat /\ run \in Runs
      BY Pointers
    <3>. DEFINE n == Len(bronze[t]) + 1
                q == [run EXCEPT !.bronzeTo[t] = n, !.quiet = FALSE]
    <3>. HIDE DEF n
    <3>2. /\ q \in Runs /\ q.phase = run.phase /\ q.silverTo = run.silverTo /\ q.full = run.full
          /\ q.bronzeTo = [run.bronzeTo EXCEPT ![t] = n]
      BY <3>1, RunReachesBronze DEF n
    <3>3. run' = q
      BY <1>4 DEF n
    <3>. HIDE DEF q
    <3>. QED BY <1>1, <3>2, <3>3 DEF n
  <2>5. \A u \in Sources : run'.bronzeTo[u] = IF u = t THEN Len(bronze[t]) + 1 ELSE run.bronzeTo[u]
    BY <2>4, Pointers DEF Runs
  <2>6. ASSUME NEW u \in Sources
        PROVE  /\ Len(bronze[u]) \in Nat /\ Len(bronze'[u]) \in Nat
               /\ Len(bronze[u]) <= Len(bronze'[u])
               /\ \A v \in 1..Len(bronze[u]) : bronze'[u][v] = bronze[u][v]
    <3>1. CASE u = t
      <4>1. bronze'[u] = new /\ Len(bronze'[u]) = Len(bronze[u]) + 1
        BY <2>2, <2>3, <3>1
      <4>. QED BY <2>2, <3>1, <4>1
    <3>2. CASE u # t
      BY <2>3, <3>2, BronzeOf
    <3>. QED BY <3>1, <3>2
  <2>7. TypeOK'
    <3>1. \A u \in Sources : \A v \in DOMAIN bronze'[u] : bronze'[u][v] \in 0..events[u]
      <4>. SUFFICES ASSUME NEW u \in Sources, NEW v \in DOMAIN bronze'[u]
                    PROVE  bronze'[u][v] \in 0..events[u]
        OBVIOUS
      <4>1. CASE u # t
        BY <2>3, <4>1, BronzeOf
      <4>2. CASE u = t
        <5>1. v \in 1..Len(bronze[t]) \/ v = Len(bronze[t]) + 1
          BY <2>2, <2>3, <4>2
        <5>. QED BY <2>1, <2>2, <2>3, <4>2, <5>1, BronzeOf
      <4>. QED BY <4>1, <4>2
    <3>2. \A u \in Sources : \A v \in DOMAIN silver[u] : /\ silver[u][v].upTo \in 0..events[u]
                                                         /\ silver[u][v].fed \in 0..Len(bronze'[u])
      <4>1. \A u \in Sources : \A v \in DOMAIN silver[u] : /\ silver[u][v].upTo \in 0..events[u]
                                                           /\ silver[u][v].fed \in 0..Len(bronze[u])
        BY DEF ReleaseInv, TypeOK
      <4>. QED BY <2>6, <4>1
    <3>3. \A v \in DOMAIN history : history[v].fed \in 0..Len(bronze'["app_users"])
      BY <2>6, HistoryHolds DEF Sources
    <3>4. \A u \in Sources : run'.bronzeTo[u] \in 0..Len(bronze'[u])
      <4>1. \A u \in Sources : u # t => run'.bronzeTo[u] \in 0..Len(bronze'[u])
        BY <2>3, <2>5, Pointers
      <4>2. run'.bronzeTo[t] \in 0..Len(bronze'[t])
        BY <2>2, <2>3, <2>5
      <4>. QED BY <4>1, <4>2
    <3>5. run'.phase \in RunPhases
      BY <2>4 DEF Runs
    <3>. QED BY <1>1, <2>4, <3>1, <3>2, <3>3, <3>4, <3>5 DEF ReleaseInv, TypeOK
  <2>8. Shapes'
    <3>1. \A u \in Sources : bronze'[u] # <<>>
      BY <2>2, <2>3 DEF ReleaseInv, Shapes
    <3>. QED BY <1>1, <2>3, <2>4, <3>1 DEF ReleaseInv, Shapes
  <2>9. BronzeLog'
    <3>. SUFFICES ASSUME NEW u \in Sources, NEW v \in DOMAIN bronze'[u], NEW w \in DOMAIN bronze'[u], v <= w
                  PROVE  bronze'[u][v] <= bronze'[u][w]
      BY DEF BronzeLog
    <3>1. CASE u # t
      BY <2>3, <3>1, BronzeOf
    <3>2. CASE u = t /\ w \in 1..Len(bronze[t])
      <4>1. v \in 1..Len(bronze[t])
        BY <2>2, <2>3, <3>2
      <4>. QED BY <2>2, <2>3, <3>2, <4>1, BronzeOf
    <3>3. CASE u = t /\ w \notin 1..Len(bronze[t])
      <4>1. w = Len(bronze[t]) + 1 /\ (v = w \/ v \in 1..Len(bronze[t]))
        BY <2>2, <2>3, <3>3
      <4>2. \A i \in 1..Len(bronze[t]) : bronze[t][i] \in Nat /\ bronze[t][i] <= Latest(bronze[t])
        BY BronzeOf
      <4>3. bronze'[u][w] = upTo
        BY <2>2, <2>3, <3>3, <4>1
      <4>4. CASE v = w
        BY <2>1, <4>3, <4>4
      <4>5. CASE v \in 1..Len(bronze[t])
        <5>1. bronze'[u][v] = bronze[t][v]
          BY <2>2, <2>3, <3>3, <4>5
        <5>2. bronze[t][v] \in Nat /\ bronze[t][v] <= Latest(bronze[t])
          BY <4>2, <4>5
        <5>. QED BY <2>1, <4>3, <5>1, <5>2
      <4>. QED BY <4>1, <4>4, <4>5
    <3>. QED BY <3>1, <3>2, <3>3
  <2>10. \A u \in Sources : \A v \in DOMAIN silver[u] : silver[u][v].fed > 0 =>
            bronze'[u][silver[u][v].fed] <= silver[u][v].upTo
    <3>1. \A u \in Sources : \A v \in DOMAIN silver[u] : silver[u][v].fed > 0 =>
            /\ silver[u][v].fed \in 1..Len(bronze[u])
            /\ bronze[u][silver[u][v].fed] <= silver[u][v].upTo
      BY SilverShowsBronze, BronzeOf
    <3>. QED BY <2>6, <3>1
  <2>11. \A v \in DOMAIN history : history[v].fed > 0 =>
            bronze'["app_users"][history[v].fed] <= history[v].upTo
    <3>1. \A v \in DOMAIN history : history[v].fed > 0 =>
            /\ history[v].fed \in 1..Len(bronze["app_users"])
            /\ bronze["app_users"][history[v].fed] <= history[v].upTo
      BY HistoryHolds, BronzeOf DEF Sources
    <3>. QED BY <2>6, <3>1 DEF Sources
  <2>12. SilverLogs' /\ HistoryLog' /\ GoldLogs' /\ CheckpointShown'
    BY <1>1, <2>10, <2>11 DEF ReleaseInv, SilverLogs, HistoryLog, GoldLogs, CheckpointShown, DimensionShows,
       Growing, Fed, IsProgress, Latest
  <2>13. Holders' /\ ReleaseShowsItsSilver'
    BY <1>1, <2>4 DEF ReleaseInv, Holders, ReleaseShowsItsSilver, ShownBy
  <2>14. build'.phase # "none" => Building'
    BY <1>1, <2>4 DEF ReleaseInv, Building, Candidate, Kept, Claimed
  <2>15. Manifest'
    <3>1. ASSUME NEW u \in Sources, run'.silverTo[u] > 0
          PROVE  run'.bronzeTo[u] > 0 /\ bronze'[u][run'.bronzeTo[u]] <= silver[u][run'.silverTo[u]].upTo
      <4>1. u # t
        BY <1>2, <2>4, <3>1
      <4>. QED BY <2>3, <2>4, <2>5, <3>1, <4>1 DEF ReleaseInv, Manifest
    <3>. QED BY <1>1, <2>4, <3>1 DEF Manifest, HasManifest
  <2>. QED BY <2>4, <2>7, <2>8, <2>9, <2>12, <2>13, <2>14, <2>15
    DEF ReleaseInv, SupersededRunCompletes, SucceededRunIsReleased, SkippedRunIsReleased
<1>. QED BY <1>3, <1>4 DEF ExtractTable

--------------------------------------------------------------------------------
(* Steps of the builder: types and logs, whatever it writes to Gold. *)
(* What there is to read for a table. *)
Newest(g) == IF g = "dim_customer" THEN Latest(history).upTo ELSE Latest(silver["orders"]).upTo

LEMMA BuilderStep ==
    ASSUME ReleaseInv, UNCHANGED <<events, bronze, silver, history, disturbances>>,
           gold' \in [GoldTables -> Seq(GoldCommits)],
           \A g \in GoldTables : Growing(gold'[g]),
           \A g \in GoldTables : gold'[g] # <<>> => Latest(gold'[g]).upTo <= Newest(g),
           run' \in Runs, run'.bronzeTo = run.bronzeTo, run'.silverTo = run.silverTo,
           build' \in Builds, lock' \in {"free", "batch", "other"},
           checkpoint' \in 0..Len(history), release' \in Releases \cup {NoRelease},
           release' # NoRelease => /\ \A t \in Sources : release'.silver[t] \in DOMAIN silver[t]
                                   /\ \A g \in GoldTables : release'.gold[g] \in DOMAIN gold'[g]
    PROVE  TypeOK' /\ Shapes' /\ BronzeLog' /\ SilverLogs' /\ HistoryLog' /\ GoldLogs'
<1>1. ASSUME NEW g \in GoldTables, NEW v \in DOMAIN gold'[g]
      PROVE  gold'[g][v].upTo \in 0..MaxEvents /\ gold'[g][v].passed \in BOOLEAN
  <2>1. gold'[g] \in Seq(GoldCommits) /\ Growing(gold'[g])
    OBVIOUS
  <2>2. gold'[g] # <<>> /\ gold'[g][v].upTo <= Latest(gold'[g]).upTo
    BY <2>1, LatestIsGreatest
  <2>3. gold'[g][v] \in GoldCommits /\ Latest(gold'[g]) \in GoldCommits
    BY <2>1, <2>2, LatestExists
  <2>4. /\ gold'[g][v].upTo \in Nat /\ gold'[g][v].passed \in BOOLEAN
        /\ Latest(gold'[g]).upTo \in Nat
    BY <2>3 DEF GoldCommits
  <2>5. Newest(g) \in 0..MaxEvents
    <3>1. Latest(history).upTo \in 0..events["app_users"] /\ Latest(silver["orders"]).upTo \in 0..events["orders"]
      BY LatestHistory, LatestSilver DEF Sources
    <3>2. events["app_users"] \in 0..MaxEvents /\ events["orders"] \in 0..MaxEvents
      BY DEF ReleaseInv, TypeOK, Sources
    <3>. QED BY <3>1, <3>2, GoldReleaseAssumption DEF Newest
  <2>. QED BY <2>2, <2>4, <2>5, GoldReleaseAssumption
<1>2. /\ run'.phase \in RunPhases /\ build'.phase \in BuildPhases /\ build'.substantive \subseteq Sources
      /\ checkpoint' \in Nat
  BY LatestHistory DEF Runs, Builds
<1>3. TypeOK'
  BY <1>1, <1>2 DEF ReleaseInv, TypeOK
<1>4. Shapes'
  BY <1>2 DEF ReleaseInv, Shapes
<1>5. BronzeLog' /\ SilverLogs' /\ HistoryLog'
  BY DEF ReleaseInv, BronzeLog, SilverLogs, HistoryLog, Growing, Fed, IsProgress, Latest
<1>6. GoldLogs'
  BY DEF GoldLogs, Growing, Latest, Newest, GoldTables
<1>. QED BY <1>3, <1>4, <1>5, <1>6

(* Whatever is written, versions keep their content: what the release shows *)
(* stays.                                                                   *)
LEMMA ReleaseStands ==
    ASSUME ReleaseInv, UNCHANGED <<bronze, silver, release, run>>,
           \A g \in GoldTables : \A v \in DOMAIN gold[g] : gold'[g][v].upTo = gold[g][v].upTo
    PROVE  /\ ReleaseShowsItsSilver'
           /\ SupersededRunCompletes' /\ SucceededRunIsReleased' /\ SkippedRunIsReleased'
<1>1. release # NoRelease => \A g \in GoldTables : gold'[g][release.gold[g]].upTo = ShownBy(release, g)
  BY DEF ReleaseInv, TypeOK, ShownBy
<1>2. ReleaseShowsItsSilver'
  BY <1>1 DEF ReleaseInv, ReleaseShowsItsSilver, ShownBy, GoldTables
<1>3. release # NoRelease => (Delivered' <=> Delivered)
  BY <1>1 DEF Delivered, ShownBy, GoldTables
<1>4. SilverHasBronze' <=> SilverHasBronze
  BY DEF SilverHasBronze, Progress, ProgressVersion
<1>. QED BY <1>2, <1>3, <1>4
  DEF ReleaseInv, Manifest, SupersededRunCompletes, SucceededRunIsReleased, SkippedRunIsReleased

LEMMA GoldAppends ==
    ASSUME ReleaseInv, NEW g \in GoldTables, NEW c \in GoldCommits,
           gold[g] # <<>> => Latest(gold[g]).upTo <= c.upTo,
           gold' = [gold EXCEPT ![g] = Append(@, c)]
    PROVE  /\ gold' \in [GoldTables -> Seq(GoldCommits)] /\ \A h \in GoldTables : Growing(gold'[h])
           /\ gold'[g] # <<>> /\ Latest(gold'[g]) = c
           /\ Len(gold[g]) \in Nat /\ Len(gold'[g]) = Len(gold[g]) + 1
           /\ DOMAIN gold'[g] = 1..Len(gold[g]) + 1
           /\ gold'[g][Len(gold[g]) + 1] = c
           /\ \A h \in GoldTables : h # g => gold'[h] = gold[h]
           /\ \A h \in GoldTables : \A v \in DOMAIN gold[h] : v \in DOMAIN gold'[h] /\ gold'[h][v] = gold[h][v]
<1>. DEFINE new == Append(gold[g], c)
<1>1. /\ gold \in [GoldTables -> Seq(GoldCommits)] /\ \A h \in GoldTables : Growing(gold[h])
      /\ \A e \in GoldCommits : e.upTo \in Nat
  BY DEF ReleaseInv, Shapes, GoldLogs, GoldCommits
<1>2. /\ new \in Seq(GoldCommits) /\ new # <<>> /\ Len(gold[g]) \in Nat /\ Len(new) = Len(gold[g]) + 1
      /\ DOMAIN gold[g] = 1..Len(gold[g]) /\ DOMAIN new = 1..Len(gold[g]) + 1
      /\ \A v \in DOMAIN gold[g] : new[v] = gold[g][v]
      /\ new[Len(gold[g]) + 1] = c /\ Latest(new) = c
  BY <1>1, AppendLog
<1>3. Growing(new)
  BY <1>1, AppendGrows
<1>. HIDE DEF new
<1>4. /\ gold' \in [GoldTables -> Seq(GoldCommits)] /\ gold'[g] = new
      /\ \A h \in GoldTables : h # g => gold'[h] = gold[h]
  BY <1>1, <1>2 DEF new
<1>5. \A h \in GoldTables : Growing(gold'[h])
  BY <1>1, <1>3, <1>4
<1>6. \A h \in GoldTables : \A v \in DOMAIN gold[h] : v \in DOMAIN gold'[h] /\ gold'[h][v] = gold[h][v]
  BY <1>2, <1>4
<1>. QED BY <1>2, <1>4, <1>5, <1>6

LEMMA SourceShowsClaim ==
    ASSUME ReleaseInv, build.phase # "none", NEW g \in GoldTables
    PROVE  /\ Claimed(g) \in Nat /\ Claimed(g) <= Newest(g)
           /\ Newest(g) \in Nat
           /\ gold[g] # <<>> => Latest(gold[g]).upTo <= Newest(g)
<1>. DEFINE t == SourceOf(g)
<1>1. t \in Sources /\ build.silver[t] \in DOMAIN silver[t]
  BY DEF SourceOf, Sources, ReleaseInv, Building
<1>2. Claimed(g) \in Nat /\ Claimed(g) <= Latest(silver[t]).upTo /\ Latest(silver[t]).upTo \in Nat
  BY <1>1, SilverShowsBronze, LatestSilver DEF Claimed
<1>3. Latest(silver[t]).upTo <= Newest(g) /\ Newest(g) \in Nat
  <2>1. Latest(silver["app_users"]).upTo <= Latest(history).upTo /\ Latest(history).upTo \in Nat
    BY LatestHistory
  <2>. QED BY <1>2, <2>1 DEF Newest, SourceOf, GoldTables
<1>4. gold[g] # <<>> => Latest(gold[g]).upTo <= Newest(g)
  BY DEF ReleaseInv, GoldLogs, Newest, GoldTables
<1>. QED BY <1>2, <1>3, <1>4

(* What a builder in a phase of its own finds. *)
LEMMA BuilderHolds ==
    ASSUME ReleaseInv, build.phase # "none"
    PROVE  /\ Building /\ lock \in {"batch", "other"} /\ build \in Builds /\ run \in Runs
           /\ checkpoint \in 0..Len(history)
           /\ release \in Releases \cup {NoRelease}
           /\ release # NoRelease => \A t \in Sources : release.silver[t] \in DOMAIN silver[t]
           /\ release # NoRelease => \A g \in GoldTables : release.gold[g] \in DOMAIN gold[g] /\ gold[g] # <<>>
<1>1. lock \in {"batch", "other"}
  BY Pointers DEF ReleaseInv, Holders
<1>2. release # NoRelease => \A g \in GoldTables : release.gold[g] \in DOMAIN gold[g]
  BY DEF ReleaseInv, TypeOK
<1>3. \A g \in GoldTables : gold[g] = <<>> => DOMAIN gold[g] = {}
  OBVIOUS
<1>. QED BY <1>1, <1>2, <1>3 DEF ReleaseInv, TypeOK, Shapes

LEMMA WriteDimensionKeepsInv == ReleaseInv /\ WriteDimension => ReleaseInv'
<1>. SUFFICES ASSUME ReleaseInv, WriteDimension PROVE ReleaseInv'
  OBVIOUS
<1>. DEFINE g == "dim_customer"
            c == [upTo |-> Latest(history).upTo, passed |-> FALSE]
<1>1. /\ build.phase = "dimension"
      /\ UNCHANGED <<events, bronze, silver, history, checkpoint, release, lock, run, disturbances>>
  BY DEF WriteDimension
<1>2. g \in GoldTables /\ build.phase # "none"
  BY <1>1 DEF GoldTables
<1>3. Latest(history).upTo \in Nat /\ Newest(g) = Latest(history).upTo
  BY LatestHistory DEF Newest
<1>4. c \in GoldCommits /\ c.upTo = Latest(history).upTo
  BY <1>3 DEF GoldCommits
<1>. HIDE DEF c
<1>5. CASE /\ gold' = [gold EXCEPT !["dim_customer"] = Append(@, c)]
           /\ build' = [build EXCEPT !.phase = "checkpoint"]
  <2>1. /\ build' \in Builds /\ build'.phase = "checkpoint" /\ build'.silver = build.silver
        /\ build'.substantive = build.substantive /\ build'.changed = build.changed
    BY <1>2, <1>5, BuilderHolds DEF Builds, BuildPhases
  <2>2. gold[g] # <<>> => Latest(gold[g]).upTo <= c.upTo
    BY <1>2, <1>3, <1>4, SourceShowsClaim
  <2>3. /\ gold' \in [GoldTables -> Seq(GoldCommits)] /\ \A h \in GoldTables : Growing(gold'[h])
        /\ gold'[g] # <<>> /\ Latest(gold'[g]) = c
        /\ \A h \in GoldTables : h # g => gold'[h] = gold[h]
        /\ \A h \in GoldTables : \A v \in DOMAIN gold[h] : v \in DOMAIN gold'[h] /\ gold'[h][v] = gold[h][v]
    BY <1>2, <1>4, <1>5, <2>2, GoldAppends
  <2>4. \A h \in GoldTables : gold'[h] # <<>> => Latest(gold'[h]).upTo <= Newest(h)
    BY <1>2, <1>3, <1>4, <2>3, SourceShowsClaim
  <2>5. TypeOK' /\ Shapes' /\ BronzeLog' /\ SilverLogs' /\ HistoryLog' /\ GoldLogs'
    BY <1>1, <1>2, <2>1, <2>3, <2>4, BuilderHolds, BuilderStep
  <2>6. ReleaseShowsItsSilver' /\ SupersededRunCompletes' /\ SucceededRunIsReleased' /\ SkippedRunIsReleased'
    BY <1>1, <2>3, ReleaseStands
  <2>7. CheckpointShown'
    <3>1. checkpoint > 0 => checkpoint \in DOMAIN history
      BY <1>2, BuilderHolds, LatestHistory, HistoryHolds
    <3>2. checkpoint > 0 => history[checkpoint].upTo <= Latest(history).upTo
      BY <3>1, HistoryHolds
    <3>3. history[Len(history)].upTo <= Latest(history).upTo
      BY LatestHistory, HistoryHolds
    <3>4. Latest(gold'["dim_customer"]).upTo = Latest(history).upTo
      BY <1>4, <2>3
    <3>. QED BY <1>1, <2>3, <3>2, <3>3, <3>4 DEF CheckpointShown, DimensionShows, Latest
  <2>8. Holders' /\ Manifest'
    BY <1>1, <2>1 DEF ReleaseInv, Holders, Manifest, HasManifest
  <2>9. Building'
    BY <1>1, <1>2, <2>1, BuilderHolds DEF Building, Kept, Claimed
  <2>. QED BY <2>5, <2>6, <2>7, <2>8, <2>9 DEF ReleaseInv
<1>6. CASE /\ ~IsFull /\ ~(Len(history) > checkpoint) /\ UNCHANGED gold
           /\ build' = [build EXCEPT !.phase = "dimensionQuality"]
  <2>1. /\ build' \in Builds /\ build'.phase = "dimensionQuality" /\ build'.silver = build.silver
        /\ build'.substantive = build.substantive /\ build'.changed = build.changed
    BY <1>2, <1>6, BuilderHolds DEF Builds, BuildPhases
  <2>2. /\ gold \in [GoldTables -> Seq(GoldCommits)] /\ \A h \in GoldTables : Growing(gold[h])
        /\ \A h \in GoldTables : gold[h] # <<>> => Latest(gold[h]).upTo <= Newest(h)
    BY <1>2, SourceShowsClaim DEF ReleaseInv, Shapes, GoldLogs
  <2>3. TypeOK' /\ Shapes' /\ BronzeLog' /\ SilverLogs' /\ HistoryLog' /\ GoldLogs'
    BY <1>1, <1>2, <1>6, <2>1, <2>2, BuilderHolds, BuilderStep
  <2>4. ReleaseShowsItsSilver' /\ SupersededRunCompletes' /\ SucceededRunIsReleased' /\ SkippedRunIsReleased'
    BY <1>1, <1>6, ReleaseStands
  <2>5. checkpoint = Len(history) /\ checkpoint > 0
    BY <1>2, <1>6, BuilderHolds, LatestHistory
  <2>6. CheckpointShown' /\ DimensionShows(Len(history))
    BY <1>1, <1>6, <2>1, <2>5 DEF ReleaseInv, CheckpointShown, DimensionShows, Latest
  <2>7. Holders' /\ Manifest'
    BY <1>1, <2>1 DEF ReleaseInv, Holders, Manifest, HasManifest
  <2>8. Candidate(g)
    <3>1. gold[g] # <<>> /\ Latest(history).upTo <= Latest(gold[g]).upTo
      BY <2>6, LatestHistory DEF DimensionShows
    <3>2. Claimed(g) \in Nat /\ Claimed(g) <= Latest(history).upTo /\ Latest(gold[g]).upTo \in Nat
      BY <1>2, <1>3, <3>1, SourceShowsClaim, LatestGold
    <3>. QED BY <1>3, <3>1, <3>2 DEF Candidate
  <2>9. Building'
    <3>1. build.changed # GoldTables /\ "dim_customer" \in build.changed /\ build.changed \subseteq GoldTables
      BY <1>1, <1>2, <1>6, BuilderHolds DEF IsFull, Building, Builds
    <3>2. "fact_sales" \notin build.changed
      BY <3>1 DEF GoldTables
    <3>. QED BY <1>1, <1>2, <1>6, <2>1, <2>8, <3>1, <3>2, BuilderHolds DEF Building, Kept, Claimed, Candidate, Latest
  <2>. QED BY <2>3, <2>4, <2>6, <2>7, <2>9 DEF ReleaseInv
<1>. QED BY <1>5, <1>6 DEF WriteDimension, c

LEMMA WriteCheckpointKeepsInv == ReleaseInv /\ WriteCheckpoint => ReleaseInv'
<1>. SUFFICES ASSUME ReleaseInv, WriteCheckpoint PROVE ReleaseInv'
  OBVIOUS
<1>. DEFINE phase == IF IsFull THEN "fullFact" ELSE "dimensionQuality"
            g == "dim_customer"
<1>1. /\ build.phase = "checkpoint" /\ checkpoint' = Len(history)
      /\ build' = [build EXCEPT !.phase = phase]
      /\ UNCHANGED <<events, bronze, silver, history, gold, release, lock, run, disturbances>>
  BY DEF WriteCheckpoint, tables
<1>2. /\ IsFull <=> build.changed = GoldTables
      /\ phase \in {"fullFact", "dimensionQuality"} /\ (phase = "fullFact" <=> IsFull)
  BY <1>1 DEF IsFull
<1>. HIDE DEF phase
<1>3. /\ build' \in Builds /\ build'.phase = phase /\ build'.silver = build.silver
      /\ build'.substantive = build.substantive /\ build'.changed = build.changed
  BY <1>1, <1>2, BuilderHolds DEF Builds, BuildPhases
<1>4. /\ gold \in [GoldTables -> Seq(GoldCommits)] /\ \A h \in GoldTables : Growing(gold[h])
      /\ \A h \in GoldTables : gold[h] # <<>> => Latest(gold[h]).upTo <= Newest(h)
  BY <1>1, SourceShowsClaim DEF ReleaseInv, Shapes, GoldLogs
<1>5. checkpoint' \in 0..Len(history)
  BY <1>1, LatestHistory
<1>6. TypeOK' /\ Shapes' /\ BronzeLog' /\ SilverLogs' /\ HistoryLog' /\ GoldLogs'
  BY <1>1, <1>3, <1>4, <1>5, BuilderHolds, BuilderStep
<1>7. ReleaseShowsItsSilver' /\ SupersededRunCompletes' /\ SucceededRunIsReleased' /\ SkippedRunIsReleased'
  BY <1>1, ReleaseStands
<1>8. DimensionShows(Len(history))
  BY <1>1 DEF ReleaseInv, CheckpointShown
<1>9. CheckpointShown'
  BY <1>1, <1>2, <1>3, <1>8 DEF CheckpointShown, DimensionShows, Latest
<1>10. Holders' /\ Manifest'
  BY <1>1, <1>2, <1>3 DEF ReleaseInv, Holders, Manifest, HasManifest
<1>11. Candidate(g)
  <2>1. g \in GoldTables /\ Newest(g) = Latest(history).upTo /\ Latest(history).upTo \in Nat
    BY LatestHistory DEF GoldTables, Newest
  <2>2. gold[g] # <<>> /\ Latest(history).upTo <= Latest(gold[g]).upTo
    BY <1>8, LatestHistory DEF DimensionShows
  <2>3. Claimed(g) \in Nat /\ Claimed(g) <= Latest(history).upTo /\ Latest(gold[g]).upTo \in Nat
    BY <1>1, <2>1, <2>2, SourceShowsClaim, LatestGold
  <2>. QED BY <2>1, <2>2, <2>3 DEF Candidate
<1>12. Building'
  <2>1. "dim_customer" \in build.changed /\ build.changed \subseteq GoldTables
    BY <1>1, BuilderHolds DEF Building, Builds
  <2>2. ~IsFull => "fact_sales" \notin build.changed
    BY <1>2, <2>1 DEF GoldTables
  <2>. QED BY <1>1, <1>2, <1>3, <1>11, <2>1, <2>2, BuilderHolds DEF Building, Kept, Claimed, Candidate, Latest
<1>. QED BY <1>6, <1>7, <1>9, <1>10, <1>12 DEF ReleaseInv

(* Gates that pass mark versions and change nothing else. *)
LEMMA GatesPass ==
    ASSUME ReleaseInv, NEW G \in SUBSET GoldTables, \A g \in G : gold[g] # <<>>,
           gold' = [g \in GoldTables |-> IF g \in G THEN Passed(gold[g]) ELSE gold[g]]
    PROVE  /\ gold' \in [GoldTables -> Seq(GoldCommits)] /\ \A g \in GoldTables : Growing(gold'[g])
           /\ \A g \in GoldTables :
                /\ gold'[g] = <<>> <=> gold[g] = <<>>
                /\ gold[g] # <<>> => Latest(gold'[g]).upTo = Latest(gold[g]).upTo
                /\ DOMAIN gold'[g] = DOMAIN gold[g]
                /\ \A v \in DOMAIN gold[g] : gold'[g][v].upTo = gold[g][v].upTo
<1>1. \A g \in GoldTables : gold[g] \in Seq(GoldCommits) /\ Growing(gold[g])
  BY DEF ReleaseInv, Shapes, GoldLogs
<1>2. ASSUME NEW g \in GoldTables
      PROVE  /\ gold'[g] \in Seq(GoldCommits) /\ Growing(gold'[g])
             /\ gold'[g] = <<>> <=> gold[g] = <<>>
             /\ gold[g] # <<>> => Latest(gold'[g]).upTo = Latest(gold[g]).upTo
             /\ DOMAIN gold'[g] = DOMAIN gold[g]
             /\ \A v \in DOMAIN gold[g] : gold'[g][v].upTo = gold[g][v].upTo
  <2>1. CASE g \in G
    <3>1. gold'[g] = Passed(gold[g]) /\ gold[g] # <<>>
      BY <2>1
    <3>. QED BY <1>1, <3>1, PassedKeepsContent
  <2>2. CASE g \notin G
    BY <1>1, <2>2
  <2>. QED BY <2>1, <2>2
<1>. QED BY <1>2

LEMMA DimensionPassesKeepsInv == ReleaseInv /\ DimensionPasses => ReleaseInv'
<1>. SUFFICES ASSUME ReleaseInv, DimensionPasses PROVE ReleaseInv'
  OBVIOUS
<1>. DEFINE phase == IF "orders" \in build.substantive THEN "fact" ELSE "publish"
            g == "dim_customer"
<1>1. /\ build.phase = "dimensionQuality"
      /\ gold' = [gold EXCEPT !["dim_customer"] = Passed(@)]
      /\ build' = [build EXCEPT !.phase = phase]
      /\ UNCHANGED <<events, bronze, silver, history, checkpoint, release, lock, run, disturbances>>
  BY DEF DimensionPasses
<1>2. /\ phase \in {"fact", "publish"} /\ (phase = "fact" <=> "orders" \in build.substantive)
  OBVIOUS
<1>. HIDE DEF phase
<1>3. /\ build' \in Builds /\ build'.phase = phase /\ build'.silver = build.silver
      /\ build'.substantive = build.substantive /\ build'.changed = build.changed
  BY <1>1, <1>2, BuilderHolds DEF Builds, BuildPhases
<1>4. Candidate(g) /\ g \in GoldTables /\ "dim_customer" \in build.changed /\ "fact_sales" \notin build.changed
  BY <1>1, BuilderHolds DEF Building, GoldTables
<1>5. /\ gold' \in [GoldTables -> Seq(GoldCommits)] /\ \A h \in GoldTables : Growing(gold'[h])
      /\ \A h \in GoldTables :
           /\ gold'[h] = <<>> <=> gold[h] = <<>>
           /\ gold[h] # <<>> => Latest(gold'[h]).upTo = Latest(gold[h]).upTo
           /\ DOMAIN gold'[h] = DOMAIN gold[h]
           /\ \A v \in DOMAIN gold[h] : gold'[h][v].upTo = gold[h][v].upTo
  <2>1. gold' = [h \in GoldTables |-> IF h \in {g} THEN Passed(gold[h]) ELSE gold[h]]
    <3>1. gold \in [GoldTables -> Seq(GoldCommits)]
      BY DEF ReleaseInv, Shapes
    <3>. QED BY <1>1, <3>1
  <2>2. {g} \in SUBSET GoldTables /\ \A h \in {g} : gold[h] # <<>>
    BY <1>4 DEF Candidate
  <2>. QED BY <2>1, <2>2, GatesPass
<1>6. \A h \in GoldTables : gold'[h] # <<>> => Latest(gold'[h]).upTo <= Newest(h)
  BY <1>1, <1>5, SourceShowsClaim
<1>7. release # NoRelease => \A h \in GoldTables : release.gold[h] \in DOMAIN gold'[h]
  BY <1>1, <1>5, BuilderHolds
<1>8. TypeOK' /\ Shapes' /\ BronzeLog' /\ SilverLogs' /\ HistoryLog' /\ GoldLogs'
  BY <1>1, <1>3, <1>5, <1>6, <1>7, BuilderHolds, BuilderStep
<1>9. ReleaseShowsItsSilver' /\ SupersededRunCompletes' /\ SucceededRunIsReleased' /\ SkippedRunIsReleased'
  BY <1>1, <1>5, ReleaseStands
<1>10. CheckpointShown'
  BY <1>1, <1>2, <1>3, <1>4, <1>5 DEF ReleaseInv, CheckpointShown, DimensionShows, Latest
<1>11. Holders' /\ Manifest'
  BY <1>1, <1>2, <1>3 DEF ReleaseInv, Holders, Manifest, HasManifest
<1>12. Candidate(g)'
  BY <1>1, <1>3, <1>4, <1>5 DEF Candidate, Claimed, Latest
<1>13. Building'
  BY <1>1, <1>2, <1>3, <1>4, <1>12, BuilderHolds DEF Building, Kept, Claimed
<1>. QED BY <1>8, <1>9, <1>10, <1>11, <1>13 DEF ReleaseInv

LEMMA FullPassesKeepsInv == ReleaseInv /\ FullPasses => ReleaseInv'
<1>. SUFFICES ASSUME ReleaseInv, FullPasses PROVE ReleaseInv'
  OBVIOUS
<1>1. /\ build.phase = "fullQuality"
      /\ gold' = [g \in GoldTables |-> Passed(gold[g])]
      /\ build' = [build EXCEPT !.phase = "publish"]
      /\ UNCHANGED <<events, bronze, silver, history, checkpoint, release, lock, run, disturbances>>
  BY DEF FullPasses
<1>2. /\ build' \in Builds /\ build'.phase = "publish" /\ build'.silver = build.silver
      /\ build'.substantive = build.substantive /\ build'.changed = build.changed
  BY <1>1, BuilderHolds DEF Builds, BuildPhases
<1>3. build.changed = GoldTables /\ \A g \in GoldTables : Candidate(g) /\ gold[g] # <<>>
  BY <1>1, BuilderHolds DEF Building, GoldTables, Candidate
<1>4. /\ gold' \in [GoldTables -> Seq(GoldCommits)] /\ \A g \in GoldTables : Growing(gold'[g])
      /\ \A g \in GoldTables :
           /\ gold'[g] = <<>> <=> gold[g] = <<>>
           /\ gold[g] # <<>> => Latest(gold'[g]).upTo = Latest(gold[g]).upTo
           /\ DOMAIN gold'[g] = DOMAIN gold[g]
           /\ \A v \in DOMAIN gold[g] : gold'[g][v].upTo = gold[g][v].upTo
  <2>1. gold' = [g \in GoldTables |-> IF g \in GoldTables THEN Passed(gold[g]) ELSE gold[g]]
    BY <1>1
  <2>. QED BY <1>3, <2>1, GatesPass
<1>5. \A g \in GoldTables : gold'[g] # <<>> => Latest(gold'[g]).upTo <= Newest(g)
  BY <1>1, <1>4, SourceShowsClaim
<1>6. release # NoRelease => \A g \in GoldTables : release.gold[g] \in DOMAIN gold'[g]
  BY <1>1, <1>4, BuilderHolds
<1>7. TypeOK' /\ Shapes' /\ BronzeLog' /\ SilverLogs' /\ HistoryLog' /\ GoldLogs'
  BY <1>1, <1>2, <1>4, <1>5, <1>6, BuilderHolds, BuilderStep
<1>8. ReleaseShowsItsSilver' /\ SupersededRunCompletes' /\ SucceededRunIsReleased' /\ SkippedRunIsReleased'
  BY <1>1, <1>4, ReleaseStands
<1>9. CheckpointShown'
  BY <1>1, <1>2, <1>3, <1>4 DEF ReleaseInv, CheckpointShown, DimensionShows, Latest, GoldTables
<1>10. Holders' /\ Manifest'
  BY <1>1, <1>2 DEF ReleaseInv, Holders, Manifest, HasManifest
<1>11. \A g \in GoldTables : Candidate(g)'
  BY <1>1, <1>2, <1>3, <1>4 DEF Candidate, Claimed, Latest
<1>12. Building'
  BY <1>1, <1>2, <1>3, <1>11, BuilderHolds DEF Building, Kept, Claimed, GoldTables
<1>. QED BY <1>7, <1>8, <1>9, <1>10, <1>12 DEF ReleaseInv

(* The facts, from the versions the builder claims or from newer ones. *)
LEMMA FactWritten ==
    ASSUME ReleaseInv, build.phase # "none", NEW c \in GoldCommits,
           gold' = [gold EXCEPT !["fact_sales"] = Append(@, c)],
           UNCHANGED <<events, bronze, silver, history, checkpoint, release, lock, run, disturbances>>,
           gold["fact_sales"] # <<>> => Latest(gold["fact_sales"]).upTo <= c.upTo,
           Claimed("fact_sales") <= c.upTo, c.upTo <= Newest("fact_sales"),
           build' \in Builds, build'.silver = build.silver, build'.phase # "checkpoint"
    PROVE  /\ TypeOK' /\ Shapes' /\ BronzeLog' /\ SilverLogs' /\ HistoryLog' /\ GoldLogs'
           /\ ReleaseShowsItsSilver' /\ SupersededRunCompletes' /\ SucceededRunIsReleased' /\ SkippedRunIsReleased'
           /\ CheckpointShown'
           /\ Candidate("fact_sales")' /\ (Candidate("dim_customer") => Candidate("dim_customer")')
<1>. DEFINE g == "fact_sales"
<1>1. g \in GoldTables
  BY DEF GoldTables
<1>2. /\ gold' \in [GoldTables -> Seq(GoldCommits)] /\ \A h \in GoldTables : Growing(gold'[h])
      /\ gold'[g] # <<>> /\ Latest(gold'[g]) = c
      /\ \A h \in GoldTables : h # g => gold'[h] = gold[h]
      /\ \A h \in GoldTables : \A v \in DOMAIN gold[h] : v \in DOMAIN gold'[h] /\ gold'[h][v] = gold[h][v]
  BY <1>1, GoldAppends
<1>3. \A h \in GoldTables : gold'[h] # <<>> => Latest(gold'[h]).upTo <= Newest(h)
  BY <1>2, SourceShowsClaim
<1>4. TypeOK' /\ Shapes' /\ BronzeLog' /\ SilverLogs' /\ HistoryLog' /\ GoldLogs'
  BY <1>2, <1>3, BuilderHolds, BuilderStep
<1>5. ReleaseShowsItsSilver' /\ SupersededRunCompletes' /\ SucceededRunIsReleased' /\ SkippedRunIsReleased'
  BY <1>2, ReleaseStands
<1>6. gold'["dim_customer"] = gold["dim_customer"]
  BY <1>2 DEF GoldTables
<1>7. CheckpointShown'
  BY <1>6 DEF ReleaseInv, CheckpointShown, DimensionShows, Latest
<1>8. Candidate("fact_sales")' /\ (Candidate("dim_customer") => Candidate("dim_customer")')
  BY <1>2, <1>6 DEF Candidate, Claimed, Latest
<1>. QED BY <1>4, <1>5, <1>7, <1>8

LEMMA MergeFactKeepsInv == ReleaseInv /\ MergeFact => ReleaseInv'
<1>. SUFFICES ASSUME ReleaseInv, MergeFact PROVE ReleaseInv'
  OBVIOUS
<1>. DEFINE g == "fact_sales"
            to == AtLeast(silver["orders"][build.silver["orders"]].upTo, Latest(gold["fact_sales"]).upTo)
            c == [upTo |-> to, passed |-> TRUE]
<1>1. /\ build.phase = "fact"
      /\ gold' = [gold EXCEPT !["fact_sales"] = Append(@, c)]
      /\ build' = [build EXCEPT !.phase = "publish", !.changed = @ \cup {"fact_sales"}]
      /\ UNCHANGED <<events, bronze, silver, history, checkpoint, release, lock, run, disturbances>>
  BY DEF MergeFact
<1>2. /\ build' \in Builds /\ build'.phase = "publish" /\ build'.silver = build.silver
      /\ build'.substantive = build.substantive /\ build'.changed = build.changed \cup {"fact_sales"}
  BY <1>1, BuilderHolds DEF Builds, BuildPhases, GoldTables
<1>3. /\ "fact_sales" \notin build.changed /\ release # NoRelease
      /\ g \in GoldTables /\ gold[g] # <<>>
  BY <1>1, BuilderHolds DEF Building, GoldTables
<1>4. /\ Claimed(g) \in Nat /\ Claimed(g) = silver["orders"][build.silver["orders"]].upTo
      /\ Claimed(g) <= Newest(g) /\ Newest(g) \in Nat
      /\ Latest(gold[g]).upTo \in Nat /\ Latest(gold[g]).upTo <= Newest(g)
  <2>1. SourceOf("fact_sales") = "orders"
    BY DEF SourceOf
  <2>2. Claimed(g) = silver["orders"][build.silver["orders"]].upTo
    BY <2>1 DEF Claimed
  <2>3. Claimed(g) \in Nat /\ Claimed(g) <= Newest(g) /\ Newest(g) \in Nat
    BY <1>1, <1>3, SourceShowsClaim
  <2>4. Latest(gold[g]).upTo \in Nat /\ Latest(gold[g]).upTo <= Newest(g)
    BY <1>1, <1>3, SourceShowsClaim, LatestGold
  <2>. QED BY <2>2, <2>3, <2>4
<1>5. to \in Nat /\ to <= Newest(g) /\ Claimed(g) <= to /\ Latest(gold[g]).upTo <= to
  <2>. DEFINE claimed == Claimed(g)
              latest == Latest(gold[g]).upTo
  <2>1. /\ to = AtLeast(claimed, latest) /\ claimed \in Nat /\ latest \in Nat
        /\ Newest(g) \in Nat /\ claimed <= Newest(g) /\ latest <= Newest(g)
    BY <1>4
  <2>. HIDE DEF to, claimed, latest
  <2>2. to \in Nat /\ to <= Newest(g) /\ claimed <= to /\ latest <= to
    BY <2>1 DEF AtLeast
  <2>. QED BY <2>2 DEF claimed, latest
<1>. HIDE DEF to
<1>6. c \in GoldCommits /\ c.upTo = to
  BY <1>5 DEF GoldCommits
<1>. HIDE DEF c
<1>7. /\ TypeOK' /\ Shapes' /\ BronzeLog' /\ SilverLogs' /\ HistoryLog' /\ GoldLogs'
      /\ ReleaseShowsItsSilver' /\ SupersededRunCompletes' /\ SucceededRunIsReleased' /\ SkippedRunIsReleased'
      /\ CheckpointShown'
      /\ Candidate("fact_sales")' /\ (Candidate("dim_customer") => Candidate("dim_customer")')
  BY <1>1, <1>2, <1>5, <1>6, FactWritten
<1>8. Holders' /\ Manifest'
  BY <1>1, <1>2 DEF ReleaseInv, Holders, Manifest, HasManifest
<1>9. Building'
  BY <1>1, <1>2, <1>3, <1>7, BuilderHolds DEF Building, Kept, Claimed
<1>. QED BY <1>7, <1>8, <1>9 DEF ReleaseInv

LEMMA WriteFullFactKeepsInv == ReleaseInv /\ WriteFullFact => ReleaseInv'
<1>. SUFFICES ASSUME ReleaseInv, WriteFullFact PROVE ReleaseInv'
  OBVIOUS
<1>. DEFINE g == "fact_sales"
            c == [upTo |-> Latest(silver["orders"]).upTo, passed |-> FALSE]
<1>1. /\ build.phase = "fullFact"
      /\ gold' = [gold EXCEPT !["fact_sales"] = Append(@, c)]
      /\ build' = [build EXCEPT !.phase = "fullQuality"]
      /\ UNCHANGED <<events, bronze, silver, history, checkpoint, release, lock, run, disturbances>>
  BY DEF WriteFullFact
<1>2. /\ build' \in Builds /\ build'.phase = "fullQuality" /\ build'.silver = build.silver
      /\ build'.substantive = build.substantive /\ build'.changed = build.changed
  BY <1>1, BuilderHolds DEF Builds, BuildPhases
<1>3. /\ build.changed = GoldTables /\ g \in GoldTables /\ Newest(g) = Latest(silver["orders"]).upTo
      /\ Candidate("dim_customer")
  BY <1>1, BuilderHolds DEF Building, GoldTables, Newest
<1>4. /\ Claimed(g) <= Newest(g) /\ Newest(g) \in Nat
      /\ gold[g] # <<>> => Latest(gold[g]).upTo <= Newest(g)
  BY <1>1, <1>3, SourceShowsClaim
<1>5. c \in GoldCommits /\ c.upTo = Newest(g)
  BY <1>3, <1>4 DEF GoldCommits
<1>. HIDE DEF c
<1>6. /\ TypeOK' /\ Shapes' /\ BronzeLog' /\ SilverLogs' /\ HistoryLog' /\ GoldLogs'
      /\ ReleaseShowsItsSilver' /\ SupersededRunCompletes' /\ SucceededRunIsReleased' /\ SkippedRunIsReleased'
      /\ CheckpointShown'
      /\ Candidate("fact_sales")' /\ (Candidate("dim_customer") => Candidate("dim_customer")')
  <2>1. /\ gold["fact_sales"] # <<>> => Latest(gold["fact_sales"]).upTo <= c.upTo
        /\ Claimed("fact_sales") <= c.upTo /\ c.upTo <= Newest("fact_sales")
    BY <1>4, <1>5
  <2>. QED BY <1>1, <1>2, <1>5, <2>1, FactWritten
<1>7. Holders' /\ Manifest'
  BY <1>1, <1>2 DEF ReleaseInv, Holders, Manifest, HasManifest
<1>8. Building'
  <2>1. "dim_customer" \in build'.changed /\ "fact_sales" \in build'.changed /\ build'.changed = GoldTables
    BY <1>2, <1>3 DEF GoldTables
  <2>2. Kept("fact_sales")' <=> Kept("fact_sales")
    BY <1>1, <1>2 DEF Kept, Claimed
  <2>3. Candidate("dim_customer")'
    BY <1>3, <1>6
  <2>4. /\ \A t \in Sources : build'.silver[t] \in DOMAIN silver'[t]
        /\ "orders" \notin build'.substantive => Kept("fact_sales")'
        /\ \/ release' = NoRelease
           \/ lock' = "batch" /\ run'.full
           \/ \A t \in Sources : release'.silver[t] <= build'.silver[t]
    BY <1>1, <1>2, <2>2, BuilderHolds DEF Building
  <2>. QED BY <1>2, <1>6, <2>1, <2>3, <2>4 DEF Building
<1>. QED BY <1>6, <1>7, <1>8 DEF ReleaseInv

(* What a table shows at the version _publish pins: what the builder claims, *)
(* and no less than the release before it.                                   *)
LEMMA PinsShow ==
    ASSUME ReleaseInv, Publish
    PROVE  /\ gold' \in [GoldTables -> Seq(GoldCommits)] /\ \A h \in GoldTables : Growing(gold'[h])
           /\ \A h \in GoldTables : gold'[h] # <<>> => Latest(gold'[h]).upTo <= Newest(h)
           /\ gold'["dim_customer"] = gold["dim_customer"]
           /\ release' \in Releases /\ release' # NoRelease /\ release'.silver = build.silver
           /\ \A h \in GoldTables : /\ release'.gold[h] \in DOMAIN gold'[h]
                                    /\ gold'[h][release'.gold[h]].upTo \in Nat
                                    /\ Claimed(h) <= gold'[h][release'.gold[h]].upTo
           /\ release # NoRelease =>
                \A h \in GoldTables : ShownBy(release, h) <= gold'[h][release'.gold[h]].upTo
<1>. DEFINE c == Latest(gold["fact_sales"])
<1>1. /\ build.phase = "publish"
      /\ gold' = [gold EXCEPT !["fact_sales"] = Append(@, c)]
      /\ release' = [silver |-> build.silver, gold |-> [g \in GoldTables |-> Pinned(g)]]
  BY DEF Publish
<1>2. "fact_sales" \in GoldTables /\ "dim_customer" \in GoldTables
  BY DEF GoldTables
<1>3. /\ "fact_sales" \in build.changed => Candidate("fact_sales")
      /\ "dim_customer" \in build.changed => Candidate("dim_customer")
      /\ "fact_sales" \notin build.changed => Kept("fact_sales")
      /\ "dim_customer" \notin build.changed => Kept("dim_customer")
  BY <1>1, BuilderHolds DEF Building
<1>4. \A g \in GoldTables : gold[g] # <<>>
  <2>1. gold["fact_sales"] # <<>>
    BY <1>1, <1>2, <1>3, BuilderHolds DEF Candidate, Kept
  <2>2. gold["dim_customer"] # <<>>
    BY <1>1, <1>2, <1>3, BuilderHolds DEF Candidate, Kept
  <2>. QED BY <2>1, <2>2 DEF GoldTables
<1>5. c \in GoldCommits /\ c.upTo \in Nat /\ c.upTo <= Latest(gold["fact_sales"]).upTo
  BY <1>2, <1>4, LatestGold
<1>6. /\ gold' \in [GoldTables -> Seq(GoldCommits)] /\ \A h \in GoldTables : Growing(gold'[h])
      /\ gold'["fact_sales"] # <<>> /\ Latest(gold'["fact_sales"]) = c
      /\ Len(gold["fact_sales"]) \in Nat /\ DOMAIN gold'["fact_sales"] = 1..Len(gold["fact_sales"]) + 1
      /\ gold'["fact_sales"][Len(gold["fact_sales"]) + 1] = c
      /\ gold'["dim_customer"] = gold["dim_customer"]
      /\ \A v \in DOMAIN gold["fact_sales"] :
           v \in DOMAIN gold'["fact_sales"] /\ gold'["fact_sales"][v] = gold["fact_sales"][v]
  <2>1. gold["fact_sales"] # <<>> => Latest(gold["fact_sales"]).upTo <= c.upTo
    BY <1>5
  <2>. HIDE DEF c
  <2>. QED BY <1>1, <1>2, <1>5, <2>1, GoldAppends
<1>7. \A h \in GoldTables : gold'[h] # <<>> => Latest(gold'[h]).upTo <= Newest(h)
  BY <1>1, <1>2, <1>4, <1>6, SourceShowsClaim DEF GoldTables
<1>8. \A h \in GoldTables : \A v \in DOMAIN gold'[h] : v \in Nat /\ gold'[h][v].upTo \in Nat
  <2>1. \A e \in GoldCommits : e.upTo \in Nat
    BY DEF GoldCommits
  <2>. SUFFICES ASSUME NEW h \in GoldTables, NEW v \in DOMAIN gold'[h]
                PROVE  v \in Nat /\ gold'[h][v] \in GoldCommits
    BY <2>1
  <2>2. gold'[h] \in Seq(GoldCommits)
    BY <1>6
  <2>. QED BY <2>2
<1>9. \A h \in GoldTables : release # NoRelease =>
        /\ release.gold[h] \in DOMAIN gold[h] /\ ShownBy(release, h) \in Nat
        /\ ShownBy(release, h) = gold[h][release.gold[h]].upTo
        /\ silver[SourceOf(h)][release.silver[SourceOf(h)]].upTo <= ShownBy(release, h)
        /\ silver[SourceOf(h)][release.silver[SourceOf(h)]].upTo \in Nat
  <2>. SUFFICES ASSUME NEW h \in GoldTables, release # NoRelease
                PROVE  /\ release.gold[h] \in DOMAIN gold[h] /\ ShownBy(release, h) \in Nat
                       /\ ShownBy(release, h) = gold[h][release.gold[h]].upTo
                       /\ silver[SourceOf(h)][release.silver[SourceOf(h)]].upTo <= ShownBy(release, h)
                       /\ silver[SourceOf(h)][release.silver[SourceOf(h)]].upTo \in Nat
    OBVIOUS
  <2>. DEFINE t == SourceOf(h)
  <2>1. t \in Sources
    BY DEF SourceOf, Sources
  <2>2. release.silver[t] \in DOMAIN silver[t] /\ release.silver[t] \in Nat
    BY <2>1, Pointers
  <2>3. release.silver[t] <= release.silver[t]
    BY <2>2
  <2>4. silver[t][release.silver[t]].upTo \in Nat
    BY <2>1, <2>2, SilverShowsBronze
  <2>. QED BY <2>2, <2>3, <2>4, ReleaseShows DEF ShownBy
<1>10. \A h \in GoldTables : Claimed(h) \in Nat
  BY <1>1, SourceShowsClaim
<1>11. \A h \in GoldTables : h \notin build.changed => release # NoRelease /\ Claimed(h) <= ShownBy(release, h)
  BY <1>3, <1>9, <1>10 DEF Kept, GoldTables
<1>12. \A h \in GoldTables : release'.gold[h] = Pinned(h)
  BY <1>1
<1>13. /\ Pinned("dim_customer") \in DOMAIN gold'["dim_customer"]
       /\ Claimed("dim_customer") <= gold'["dim_customer"][Pinned("dim_customer")].upTo
       /\ release # NoRelease => ShownBy(release, "dim_customer") <= gold'["dim_customer"][Pinned("dim_customer")].upTo
  <2>. DEFINE g == "dim_customer"
  <2>1. CASE g \in build.changed
    <3>1. Pinned(g) = Len(gold[g])
      BY <2>1 DEF Pinned
    <3>2. Candidate(g) /\ gold[g] # <<>>
      BY <1>2, <1>3, <1>4, <2>1
    <3>3. /\ Len(gold[g]) \in DOMAIN gold[g] /\ gold[g][Len(gold[g])] = Latest(gold[g])
          /\ \A v \in DOMAIN gold[g] : gold[g][v].upTo <= Latest(gold[g]).upTo
      BY <1>2, <3>2, LatestGold
    <3>. QED BY <1>2, <1>6, <1>9, <3>1, <3>2, <3>3 DEF Candidate
  <2>2. CASE g \notin build.changed
    <3>1. Pinned(g) = release.gold[g]
      BY <2>2 DEF Pinned
    <3>. QED BY <1>2, <1>6, <1>9, <1>11, <2>2, <3>1
  <2>. QED BY <2>1, <2>2
<1>14. /\ Pinned("fact_sales") \in DOMAIN gold'["fact_sales"]
       /\ Claimed("fact_sales") <= gold'["fact_sales"][Pinned("fact_sales")].upTo
       /\ release # NoRelease => ShownBy(release, "fact_sales") <= gold'["fact_sales"][Pinned("fact_sales")].upTo
  <2>. DEFINE g == "fact_sales"
  <2>1. CASE g \in build.changed
    <3>1. Pinned(g) = Len(gold[g]) + 1
      BY <2>1 DEF Pinned
    <3>2. Candidate(g) /\ gold[g] # <<>>
      BY <1>2, <1>3, <1>4, <2>1
    <3>3. \A v \in DOMAIN gold[g] : gold[g][v].upTo <= Latest(gold[g]).upTo
      BY <1>2, <3>2, LatestGold
    <3>4. gold'[g][Pinned(g)] = c /\ Pinned(g) \in DOMAIN gold'[g]
      BY <1>6, <3>1
    <3>. QED BY <1>2, <1>9, <3>2, <3>3, <3>4 DEF Candidate
  <2>2. CASE g \notin build.changed
    <3>1. Pinned(g) = release.gold[g] + 1
      BY <2>2 DEF Pinned
    <3>2. release # NoRelease /\ Claimed(g) <= ShownBy(release, g) /\ release.gold[g] \in DOMAIN gold[g]
      BY <1>2, <1>9, <1>11, <2>2
    <3>3. release.gold[g] \in 1..Len(gold[g])
      BY <1>2, <1>4, <3>2, LatestGold
    <3>4. /\ release.gold[g] \in DOMAIN gold'[g] /\ Pinned(g) \in DOMAIN gold'[g]
          /\ release.gold[g] <= Pinned(g)
      BY <1>6, <3>1, <3>3
    <3>5. gold'[g][release.gold[g]].upTo <= gold'[g][Pinned(g)].upTo
      BY <1>2, <1>6, <3>4 DEF Growing
    <3>6. ShownBy(release, g) <= gold'[g][Pinned(g)].upTo
      BY <1>2, <1>6, <1>9, <3>2, <3>5
    <3>. QED BY <1>2, <1>8, <1>9, <1>10, <3>2, <3>4, <3>6
  <2>. QED BY <2>1, <2>2
<1>15. release' \in Releases
  <2>1. build.silver \in [Sources -> Nat]
    BY <1>1, BuilderHolds DEF Builds
  <2>2. \A g \in GoldTables : Pinned(g) \in Nat
    BY <1>8, <1>13, <1>14 DEF GoldTables
  <2>. QED BY <1>1, <2>1, <2>2 DEF Releases
<1>16. release'.silver = build.silver /\ release' # NoRelease
  BY <1>1, <1>15, GoldReleaseAssumption
<1>17. \A h \in GoldTables : /\ release'.gold[h] \in DOMAIN gold'[h]
                             /\ Claimed(h) <= gold'[h][release'.gold[h]].upTo
  BY <1>12, <1>13, <1>14 DEF GoldTables
<1>18. release # NoRelease => \A h \in GoldTables : ShownBy(release, h) <= gold'[h][release'.gold[h]].upTo
  BY <1>12, <1>13, <1>14 DEF GoldTables
<1>. QED BY <1>6, <1>7, <1>8, <1>15, <1>16, <1>17, <1>18

LEMMA PublishKeepsInv == ReleaseInv /\ Publish => ReleaseInv'
<1>. SUFFICES ASSUME ReleaseInv, Publish PROVE ReleaseInv'
  OBVIOUS
<1>1. /\ build.phase = "publish" /\ lock' = "free" /\ build' = NoBuild
      /\ run' = IF lock = "batch" THEN [run EXCEPT !.phase = "validate"] ELSE run
      /\ UNCHANGED <<events, bronze, silver, history, checkpoint, disturbances>>
  BY DEF Publish
<1>2. /\ lock \in {"batch", "other"} /\ run \in Runs /\ checkpoint \in 0..Len(history)
      /\ lock = "batch" <=> run.phase = "gold"
      /\ lock = "other" => run.phase \notin {"silver", "gold"}
      /\ \A t \in Sources : build.silver[t] \in DOMAIN silver[t]
  BY <1>1, BuilderHolds DEF ReleaseInv, Holders, Building
<1>3. /\ run' \in Runs /\ run'.bronzeTo = run.bronzeTo /\ run'.silverTo = run.silverTo
      /\ lock = "batch" => run'.phase = "validate"
      /\ lock = "other" => run' = run
  <2>1. [run EXCEPT !.phase = "validate"] \in Runs /\ [run EXCEPT !.phase = "validate"].phase = "validate"
    BY <1>2 DEF Runs, RunPhases
  <2>2. /\ [run EXCEPT !.phase = "validate"].bronzeTo = run.bronzeTo
        /\ [run EXCEPT !.phase = "validate"].silverTo = run.silverTo
    BY <1>2 DEF Runs
  <2>3. CASE lock = "batch"
    BY <1>1, <2>1, <2>2, <2>3
  <2>4. CASE lock = "other"
    BY <1>1, <1>2, <2>4
  <2>. QED BY <1>2, <2>3, <2>4
<1>4. /\ TypeOK' /\ Shapes' /\ BronzeLog' /\ SilverLogs' /\ HistoryLog' /\ GoldLogs'
  <2>1. \A t \in Sources : release'.silver[t] \in DOMAIN silver[t]
    BY <1>2, PinsShow
  <2>2. NoBuild \in Builds
    BY NoBuildFields
  <2>. QED BY <1>1, <1>2, <1>3, <2>1, <2>2, PinsShow, BuilderStep
<1>5. CheckpointShown'
  BY <1>1, PinsShow, NoBuildFields DEF ReleaseInv, CheckpointShown, DimensionShows, Latest
<1>6. Holders' /\ build'.phase = "none"
  <2>1. lock = "batch" => run'.phase \notin {"silver", "gold"}
    BY <1>3
  <2>2. lock = "other" => run'.phase \notin {"silver", "gold"}
    BY <1>2, <1>3
  <2>. QED BY <1>1, <1>2, <2>1, <2>2, NoBuildFields DEF Holders
<1>7. Manifest'
  <2>1. \A t \in Sources : run'.silverTo[t] > 0 =>
          run'.bronzeTo[t] > 0 /\ bronze'[t][run'.bronzeTo[t]] <= silver'[t][run'.silverTo[t]].upTo
    BY <1>1, <1>3 DEF ReleaseInv, Manifest
  <2>2. run'.phase # "gold"
    BY <1>1, <1>6 DEF Holders
  <2>3. release' # NoRelease /\ release'.silver = build.silver
    BY PinsShow
  <2>4. CASE lock = "batch"
    BY <1>2, <1>3, <2>1, <2>2, <2>3, <2>4 DEF ReleaseInv, Manifest, HasManifest
  <2>5. CASE lock = "other"
    <3>1. run' = run /\ run.phase \notin {"silver", "gold"}
      BY <1>2, <1>3, <2>5
    <3>2. run.phase = "validate" => \A t \in Sources : run.silverTo[t] <= build.silver[t]
      <4>. SUFFICES ASSUME run.phase = "validate", NEW t \in Sources
                    PROVE  run.silverTo[t] <= build.silver[t]
        OBVIOUS
      <4>1. release # NoRelease /\ run.silverTo[t] <= release.silver[t]
        BY DEF ReleaseInv, Manifest
      <4>2. release.silver[t] <= build.silver[t]
        BY <1>1, <2>5, <4>1, BuilderHolds DEF Building
      <4>3. run.silverTo[t] \in Nat /\ release.silver[t] \in Nat /\ build.silver[t] \in Nat
        BY <4>1, Pointers
      <4>. QED BY <4>1, <4>2, <4>3
    <3>. QED BY <2>1, <2>2, <2>3, <3>1, <3>2 DEF ReleaseInv, Manifest, HasManifest
  <2>. QED BY <1>2, <2>4, <2>5
<1>8. ReleaseShowsItsSilver'
  <2>1. /\ Claimed("dim_customer") <= gold'["dim_customer"][release'.gold["dim_customer"]].upTo
        /\ gold'["dim_customer"][release'.gold["dim_customer"]].upTo \in Nat
        /\ Claimed("dim_customer") = silver'["app_users"][release'.silver["app_users"]].upTo
        /\ Claimed("dim_customer") \in Nat
    BY <1>1, PinsShow, SourceShowsClaim DEF Claimed, SourceOf, GoldTables
  <2>2. /\ Claimed("fact_sales") <= gold'["fact_sales"][release'.gold["fact_sales"]].upTo
        /\ gold'["fact_sales"][release'.gold["fact_sales"]].upTo \in Nat
        /\ Claimed("fact_sales") = silver'["orders"][release'.silver["orders"]].upTo
        /\ Claimed("fact_sales") \in Nat
    BY <1>1, PinsShow, SourceShowsClaim DEF Claimed, SourceOf, GoldTables
  <2>. QED BY <2>1, <2>2 DEF ReleaseShowsItsSilver, ShownBy
<1>9. SupersededRunCompletes'
  BY <1>2, <1>3 DEF ReleaseInv, SupersededRunCompletes
<1>10. run'.phase \in {"succeeded", "skipped"} => /\ run.phase = run'.phase /\ release # NoRelease
                                                  /\ \A t \in Sources : run.bronzeTo[t] > 0
  BY <1>2, <1>3 DEF ReleaseInv, Manifest
<1>11. run'.phase \in {"succeeded", "skipped"} /\ Delivered => Delivered'
  <2>. SUFFICES ASSUME run'.phase \in {"succeeded", "skipped"}, Delivered
                PROVE  /\ gold'["dim_customer"][release'.gold["dim_customer"]].upTo
                               >= bronze["app_users"][run.bronzeTo["app_users"]]
                       /\ gold'["fact_sales"][release'.gold["fact_sales"]].upTo
                               >= bronze["orders"][run.bronzeTo["orders"]]
    BY <1>1, <1>3 DEF Delivered, ShownBy
  <2>. SUFFICES ASSUME NEW g \in GoldTables
                PROVE  gold'[g][release'.gold[g]].upTo >= bronze[SourceOf(g)][run.bronzeTo[SourceOf(g)]]
    <3>1. SourceOf("dim_customer") = "app_users" /\ SourceOf("fact_sales") = "orders"
      BY DEF SourceOf
    <3>2. "dim_customer" \in GoldTables /\ "fact_sales" \in GoldTables
      BY DEF GoldTables
    <3>. QED BY <3>1, <3>2
  <2>. DEFINE t == SourceOf(g)
  <2>1. t \in Sources
    BY DEF SourceOf, Sources
  <2>2. bronze[t] \in Seq(Nat) /\ run.bronzeTo[t] \in 1..Len(bronze[t]) /\ bronze[t][run.bronzeTo[t]] \in Nat
    <3>1. bronze[t] \in Seq(Nat)
      BY <2>1 DEF ReleaseInv, Shapes
    <3>2. run.bronzeTo[t] \in 1..Len(bronze[t])
      BY <1>10, <2>1, Pointers
    <3>. QED BY <3>1, <3>2
  <2>3. ShownBy(release, g) >= bronze[t][run.bronzeTo[t]]
    BY DeliveredByTable
  <2>4. /\ ShownBy(release, g) <= gold'[g][release'.gold[g]].upTo
        /\ gold'[g][release'.gold[g]].upTo \in Nat
    BY <1>10, PinsShow
  <2>5. ShownBy(release, g) \in Nat
    <3>1. gold[g] \in Seq(GoldCommits) /\ release.gold[g] \in DOMAIN gold[g]
      BY <1>10 DEF ReleaseInv, Shapes, TypeOK
    <3>2. gold[g][release.gold[g]] \in GoldCommits
      BY <3>1
    <3>3. \A e \in GoldCommits : e.upTo \in Nat
      BY DEF GoldCommits
    <3>. QED BY <3>2, <3>3 DEF ShownBy
  <2>. QED BY <2>2, <2>3, <2>4, <2>5
<1>12. SucceededRunIsReleased'
  BY <1>10, <1>11 DEF ReleaseInv, SucceededRunIsReleased
<1>13. SkippedRunIsReleased'
  <2>1. SilverHasBronze' <=> SilverHasBronze
    BY <1>1, <1>3 DEF SilverHasBronze, Progress, ProgressVersion
  <2>. QED BY <1>10, <1>11, <2>1 DEF ReleaseInv, SkippedRunIsReleased
<1>. QED BY <1>4, <1>5, <1>6, <1>7, <1>8, <1>9, <1>12, <1>13 DEF ReleaseInv

--------------------------------------------------------------------------------
LEMMA NextKeepsInv == ReleaseInv /\ [Next]_vars => ReleaseInv'
<1>. SUFFICES ASSUME ReleaseInv, [Next]_vars PROVE ReleaseInv'
  OBVIOUS
<1>1. CASE UNCHANGED vars
  <2>1. UNCHANGED <<events, bronze, silver, history, gold, checkpoint, release, lock, run, build, disturbances>>
    BY <1>1 DEF vars, tables
  <2>2. /\ TypeOK' /\ Shapes' /\ BronzeLog' /\ SilverLogs' /\ HistoryLog' /\ GoldLogs'
        /\ CheckpointShown' /\ ReleaseShowsItsSilver'
    BY <2>1, Pointers, ControlStep DEF tables
  <2>3. SupersededRunCompletes' /\ SucceededRunIsReleased' /\ SkippedRunIsReleased'
    BY <2>1, OutcomeStays
  <2>4. Holders' /\ Manifest' /\ (build'.phase # "none" => Building')
    BY <2>1 DEF ReleaseInv, Holders, Manifest, HasManifest, Building, Candidate, Kept, Claimed
  <2>. QED BY <2>2, <2>3, <2>4 DEF ReleaseInv
<1>2. CASE \E t \in Sources : SourceEvent(t) \/ StreamMerge(t)
  BY <1>2, SourceEventKeepsInv, StreamMergeKeepsInv
<1>3. CASE StreamHistory
  BY <1>3, StreamHistoryKeepsInv
<1>4. CASE RunStep
  <2>1. CASE \E full \in BOOLEAN : StartRun(full)
    BY <2>1, StartRunKeepsInv
  <2>2. CASE \E t \in Sources : ExtractTable(t)
    BY <2>2, ExtractKeepsInv
  <2>3. CASE SkipDownstream \/ LockSilver
    BY <2>3, SkipKeepsInv, LockSilverKeepsInv
  <2>4. CASE \E t \in Sources : SilverUpToDate(t) \/ MergeSilver(t)
    BY <2>4, SilverUpToDateKeepsInv, MergeSilverKeepsInv
  <2>5. CASE AppendHistory \/ UnlockSilver
    BY <2>5, AppendHistoryKeepsInv, UnlockSilverKeepsInv
  <2>6. CASE LockGold \/ ValidateRelease \/ FailRun
    BY <2>6, LockGoldKeepsInv, ValidateKeepsInv, FailRunKeepsInv
  <2>. QED BY <1>4, <2>1, <2>2, <2>3, <2>4, <2>5, <2>6 DEF RunStep
<1>5. CASE BuildStep
  <2>1. CASE \E full \in BOOLEAN : OtherBuild(full)
    BY <2>1, OtherBuildKeepsInv
  <2>2. CASE WriteDimension \/ WriteCheckpoint \/ DimensionPasses
    BY <2>2, WriteDimensionKeepsInv, WriteCheckpointKeepsInv, DimensionPassesKeepsInv
  <2>3. CASE MergeFact \/ WriteFullFact \/ FullPasses
    BY <2>3, MergeFactKeepsInv, WriteFullFactKeepsInv, FullPassesKeepsInv
  <2>4. CASE Publish \/ FailOther
    BY <2>4, PublishKeepsInv, FailOtherKeepsInv
  <2>. QED BY <1>5, <2>1, <2>2, <2>3, <2>4 DEF BuildStep
<1>. QED BY <1>1, <1>2, <1>3, <1>4, <1>5 DEF Next

LEMMA ReleaseInvHolds == Spec => []ReleaseInv
  BY ReleaseInvInit, NextKeepsInv, PTL DEF Spec

(* Versions, cursors, pins and phases stay in range for any number of       *)
(* events, runs, builders and disturbances.                                 *)
THEOREM TypeCorrect == Spec => []TypeOK
<1>1. ReleaseInv => TypeOK
  BY DEF ReleaseInv
<1>. QED BY <1>1, ReleaseInvHolds, PTL

(* The pinned Gold snapshots of the marker show every change of the Silver  *)
(* versions it claims, whichever builder published it, after whatever       *)
(* crashes, stale manifests and full rebuilds (GoldBuilder._publish).       *)
THEOREM ReleaseShowsSilver == Spec => []ReleaseShowsItsSilver
<1>1. ReleaseInv => ReleaseShowsItsSilver
  BY DEF ReleaseInv
<1>. QED BY <1>1, ReleaseInvHolds, PTL

(* A run superseded between its two locks is neither refused as ahead of    *)
(* Silver nor left behind its manifest (_refresh_stale_propagated_versions).*)
THEOREM SupersededCompletes == Spec => []SupersededRunCompletes
<1>1. ReleaseInv => SupersededRunCompletes
  BY DEF ReleaseInv
<1>. QED BY <1>1, ReleaseInvHolds, PTL

(* What a run extracted is in the active release once the run has           *)
(* succeeded, and stays there (run_batch.py, validate_gold_release).        *)
THEOREM SucceededReleased == Spec => []SucceededRunIsReleased
<1>1. ReleaseInv => SucceededRunIsReleased
  BY DEF ReleaseInv
<1>. QED BY <1>1, ReleaseInvHolds, PTL

(* A run that skips Silver and Gold has nothing to deliver, as long as      *)
(* Silver has processed what Bronze holds (_downstream_is_current).         *)
THEOREM SkippedReleased == Spec => []SkippedRunIsReleased
<1>1. ReleaseInv => SkippedRunIsReleased
  BY DEF ReleaseInv
<1>. QED BY <1>1, ReleaseInvHolds, PTL

(* Only _publish changes the marker. *)
LEMMA OnlyPublishReleases == [Next]_vars /\ release' # release => Publish
  BY DEF Next, RunStep, BuildStep, vars, tables, SourceEvent, StreamMerge, StreamHistory, StartRun,
         ExtractTable, SkipDownstream, LockSilver, SilverUpToDate, MergeSilver, AppendHistory,
         UnlockSilver, LockGold, ValidateRelease, FailRun, OtherBuild, WriteDimension, WriteCheckpoint,
         DimensionPasses, MergeFact, WriteFullFact, FullPasses, FailOther

(* No publication takes back what a release showed, and only a full rebuild *)
(* of a batch run may claim older Silver versions (GoldReleaseStore.publish)*)
THEOREM NeverRegresses == Spec => ReleaseNeverRegresses
<1>. DEFINE Advance == release # NoRelease /\ release' # release =>
              /\ \A g \in GoldTables : gold'[g][release'.gold[g]].upTo >= ShownBy(release, g)
              /\ \/ \A t \in Sources : release'.silver[t] >= release.silver[t]
                 \/ lock = "batch" /\ run.full
<1>1. ReleaseInv /\ [Next]_vars => Advance
  <2>. SUFFICES ASSUME ReleaseInv, [Next]_vars, release # NoRelease, release' # release
                PROVE  /\ \A g \in GoldTables : gold'[g][release'.gold[g]].upTo >= ShownBy(release, g)
                       /\ \/ \A t \in Sources : release'.silver[t] >= release.silver[t]
                          \/ lock = "batch" /\ run.full
    OBVIOUS
  <2>1. Publish
    BY OnlyPublishReleases
  <2>2. \A g \in GoldTables : ShownBy(release, g) <= gold'[g][release'.gold[g]].upTo
    BY <2>1, PinsShow
  <2>3. release'.silver = build.silver /\ build.phase # "none"
    BY <2>1, PinsShow DEF Publish
  <2>4. \/ \A t \in Sources : release.silver[t] <= build.silver[t]
        \/ lock = "batch" /\ run.full
    BY <2>3, BuilderHolds DEF Building
  <2>. QED BY <2>2, <2>3, <2>4
<1>. QED BY <1>1, ReleaseInvHolds, PTL DEF Spec, ReleaseNeverRegresses

--------------------------------------------------------------------------------
(* Publication, as its readers see it. *)
LEMMA AppendKeeps ==
    ASSUME NEW S, NEW I, NEW f \in [I -> Seq(S)], NEW i \in I, NEW e,
           NEW j \in I, NEW v \in DOMAIN f[j]
    PROVE  [f EXCEPT ![i] = Append(@, e)][j][v] = f[j][v]
<1>1. f[i] \in Seq(S) /\ f[j] \in Seq(S)
  OBVIOUS
<1>2. \A w \in DOMAIN f[i] : Append(f[i], e)[w] = f[i][w]
  BY <1>1
<1>3. [f EXCEPT ![i] = Append(@, e)][j] = IF j = i THEN Append(f[i], e) ELSE f[j]
  OBVIOUS
<1>. QED BY <1>2, <1>3

(* What a version holds, no later step changes: quality gates only mark it. *)
LEMMA VersionsStay ==
    ASSUME ReleaseInv, [Next]_vars
    PROVE  /\ \A t \in Sources : \A v \in DOMAIN silver[t] : silver'[t][v].upTo = silver[t][v].upTo
           /\ \A g \in GoldTables : \A v \in DOMAIN gold[g] : gold'[g][v].upTo = gold[g][v].upTo
<1>1. silver \in [Sources -> Seq(Commits)] /\ gold \in [GoldTables -> Seq(GoldCommits)]
  BY DEF ReleaseInv, Shapes
<1>2. ASSUME NEW t \in Sources, NEW e, silver' = [silver EXCEPT ![t] = Append(@, e)], UNCHANGED gold
      PROVE  /\ \A u \in Sources : \A v \in DOMAIN silver[u] : silver'[u][v].upTo = silver[u][v].upTo
             /\ \A g \in GoldTables : \A v \in DOMAIN gold[g] : gold'[g][v].upTo = gold[g][v].upTo
  BY <1>1, <1>2, AppendKeeps
<1>3. ASSUME NEW h \in GoldTables, NEW e, gold' = [gold EXCEPT ![h] = Append(@, e)], UNCHANGED silver
      PROVE  /\ \A u \in Sources : \A v \in DOMAIN silver[u] : silver'[u][v].upTo = silver[u][v].upTo
             /\ \A g \in GoldTables : \A v \in DOMAIN gold[g] : gold'[g][v].upTo = gold[g][v].upTo
  BY <1>1, <1>3, AppendKeeps
<1>4. CASE UNCHANGED <<silver, gold>>
  BY <1>4
<1>5. CASE \E t \in Sources : StreamMerge(t)
  BY <1>2, <1>5 DEF StreamMerge
<1>6. CASE \E t \in Sources : MergeSilver(t)
  BY <1>2, <1>6 DEF MergeSilver
<1>7. CASE WriteDimension
  BY <1>3, <1>4, <1>7 DEF WriteDimension, GoldTables
<1>8. CASE MergeFact \/ WriteFullFact \/ Publish
  BY <1>3, <1>8 DEF MergeFact, WriteFullFact, Publish, GoldTables
<1>9. CASE DimensionPasses
  <2>1. /\ build.phase = "dimensionQuality" /\ UNCHANGED silver
        /\ gold' = [g \in GoldTables |-> IF g \in {"dim_customer"} THEN Passed(gold[g]) ELSE gold[g]]
    BY <1>1, <1>9 DEF DimensionPasses
  <2>2. \A g \in {"dim_customer"} : gold[g] # <<>>
    BY <2>1, BuilderHolds DEF Building, Candidate
  <2>3. {"dim_customer"} \in SUBSET GoldTables
    BY DEF GoldTables
  <2>4. \A g \in GoldTables : \A v \in DOMAIN gold[g] : gold'[g][v].upTo = gold[g][v].upTo
    BY <2>1, <2>2, <2>3, GatesPass
  <2>. QED BY <2>1, <2>4
<1>10. CASE FullPasses
  <2>1. /\ build.phase = "fullQuality" /\ UNCHANGED silver
        /\ gold' = [g \in GoldTables |-> IF g \in GoldTables THEN Passed(gold[g]) ELSE gold[g]]
    BY <1>10 DEF FullPasses
  <2>2. \A g \in GoldTables : gold[g] # <<>>
    BY <2>1, BuilderHolds DEF Building, Candidate, GoldTables
  <2>. QED BY <2>1, <2>2, GatesPass
<1>. QED
  <2>1. CASE RunStep
    BY <2>1, <1>4, <1>6 DEF RunStep, tables, StartRun, ExtractTable, SkipDownstream, LockSilver,
       SilverUpToDate, AppendHistory, UnlockSilver, LockGold, ValidateRelease, FailRun
  <2>2. CASE BuildStep
    BY <2>2, <1>4, <1>7, <1>8, <1>9, <1>10 DEF BuildStep, tables, OtherBuild, WriteCheckpoint, FailOther
  <2>3. CASE UNCHANGED vars \/ StreamHistory \/ \E t \in Sources : SourceEvent(t)
    BY <2>3, <1>4 DEF vars, tables, StreamHistory, SourceEvent
  <2>. QED BY <2>1, <2>2, <2>3, <1>5 DEF Next

(* What the marker pins, its readers see as long as it stands. *)
LEMMA ViewStands ==
    ASSUME ReleaseInv, [Next]_vars, release' = release
    PROVE  ReleaseView' = ReleaseView
<1>1. CASE release = NoRelease
  BY <1>1 DEF ReleaseView
<1>2. CASE release # NoRelease
  <2>1. \A t \in Sources : silver'[t][release.silver[t]].upTo = silver[t][release.silver[t]].upTo
    BY <1>2, Pointers, VersionsStay
  <2>2. \A g \in GoldTables : ShownBy(release, g)' = ShownBy(release, g)
    BY <1>2, VersionsStay DEF ReleaseInv, TypeOK, ShownBy
  <2>3. \A t \in Sources : TableOf(t) \in GoldTables /\ TableOf(t)' = TableOf(t)
    BY DEF TableOf, GoldTables
  <2>. QED BY <1>2, <2>1, <2>2, <2>3 DEF ReleaseView
<1>. QED BY <1>1, <1>2

LEMMA PublishIsPublication ==
    ASSUME ReleaseInv, Publish
    PROVE  Publication!Publish
<1>. DEFINE c == [t \in Sources |-> Claimed(TableOf(t))]
            s == [t \in Sources |-> gold'[TableOf(t)][release'.gold[TableOf(t)]].upTo]
<1>1. \A t \in Sources : TableOf(t) \in GoldTables /\ SourceOf(TableOf(t)) = t
  BY DEF TableOf, SourceOf, GoldTables, Sources
<1>2. UNCHANGED <<events, silver>> /\ build.phase # "none"
  BY DEF Publish
<1>3. ReleaseView' = [claimed |-> c, shown |-> s]
  <2>1. \A t \in Sources : silver'[t][release'.silver[t]].upTo = Claimed(TableOf(t))
    BY <1>1, <1>2, PinsShow DEF Claimed
  <2>2. \A t \in Sources : ShownBy(release, TableOf(t))' = gold'[TableOf(t)][release'.gold[TableOf(t)]].upTo
    BY DEF ShownBy, TableOf
  <2>. QED BY <2>1, <2>2, PinsShow DEF ReleaseView
<1>4. \A t \in Sources : c[t] \in Nat /\ s[t] \in Nat /\ c[t] <= s[t]
  BY <1>1, <1>2, PinsShow, SourceShowsClaim
<1>5. \A g \in GoldTables : Newest(g) <= events[SourceOf(g)] /\ Newest(g) \in Nat /\ events[SourceOf(g)] \in Nat
  BY LatestHistory, LatestSilver DEF Newest, SourceOf, GoldTables, Sources
<1>6. \A t \in Sources : s[t] <= events[t]
  <2>. SUFFICES ASSUME NEW t \in Sources
                PROVE  gold'[TableOf(t)][release'.gold[TableOf(t)]].upTo <= events[t]
    OBVIOUS
  <2>. DEFINE g == TableOf(t)
  <2>1. g \in GoldTables /\ SourceOf(g) = t
    BY <1>1
  <2>. HIDE DEF g
  <2>2. /\ gold'[g] \in Seq(GoldCommits) /\ Growing(gold'[g]) /\ release'.gold[g] \in DOMAIN gold'[g]
        /\ gold'[g][release'.gold[g]].upTo \in Nat
        /\ gold'[g] # <<>> => Latest(gold'[g]).upTo <= Newest(g)
    BY <2>1, PinsShow
  <2>3. gold'[g] # <<>> /\ gold'[g][release'.gold[g]].upTo <= Latest(gold'[g]).upTo
    BY <2>2, LatestIsGreatest
  <2>4. Latest(gold'[g]).upTo \in Nat
    <3>1. Latest(gold'[g]) \in GoldCommits
      BY <2>2, <2>3, LatestExists
    <3>2. \A e \in GoldCommits : e.upTo \in Nat
      BY DEF GoldCommits
    <3>. QED BY <3>1, <3>2
  <2>5. Newest(g) <= events[t] /\ Newest(g) \in Nat /\ events[t] \in Nat
    BY <1>5, <2>1
  <2>. QED BY <2>2, <2>3, <2>4, <2>5 DEF g
<1>7. ReleaseView # NoRelease => \A t \in Sources : ReleaseView.shown[t] <= s[t]
  <2>1. ReleaseView # NoRelease => release # NoRelease /\ \A t \in Sources : ReleaseView.shown[t] = ShownBy(release, TableOf(t))
    BY DEF ReleaseView
  <2>. QED BY <1>1, <2>1, PinsShow
<1>8. ReleaseView' \in [claimed : [Sources -> Nat], shown : [Sources -> Nat]]
  BY <1>3, <1>4
<1>. HIDE DEF c, s
<1>. QED BY <1>2, <1>3, <1>4, <1>6, <1>7, <1>8 DEF Publication!Publish, Publication!Prefixes

(* Every step of runs, builders, callback and failures is a commit of the   *)
(* source, the publication of one release, or nothing a reader of Gold sees *)
(* (GoldReleaseStore.publish, snapshot).                                    *)
THEOREM ReleaseImplementsPublication == Spec => ImplementsPublication
<1>1. Init => Publication!Init
  BY DEF Init, Publication!Init, NoVersion, ReleaseView
<1>2. ReleaseInv /\ [Next]_vars => [Publication!Next]_<<events, ReleaseView>>
  <2>. SUFFICES ASSUME ReleaseInv, [Next]_vars
                PROVE  Publication!Next \/ UNCHANGED <<events, ReleaseView>>
    OBVIOUS
  <2>1. CASE Publish
    BY <2>1, PublishIsPublication DEF Publication!Next
  <2>2. CASE ~Publish
    <3>1. ReleaseView' = ReleaseView
      BY <2>2, OnlyPublishReleases, ViewStands
    <3>2. CASE UNCHANGED events
      BY <3>1, <3>2
    <3>3. CASE \E t \in Sources : SourceEvent(t)
      BY <3>1, <3>3 DEF SourceEvent, Publication!Next, Publication!Commit
    <3>4. \/ UNCHANGED events
          \/ \E t \in Sources : SourceEvent(t)
      BY DEF Next, RunStep, BuildStep, vars, tables, StreamMerge, StreamHistory, StartRun,
         ExtractTable, SkipDownstream, LockSilver, SilverUpToDate, MergeSilver, AppendHistory,
         UnlockSilver, LockGold, ValidateRelease, FailRun, OtherBuild, WriteDimension, WriteCheckpoint,
         DimensionPasses, MergeFact, WriteFullFact, FullPasses, Publish, FailOther
    <3>. QED BY <3>2, <3>3, <3>4
  <2>. QED BY <2>1, <2>2
<1>. QED BY <1>1, <1>2, ReleaseInvHolds, PTL DEF Spec, ImplementsPublication, Publication!Spec, Publication!vars

================================================================================

---------------------------- MODULE CdcIngestProofs ----------------------------
(* What the downstream query guarantees for every set of tables, every number *)
(* of events and versions, and every number of crashes and resets.  The       *)
(* argument: a commit of a version whose checkpoint was never deleted alone   *)
(* is its batch as the checkpoint knows it, and batches do not overlap        *)
(* (Faithful, Increasing); a callback that has come to a stage has recorded   *)
(* what the stages before it write (RunningIsRecorded); so what it reads back *)
(* is its batch, and nothing is committed to the checkpoint before it is in   *)
(* Silver.                                                                    *)
EXTENDS CdcIngest, SequenceTheorems, TLAPS

Known == (1..Versions) \ forgotten

(* The ends of the planned batches of one version grow. *)
Increasing ==
    \A v \in 1..Versions : \A m, n \in 1..Len(offsets[v]) :
        m < n => offsets[v][m] < offsets[v][n]

(* At most one planned batch of a version is not committed; the running one  *)
(* is not.                                                                    *)
OneOutstanding ==
    /\ \A v \in 1..Versions : finished[v] \in {Len(offsets[v]), Len(offsets[v]) - 1}
    /\ phase # "idle" => finished[version] = Batch - 1
    /\ IF phase \in {"idle", "quarantine"} THEN todo = {} ELSE todo \subseteq ChangedTables

Part(v, n, o) == {e \in BatchEvents(offsets[v], n) : source[e] = o}

(* A table holds the batches of a version as the checkpoint knows them, each *)
(* once and in order.                                                        *)
Faithful(commits, o) ==
    /\ \A i \in DOMAIN commits : commits[i].version \in Known =>
          /\ commits[i].batch \in 1..Len(offsets[commits[i].version])
          /\ commits[i].events = Part(commits[i].version, commits[i].batch, o)
    /\ \A i, j \in DOMAIN commits :
          i < j /\ commits[i].version = commits[j].version /\ commits[i].version \in Known
             => commits[i].batch < commits[j].batch

TablesFaithful ==
    /\ \A o \in Outputs : Faithful(bronze[o], o)
    /\ \A t \in Tables : Faithful(silver[t], t)

Has(commits, v, n) ==
    \E i \in DOMAIN commits : commits[i].version = v /\ commits[i].batch = n

(* Committed batches are in typed Bronze and in Silver. *)
CommittedIsRecorded ==
    \A v \in Known : \A n \in 1..finished[v] :
        /\ \A o \in Outputs : Part(v, n, o) # {} => Has(bronze[o], v, n)
        /\ \A t \in Tables : \A e \in Part(v, n, t) : InSilver(e)

(* The running callback has recorded what its earlier stages write. *)
RunningIsRecorded ==
    version \in Known =>
        /\ phase \in {"typed", "silver"} /\ EventsFor(Quarantine) # {}
              => Has(bronze[Quarantine], version, Batch)
        /\ phase = "typed" => \A t \in ChangedTables \ todo : Has(bronze[t], version, Batch)
        /\ phase = "silver" =>
              /\ \A t \in ChangedTables : Has(bronze[t], version, Batch)
              /\ \A t \in ChangedTables \ todo : \A e \in EventsFor(t) : InSilver(e)

IngestInv ==
    /\ TypeOK
    /\ Increasing
    /\ OneOutstanding
    /\ TablesFaithful
    /\ CommittedIsRecorded
    /\ RunningIsRecorded

--------------------------------------------------------------------------------
(* Batches. *)

LEMMA BatchInEvents ==
    ASSUME TypeOK, NEW v \in 1..Versions, NEW n \in 1..Len(offsets[v])
    PROVE  /\ BatchEvents(offsets[v], n) \subseteq Events
           /\ \A o : Part(v, n, o) \subseteq Events
<1>. USE CdcIngestAssumption
<1>1. offsets[v] \in Seq(1..Length) /\ Len(offsets[v]) \in Nat
  BY DEF TypeOK
<1>2. offsets[v][n] \in 1..Length
  BY <1>1
<1>3. n # 1 => offsets[v][n - 1] \in 1..Length
  BY <1>1
<1>. QED BY <1>2, <1>3 DEF BatchEvents, Part, Events

LEMMA BatchesDisjoint ==
    ASSUME TypeOK, Increasing, NEW v \in 1..Versions,
           NEW m \in 1..Len(offsets[v]), NEW n \in 1..Len(offsets[v]), m < n,
           NEW e \in BatchEvents(offsets[v], m)
    PROVE  e \notin BatchEvents(offsets[v], n)
<1>. USE CdcIngestAssumption
<1>1. offsets[v] \in Seq(1..Length) /\ Len(offsets[v]) \in Nat
  BY DEF TypeOK
<1>2. /\ offsets[v][m] \in 1..Length /\ offsets[v][n - 1] \in 1..Length
      /\ n - 1 \in 1..Len(offsets[v]) /\ n # 1
  <2>1. n - 1 \in 1..Len(offsets[v]) /\ n # 1
    BY <1>1
  <2>2. \A i \in 1..Len(offsets[v]) : offsets[v][i] \in 1..Length
    BY <1>1
  <2>. QED BY <2>1, <2>2
<1>3. offsets[v][m] <= offsets[v][n - 1]
  <2>1. CASE m = n - 1
    BY <2>1, <1>2
  <2>2. CASE m < n - 1
    BY <2>2, <1>2 DEF Increasing
  <2>. QED BY <2>1, <2>2
<1>4. e <= offsets[v][m]
  BY <1>2 DEF BatchEvents
<1>. QED BY <1>2, <1>3, <1>4 DEF BatchEvents

(* While the callback runs, its batch is the last one planned. *)
LEMMA RunningBatch ==
    ASSUME TypeOK, OneOutstanding, phase # "idle"
    PROVE  /\ Batch \in 1..Len(offsets[version])
           /\ finished[version] = Batch - 1
           /\ \A o : EventsFor(o) = Part(version, Batch, o) /\ EventsFor(o) \subseteq Events
<1>1. version \in 1..Versions /\ finished[version] \in Nat
  BY DEF TypeOK
<1>2. Len(offsets[version]) \in Nat
  BY <1>1 DEF TypeOK
<1>3. Batch \in 1..Len(offsets[version]) /\ finished[version] = Batch - 1
  BY <1>1, <1>2 DEF OneOutstanding, Batch
<1>4. \A o : EventsFor(o) = Part(version, Batch, o)
  BY DEF EventsFor, Part
<1>. QED BY <1>1, <1>3, <1>4, BatchInEvents

--------------------------------------------------------------------------------
(* Writes. *)

(* A write of the running batch keeps a table faithful, keeps what it has, and *)
(* leaves the batch recorded, by this attempt or by an earlier one.            *)
LEMMA WriteKeepsFaithful ==
    ASSUME TypeOK, OneOutstanding, phase # "idle",
           NEW o, NEW commits \in Seq(Commits), Faithful(commits, o),
           NEW events \in SUBSET Events, version \in Known => events = EventsFor(o)
    PROVE  LET new == Write(commits, events)
           IN  /\ new \in Seq(Commits)
               /\ Faithful(new, o)
               /\ DOMAIN commits \subseteq DOMAIN new
               /\ \A i \in DOMAIN commits : new[i] = commits[i]
               /\ version \in Known => Has(new, version, Batch)
<1>. DEFINE commit == [version |-> version, batch |-> Batch, events |-> events]
            new == Write(commits, events)
<1>1. version \in 1..Versions /\ Batch \in 1..Len(offsets[version]) /\ Batch \in Nat
  BY RunningBatch DEF TypeOK
<1>2. commit \in Commits
  BY <1>1 DEF Commits
<1>3. CASE Recorded(commits)
  <2>1. new = commits
    BY <1>3 DEF Write
  <2>2. PICK i \in DOMAIN commits : commits[i].version = version /\ commits[i].batch >= Batch
    BY <1>3 DEF Recorded
  <2>3. version \in Known => commits[i].batch \in 1..Batch
    BY <2>2 DEF Faithful, Batch
  <2>4. version \in Known => commits[i].batch = Batch
    BY <2>2, <2>3, <1>1
  <2>. QED BY <2>1, <2>2, <2>4 DEF Has
<1>4. CASE ~Recorded(commits)
  <2>1. new = Append(commits, commit)
    BY <1>4 DEF Write
  <2>. HIDE DEF new, commit
  <2>2. /\ new \in Seq(Commits) /\ Len(new) = Len(commits) + 1 /\ Len(commits) \in Nat
        /\ DOMAIN commits = 1..Len(commits) /\ DOMAIN new = 1..Len(new)
        /\ \A i \in 1..Len(commits) : new[i] = commits[i]
        /\ new[Len(commits) + 1] = commit
    BY <2>1, <1>2
  <2>3. commit.version = version /\ commit.batch = Batch /\ commit.events = events
    BY DEF commit
  <2>4. \A i \in DOMAIN commits : commits[i].version = version /\ version \in Known
           => commits[i].batch < Batch
    BY <1>1, <1>4 DEF Recorded, Faithful
  <2>5. version \in Known => events = Part(version, Batch, o)
    BY RunningBatch
  <2>6. ASSUME NEW i \in DOMAIN new, new[i].version \in Known
        PROVE  /\ new[i].batch \in 1..Len(offsets[new[i].version])
               /\ new[i].events = Part(new[i].version, new[i].batch, o)
    <3>1. CASE i \in DOMAIN commits
      BY <3>1, <2>2, <2>6 DEF Faithful
    <3>2. CASE i = Len(commits) + 1
      BY <3>2, <2>2, <2>3, <2>5, <2>6, <1>1
    <3>. QED BY <3>1, <3>2, <2>2
  <2>7. ASSUME NEW i \in DOMAIN new, NEW j \in DOMAIN new, i < j,
               new[i].version = new[j].version, new[i].version \in Known
        PROVE  new[i].batch < new[j].batch
    <3>1. i \in DOMAIN commits
      BY <2>2, <2>7
    <3>2. CASE j \in DOMAIN commits
      BY <3>1, <3>2, <2>2, <2>7 DEF Faithful
    <3>3. CASE j = Len(commits) + 1
      BY <3>1, <3>3, <2>2, <2>3, <2>4, <2>7
    <3>. QED BY <3>2, <3>3, <2>2
  <2>8. Has(new, version, Batch)
    BY <2>2, <2>3 DEF Has
  <2>. QED BY <2>2, <2>6, <2>7, <2>8 DEF Faithful, new
<1>. QED BY <1>3, <1>4

(* What the callback reads back is its batch (typed_bronze.py:66-73). *)
LEMMA ReadsBackOwnBatch ==
    ASSUME IngestInv, phase = "silver", NEW t \in Tables
    PROVE  /\ ReadBack(t) \subseteq Events
           /\ version \in Known /\ t \in ChangedTables => ReadBack(t) = EventsFor(t)
<1>1. bronze[t] \in Seq(Commits)
  BY DEF IngestInv, TypeOK, Outputs
<1>2. ReadBack(t) \subseteq Events
  <2>1. \A i \in DOMAIN bronze[t] : bronze[t][i] \in Commits
    BY <1>1
  <2>2. \A c \in Commits : c.events \subseteq Events
    BY DEF Commits
  <2>. QED BY <2>1, <2>2 DEF ReadBack
<1>3. ASSUME version \in Known, t \in ChangedTables
      PROVE  ReadBack(t) = EventsFor(t)
  <2>1. \A i \in DOMAIN bronze[t] : bronze[t][i].version = version /\ bronze[t][i].batch = Batch
           => bronze[t][i].events = EventsFor(t)
    <3>1. Faithful(bronze[t], t)
      BY DEF IngestInv, TablesFaithful, Outputs
    <3>2. EventsFor(t) = Part(version, Batch, t)
      BY RunningBatch DEF IngestInv
    <3>. QED BY <3>1, <3>2, <1>3 DEF Faithful
  <2>2. PICK i \in DOMAIN bronze[t] : bronze[t][i].version = version /\ bronze[t][i].batch = Batch
    BY <1>3 DEF IngestInv, RunningIsRecorded, Has
  <2>. QED BY <2>1, <2>2 DEF ReadBack
<1>. QED BY <1>2, <1>3

--------------------------------------------------------------------------------
(* The steps. *)

LEMMA IngestInvInit == Init => IngestInv
<1>. SUFFICES ASSUME Init PROVE IngestInv
  OBVIOUS
<1>. USE CdcIngestAssumption
<1>1. TypeOK
  BY DEF Init, TypeOK, Phases
<1>2. \A v \in 1..Versions : Len(offsets[v]) = 0 /\ finished[v] = 0
  BY DEF Init
<1>3. Increasing /\ OneOutstanding
  BY <1>2 DEF Init, Increasing, OneOutstanding
<1>4. TablesFaithful
  BY DEF Init, TablesFaithful, Faithful
<1>5. CommittedIsRecorded /\ RunningIsRecorded
  BY <1>2 DEF Init, CommittedIsRecorded, RunningIsRecorded, Known
<1>. QED BY <1>1, <1>3, <1>4, <1>5 DEF IngestInv

(* Planning a batch leaves the batches before it as they are. *)
LEMMA PlanKeepsBatches ==
    ASSUME TypeOK, Increasing, NEW end \in (LastEnd(offsets[version]) + 1)..raw,
           offsets' = [offsets EXCEPT ![version] = Append(@, end)],
           UNCHANGED <<source, version>>
    PROVE  /\ offsets' \in [1..Versions -> Seq(1..Length)]
           /\ Len(offsets'[version]) = Len(offsets[version]) + 1
           /\ \A v \in 1..Versions : v # version => offsets'[v] = offsets[v]
           /\ Increasing'
           /\ \A v \in 1..Versions : \A n \in 1..Len(offsets[v]) :
                 \A o : Part(v, n, o)' = Part(v, n, o)
<1>. USE CdcIngestAssumption
<1>1. /\ version \in 1..Versions /\ offsets \in [1..Versions -> Seq(1..Length)]
      /\ raw \in 0..Length
  BY DEF TypeOK
<1>2. PICK ends \in Seq(1..Length) : ends = offsets[version]
  BY <1>1
<1>3. Len(ends) \in Nat /\ LastEnd(ends) \in Nat
  BY DEF LastEnd
<1>4. end \in 1..Length
  BY <1>1, <1>2, <1>3
<1>5. /\ Append(ends, end) \in Seq(1..Length) /\ Len(Append(ends, end)) = Len(ends) + 1
      /\ \A n \in 1..Len(ends) : Append(ends, end)[n] = ends[n]
      /\ Append(ends, end)[Len(ends) + 1] = end
  BY <1>4
<1>6. /\ offsets' \in [1..Versions -> Seq(1..Length)]
      /\ offsets'[version] = Append(ends, end)
      /\ \A v \in 1..Versions : v # version => offsets'[v] = offsets[v]
  BY <1>1, <1>2, <1>5
<1>7. \A n \in 1..Len(ends) : ends[n] < end
  <2>. SUFFICES ASSUME NEW n \in 1..Len(ends) PROVE ends[n] < end
    OBVIOUS
  <2>1. ends # <<>> /\ Len(ends) \in 1..Len(ends)
    BY <1>3
  <2>2. ends[n] \in Nat /\ ends[Len(ends)] \in Nat /\ ends[Len(ends)] < end
    BY <2>1, <1>2, <1>4 DEF LastEnd
  <2>3. n < Len(ends) => ends[n] < ends[Len(ends)]
    BY <2>1, <1>1, <1>2, <1>3 DEF Increasing
  <2>. QED BY <2>2, <2>3, <1>3, <1>4
<1>8. Increasing'
  <2>. SUFFICES ASSUME NEW v \in 1..Versions, NEW m \in 1..Len(offsets'[v]),
                       NEW n \in 1..Len(offsets'[v]), m < n
                PROVE  offsets'[v][m] < offsets'[v][n]
    BY DEF Increasing
  <2>1. CASE v # version
    BY <2>1, <1>6 DEF Increasing
  <2>2. CASE v = version /\ n \in 1..Len(ends)
    BY <2>2, <1>2, <1>3, <1>5, <1>6 DEF Increasing
  <2>3. CASE v = version /\ n = Len(ends) + 1
    <3>1. m \in 1..Len(ends)
      BY <2>3, <1>3, <1>5, <1>6
    <3>2. offsets'[v][m] = ends[m] /\ offsets'[v][n] = end
      BY <3>1, <2>3, <1>5, <1>6
    <3>. QED BY <3>1, <3>2, <1>7
  <2>. QED BY <2>1, <2>2, <2>3, <1>3, <1>5, <1>6
<1>9. ASSUME NEW v \in 1..Versions, NEW n \in 1..Len(offsets[v]), NEW o
      PROVE  Part(v, n, o)' = Part(v, n, o)
  <2>1. BatchEvents(offsets'[v], n) = BatchEvents(offsets[v], n)
    <3>1. CASE v # version
      BY <3>1, <1>6
    <3>2. CASE v = version
      <4>1. n \in 1..Len(ends) /\ (n # 1 => n - 1 \in 1..Len(ends))
        BY <3>2, <1>2, <1>3
      <4>. QED BY <4>1, <3>2, <1>2, <1>5, <1>6 DEF BatchEvents
    <3>. QED BY <3>1, <3>2
  <2>. QED BY <2>1 DEF Part
<1>. QED BY <1>2, <1>5, <1>6, <1>8, <1>9

LEMMA StartBatchKeepsInv == IngestInv /\ StartBatch => IngestInv'
<1>. SUFFICES ASSUME IngestInv, StartBatch PROVE IngestInv'
  OBVIOUS
<1>. USE CdcIngestAssumption
<1>1. PICK end \in (LastEnd(offsets[version]) + 1)..raw :
          offsets' = [offsets EXCEPT ![version] = Append(@, end)]
  BY DEF StartBatch
<1>2. /\ phase = "idle" /\ phase' = "quarantine" /\ Batch = finished[version]
      /\ UNCHANGED <<source, raw, version, finished, bronze, silver, todo, forgotten, resets, crashes>>
  BY DEF StartBatch, tables, operator
<1>3. /\ offsets' \in [1..Versions -> Seq(1..Length)]
      /\ Len(offsets'[version]) = Len(offsets[version]) + 1
      /\ \A v \in 1..Versions : v # version => offsets'[v] = offsets[v]
      /\ Increasing'
      /\ \A v \in 1..Versions : \A n \in 1..Len(offsets[v]) :
            \A o : Part(v, n, o)' = Part(v, n, o)
  BY <1>1, <1>2, PlanKeepsBatches DEF IngestInv
<1>4. \A v \in 1..Versions : /\ Len(offsets[v]) \in Nat /\ finished[v] \in Nat
                             /\ finished[v] <= Len(offsets[v])
                             /\ Len(offsets[v]) <= Len(offsets'[v]) /\ Len(offsets'[v]) \in Nat
  <2>. SUFFICES ASSUME NEW v \in 1..Versions
                PROVE  /\ Len(offsets[v]) \in Nat /\ finished[v] \in Nat
                       /\ finished[v] <= Len(offsets[v])
                       /\ Len(offsets[v]) <= Len(offsets'[v]) /\ Len(offsets'[v]) \in Nat
    OBVIOUS
  <2>1. offsets[v] \in Seq(1..Length) /\ finished[v] \in Nat
    BY DEF IngestInv, TypeOK
  <2>2. Len(offsets[v]) \in Nat
    BY <2>1
  <2>3. finished[v] <= Len(offsets[v])
    BY <2>1, <2>2 DEF IngestInv, OneOutstanding
  <2>4. Len(offsets'[v]) \in {Len(offsets[v]), Len(offsets[v]) + 1}
    BY <1>3
  <2>. QED BY <2>1, <2>2, <2>3, <2>4
<1>5. TypeOK'
  BY <1>2, <1>3 DEF IngestInv, TypeOK, Phases
<1>6. OneOutstanding'
  <2>1. version \in 1..Versions
    BY DEF IngestInv, TypeOK
  <2>2. \A v \in 1..Versions : finished'[v] \in {Len(offsets'[v]), Len(offsets'[v]) - 1}
    <3>2. ASSUME NEW v \in 1..Versions, v # version
          PROVE  finished'[v] \in {Len(offsets'[v]), Len(offsets'[v]) - 1}
      BY <3>2, <1>2, <1>3 DEF IngestInv, OneOutstanding
    <3>3. finished'[version] = Len(offsets'[version]) - 1
      BY <2>1, <1>2, <1>3, <1>4 DEF Batch
    <3>. QED BY <3>2, <3>3
  <2>3. finished'[version'] = Batch' - 1
    BY <2>1, <1>2, <1>3, <1>4 DEF Batch
  <2>. QED BY <2>2, <2>3, <1>2 DEF IngestInv, OneOutstanding
<1>7. \A v \in Known : v \in 1..Versions
  BY DEF Known
<1>8. TablesFaithful'
  <2>1. ASSUME NEW o \in Outputs PROVE Faithful(bronze[o], o)'
    <3>1. Faithful(bronze[o], o) /\ bronze'[o] = bronze[o] /\ Known' = Known
      BY <1>2 DEF IngestInv, TablesFaithful, Known
    <3>2. ASSUME NEW i \in DOMAIN bronze[o], bronze[o][i].version \in Known
          PROVE  /\ bronze[o][i].batch \in 1..Len(offsets'[bronze[o][i].version])
                 /\ bronze[o][i].events = Part(bronze[o][i].version, bronze[o][i].batch, o)'
      <4>1. PICK v \in Known : v = bronze[o][i].version
        BY <3>2
      <4>2. PICK n \in 1..Len(offsets[v]) : n = bronze[o][i].batch
        BY <4>1, <3>1 DEF Faithful
      <4>3. bronze[o][i].events = Part(v, n, o)
        BY <4>1, <4>2, <3>1 DEF Faithful
      <4>4. n \in 1..Len(offsets'[v]) /\ Part(v, n, o)' = Part(v, n, o)
        BY <1>3, <1>4, <1>7
      <4>5. Part(v, n, o)' = Part(bronze[o][i].version, bronze[o][i].batch, o)'
        BY <4>1, <4>2, <1>2 DEF Part
      <4>. QED BY <4>1, <4>2, <4>3, <4>4, <4>5
    <3>. QED BY <3>1, <3>2 DEF Faithful
  <2>2. ASSUME NEW t \in Tables PROVE Faithful(silver[t], t)'
    <3>1. Faithful(silver[t], t) /\ silver'[t] = silver[t] /\ Known' = Known
      BY <1>2 DEF IngestInv, TablesFaithful, Known
    <3>2. ASSUME NEW i \in DOMAIN silver[t], silver[t][i].version \in Known
          PROVE  /\ silver[t][i].batch \in 1..Len(offsets'[silver[t][i].version])
                 /\ silver[t][i].events = Part(silver[t][i].version, silver[t][i].batch, t)'
      <4>1. PICK v \in Known : v = silver[t][i].version
        BY <3>2
      <4>2. PICK n \in 1..Len(offsets[v]) : n = silver[t][i].batch
        BY <4>1, <3>1 DEF Faithful
      <4>3. silver[t][i].events = Part(v, n, t)
        BY <4>1, <4>2, <3>1 DEF Faithful
      <4>4. n \in 1..Len(offsets'[v]) /\ Part(v, n, t)' = Part(v, n, t)
        BY <1>3, <1>4, <1>7
      <4>5. Part(v, n, t)' = Part(silver[t][i].version, silver[t][i].batch, t)'
        BY <4>1, <4>2, <1>2 DEF Part
      <4>. QED BY <4>1, <4>2, <4>3, <4>4, <4>5
    <3>. QED BY <3>1, <3>2 DEF Faithful
  <2>. QED BY <2>1, <2>2 DEF TablesFaithful
<1>9. CommittedIsRecorded'
  <2>. SUFFICES ASSUME NEW v \in Known, NEW n \in 1..finished[v]
                PROVE  /\ \A o \in Outputs : Part(v, n, o)' # {} => Has(bronze[o], v, n)'
                       /\ \A t \in Tables : \A e \in Part(v, n, t)' : InSilver(e)'
    BY <1>2 DEF CommittedIsRecorded, Known
  <2>1. v \in 1..Versions /\ n \in 1..Len(offsets[v])
    BY <1>4, <1>7
  <2>2. \A o : Part(v, n, o)' = Part(v, n, o)
    BY <2>1, <1>3
  <2>3. /\ \A o \in Outputs : Part(v, n, o) # {} => Has(bronze[o], v, n)
        /\ \A t \in Tables : \A e \in Part(v, n, t) : InSilver(e)
    BY DEF IngestInv, CommittedIsRecorded
  <2>. QED BY <2>2, <2>3, <1>2 DEF Has, InSilver
<1>10. RunningIsRecorded'
  BY <1>2 DEF RunningIsRecorded
<1>. QED BY <1>3, <1>5, <1>6, <1>8, <1>9, <1>10 DEF IngestInv

(* Steps that write no table and plan no batch. *)
LEMMA QuietStep ==
    ASSUME IngestInv, UNCHANGED <<source, offsets, bronze, silver, forgotten>>
    PROVE  /\ Increasing' /\ TablesFaithful'
           /\ UNCHANGED finished => CommittedIsRecorded'
           /\ UNCHANGED <<version, todo>> /\ phase' = phase => RunningIsRecorded'
  BY DEF IngestInv, Increasing, TablesFaithful, Faithful, CommittedIsRecorded, RunningIsRecorded,
         Known, Part, Has, InSilver, EventsFor, ChangedTables, Batch

LEMMA QuietStepsKeepInv ==
    IngestInv /\ (Ingest \/ RerunBatch \/ Crash \/ BumpVersion) => IngestInv'
<1>. SUFFICES ASSUME IngestInv, Ingest \/ RerunBatch \/ Crash \/ BumpVersion
              PROVE  IngestInv'
  OBVIOUS
<1>. USE CdcIngestAssumption
<1>1. UNCHANGED <<source, offsets, finished, bronze, silver, forgotten>>
  BY DEF Ingest, RerunBatch, Crash, BumpVersion, checkpoint, tables, operator
<1>2. Increasing' /\ TablesFaithful' /\ CommittedIsRecorded'
  BY <1>1, QuietStep
<1>3. TypeOK'
  <2>. USE DEF IngestInv, TypeOK, checkpoint, tables, callback, operator, Phases
  <2>1. CASE Ingest
    BY <2>1 DEF Ingest
  <2>2. CASE RerunBatch
    BY <2>2 DEF RerunBatch
  <2>3. CASE Crash
    BY <2>3 DEF Crash
  <2>4. CASE BumpVersion
    BY <2>4 DEF BumpVersion
  <2>. QED BY <2>1, <2>2, <2>3, <2>4
<1>4. OneOutstanding'
  <2>1. CASE Ingest \/ RerunBatch \/ Crash
    <3>1. UNCHANGED version
      BY <2>1 DEF Ingest, RerunBatch, Crash, checkpoint
    <3>2. CASE Ingest
      BY <3>1, <3>2, <1>1 DEF Ingest, callback, IngestInv, OneOutstanding, Batch, ChangedTables, EventsFor
    <3>3. CASE RerunBatch
      <4>1. version \in 1..Versions /\ finished[version] \in Nat /\ Len(offsets[version]) \in Nat
        BY DEF IngestInv, TypeOK
      <4>2. finished[version] = Batch - 1
        BY <4>1, <3>3 DEF RerunBatch, IngestInv, OneOutstanding, Batch
      <4>. QED BY <4>2, <3>1, <3>3, <1>1 DEF RerunBatch, IngestInv, OneOutstanding, Batch
    <3>4. CASE Crash
      BY <3>4, <1>1 DEF Crash, IngestInv, OneOutstanding
    <3>. QED BY <2>1, <3>2, <3>3, <3>4
  <2>2. CASE BumpVersion
    BY <2>2, <1>1 DEF BumpVersion, callback, IngestInv, OneOutstanding
  <2>. QED BY <2>1, <2>2
<1>5. RunningIsRecorded'
  <2>1. CASE Ingest
    BY <2>1, <1>1, QuietStep DEF Ingest, checkpoint, callback
  <2>2. CASE RerunBatch \/ Crash \/ BumpVersion
    BY <2>2 DEF RerunBatch, Crash, BumpVersion, callback, RunningIsRecorded
  <2>. QED BY <2>1, <2>2
<1>. QED BY <1>2, <1>3, <1>4, <1>5 DEF IngestInv

LEMMA HandOverKeepsInv == IngestInv /\ HandOver => IngestInv'
<1>. SUFFICES ASSUME IngestInv, HandOver PROVE IngestInv'
  OBVIOUS
<1>1. /\ UNCHANGED <<source, raw, version, offsets, finished, bronze, silver, forgotten, resets, crashes>>
      /\ phase = "typed" /\ phase' = "silver" /\ todo = {} /\ todo' = ChangedTables
  BY DEF HandOver, checkpoint, tables, operator
<1>2. Increasing' /\ TablesFaithful' /\ CommittedIsRecorded'
  BY <1>1, QuietStep
<1>3. TypeOK'
  BY <1>1 DEF IngestInv, TypeOK, Phases, ChangedTables
<1>4. ChangedTables' = ChangedTables /\ Batch' = Batch /\ Known' = Known
  BY <1>1 DEF ChangedTables, EventsFor, Batch, Known
<1>5. OneOutstanding'
  BY <1>1, <1>4 DEF IngestInv, OneOutstanding
<1>6. RunningIsRecorded'
  <2>1. \A o : EventsFor(o)' = EventsFor(o)
    BY <1>1 DEF EventsFor, Batch
  <2>. QED BY <2>1, <1>1, <1>4 DEF IngestInv, RunningIsRecorded, Has
<1>. QED BY <1>2, <1>3, <1>5, <1>6 DEF IngestInv

LEMMA FinishBatchKeepsInv == IngestInv /\ FinishBatch => IngestInv'
<1>. SUFFICES ASSUME IngestInv, FinishBatch PROVE IngestInv'
  OBVIOUS
<1>1. /\ UNCHANGED <<source, raw, version, offsets, bronze, silver, todo, forgotten, resets, crashes>>
      /\ phase = "silver" /\ phase' = "idle" /\ todo = {}
      /\ finished' = [finished EXCEPT ![version] = Batch]
  BY DEF FinishBatch, tables, operator
<1>2. Increasing' /\ TablesFaithful'
  BY <1>1, QuietStep
<1>3. /\ version \in 1..Versions /\ Batch \in 1..Len(offsets[version]) /\ Batch \in Nat
      /\ finished[version] = Batch - 1 /\ finished \in [1..Versions -> Nat]
      /\ \A o : EventsFor(o) = Part(version, Batch, o)
  BY <1>1, RunningBatch DEF IngestInv, TypeOK
<1>4. TypeOK'
  BY <1>1, <1>3 DEF IngestInv, TypeOK, Phases
<1>5. OneOutstanding'
  BY <1>1, <1>3 DEF IngestInv, OneOutstanding, Batch
<1>6. RunningIsRecorded'
  BY <1>1 DEF RunningIsRecorded
<1>7. CommittedIsRecorded'
  <2>. SUFFICES ASSUME NEW v \in Known, NEW n \in 1..finished'[v]
                PROVE  /\ \A o \in Outputs : Part(v, n, o) # {} => Has(bronze[o], v, n)
                       /\ \A t \in Tables : \A e \in Part(v, n, t) : InSilver(e)
    BY <1>1 DEF CommittedIsRecorded, Known, Part, Has, InSilver
  <2>1. CASE n \in 1..finished[v]
    BY <2>1 DEF IngestInv, CommittedIsRecorded
  <2>2. CASE v = version /\ n = Batch
    <3>1. ASSUME NEW o \in Outputs, Part(v, n, o) # {} PROVE Has(bronze[o], v, n)
      <4>1. EventsFor(o) # {}
        BY <3>1, <2>2, <1>3
      <4>2. CASE o = Quarantine
        BY <4>1, <4>2, <2>2, <1>1 DEF IngestInv, RunningIsRecorded
      <4>3. CASE o \in Tables
        BY <4>1, <4>3, <2>2, <1>1 DEF IngestInv, RunningIsRecorded, ChangedTables
      <4>. QED BY <4>2, <4>3 DEF Outputs
    <3>2. ASSUME NEW t \in Tables, NEW e \in Part(v, n, t) PROVE InSilver(e)
      <4>1. e \in EventsFor(t) /\ t \in ChangedTables \ todo
        BY <3>2, <2>2, <1>1, <1>3 DEF ChangedTables
      <4>. QED BY <4>1, <2>2, <1>1 DEF IngestInv, RunningIsRecorded
    <3>. QED BY <3>1, <3>2
  <2>3. v \in 1..Versions
    BY DEF Known
  <2>4. CASE v # version
    BY <2>1, <2>3, <2>4, <1>1, <1>3
  <2>5. CASE v = version
    <3>1. finished'[v] = Batch /\ finished[v] = Batch - 1
      BY <2>5, <1>1, <1>3
    <3>2. n \in 1..(Batch - 1) \/ n = Batch
      BY <3>1, <1>3
    <3>. QED BY <3>1, <3>2, <2>1, <2>2, <2>5
  <2>. QED BY <2>4, <2>5
<1>. QED BY <1>2, <1>4, <1>5, <1>6, <1>7 DEF IngestInv

(* A step of the running callback that appends to typed Bronze or Silver and *)
(* keeps every commit.                                                       *)
LEMMA WriteStep ==
    ASSUME IngestInv, phase # "idle", phase' # "idle",
           UNCHANGED <<source, raw, version, offsets, finished, forgotten, resets, crashes>>,
           bronze' \in [Outputs -> Seq(Commits)], silver' \in [Tables -> Seq(Commits)],
           \A o \in Outputs : /\ Faithful(bronze'[o], o)
                              /\ DOMAIN bronze[o] \subseteq DOMAIN bronze'[o]
                              /\ \A i \in DOMAIN bronze[o] : bronze'[o][i] = bronze[o][i],
           \A t \in Tables : /\ Faithful(silver'[t], t)
                             /\ DOMAIN silver[t] \subseteq DOMAIN silver'[t]
                             /\ \A i \in DOMAIN silver[t] : silver'[t][i] = silver[t][i],
           phase' \in Phases, todo' \subseteq ChangedTables,
           phase' \notin {"idle", "quarantine"}
    PROVE  /\ TypeOK' /\ Increasing' /\ OneOutstanding' /\ TablesFaithful' /\ CommittedIsRecorded'
           /\ \A o \in Outputs : \A v, n : Has(bronze[o], v, n) => Has(bronze'[o], v, n)
           /\ \A t \in Tables : \A e : source[e] = t /\ InSilver(e) => InSilver(e)'
<1>1. TypeOK'
  <2>1. todo' \subseteq Tables
    BY DEF ChangedTables
  <2>. QED BY <2>1 DEF IngestInv, TypeOK
<1>2. Increasing' /\ Known' = Known /\ \A v, n, o : Part(v, n, o)' = Part(v, n, o)
  BY DEF IngestInv, Increasing, Known, Part
<1>3. OneOutstanding'
  BY DEF IngestInv, OneOutstanding, ChangedTables, EventsFor, Batch
<1>4. TablesFaithful'
  BY <1>2 DEF TablesFaithful, Faithful
<1>5. \A o \in Outputs : \A v, n : Has(bronze[o], v, n) => Has(bronze'[o], v, n)
  BY DEF Has
<1>6. \A t \in Tables : \A e : source[e] = t /\ InSilver(e) => InSilver(e)'
  BY DEF InSilver
<1>7. CommittedIsRecorded'
  <2>. SUFFICES ASSUME NEW v \in Known, NEW n \in 1..finished[v]
                PROVE  /\ \A o \in Outputs : Part(v, n, o) # {} => Has(bronze'[o], v, n)
                       /\ \A t \in Tables : \A e \in Part(v, n, t) : InSilver(e)'
    BY <1>2 DEF CommittedIsRecorded, Has
  <2>1. \A t \in Tables : \A e \in Part(v, n, t) : source[e] = t
    BY DEF Part
  <2>. QED BY <2>1, <1>5, <1>6 DEF IngestInv, CommittedIsRecorded
<1>. QED BY <1>1, <1>2, <1>3, <1>4, <1>5, <1>6, <1>7

LEMMA WriteQuarantineKeepsInv == IngestInv /\ WriteQuarantine => IngestInv'
<1>. SUFFICES ASSUME IngestInv, WriteQuarantine PROVE IngestInv'
  OBVIOUS
<1>. DEFINE new == Write(bronze[Quarantine], EventsFor(Quarantine))
<1>1. /\ UNCHANGED <<source, raw, version, offsets, finished, silver, forgotten, resets, crashes>>
      /\ phase = "quarantine" /\ phase' = "typed" /\ todo' = ChangedTables
      /\ bronze' = IF EventsFor(Quarantine) = {} THEN bronze ELSE [bronze EXCEPT ![Quarantine] = new]
  BY DEF WriteQuarantine, checkpoint, operator
<1>2. /\ bronze \in [Outputs -> Seq(Commits)] /\ silver \in [Tables -> Seq(Commits)]
      /\ Quarantine \in Outputs
      /\ \A o \in Outputs : Faithful(bronze[o], o)
      /\ \A t \in Tables : Faithful(silver[t], t)
      /\ EventsFor(Quarantine) \subseteq Events
  BY <1>1, RunningBatch DEF IngestInv, TypeOK, TablesFaithful, Outputs
<1>3. /\ new \in Seq(Commits) /\ Faithful(new, Quarantine)
      /\ DOMAIN bronze[Quarantine] \subseteq DOMAIN new
      /\ \A i \in DOMAIN bronze[Quarantine] : new[i] = bronze[Quarantine][i]
      /\ version \in Known => Has(new, version, Batch)
  <2>1. bronze[Quarantine] \in Seq(Commits)
    BY <1>2
  <2>. HIDE DEF new
  <2>. QED BY <1>1, <1>2, <2>1, WriteKeepsFaithful DEF IngestInv, new
<1>. HIDE DEF new
<1>4. /\ bronze' \in [Outputs -> Seq(Commits)]
      /\ \A o \in Outputs : /\ Faithful(bronze'[o], o)
                            /\ DOMAIN bronze[o] \subseteq DOMAIN bronze'[o]
                            /\ \A i \in DOMAIN bronze[o] : bronze'[o][i] = bronze[o][i]
      /\ EventsFor(Quarantine) # {} => bronze'[Quarantine] = new
  BY <1>1, <1>2, <1>3
<1>5. /\ TypeOK' /\ Increasing' /\ OneOutstanding' /\ TablesFaithful' /\ CommittedIsRecorded'
  BY <1>1, <1>2, <1>4, WriteStep DEF Phases
<1>6. RunningIsRecorded'
  <2>1. Known' = Known /\ Batch' = Batch /\ ChangedTables' = ChangedTables
        /\ EventsFor(Quarantine)' = EventsFor(Quarantine)
    BY <1>1 DEF Known, Batch, ChangedTables, EventsFor
  <2>. QED BY <2>1, <1>1, <1>3, <1>4 DEF RunningIsRecorded, Has
<1>. QED BY <1>5, <1>6 DEF IngestInv

LEMMA AppendTableKeepsInv ==
    ASSUME IngestInv, NEW t \in Tables, AppendTable(t)
    PROVE  IngestInv'
<1>. DEFINE new == Write(bronze[t], EventsFor(t))
<1>1. /\ UNCHANGED <<source, raw, version, offsets, finished, silver, phase, forgotten, resets, crashes>>
      /\ phase = "typed" /\ t \in todo /\ todo' = todo \ {t}
      /\ bronze' = [bronze EXCEPT ![t] = new]
  BY DEF AppendTable, checkpoint, operator
<1>2. /\ bronze \in [Outputs -> Seq(Commits)] /\ silver \in [Tables -> Seq(Commits)]
      /\ t \in Outputs /\ t # Quarantine
      /\ \A o \in Outputs : Faithful(bronze[o], o)
      /\ \A u \in Tables : Faithful(silver[u], u)
      /\ EventsFor(t) \subseteq Events
      /\ todo \subseteq ChangedTables
  BY <1>1, RunningBatch, CdcIngestAssumption DEF IngestInv, TypeOK, TablesFaithful, Outputs, OneOutstanding
<1>3. /\ new \in Seq(Commits) /\ Faithful(new, t)
      /\ DOMAIN bronze[t] \subseteq DOMAIN new
      /\ \A i \in DOMAIN bronze[t] : new[i] = bronze[t][i]
      /\ version \in Known => Has(new, version, Batch)
  <2>1. bronze[t] \in Seq(Commits)
    BY <1>2
  <2>. HIDE DEF new
  <2>. QED BY <1>1, <1>2, <2>1, WriteKeepsFaithful DEF IngestInv, new
<1>. HIDE DEF new
<1>4. /\ bronze' \in [Outputs -> Seq(Commits)]
      /\ \A o \in Outputs : /\ Faithful(bronze'[o], o)
                            /\ DOMAIN bronze[o] \subseteq DOMAIN bronze'[o]
                            /\ \A i \in DOMAIN bronze[o] : bronze'[o][i] = bronze[o][i]
      /\ bronze'[t] = new
  BY <1>1, <1>2, <1>3
<1>5. /\ TypeOK' /\ Increasing' /\ OneOutstanding' /\ TablesFaithful' /\ CommittedIsRecorded'
      /\ \A o \in Outputs : \A v, n : Has(bronze[o], v, n) => Has(bronze'[o], v, n)
  BY <1>1, <1>2, <1>4, WriteStep DEF Phases
<1>6. RunningIsRecorded'
  <2>1. Known' = Known /\ Batch' = Batch /\ ChangedTables' = ChangedTables
        /\ EventsFor(Quarantine)' = EventsFor(Quarantine)
    BY <1>1 DEF Known, Batch, ChangedTables, EventsFor
  <2>2. version \in Known => Has(bronze'[t], version, Batch)
    BY <1>3, <1>4
  <2>3. version \in Known => \A u \in ChangedTables \ (todo \ {t}) : Has(bronze'[u], version, Batch)
    BY <2>2, <1>1, <1>5 DEF IngestInv, RunningIsRecorded, ChangedTables, Outputs
  <2>4. version \in Known /\ EventsFor(Quarantine) # {} => Has(bronze'[Quarantine], version, Batch)
    BY <1>1, <1>5 DEF IngestInv, RunningIsRecorded, Outputs
  <2>. QED BY <2>1, <2>3, <2>4, <1>1 DEF RunningIsRecorded, Has
<1>. QED BY <1>5, <1>6 DEF IngestInv

LEMMA MergeTableKeepsInv ==
    ASSUME IngestInv, NEW t \in Tables, MergeTable(t)
    PROVE  IngestInv'
<1>. DEFINE new == Write(silver[t], ReadBack(t))
<1>1. /\ UNCHANGED <<source, raw, version, offsets, finished, bronze, phase, forgotten, resets, crashes>>
      /\ phase = "silver" /\ t \in todo /\ todo' = todo \ {t}
      /\ silver' = [silver EXCEPT ![t] = new]
  BY DEF MergeTable, checkpoint, operator
<1>2. /\ bronze \in [Outputs -> Seq(Commits)] /\ silver \in [Tables -> Seq(Commits)]
      /\ \A o \in Outputs : Faithful(bronze[o], o)
      /\ \A u \in Tables : Faithful(silver[u], u)
      /\ todo \subseteq ChangedTables
  BY <1>1 DEF IngestInv, TypeOK, TablesFaithful, OneOutstanding
<1>3. /\ ReadBack(t) \in SUBSET Events
      /\ version \in Known => ReadBack(t) = EventsFor(t)
  BY <1>1, <1>2, ReadsBackOwnBatch
<1>4. /\ new \in Seq(Commits) /\ Faithful(new, t)
      /\ DOMAIN silver[t] \subseteq DOMAIN new
      /\ \A i \in DOMAIN silver[t] : new[i] = silver[t][i]
      /\ version \in Known => Has(new, version, Batch)
  <2>1. silver[t] \in Seq(Commits)
    BY <1>2
  <2>. HIDE DEF new
  <2>. QED BY <1>1, <1>2, <1>3, <2>1, WriteKeepsFaithful DEF IngestInv, new
<1>. HIDE DEF new
<1>5. /\ silver' \in [Tables -> Seq(Commits)]
      /\ \A u \in Tables : /\ Faithful(silver'[u], u)
                           /\ DOMAIN silver[u] \subseteq DOMAIN silver'[u]
                           /\ \A i \in DOMAIN silver[u] : silver'[u][i] = silver[u][i]
      /\ silver'[t] = new
  BY <1>1, <1>2, <1>4
<1>6. /\ TypeOK' /\ Increasing' /\ OneOutstanding' /\ TablesFaithful' /\ CommittedIsRecorded'
      /\ \A u \in Tables : \A e : source[e] = u /\ InSilver(e) => InSilver(e)'
  BY <1>1, <1>2, <1>5, WriteStep DEF Phases
<1>7. ASSUME version \in Known, NEW e \in EventsFor(t)
      PROVE  InSilver(e)'
  <2>1. PICK i \in DOMAIN new : new[i].version = version /\ new[i].batch = Batch
    BY <1>4, <1>7 DEF Has
  <2>2. new[i].events = EventsFor(t)
    BY <2>1, <1>1, <1>4, <1>7, RunningBatch DEF Faithful, IngestInv
  <2>3. source'[e] = t
    BY <1>1 DEF EventsFor
  <2>. QED BY <2>1, <2>2, <2>3, <1>5 DEF InSilver
<1>8. RunningIsRecorded'
  <2>1. Known' = Known /\ Batch' = Batch /\ ChangedTables' = ChangedTables
        /\ \A o : EventsFor(o)' = EventsFor(o)
    BY <1>1 DEF Known, Batch, ChangedTables, EventsFor
  <2>2. ASSUME version \in Known, NEW u \in ChangedTables \ (todo \ {t}), NEW e \in EventsFor(u)
        PROVE  InSilver(e)'
    <3>1. CASE u = t
      BY <3>1, <2>2, <1>7
    <3>2. CASE u # t
      <4>1. source[e] = u /\ u \in Tables
        BY DEF EventsFor, ChangedTables
      <4>. QED BY <4>1, <3>2, <2>2, <1>1, <1>6 DEF IngestInv, RunningIsRecorded
    <3>. QED BY <3>1, <3>2
  <2>. QED BY <2>1, <2>2, <1>1 DEF IngestInv, RunningIsRecorded, Has
<1>. QED BY <1>6, <1>8 DEF IngestInv

LEMMA ResetsKeepInv == IngestInv /\ (ResetState \/ ResetSilver) => IngestInv'
<1>. SUFFICES ASSUME IngestInv, ResetState \/ ResetSilver PROVE IngestInv'
  OBVIOUS
<1>. USE CdcIngestAssumption
<1>1. /\ offsets' = [v \in 1..Versions |-> <<>>] /\ finished' = [v \in 1..Versions |-> 0]
      /\ silver' = [t \in Tables |-> <<>>]
      /\ phase = "idle" /\ resets < MaxResets /\ resets' = resets + 1
      /\ UNCHANGED <<source, version, phase, todo, crashes>>
  BY DEF ResetState, ResetSilver, EmptyCheckpoints, callback
<1>2. \A v \in 1..Versions : Len(offsets'[v]) = 0 /\ finished'[v] = 0
  BY <1>1
<1>3. TypeOK'
  <2>1. /\ raw' \in 0..Length /\ bronze' \in [Outputs -> Seq(Commits)]
        /\ forgotten' \subseteq 1..Versions
    <3>1. CASE ResetState
      BY <3>1 DEF IngestInv, TypeOK, ResetState
    <3>2. CASE ResetSilver
      BY <3>2 DEF IngestInv, TypeOK, ResetSilver
    <3>. QED BY <3>1, <3>2
  <2>. QED BY <2>1, <1>1 DEF IngestInv, TypeOK, Phases
<1>4. Increasing' /\ OneOutstanding'
  BY <1>1, <1>2 DEF IngestInv, Increasing, OneOutstanding
<1>5. CommittedIsRecorded' /\ RunningIsRecorded'
  BY <1>1, <1>2 DEF CommittedIsRecorded, RunningIsRecorded, Known
<1>6. TablesFaithful'
  <2>1. ASSUME NEW o \in Outputs PROVE Faithful(bronze[o], o)'
    <3>1. CASE ResetState
      BY <3>1 DEF ResetState, Faithful
    <3>2. CASE ResetSilver
      \* A version with commits has a plan, so it is forgotten.
      <4>1. bronze' = bronze /\ forgotten' = forgotten \cup {v \in 1..Versions : offsets[v] # <<>>}
        BY <3>2 DEF ResetSilver
      <4>2. ASSUME NEW i \in DOMAIN bronze[o], bronze[o][i].version \in Known'
            PROVE  FALSE
        <5>1. PICK v \in 1..Versions : /\ v = bronze[o][i].version
                                       /\ v \in Known /\ offsets[v] = <<>>
          BY <4>1, <4>2 DEF Known
        <5>2. bronze[o][i].batch \in 1..Len(offsets[v])
          BY <5>1 DEF IngestInv, TablesFaithful, Faithful
        <5>. QED BY <5>1, <5>2
      <4>. QED BY <4>1, <4>2 DEF Faithful
    <3>. QED BY <3>1, <3>2
  <2>2. ASSUME NEW t \in Tables PROVE Faithful(silver[t], t)'
    BY <1>1 DEF Faithful
  <2>. QED BY <2>1, <2>2 DEF TablesFaithful
<1>. QED BY <1>3, <1>4, <1>5, <1>6 DEF IngestInv

LEMMA IngestInvStep == IngestInv /\ [Next]_vars => IngestInv'
<1>. SUFFICES ASSUME IngestInv, [Next]_vars PROVE IngestInv'
  OBVIOUS
<1>1. CASE Ingest \/ Crash \/ BumpVersion
  BY <1>1, QuietStepsKeepInv
<1>2. CASE RunBatch
  BY <1>2, QuietStepsKeepInv, StartBatchKeepsInv, WriteQuarantineKeepsInv, HandOverKeepsInv,
     FinishBatchKeepsInv, AppendTableKeepsInv, MergeTableKeepsInv DEF RunBatch
<1>3. CASE ResetState \/ ResetSilver
  BY <1>3, ResetsKeepInv
<1>4. CASE UNCHANGED vars
  <2>1. UNCHANGED <<source, raw, version, offsets, finished, bronze, silver, phase, todo, forgotten,
                    resets, crashes>>
    BY <1>4 DEF vars, checkpoint, tables, callback, operator
  <2>2. TypeOK' /\ OneOutstanding'
    BY <2>1 DEF IngestInv, TypeOK, OneOutstanding, Batch, ChangedTables, EventsFor
  <2>. QED BY <2>1, <2>2, QuietStep DEF IngestInv
<1>. QED BY <1>1, <1>2, <1>3, <1>4 DEF Next

--------------------------------------------------------------------------------
(* What follows from the invariant. *)

LEMMA LandsOnce == IngestInv => EachEventLandsOnce
<1>. SUFFICES ASSUME IngestInv, NEW v \in (1..Versions) \ forgotten
              PROVE  /\ \A e \in Events : \A i, j \in Copies(v, e) : i = j
                     /\ \A e \in Consumed(v) : Copies(v, e) # {}
  BY DEF EachEventLandsOnce
<1>. USE CdcIngestAssumption
<1>1. v \in Known /\ v \in 1..Versions /\ TypeOK /\ Increasing
  BY DEF Known, IngestInv
<1>2. ASSUME NEW e \in Events, NEW i \in Copies(v, e), NEW j \in Copies(v, e), i < j
      PROVE  FALSE
  <2>1. Faithful(bronze[source[e]], source[e])
    BY <1>1 DEF TypeOK, IngestInv, TablesFaithful
  <2>2. /\ i \in DOMAIN bronze[source[e]] /\ j \in DOMAIN bronze[source[e]]
        /\ bronze[source[e]][i].version = v /\ bronze[source[e]][j].version = v
        /\ e \in bronze[source[e]][i].events /\ e \in bronze[source[e]][j].events
    BY DEF Copies
  <2>3. PICK m \in 1..Len(offsets[v]), n \in 1..Len(offsets[v]) :
            m = bronze[source[e]][i].batch /\ n = bronze[source[e]][j].batch
    BY <2>1, <2>2, <1>1 DEF Faithful
  <2>4. m < n
    BY <2>1, <2>2, <2>3, <1>1, <1>2 DEF Faithful
  <2>5. e \in BatchEvents(offsets[v], m) /\ e \in BatchEvents(offsets[v], n)
    BY <2>1, <2>2, <2>3, <1>1 DEF Faithful, Part
  <2>. QED BY <2>4, <2>5, <1>1, BatchesDisjoint
<1>3. ASSUME NEW e \in Events, NEW i \in Copies(v, e), NEW j \in Copies(v, e)
      PROVE  i = j
  <2>1. bronze[source[e]] \in Seq(Commits)
    BY <1>1 DEF TypeOK
  <2>2. i \in Nat /\ j \in Nat
    BY <2>1 DEF Copies
  <2>. QED BY <2>2, <1>2
<1>4. ASSUME NEW e \in Consumed(v)
      PROVE  Copies(v, e) # {}
  <2>1. PICK n \in 1..finished[v] : e \in BatchEvents(offsets[v], n)
    BY DEF Consumed
  <2>2. n \in 1..Len(offsets[v])
    <3>1. finished[v] \in Nat /\ offsets[v] \in Seq(1..Length)
      BY <1>1 DEF TypeOK
    <3>2. finished[v] <= Len(offsets[v]) /\ Len(offsets[v]) \in Nat
      BY <1>1, <3>1 DEF IngestInv, OneOutstanding
    <3>. QED BY <3>1, <3>2
  <2>3. e \in Events /\ source[e] \in Outputs /\ e \in Part(v, n, source[e])
    BY <2>1, <2>2, <1>1, BatchInEvents DEF TypeOK, Part
  <2>4. Has(bronze[source[e]], v, n) /\ Faithful(bronze[source[e]], source[e])
    BY <2>3, <1>1 DEF IngestInv, CommittedIsRecorded, TablesFaithful
  <2>. QED BY <2>3, <2>4, <1>1 DEF Has, Faithful, Copies
<1>. QED BY <1>3, <1>4

LEMMA SilverHasCommitted == IngestInv => CommittedIsInSilver
<1>. SUFFICES ASSUME IngestInv, NEW v \in (1..Versions) \ forgotten, NEW e \in Consumed(v),
                     source[e] \in Tables
              PROVE  InSilver(e)
  BY DEF CommittedIsInSilver
<1>1. PICK n \in 1..finished[v] : e \in BatchEvents(offsets[v], n)
  BY DEF Consumed
<1>2. e \in Part(v, n, source[e])
  BY <1>1 DEF Part
<1>. QED BY <1>2 DEF IngestInv, CommittedIsRecorded, Known

(* Every variable of the queries stays in its type, for every set of tables, *)
(* every number of events and versions, crashes and resets included.         *)
THEOREM TypeCorrect == Spec => []TypeOK
<1>. QED BY IngestInvInit, IngestInvStep, PTL DEF Spec, IngestInv

(* Under one checkpoint_version no crash and no rerun of a micro-batch loses *)
(* an event of typed Bronze or the quarantine, or puts it there twice        *)
(* (TypedBronzeMaterializer.materialize).                                    *)
THEOREM TypedBronzeExactlyOnce == Spec => []EachEventLandsOnce
<1>. QED BY IngestInvInit, IngestInvStep, LandsOnce, PTL DEF Spec

(* What the query has committed, Silver has: process_batch returns only when *)
(* everything it read back, which is all of its batch, is merged.            *)
THEOREM CommittedBatchesReachSilver == Spec => []CommittedIsInSilver
<1>. QED BY IngestInvInit, IngestInvStep, SilverHasCommitted, PTL DEF Spec

LEMMA MergeStepsMergeOwnBatch ==
    ASSUME IngestInv, Next, NEW t \in Tables,
           Len(silver'[t]) > Len(silver[t]), version \in Known
    PROVE  silver'[t][Len(silver'[t])].events = EventsFor(t)
<1>1. silver \in [Tables -> Seq(Commits)] /\ silver[t] \in Seq(Commits) /\ Len(silver[t]) \in Nat
  BY DEF IngestInv, TypeOK
<1>2. CASE \E u \in Tables : MergeTable(u)
  <2>1. PICK u \in Tables : MergeTable(u)
    BY <1>2
  <2>2. /\ phase = "silver" /\ u \in todo
        /\ silver' = [silver EXCEPT ![u] = Write(silver[u], ReadBack(u))]
    BY <2>1 DEF MergeTable
  <2>3. u = t
    BY <2>2, <1>1
  <2>4. ReadBack(t) = EventsFor(t)
    BY <2>2, <2>3, ReadsBackOwnBatch DEF IngestInv, OneOutstanding
  <2>5. silver'[t] = Append(silver[t], [version |-> version, batch |-> Batch, events |-> EventsFor(t)])
    BY <2>2, <2>3, <2>4, <1>1 DEF Write
  <2>. DEFINE commit == [version |-> version, batch |-> Batch, events |-> EventsFor(t)]
  <2>6. commit.events = EventsFor(t)
    OBVIOUS
  <2>. HIDE DEF commit
  <2>7. silver'[t][Len(silver'[t])] = commit
    BY <2>5, <1>1 DEF commit
  <2>. QED BY <2>6, <2>7
<1>3. CASE silver' = silver
  BY <1>3, <1>1
<1>4. CASE silver' = [u \in Tables |-> <<>>]
  BY <1>4, <1>1
<1>5. \/ \E u \in Tables : MergeTable(u)
      \/ silver' = silver
      \/ silver' = [u \in Tables |-> <<>>]
  BY DEF Next, RunBatch, Ingest, StartBatch, RerunBatch, WriteQuarantine, HandOver, FinishBatch,
         AppendTable, Crash, BumpVersion, ResetState, ResetSilver, tables
<1>. QED BY <1>2, <1>3, <1>4, <1>5

(* A merge takes in its micro-batch and nothing else: not a row of another   *)
(* batch, of another checkpoint_version or of an attempt that died           *)
(* (the read by _batch_id in TypedBronzeMaterializer.materialize).           *)
THEOREM MergesExactlyItsBatch == Spec => MergesOwnBatch
<1>1. IngestInv /\ [Next]_vars =>
        [\A t \in Tables :
            Len(silver'[t]) > Len(silver[t]) /\ version \notin forgotten
               => silver'[t][Len(silver'[t])].events = EventsFor(t)]_vars
  <2>. SUFFICES ASSUME IngestInv, Next, NEW t \in Tables,
                       Len(silver'[t]) > Len(silver[t]), version \notin forgotten
                PROVE  silver'[t][Len(silver'[t])].events = EventsFor(t)
    OBVIOUS
  <2>1. version \in Known
    BY DEF IngestInv, TypeOK, Known
  <2>. QED BY <2>1, MergeStepsMergeOwnBatch
<1>. QED BY <1>1, IngestInvInit, IngestInvStep, PTL DEF Spec, MergesOwnBatch

================================================================================

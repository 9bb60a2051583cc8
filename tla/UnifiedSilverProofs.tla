--------------------------- MODULE UnifiedSilverProofs ---------------------------
(***************************************************************************)
(* What the two writers of UnifiedSilver guarantee for every set of keys   *)
(* and every number of changes.  The argument follows a row: it is always  *)
(* an event of its key (RowsAreEvents); a row of the stream is the newest  *)
(* event the stream has merged for its key (StreamRowsNewest); and a row   *)
(* is never older than a batch event the progress claims                   *)
(* (ProgressReflected).  When both channels have delivered everything,     *)
(* these leave only the last change of each key.                           *)
(***************************************************************************)
EXTENDS UnifiedSilver, FiniteSetTheorems, SequenceTheorems, TLAPS

(* The capture follows the log: in order, and not before the change. *)
CaptureInOrder ==
    /\ \A i \in 1..Len(captured) : i <= captured[i] /\ captured[i] <= Len(source)
    /\ \A i, j \in 1..Len(captured) : i <= j => captured[i] <= captured[j]

(* One writer holds the lock, and what it has read of the progress holds.  *)
WriterInv ==
    /\ batch.phase \in {"idle", "extracted"} \/ stream \in {"idle", "written"}
    /\ batch.phase \in {"append", "merge"} =>
          \/ progress \in Nat /\ batch.from = progress + 1
          \/ progress = NoProgress /\ batch.from = 1
    /\ streamTxn.silver \in {consumed, planned}
    /\ stream = "written" => streamTxn.silver = planned
    /\ progress = NoTable => silver = EmptyTable

RowsAreEvents ==
    \A k \in Keys : silver[k] # NoRow =>
        \E i \in 1..Len(source) :
            /\ source[i].key = k
            /\ silver[k] = BatchEvent(i) \/ (silver[k] = CdcEvent(i) /\ i <= Len(captured))

StreamRowsNewest ==
    \A k \in Keys : silver[k] # NoRow /\ silver[k].priority = 2 =>
        /\ silver[k].change <= streamTxn.silver
        /\ \A i \in 1..streamTxn.silver : source[i].key = k => i <= silver[k].change

SilverInv ==
    /\ TypeOK
    /\ CaptureInOrder
    /\ WriterInv
    /\ RowsAreEvents
    /\ StreamRowsNewest
    /\ ProgressReflected

--------------------------------------------------------------------------------
(* The sequence columns order the rows totally. *)
LEMMA NewerIsTotalOrder ==
    ASSUME NEW r \in Rows, NEW s \in Rows, NEW t \in Rows
    PROVE  /\ ~Newer(r, r)
           /\ ~Newer(r, s) /\ ~Newer(s, t) => ~Newer(r, t)
           /\ Newer(r, s) => ~Newer(s, r)
  BY DEF Newer, Rows

(* A nonempty set of changes up to a bound has a last one: the one with the *)
(* fewest changes after it.                                                  *)
LEMMA LastExists ==
    ASSUME NEW n \in Nat, NEW S \in SUBSET (1..n), S # {}
    PROVE  \E m \in S : \A i \in S : i <= m
<1>. DEFINE After(i) == {j \in S : i < j}
            Afters == {After(i) : i \in S}
            Fewer == StrictSubsetOrdering(S)
<1>1. IsFiniteSet(S)
  BY FS_Interval, FS_Subset, 1 \in Int, n \in Int
<1>2. IsWellFoundedOn(Fewer, FiniteSubsetsOf(S))
  BY <1>1, FS_StrictSubsetOrderingWellFounded
<1>3. Afters \subseteq FiniteSubsetsOf(S) /\ Afters # {}
  <2>1. \A i \in S : After(i) \in SUBSET S /\ IsFiniteSet(After(i))
    BY <1>1, FS_Subset
  <2>. QED BY <2>1 DEF FiniteSubsetsOf
<1>4. PICK U \in Afters : \A V \in Afters : ~ (<<V, U>> \in Fewer)
  <2>. HIDE DEF Afters, Fewer
  <2>. QED BY <1>2, <1>3, WFMin
<1>5. PICK m \in S : U = After(m)
  OBVIOUS
<1>6. ASSUME NEW i \in S, ~ (i <= m)
      PROVE  FALSE
  <2>1. \A j \in S : j \in Int
    OBVIOUS
  <2>2. i \in After(m) /\ i \notin After(i)
    BY <1>6, <2>1
  <2>3. After(i) \subseteq After(m)
    <3>. SUFFICES ASSUME NEW j \in S, i < j
                  PROVE  m < j
      OBVIOUS
    <3>1. i \in Int /\ j \in Int /\ m \in Int
      BY <2>1
    <3>. QED BY <1>6, <3>1
  <2>4. <<After(i), After(m)>> \in Fewer
    BY <2>2, <2>3 DEF StrictSubsetOrdering
  <2>. QED BY <1>4, <1>5, <2>4
<1>. QED BY <1>6

(* Some event of the key, if there is one, is not older than the others.   *)
HasNewest(events, k) ==
    (\E e \in events : e.key = k) =>
        \E m \in events : m.key = k /\ \A f \in events : f.key = k => ~Newer(f, m)

(* What the MERGE leaves in the row of a key. *)
LEMMA MergeRow ==
    ASSUME NEW table \in [Keys -> Rows \cup {NoRow}], NEW events \in SUBSET Rows,
           NEW inserts, NEW k \in Keys, HasNewest(events, k)
    PROVE  LET row == Merge(table, events, inserts)[k]
           IN  /\ row \in Rows \cup {NoRow}
               /\ row # table[k] => row \in events /\ row.key = k
               /\ row # table[k] /\ table[k] # NoRow => Newer(row, table[k])
               /\ table[k] # NoRow => row # NoRow /\ ~Newer(table[k], row)
               /\ row # NoRow => \A f \in events : f.key = k => ~Newer(f, row)
<1>. DEFINE row == Merge(table, events, inserts)[k]
            mine == {e \in events : e.key = k}
            newest == Newest(mine)
<1>0. mine = {} \/ \E m \in mine : \A f \in mine : ~Newer(f, m)
  BY DEF HasNewest
<1>1. NoRow \notin Rows
  BY UnifiedSilverAssumption
<1>2. CASE mine = {}
  <2>1. row = table[k]
    BY <1>2 DEF Merge
  <2>. QED BY <1>2, <2>1, NewerIsTotalOrder
<1>3. CASE \E m \in mine : \A f \in mine : ~Newer(f, m)
  <2>1. newest \in mine /\ \A f \in mine : ~Newer(f, newest)
    BY <1>3 DEF Newest
  <2>2. row = IF table[k] = NoRow
              THEN IF newest.deleted /\ ~inserts THEN NoRow ELSE newest
              ELSE IF Newer(newest, table[k]) THEN newest ELSE table[k]
    BY <1>3 DEF Merge
  <2>3. mine \subseteq Rows /\ newest \in Rows /\ newest # NoRow
    BY <1>1, <2>1
  <2>4. CASE table[k] = NoRow
    BY <2>1, <2>2, <2>3, <2>4, NewerIsTotalOrder
  <2>5. CASE table[k] # NoRow /\ Newer(newest, table[k])
    <3>1. row = newest /\ table[k] \in Rows
      BY <2>2, <2>5
    <3>2. ~Newer(table[k], row)
      BY <2>3, <2>5, <3>1, NewerIsTotalOrder
    <3>. QED BY <2>1, <2>3, <2>5, <3>1, <3>2
  <2>6. CASE table[k] # NoRow /\ ~Newer(newest, table[k])
    <3>1. row = table[k] /\ table[k] \in Rows
      BY <2>2, <2>6
    <3>2. \A f \in mine : ~Newer(f, row)
      BY <2>1, <2>3, <2>6, <3>1, NewerIsTotalOrder
    <3>. QED BY <2>6, <3>1, <3>2, NewerIsTotalOrder
  <2>. QED BY <2>4, <2>5, <2>6
<1>. QED BY <1>0, <1>2, <1>3

(* A merge that inserts tombstones leaves a row for each key it has seen. *)
LEMMA MergeInserts ==
    ASSUME NEW table \in [Keys -> Rows \cup {NoRow}], NEW events \in SUBSET Rows,
           NEW k \in Keys, HasNewest(events, k), NEW f \in events, f.key = k
    PROVE  Merge(table, events, TRUE)[k] # NoRow
<1>. DEFINE mine == {e \in events : e.key = k}
            newest == Newest(mine)
<1>1. \E m \in mine : \A e \in mine : ~Newer(e, m)
  BY DEF HasNewest
<1>2. newest \in mine
  BY <1>1 DEF Newest
<1>3. newest # NoRow
  BY <1>2, UnifiedSilverAssumption
<1>. QED BY <1>2, <1>3 DEF Merge

(* A change is a row in both its forms. *)
LEMMA EventsAreRows ==
    ASSUME TypeOK
    PROVE  /\ \A i \in 1..Len(source) : BatchEvent(i) \in Rows
           /\ \A i \in 1..Len(captured) : CdcEvent(i) \in Rows /\ captured[i] \in Nat
<1>1. \A i \in 1..Len(source) : source[i].key \in Keys /\ i \in Nat
  <2>1. \A i \in 1..Len(source) : source[i] \in [key : Keys, op : Ops]
    BY ElementOfSeq DEF TypeOK
  <2>. QED BY <2>1
<1>2. \A i \in 1..Len(captured) : i \in 1..Len(source) /\ captured[i] \in Nat
  BY DEF TypeOK
<1>3. \A i \in 1..Len(source) : (source[i].op = "DELETE") \in BOOLEAN
  OBVIOUS
<1>4. \A i \in 1..Len(source) : BatchEvent(i) \in Rows
  BY <1>1, <1>3 DEF BatchEvent, Rows
<1>5. \A i \in 1..Len(captured) : CdcEvent(i) \in Rows
  BY <1>1, <1>2, <1>3 DEF CdcEvent, Rows
<1>. QED BY <1>2, <1>4, <1>5

(* The batch events of a key in a range have a newest one: the last. *)
LEMMA BatchNewest ==
    ASSUME TypeOK, NEW lo \in Nat \ {0}, NEW hi \in 0..Len(source), NEW k \in Keys
    PROVE  BatchEvents(lo, hi) \in SUBSET Rows /\ HasNewest(BatchEvents(lo, hi), k)
<1>. DEFINE S == {i \in lo..hi : source[i].key = k}
<1>1. \A i \in 1..Len(source) : BatchEvent(i) \in Rows
  BY EventsAreRows
<1>2. lo..hi \subseteq 1..Len(source) /\ hi \in Nat
  BY DEF TypeOK
<1>3. \A e : e \in BatchEvents(lo, hi) /\ e.key = k <=> \E i \in S : e = BatchEvent(i)
  BY DEF BatchEvents, BatchEvent
<1>4. ASSUME S # {}
      PROVE  HasNewest(BatchEvents(lo, hi), k)
  <2>1. S \in SUBSET (1..hi)
    OBVIOUS
  <2>2. PICK m \in S : \A i \in S : i <= m
    <3>. HIDE DEF S
    <3>. QED BY <1>2, <1>4, <2>1, LastExists
  <2>3. \A i \in S : ~Newer(BatchEvent(i), BatchEvent(m))
    BY <2>2 DEF Newer, BatchEvent
  <2>. HIDE DEF S
  <2>4. BatchEvent(m) \in BatchEvents(lo, hi) /\ BatchEvent(m).key = k
    BY <1>3
  <2>5. \A f \in BatchEvents(lo, hi) : f.key = k => ~Newer(f, BatchEvent(m))
    BY <1>3, <2>3
  <2>. QED BY <2>4, <2>5 DEF HasNewest
<1>5. BatchEvents(lo, hi) \in SUBSET Rows
  BY <1>1, <1>2 DEF BatchEvents
<1>6. ASSUME S = {}
      PROVE  HasNewest(BatchEvents(lo, hi), k)
  <2>1. \A e \in BatchEvents(lo, hi) : e.key # k
    BY <1>3, <1>6
  <2>. QED BY <2>1 DEF HasNewest
<1>. QED BY <1>4, <1>5, <1>6

(* So do its stream events, because the capture times follow the log. *)
LEMMA CdcNewest ==
    ASSUME TypeOK, CaptureInOrder, NEW lo \in Nat \ {0}, NEW hi \in 0..Len(captured), NEW k \in Keys
    PROVE  CdcEvents(lo, hi) \in SUBSET Rows /\ HasNewest(CdcEvents(lo, hi), k)
<1>. DEFINE S == {i \in lo..hi : source[i].key = k}
<1>1. \A i \in 1..Len(captured) : CdcEvent(i) \in Rows /\ captured[i] \in Nat
  BY EventsAreRows
<1>2. lo..hi \subseteq 1..Len(captured) /\ hi \in Nat
  BY DEF TypeOK
<1>3. \A e : e \in CdcEvents(lo, hi) /\ e.key = k <=> \E i \in S : e = CdcEvent(i)
  BY DEF CdcEvents, CdcEvent
<1>4. ASSUME S # {}
      PROVE  HasNewest(CdcEvents(lo, hi), k)
  <2>1. S \in SUBSET (1..hi)
    OBVIOUS
  <2>2. PICK m \in S : \A i \in S : i <= m
    <3>. HIDE DEF S
    <3>. QED BY <1>2, <1>4, <2>1, LastExists
  <2>3. ASSUME NEW i \in S
        PROVE  ~Newer(CdcEvent(i), CdcEvent(m))
    <3>1. i \in 1..Len(captured) /\ m \in 1..Len(captured) /\ i <= m
      BY <1>2, <2>2
    <3>2. captured[i] <= captured[m] /\ captured[i] \in Nat /\ captured[m] \in Nat
      BY <1>1, <3>1 DEF CaptureInOrder
    <3>. QED BY <3>1, <3>2 DEF Newer, CdcEvent
  <2>. HIDE DEF S
  <2>4. CdcEvent(m) \in CdcEvents(lo, hi) /\ CdcEvent(m).key = k
    BY <1>3
  <2>5. \A f \in CdcEvents(lo, hi) : f.key = k => ~Newer(f, CdcEvent(m))
    BY <1>3, <2>3
  <2>. QED BY <2>4, <2>5 DEF HasNewest
<1>5. CdcEvents(lo, hi) \in SUBSET Rows
  BY <1>1, <1>2 DEF CdcEvents
<1>6. ASSUME S = {}
      PROVE  HasNewest(CdcEvents(lo, hi), k)
  <2>1. \A e \in CdcEvents(lo, hi) : e.key # k
    BY <1>3, <1>6
  <2>. QED BY <2>1 DEF HasNewest
<1>. QED BY <1>4, <1>5, <1>6

(* What a merge of batch events leaves in a row, in terms of the changes. *)
BatchRow(table, lo, hi, k) == Merge(table, BatchEvents(lo, hi), TRUE)[k]

(* The merged row is the old one, or the last change of the range of its key. *)
LEMMA MergeBatchRows ==
    ASSUME TypeOK, NEW lo \in Nat \ {0}, NEW hi \in 0..Len(source), NEW k \in Keys,
           NEW table \in [Keys -> Rows \cup {NoRow}]
    PROVE  LET row == BatchRow(table, lo, hi, k)
           IN  /\ row # table[k] => \E i \in lo..hi : source[i].key = k /\ row = BatchEvent(i)
               /\ row # table[k] /\ table[k] # NoRow => Newer(row, table[k])
               /\ table[k] # NoRow => row # NoRow /\ ~Newer(table[k], row)
               /\ \A i \in lo..hi : source[i].key = k => row # NoRow /\ ~Newer(BatchEvent(i), row)
<1>. DEFINE events == BatchEvents(lo, hi)
            row == Merge(table, events, TRUE)[k]
<1>1. events \in SUBSET Rows /\ HasNewest(events, k)
  BY BatchNewest
<1>2. \A e : e \in events /\ e.key = k <=> \E i \in lo..hi : source[i].key = k /\ e = BatchEvent(i)
  BY DEF BatchEvents, BatchEvent
<1>3. /\ row # table[k] => row \in events /\ row.key = k
      /\ row # table[k] /\ table[k] # NoRow => Newer(row, table[k])
      /\ table[k] # NoRow => row # NoRow /\ ~Newer(table[k], row)
      /\ row # NoRow => \A f \in events : f.key = k => ~Newer(f, row)
  <2>. HIDE DEF events
  <2>. QED BY <1>1, MergeRow
<1>4. \A f \in events : f.key = k => row # NoRow
  <2>. HIDE DEF events
  <2>. QED BY <1>1, MergeInserts
<1>. HIDE DEF row, events
<1>5. /\ row # table[k] => \E i \in lo..hi : source[i].key = k /\ row = BatchEvent(i)
      /\ \A i \in lo..hi : source[i].key = k => row # NoRow /\ ~Newer(BatchEvent(i), row)
  BY <1>2, <1>3, <1>4
<1>. QED BY <1>3, <1>5 DEF row, events, BatchRow

(* So for the stream; a tombstone alone may leave no row. *)
LEMMA MergeCdcRows ==
    ASSUME TypeOK, CaptureInOrder, NEW lo \in Nat \ {0}, NEW hi \in 0..Len(captured), NEW k \in Keys,
           NEW table \in [Keys -> Rows \cup {NoRow}], NEW inserts,
           NEW row, row = Merge(table, CdcEvents(lo, hi), inserts)[k]
    PROVE  /\ row \in Rows \cup {NoRow}
           /\ row # table[k] => \E i \in lo..hi : source[i].key = k /\ row = CdcEvent(i)
           /\ table[k] # NoRow => row # NoRow /\ ~Newer(table[k], row)
           /\ \A i \in lo..hi : source[i].key = k /\ row # NoRow => ~Newer(CdcEvent(i), row)
<1>. DEFINE events == CdcEvents(lo, hi)
<1>1. events \in SUBSET Rows /\ HasNewest(events, k)
  BY CdcNewest
<1>2. \A e : e \in events /\ e.key = k <=> \E i \in lo..hi : source[i].key = k /\ e = CdcEvent(i)
  BY DEF CdcEvents, CdcEvent
<1>3. row = Merge(table, events, inserts)[k]
  OBVIOUS
<1>. HIDE DEF events
<1>4. LET r == Merge(table, events, inserts)[k]
      IN  /\ r \in Rows \cup {NoRow}
          /\ r # table[k] => r \in events /\ r.key = k
          /\ r # table[k] /\ table[k] # NoRow => Newer(r, table[k])
          /\ table[k] # NoRow => r # NoRow /\ ~Newer(table[k], r)
          /\ r # NoRow => \A f \in events : f.key = k => ~Newer(f, r)
  BY <1>1, MergeRow
<1>. QED BY <1>2, <1>3, <1>4

(* The MERGE yields a table. *)
LEMMA MergeBatchType ==
    ASSUME TypeOK, NEW lo \in Nat \ {0}, NEW hi \in 0..Len(source),
           NEW table \in [Keys -> Rows \cup {NoRow}]
    PROVE  Merge(table, BatchEvents(lo, hi), TRUE) \in [Keys -> Rows \cup {NoRow}]
<1>1. ASSUME NEW k \in Keys
      PROVE  Merge(table, BatchEvents(lo, hi), TRUE)[k] \in Rows \cup {NoRow}
  <2>1. BatchEvents(lo, hi) \in SUBSET Rows /\ HasNewest(BatchEvents(lo, hi), k)
    BY BatchNewest
  <2>. QED BY <2>1, MergeRow
<1>. QED BY <1>1 DEF Merge

(* So does the MERGE of the callback, and its write of a missing table. *)
LEMMA MergeCdcType ==
    ASSUME TypeOK, CaptureInOrder, NEW lo \in Nat \ {0}, NEW hi \in 0..Len(captured),
           NEW table \in [Keys -> Rows \cup {NoRow}], NEW inserts
    PROVE  Merge(table, CdcEvents(lo, hi), inserts) \in [Keys -> Rows \cup {NoRow}]
<1>1. \A k \in Keys : Merge(table, CdcEvents(lo, hi), inserts)[k] \in Rows \cup {NoRow}
  BY MergeCdcRows
<1>. QED BY <1>1 DEF Merge

--------------------------------------------------------------------------------
(* The assignments to the records of the two writers keep their types. *)
LEMMA BatchUpdates ==
    ASSUME NEW F, NEW B, NEW b \in [phase : BatchPhases, from : F, upTo : B], NEW p \in BatchPhases
    PROVE  /\ [b EXCEPT !.phase = p] \in [phase : BatchPhases, from : F, upTo : B]
           /\ \A f \in F : [b EXCEPT !.phase = p, !.from = f] \in [phase : BatchPhases, from : F, upTo : B]
           /\ \A C : \A c \in C : [b EXCEPT !.phase = p, !.upTo = c] \in [phase : BatchPhases, from : F, upTo : C]
<1>. HIDE DEF BatchPhases
<1>. QED OBVIOUS

(* The callback sets one of its two txnVersions at a time. *)
LEMMA TxnUpdates ==
    ASSUME NEW T, NEW t \in [history : T, silver : T], NEW n \in T
    PROVE  /\ [t EXCEPT !.history = n] \in [history : T, silver : T]
           /\ [t EXCEPT !.silver = n] \in [history : T, silver : T]
  OBVIOUS

(* Every variable stays in its type and the capture in order. *)
LEMMA TypeStep ==
    ASSUME TypeOK, CaptureInOrder, [Next]_vars
    PROVE  TypeOK' /\ CaptureInOrder'
<1>. USE UnifiedSilverAssumption DEF sourceVars, batchVars, streamVars
<1>. DEFINE Changes == [channel : {"batch", "cdc"}, change : 1..Len(source)]
            Tables == [Keys -> Rows \cup {NoRow}]
<1>0. /\ Len(source) \in Nat /\ Len(captured) \in 0..Len(source)
      /\ bronze \in 0..Len(source) /\ bronze \in 0..bronze /\ batchTxn \in 0..bronze
      /\ batch.phase \in BatchPhases /\ batch.from \in Nat \ {0} /\ batch.upTo \in 0..Len(source)
      /\ batch.upTo \in 0..bronze
      /\ planned \in 0..Len(captured) /\ consumed \in 0..planned /\ consumed + 1 \in Nat \ {0}
      /\ silver \in Tables /\ EmptyTable \in Tables
      /\ history \in SUBSET Changes
      /\ batch \in [phase : BatchPhases, from : Nat \ {0}, upTo : 0..bronze]
      /\ streamTxn \in [history : 0..planned, silver : 0..planned]
      /\ planned \in 0..planned /\ 1 \in Nat \ {0}
  BY DEF TypeOK, EmptyTable
<1>1. ASSUME NEW k \in Keys, NEW op \in Ops, Change(k, op)
      PROVE  TypeOK' /\ CaptureInOrder'
  <2>1. /\ source' \in Seq([key : Keys, op : Ops])
        /\ Len(source') = Len(source) + 1
    BY <1>1 DEF Change, TypeOK
  <2>. QED BY <1>1, <2>1 DEF Change, TypeOK, CaptureInOrder
<1>2. CASE Capture
  <2>1. /\ captured' \in Seq(Nat)
        /\ Len(captured') = Len(captured) + 1
        /\ \A i \in 1..Len(captured) : captured'[i] = captured[i]
        /\ captured'[Len(captured) + 1] = Len(source)
        /\ Len(source) \in Nat /\ Len(captured) < Len(source)
    BY <1>2, AppendProperties DEF Capture, TypeOK
  <2>. QED BY <1>2, <2>1 DEF Capture, TypeOK, CaptureInOrder
<1>3. CASE Extract
  <2>1. PICK upTo \in bronze..Len(source) :
            bronze' = upTo /\ batch' = [batch EXCEPT !.phase = "extracted", !.upTo = upTo]
    BY <1>3 DEF Extract
  <2>2. batch' \in [phase : BatchPhases, from : Nat \ {0}, upTo : 0..bronze']
    <3>1. upTo \in 0..bronze' /\ "extracted" \in BatchPhases
      BY <1>0, <2>1 DEF BatchPhases
    <3>. QED BY <1>0, <2>1, <3>1, BatchUpdates
  <2>3. bronze' \in 0..Len(source) /\ 0..bronze \subseteq 0..bronze'
    BY <1>0, <2>1
  <2>. QED BY <1>3, <2>2, <2>3 DEF Extract, TypeOK, CaptureInOrder
<1>4. CASE ReadBronzeVersion
  <2>1. batch' = [batch EXCEPT !.phase = "extracted", !.upTo = bronze] /\ "extracted" \in BatchPhases
    BY <1>4 DEF ReadBronzeVersion, BatchPhases
  <2>2. batch' \in [phase : BatchPhases, from : Nat \ {0}, upTo : 0..bronze]
    BY <1>0, <2>1, BatchUpdates
  <2>. QED BY <1>4, <2>2 DEF ReadBronzeVersion, TypeOK, CaptureInOrder
<1>5. CASE CrashBatch
  <2>1. batch' = [batch EXCEPT !.phase = "idle"] /\ "idle" \in BatchPhases
    BY <1>5 DEF CrashBatch, BatchPhases
  <2>2. batch' \in [phase : BatchPhases, from : Nat \ {0}, upTo : 0..bronze]
    BY <1>0, <2>1, BatchUpdates
  <2>. QED BY <1>5, <2>2 DEF CrashBatch, TypeOK, CaptureInOrder
<1>6. CASE ChooseReplace
  <2>1. batch' = [batch EXCEPT !.phase = "replace"] /\ "replace" \in BatchPhases
    BY <1>6 DEF ChooseReplace, BatchPhases
  <2>2. batch' \in [phase : BatchPhases, from : Nat \ {0}, upTo : 0..bronze]
    BY <1>0, <2>1, BatchUpdates
  <2>. QED BY <1>6, <2>2 DEF ChooseReplace, TypeOK, CaptureInOrder
<1>7. CASE ChooseSnapshotMerge
  <2>1. batch' = [batch EXCEPT !.phase = "append", !.from = 1] /\ "append" \in BatchPhases
    BY <1>7 DEF ChooseSnapshotMerge, BatchPhases
  <2>2. batch' \in [phase : BatchPhases, from : Nat \ {0}, upTo : 0..bronze]
    BY <1>0, <2>1, BatchUpdates
  <2>. QED BY <1>7, <2>2 DEF ChooseSnapshotMerge, TypeOK, CaptureInOrder
<1>8. CASE ChooseNothing
  <2>1. batch' = [batch EXCEPT !.phase = "idle"] /\ "idle" \in BatchPhases
    BY <1>8 DEF ChooseNothing, BatchPhases
  <2>2. batch' \in [phase : BatchPhases, from : Nat \ {0}, upTo : 0..bronze]
    BY <1>0, <2>1, BatchUpdates
  <2>. QED BY <1>8, <2>2 DEF ChooseNothing, TypeOK, CaptureInOrder
<1>9. CASE ChooseIncremental
  <2>1. progress + 1 \in Nat \ {0}
    BY <1>9 DEF ChooseIncremental
  <2>. QED BY <1>9, <2>1 DEF ChooseIncremental, TypeOK, CaptureInOrder, BatchPhases
<1>10. CASE AppendBatchHistory
  <2>1. \A i \in batch.from..batch.upTo : [channel |-> "batch", change |-> i] \in Changes
    BY <1>0
  <2>2. history' \in SUBSET Changes /\ batchTxn' \in 0..bronze
    <3>. HIDE DEF Changes
    <3>. QED BY <1>0, <1>10, <2>1 DEF AppendBatchHistory
  <2>. QED BY <1>10, <2>2 DEF AppendBatchHistory, TypeOK, CaptureInOrder, BatchPhases
<1>11. CASE MergeBatch
  <2>1. silver' \in Tables
    BY <1>0, <1>11, MergeBatchType DEF MergeBatch
  <2>2. progress' \in 0..bronze
    BY <1>0, <1>11 DEF MergeBatch
  <2>. QED BY <1>11, <2>1, <2>2 DEF MergeBatch, TypeOK, CaptureInOrder, BatchPhases
<1>12. CASE ReplaceCurrent
  <2>1. silver' \in Tables
    <3>1. silver' = Merge(EmptyTable, BatchEvents(1, batch.upTo), TRUE) /\ 1 \in Nat \ {0}
      BY <1>12 DEF ReplaceCurrent
    <3>. QED BY <1>0, <3>1, MergeBatchType
  <2>2. progress' \in 0..bronze
    BY <1>0, <1>12 DEF ReplaceCurrent
  <2>. QED BY <1>12, <2>1, <2>2 DEF ReplaceCurrent, TypeOK, CaptureInOrder, BatchPhases
<1>13. CASE ReplaceHistory
  <2>1. history' \in SUBSET Changes
    BY <1>0, <1>13 DEF ReplaceHistory
  <2>. QED BY <1>13, <2>1 DEF ReplaceHistory, TypeOK, CaptureInOrder, BatchPhases
<1>14. CASE PlanMicroBatch
  <2>1. /\ planned' \in 0..Len(captured) /\ consumed \in 0..planned' /\ 0..planned \subseteq 0..planned'
        /\ UNCHANGED <<source, captured, bronze, batch, progress, batchTxn, consumed, stream,
                       streamTxn, silver, history>>
    BY <1>0, <1>14 DEF PlanMicroBatch
  <2>2. streamTxn \in [history : 0..planned', silver : 0..planned']
    BY <1>0, <2>1
  <2>. QED BY <2>1, <2>2 DEF TypeOK, CaptureInOrder
<1>18. CASE EnterCallback
  BY <1>18 DEF EnterCallback, TypeOK, CaptureInOrder
<1>19. CASE CommitMicroBatch
  BY <1>0, <1>19 DEF CommitMicroBatch, TypeOK, CaptureInOrder
<1>20. CASE CrashStream
  BY <1>20 DEF CrashStream, TypeOK, CaptureInOrder
<1>15. CASE AppendStreamHistory
  <2>1. \A i \in (consumed + 1)..planned : [channel |-> "cdc", change |-> i] \in Changes
    BY <1>0
  <2>2. history' \in SUBSET Changes
    <3>. HIDE DEF Changes
    <3>. QED BY <1>0, <1>15, <2>1 DEF AppendStreamHistory
  <2>3. streamTxn' \in [history : 0..planned, silver : 0..planned]
    BY <1>0, <1>15, TxnUpdates DEF AppendStreamHistory
  <2>4. /\ stream' = "merge"
        /\ UNCHANGED <<source, captured, bronze, batch, progress, batchTxn, consumed, planned, silver>>
    BY <1>15 DEF AppendStreamHistory
  <2>. HIDE DEF Changes
  <2>5. Changes' = Changes
    BY <2>4 DEF Changes
  <2>6. /\ source \in Seq([key : Keys, op : Ops])
        /\ captured \in Seq(Nat) /\ Len(captured) <= Len(source)
        /\ bronze \in 0..Len(source)
        /\ batch \in [phase : BatchPhases, from : Nat \ {0}, upTo : 0..bronze]
        /\ progress \in 0..bronze \cup {NoTable, NoProgress}
    BY DEF TypeOK
  <2>. QED BY <1>0, <2>2, <2>3, <2>4, <2>6 DEF TypeOK, CaptureInOrder, Changes
<1>16. CASE MergeStream
  <2>1. silver' \in Tables
    <3>1. \/ silver' = silver
          \/ silver' = Merge(EmptyTable, CdcEvents(consumed + 1, planned), TRUE)
          \/ silver' = Merge(silver, CdcEvents(consumed + 1, planned), FALSE)
      BY <1>16 DEF MergeStream
    <3>2. /\ Merge(EmptyTable, CdcEvents(consumed + 1, planned), TRUE) \in Tables
          /\ Merge(silver, CdcEvents(consumed + 1, planned), FALSE) \in Tables
      BY <1>0, MergeCdcType
    <3>. QED BY <1>0, <3>1, <3>2
  <2>2. progress' \in 0..bronze \cup {NoTable, NoProgress}
    BY <1>16 DEF MergeStream, TypeOK
  <2>3. streamTxn' \in [history : 0..planned, silver : 0..planned]
    <3>1. streamTxn' = streamTxn \/ streamTxn' = [streamTxn EXCEPT !.silver = planned]
      BY <1>16 DEF MergeStream
    <3>. QED BY <1>0, <3>1, TxnUpdates
  <2>4. /\ stream' = "written"
        /\ UNCHANGED <<source, captured, bronze, batch, batchTxn, consumed, planned, history>>
    BY <1>16 DEF MergeStream
  <2>. QED BY <2>1, <2>2, <2>3, <2>4 DEF TypeOK, CaptureInOrder
<1>17. CASE UNCHANGED vars
  BY <1>17 DEF vars, TypeOK, CaptureInOrder
<1>. QED BY <1>1, <1>2, <1>3, <1>4, <1>5, <1>6, <1>7, <1>8, <1>9, <1>10, <1>11, <1>12, <1>13, <1>14, <1>15, <1>16, <1>17,
     <1>18, <1>19, <1>20 DEF Next, BatchStep, StreamStep

(* Every variable of the two writers stays in its type, whatever the order *)
(* of their commits and crashes.                                           *)
THEOREM TypeCorrect == Spec => []TypeOK
<1>1. Init => TypeOK /\ CaptureInOrder
  BY DEF Init, TypeOK, CaptureInOrder, BatchPhases
<1>2. TypeOK /\ CaptureInOrder /\ [Next]_vars => TypeOK' /\ CaptureInOrder'
  BY TypeStep
<1>. QED BY <1>1, <1>2, PTL DEF Spec

--------------------------------------------------------------------------------
(* The steps that write Silver current, and what the others leave alone.    *)
WritesSilver == MergeBatch \/ ReplaceCurrent \/ (MergeStream /\ planned > streamTxn.silver)

(* A step that does not write Silver current leaves it and its progress. *)
LEMMA OthersKeepSilver ==
    ASSUME TypeOK, [Next]_vars, ~WritesSilver
    PROVE  silver' = silver /\ progress' = progress /\ streamTxn'.silver = streamTxn.silver
<1>. USE DEF sourceVars, batchVars, streamVars
<1>1. CASE AppendStreamHistory
  BY <1>1 DEF AppendStreamHistory, TypeOK
<1>2. CASE MergeStream
  BY <1>2 DEF MergeStream, TypeOK, WritesSilver
<1>3. CASE BatchStep
  BY <1>3 DEF BatchStep, WritesSilver, Extract, ReadBronzeVersion, ChooseReplace, ChooseSnapshotMerge,
              ChooseIncremental, ChooseNothing, AppendBatchHistory, ReplaceHistory, CrashBatch
<1>4. CASE PlanMicroBatch \/ EnterCallback \/ CommitMicroBatch \/ CrashStream
  BY <1>4 DEF PlanMicroBatch, EnterCallback, CommitMicroBatch, CrashStream
<1>5. CASE Capture \/ (\E k \in Keys, op \in Ops : Change(k, op)) \/ UNCHANGED vars
  BY <1>5 DEF Capture, Change, vars
<1>. QED BY <1>1, <1>2, <1>3, <1>4, <1>5 DEF Next, StreamStep

(* Only the source appends to its log, only Debezium to its capture.        *)
LEMMA LogsGrow ==
    ASSUME TypeOK, [Next]_vars
    PROVE  /\ Len(source) \in Nat /\ Len(source') \in Nat /\ Len(source) <= Len(source')
           /\ Len(captured) \in Nat /\ Len(captured') \in Nat /\ Len(captured) <= Len(captured')
           /\ \A i \in 1..Len(source) : source'[i] = source[i]
           /\ \A i \in 1..Len(captured) : captured'[i] = captured[i]
           /\ WritesSilver => source' = source /\ captured' = captured
<1>. USE DEF sourceVars
<1>0. /\ Len(source) \in Nat /\ source \in Seq([key : Keys, op : Ops])
      /\ Len(captured) \in Nat /\ captured \in Seq(Nat)
  BY DEF TypeOK
<1>1. WritesSilver => source' = source /\ captured' = captured
  BY DEF WritesSilver, MergeBatch, ReplaceCurrent, MergeStream
<1>2. ASSUME NEW k \in Keys, NEW op \in Ops, Change(k, op)
      PROVE  /\ Len(source') = Len(source) + 1 /\ captured' = captured
             /\ \A i \in 1..Len(source) : source'[i] = source[i]
  <2>1. [key |-> k, op |-> op] \in [key : Keys, op : Ops]
    OBVIOUS
  <2>. QED BY <1>0, <1>2, <2>1, AppendProperties DEF Change
<1>3. CASE Capture
  <2>1. /\ Len(captured') = Len(captured) + 1 /\ source' = source
        /\ \A i \in 1..Len(captured) : captured'[i] = captured[i]
    BY <1>0, <1>3, AppendProperties DEF Capture
  <2>. QED BY <1>0, <1>1, <2>1
<1>4. CASE BatchStep
  <2>1. UNCHANGED <<source, captured>>
    BY <1>4 DEF BatchStep, Extract, ReadBronzeVersion, ChooseReplace, ChooseSnapshotMerge, ChooseIncremental,
                ChooseNothing, AppendBatchHistory, MergeBatch, ReplaceCurrent, ReplaceHistory, CrashBatch
  <2>. QED BY <1>0, <2>1
<1>5. CASE StreamStep
  <2>1. UNCHANGED <<source, captured>>
    BY <1>5 DEF StreamStep, PlanMicroBatch, EnterCallback, AppendStreamHistory, MergeStream, CommitMicroBatch,
                CrashStream
  <2>. QED BY <1>0, <2>1
<1>6. CASE UNCHANGED vars
  BY <1>0, <1>6 DEF vars
<1>. QED BY <1>0, <1>1, <1>2, <1>3, <1>4, <1>5, <1>6 DEF Next

(* The three merges, row by row.                                            *)
LEMMA MergeBatchStep ==
    ASSUME SilverInv, MergeBatch, NEW k \in Keys
    PROVE  /\ silver'[k] # silver[k] =>
                  \E i \in 1..batch.upTo : source[i].key = k /\ silver'[k] = BatchEvent(i)
           /\ silver'[k] # silver[k] /\ silver[k] # NoRow => Newer(silver'[k], silver[k])
           /\ silver[k] # NoRow => silver'[k] # NoRow /\ ~Newer(silver[k], silver'[k])
           /\ \A i \in batch.from..batch.upTo :
                 source[i].key = k => silver'[k] # NoRow /\ ~Newer(BatchEvent(i), silver'[k])
<1>1. /\ TypeOK /\ batch.from \in Nat \ {0} /\ batch.upTo \in 0..Len(source)
      /\ silver \in [Keys -> Rows \cup {NoRow}]
  BY DEF SilverInv, TypeOK
<1>2. silver'[k] = BatchRow(silver, batch.from, batch.upTo, k)
  BY DEF MergeBatch, BatchRow
<1>3. batch.from..batch.upTo \subseteq 1..batch.upTo
  BY <1>1
<1>. QED BY <1>1, <1>2, <1>3, MergeBatchRows

(* A rebuild is a merge of every extracted change into an empty table. *)
LEMMA ReplaceStep ==
    ASSUME SilverInv, ReplaceCurrent, NEW k \in Keys
    PROVE  /\ silver'[k] # NoRow =>
                  \E i \in 1..batch.upTo : source[i].key = k /\ silver'[k] = BatchEvent(i)
           /\ \A i \in 1..batch.upTo :
                 source[i].key = k => silver'[k] # NoRow /\ ~Newer(BatchEvent(i), silver'[k])
<1>1. /\ TypeOK /\ 1 \in Nat \ {0} /\ batch.upTo \in 0..Len(source)
      /\ EmptyTable \in [Keys -> Rows \cup {NoRow}] /\ EmptyTable[k] = NoRow
  BY DEF SilverInv, TypeOK, EmptyTable
<1>2. silver'[k] = BatchRow(EmptyTable, 1, batch.upTo, k)
  BY DEF ReplaceCurrent, BatchRow
<1>. QED BY <1>1, <1>2, MergeBatchRows

(* A table that does not exist has no rows, so that what the callback       *)
(* writes whole is also a merge.                                            *)
LEMMA MergeStreamStep ==
    ASSUME SilverInv, MergeStream, planned > streamTxn.silver, NEW k \in Keys
    PROVE  /\ silver'[k] # silver[k] =>
                  \E i \in (consumed + 1)..planned : source[i].key = k /\ silver'[k] = CdcEvent(i)
           /\ silver[k] # NoRow => silver'[k] # NoRow /\ ~Newer(silver[k], silver'[k])
           /\ \A i \in (consumed + 1)..planned :
                 source[i].key = k /\ silver'[k] # NoRow => ~Newer(CdcEvent(i), silver'[k])
<1>1. /\ TypeOK /\ CaptureInOrder /\ consumed + 1 \in Nat \ {0} /\ planned \in 0..Len(captured)
      /\ silver \in [Keys -> Rows \cup {NoRow}]
  BY DEF SilverInv, TypeOK
<1>2. \E inserts \in BOOLEAN : silver'[k] = Merge(silver, CdcEvents(consumed + 1, planned), inserts)[k]
  BY DEF MergeStream, SilverInv, WriterInv
<1>. QED BY <1>1, <1>2, MergeCdcRows

(* The phases exclude each other, and the progress that a run has read     *)
(* stays what it read until the run has merged.                            *)
LEMMA WriterStep ==
    ASSUME SilverInv, [Next]_vars
    PROVE  WriterInv'
<1>. USE DEF WriterInv, sourceVars, batchVars, streamVars
<1>0. /\ TypeOK /\ WriterInv
      /\ batch \in [phase : BatchPhases, from : Nat \ {0}, upTo : 0..bronze]
      /\ streamTxn \in [history : 0..planned, silver : 0..planned]
      /\ Len(captured) \in Nat /\ planned \in 0..Len(captured) /\ consumed \in 0..planned
      /\ bronze \in Nat
      /\ NoTable \notin Nat /\ NoProgress \notin Nat /\ NoTable # NoProgress
  BY UnifiedSilverAssumption DEF SilverInv, TypeOK
<1>1. ASSUME NEW k \in Keys, NEW op \in Ops, Change(k, op)
      PROVE  WriterInv'
  BY <1>0, <1>1 DEF Change, EmptyTable
<1>2. CASE Capture
  BY <1>0, <1>2 DEF Capture, EmptyTable
<1>3. CASE Extract
  BY <1>0, <1>3 DEF Extract, EmptyTable
<1>4. CASE ReadBronzeVersion \/ CrashBatch \/ ReplaceHistory \/ AppendBatchHistory
  BY <1>0, <1>4 DEF ReadBronzeVersion, CrashBatch, ReplaceHistory, AppendBatchHistory, EmptyTable
<1>5. CASE ChooseReplace \/ ChooseSnapshotMerge \/ ChooseIncremental \/ ChooseNothing
  <2>1. /\ stream \in {"idle", "written"}
        /\ UNCHANGED <<progress, silver, consumed, planned, stream, streamTxn>>
    BY <1>5 DEF ChooseReplace, ChooseSnapshotMerge, ChooseIncremental, ChooseNothing, LockFree
  <2>2. batch'.phase \in {"append", "merge"} =>
            \/ progress \in Nat /\ batch'.from = progress + 1
            \/ progress = NoProgress /\ batch'.from = 1
    BY <1>0, <1>5 DEF ChooseReplace, ChooseSnapshotMerge, ChooseIncremental, ChooseNothing
  <2>. QED BY <1>0, <2>1, <2>2 DEF EmptyTable
<1>6. CASE MergeBatch \/ ReplaceCurrent
  <2>1. batch.upTo \in Nat
    BY <1>0
  <2>2. progress' = batch.upTo /\ batch'.phase \in {"idle", "replaceHistory"}
    BY <1>0, <1>6 DEF MergeBatch, ReplaceCurrent
  <2>3. stream \in {"idle", "written"} /\ UNCHANGED <<consumed, planned, stream, streamTxn>>
    BY <1>0, <1>6 DEF MergeBatch, ReplaceCurrent
  <2>. QED BY <1>0, <2>1, <2>2, <2>3
<1>7. CASE PlanMicroBatch
  BY <1>0, <1>7 DEF PlanMicroBatch, EmptyTable
<1>8. CASE EnterCallback
  BY <1>0, <1>8 DEF EnterCallback, LockFree, EmptyTable
<1>9. CASE AppendStreamHistory
  BY <1>0, <1>9 DEF AppendStreamHistory, EmptyTable
<1>10. CASE MergeStream
  <2>1. batch.phase \in {"idle", "extracted"} /\ UNCHANGED <<batch, consumed, planned>> /\ stream' = "written"
    BY <1>0, <1>10 DEF MergeStream
  <2>2. streamTxn'.silver = planned
    <3>1. CASE planned > streamTxn.silver
      BY <1>0, <1>10, <3>1 DEF MergeStream
    <3>2. CASE ~(planned > streamTxn.silver)
      BY <1>0, <1>10, <3>2 DEF MergeStream
    <3>. QED BY <3>1, <3>2
  <2>3. progress' = NoTable => silver' = EmptyTable
    BY <1>0, <1>10 DEF MergeStream
  <2>. QED BY <2>1, <2>2, <2>3 DEF EmptyTable
<1>11. CASE CommitMicroBatch \/ CrashStream
  BY <1>0, <1>11 DEF CommitMicroBatch, CrashStream, EmptyTable
<1>12. CASE UNCHANGED vars
  BY <1>0, <1>12 DEF vars, EmptyTable
<1>. QED BY <1>1, <1>2, <1>3, <1>4, <1>5, <1>6, <1>7, <1>8, <1>9, <1>10, <1>11, <1>12
     DEF Next, BatchStep, StreamStep

(* Every row stays an event of the source, in one of its two forms. *)
LEMMA RowsAreEventsStep ==
    ASSUME SilverInv, [Next]_vars
    PROVE  RowsAreEvents'
<1>0. TypeOK /\ RowsAreEvents
  BY DEF SilverInv
<1>1. /\ \A i \in 1..Len(source) : i \in 1..Len(source') /\ source'[i] = source[i]
      /\ \A i \in 1..Len(captured) : captured'[i] = captured[i] /\ i <= Len(captured')
      /\ Len(captured) \in 0..Len(source) /\ Len(source) \in Nat
  BY <1>0, LogsGrow DEF TypeOK
<1>2. ASSUME NEW k \in Keys, NEW i \in 1..Len(source), source[i].key = k,
             silver'[k] = BatchEvent(i) \/ (silver'[k] = CdcEvent(i) /\ i <= Len(captured))
      PROVE  \E j \in 1..Len(source') :
                /\ source'[j].key = k
                /\ silver'[k] = BatchEvent(j)' \/ (silver'[k] = CdcEvent(j)' /\ j <= Len(captured'))
  <2>1. i \in 1..Len(source') /\ source'[i].key = k /\ BatchEvent(i)' = BatchEvent(i)
    BY <1>1, <1>2 DEF BatchEvent
  <2>2. i <= Len(captured) => CdcEvent(i)' = CdcEvent(i) /\ i <= Len(captured')
    BY <1>1 DEF CdcEvent
  <2>. QED BY <1>2, <2>1, <2>2
<1>3. ASSUME NEW k \in Keys, silver'[k] # NoRow
      PROVE  \E i \in 1..Len(source) :
                /\ source[i].key = k
                /\ silver'[k] = BatchEvent(i) \/ (silver'[k] = CdcEvent(i) /\ i <= Len(captured))
  <2>1. CASE silver'[k] = silver[k]
    BY <1>0, <1>3, <2>1 DEF RowsAreEvents
  <2>2. CASE MergeBatch /\ silver'[k] # silver[k]
    <3>1. PICK i \in 1..batch.upTo : source[i].key = k /\ silver'[k] = BatchEvent(i)
      BY <2>2, MergeBatchStep
    <3>2. i \in 1..Len(source)
      BY <1>0 DEF TypeOK
    <3>. QED BY <3>1, <3>2
  <2>3. CASE ReplaceCurrent
    <3>1. PICK i \in 1..batch.upTo : source[i].key = k /\ silver'[k] = BatchEvent(i)
      BY <1>3, <2>3, ReplaceStep
    <3>2. i \in 1..Len(source)
      BY <1>0 DEF TypeOK
    <3>. QED BY <3>1, <3>2
  <2>4. CASE MergeStream /\ planned > streamTxn.silver /\ silver'[k] # silver[k]
    <3>1. PICK i \in (consumed + 1)..planned : source[i].key = k /\ silver'[k] = CdcEvent(i)
      BY <2>4, MergeStreamStep
    <3>2. i \in 1..Len(source) /\ i <= Len(captured)
      BY <1>0 DEF TypeOK
    <3>. QED BY <3>1, <3>2
  <2>. QED BY <1>0, <2>1, <2>2, <2>3, <2>4, OthersKeepSilver DEF WritesSilver
<1>. QED BY <1>2, <1>3 DEF RowsAreEvents

(* A batch event leaves the rows of the stream as they are or takes their   *)
(* place; a micro-batch starts where the last merged one ended.             *)
LEMMA StreamRowsStep ==
    ASSUME SilverInv, [Next]_vars
    PROVE  StreamRowsNewest'
<1>0. TypeOK /\ RowsAreEvents /\ StreamRowsNewest /\ CaptureInOrder /\ WriterInv
  BY DEF SilverInv
<1>1. /\ \A i \in 1..Len(source) : source'[i] = source[i]
      /\ Len(source) \in Nat /\ Len(captured) \in 0..Len(source)
      /\ planned \in 0..Len(captured) /\ consumed \in 0..planned /\ streamTxn.silver \in 0..planned
  BY <1>0, LogsGrow DEF TypeOK
<1>. SUFFICES ASSUME NEW k \in Keys, silver'[k] # NoRow, silver'[k].priority = 2
              PROVE  /\ silver'[k].change <= streamTxn'.silver
                     /\ \A i \in 1..streamTxn'.silver : source'[i].key = k => i <= silver'[k].change
  BY DEF StreamRowsNewest
<1>2. CASE silver'[k] = silver[k] /\ streamTxn'.silver = streamTxn.silver
  BY <1>0, <1>1, <1>2 DEF StreamRowsNewest
<1>3. ASSUME NEW i \in 1..batch.upTo
      PROVE  silver'[k] # BatchEvent(i)
  BY DEF BatchEvent
<1>4. CASE MergeBatch
  <2>1. silver'[k] = silver[k] /\ streamTxn' = streamTxn
    BY <1>3, <1>4, MergeBatchStep DEF MergeBatch, streamVars
  <2>. QED BY <1>2, <2>1
<1>5. CASE ReplaceCurrent
  BY <1>3, <1>5, ReplaceStep
<1>6. CASE MergeStream /\ planned > streamTxn.silver
  <2>1. streamTxn'.silver = planned /\ streamTxn.silver = consumed /\ source' = source
    BY <1>0, <1>1, <1>6 DEF MergeStream, WriterInv, TypeOK, sourceVars
  <2>2. PICK c \in 1..planned :
           /\ silver'[k] = CdcEvent(c)
           /\ \A i \in 1..consumed : source[i].key = k => i <= c
    <3>1. CASE silver'[k] = silver[k]
      <4>1. silver[k] # NoRow /\ silver[k].priority = 2
        BY <3>1
      <4>2. PICK c \in 1..Len(source) : silver[k] = CdcEvent(c)
        <5>1. PICK c \in 1..Len(source) : silver[k] = BatchEvent(c) \/ silver[k] = CdcEvent(c)
          BY <1>0, <4>1 DEF RowsAreEvents
        <5>2. silver[k] # BatchEvent(c)
          BY <4>1 DEF BatchEvent
        <5>. QED BY <5>1, <5>2
      <4>3. c <= consumed /\ \A i \in 1..consumed : source[i].key = k => i <= c
        <5>1. silver[k].change = c
          BY <4>2 DEF CdcEvent
        <5>. QED BY <1>0, <2>1, <4>1, <5>1 DEF StreamRowsNewest
      <4>. QED BY <1>1, <3>1, <4>2, <4>3
    <3>2. CASE silver'[k] # silver[k]
      <4>1. PICK i \in (consumed + 1)..planned : silver'[k] = CdcEvent(i)
        BY <1>6, <3>2, MergeStreamStep
      <4>. QED BY <1>1, <4>1
    <3>. QED BY <3>1, <3>2
  <2>3. silver'[k].change = c
    BY <2>2 DEF CdcEvent
  <2>4. ASSUME NEW i \in 1..planned, source[i].key = k, i > c
        PROVE  FALSE
    <3>1. i \in (consumed + 1)..planned
      BY <1>1, <2>2, <2>4
    <3>2. ~Newer(CdcEvent(i), CdcEvent(c))
      BY <1>6, <2>2, <2>4, <3>1, MergeStreamStep
    <3>3. i \in 1..Len(captured) /\ c \in 1..Len(captured)
      BY <1>1
    <3>4. captured[c] <= captured[i] /\ captured[c] \in Nat /\ captured[i] \in Nat
      BY <1>0, <2>4, <3>3, EventsAreRows DEF CaptureInOrder
    <3>. QED BY <2>4, <3>2, <3>3, <3>4 DEF Newer, CdcEvent
  <2>. QED BY <1>1, <2>1, <2>2, <2>3, <2>4
<1>. QED BY <1>0, <1>2, <1>4, <1>5, <1>6, OthersKeepSilver DEF WritesSilver

(* The feed that a run merges continues where the progress ends, and a row  *)
(* only gets newer until a rebuild, which merges every change again.        *)
LEMMA ProgressStep ==
    ASSUME SilverInv, [Next]_vars
    PROVE  ProgressReflected'
<1>0. TypeOK /\ TypeOK' /\ CaptureInOrder /\ WriterInv /\ ProgressReflected
  BY TypeStep DEF SilverInv
<1>1. /\ \A i \in 1..Len(source) : source'[i] = source[i] /\ source[i].key \in Keys
      /\ Len(source) \in Nat /\ bronze \in 0..Len(source) /\ batch.upTo \in 0..bronze
      /\ progress \in 0..bronze \cup {NoTable, NoProgress}
      /\ NoTable \notin Nat /\ NoProgress \notin Nat
      /\ \A k \in Keys : silver[k] \in Rows \cup {NoRow} /\ silver'[k] \in Rows \cup {NoRow}
  <2>1. \A i \in 1..Len(source) : source[i] \in [key : Keys, op : Ops]
    BY <1>0, ElementOfSeq DEF TypeOK
  <2>2. \A i \in 1..Len(source) : source'[i] = source[i]
    BY <1>0, LogsGrow
  <2>3. \A k \in Keys : silver[k] \in Rows \cup {NoRow} /\ silver'[k] \in Rows \cup {NoRow}
    BY <1>0 DEF TypeOK
  <2>4. /\ Len(source) \in Nat /\ bronze \in 0..Len(source)
        /\ batch \in [phase : BatchPhases, from : Nat \ {0}, upTo : 0..bronze]
        /\ progress \in 0..bronze \cup {NoTable, NoProgress}
    BY <1>0 DEF TypeOK
  <2>5. batch.upTo \in 0..bronze
    BY <2>4
  <2>6. NoTable \notin Nat /\ NoProgress \notin Nat
    BY UnifiedSilverAssumption
  <2>7. \A i \in 1..Len(source) : source[i].key \in Keys
    BY <2>1
  <2>. QED BY <2>2, <2>3, <2>4, <2>5, <2>6, <2>7
<1>. DEFINE Reflected(i) == silver[source[i].key] # NoRow /\ ~Newer(BatchEvent(i), silver[source[i].key])
            ReflectedNext(i) == silver'[source[i].key] # NoRow /\ ~Newer(BatchEvent(i), silver'[source[i].key])
<1>2. SUFFICES ASSUME NEW i \in 1..Len(source), progress' \in Nat, i <= progress'
               PROVE  ReflectedNext(i)
  <2>1. progress' \in Nat => progress' <= Len(source)
    <3>1. CASE WritesSilver
      <4>1. progress' \in {batch.upTo, progress, NoProgress}
        BY <3>1 DEF WritesSilver, MergeBatch, ReplaceCurrent, MergeStream
      <4>. QED BY <1>1, <4>1
    <3>2. CASE ~WritesSilver
      BY <1>0, <1>1, <3>2, OthersKeepSilver
    <3>. QED BY <3>1, <3>2
  <2>2. \A i \in 1..Len(source) : BatchEvent(i)' = BatchEvent(i)
    BY <1>1 DEF BatchEvent
  <2>. QED BY <1>1, <2>1, <2>2 DEF ProgressReflected
<1>. DEFINE k == source[i].key
<1>3. k \in Keys /\ BatchEvent(i) \in Rows
  BY <1>0, <1>1, EventsAreRows
<1>4. ASSUME Reflected(i), silver[k] # NoRow => silver'[k] # NoRow /\ ~Newer(silver[k], silver'[k])
      PROVE  ReflectedNext(i)
  <2>1. silver[k] \in Rows /\ silver'[k] \in Rows
    BY <1>1, <1>3, <1>4
  <2>. QED BY <1>3, <1>4, <2>1, NewerIsTotalOrder
<1>5. progress \in Nat /\ i <= progress => Reflected(i)
  BY <1>0 DEF ProgressReflected
<1>. HIDE DEF k, Reflected
<1>6. CASE MergeBatch
  <2>1. batch.phase = "merge" /\ progress' = batch.upTo
    BY <1>6 DEF MergeBatch
  <2>2. CASE progress \in Nat /\ i <= progress
    BY <1>3, <1>4, <1>5, <1>6, <2>2, MergeBatchStep
  <2>3. CASE ~(progress \in Nat /\ i <= progress)
    <3>1. i \in batch.from..batch.upTo
      BY <1>0, <1>1, <1>2, <2>1, <2>3 DEF WriterInv
    <3>. QED BY <1>3, <1>6, <3>1, MergeBatchStep DEF k
  <2>. QED BY <2>2, <2>3
<1>7. CASE ReplaceCurrent
  <2>1. i \in 1..batch.upTo
    BY <1>1, <1>2, <1>7 DEF ReplaceCurrent
  <2>. QED BY <1>3, <1>7, <2>1, ReplaceStep DEF k
<1>8. CASE MergeStream /\ planned > streamTxn.silver
  <2>1. progress' = progress
    BY <1>1, <1>2, <1>8 DEF MergeStream
  <2>. QED BY <1>2, <1>3, <1>4, <1>5, <1>8, <2>1, MergeStreamStep
<1>9. CASE ~WritesSilver
  <2>1. silver' = silver /\ progress' = progress
    BY <1>0, <1>9, OthersKeepSilver
  <2>. QED BY <1>2, <1>5, <2>1 DEF Reflected
<1>. QED BY <1>6, <1>7, <1>8, <1>9 DEF WritesSilver

(* Each part of SilverInv is kept by every step. *)
LEMMA SilverInvStep == SilverInv /\ [Next]_vars => SilverInv'
<1>. SUFFICES ASSUME SilverInv, [Next]_vars
              PROVE  SilverInv'
  OBVIOUS
<1>1. TypeOK' /\ CaptureInOrder'
  BY TypeStep DEF SilverInv
<1>2. WriterInv' /\ RowsAreEvents' /\ StreamRowsNewest' /\ ProgressReflected'
  BY WriterStep, RowsAreEventsStep, StreamRowsStep, ProgressStep
<1>. QED BY <1>1, <1>2 DEF SilverInv

(* SilverInv holds in every state: the induction that the theorems cite. *)
LEMMA SilverInvariant == Spec => []SilverInv
<1>1. Init => SilverInv
  <2>. SUFFICES ASSUME Init PROVE SilverInv
    OBVIOUS
  <2>1. TypeOK /\ CaptureInOrder
    BY DEF Init, TypeOK, CaptureInOrder, BatchPhases
  <2>2. WriterInv
    BY DEF Init, WriterInv, EmptyTable
  <2>3. RowsAreEvents /\ StreamRowsNewest /\ ProgressReflected
    BY UnifiedSilverAssumption DEF Init, RowsAreEvents, StreamRowsNewest, ProgressReflected
  <2>. QED BY <2>1, <2>2, <2>3 DEF SilverInv
<1>. QED BY <1>1, SilverInvStep, PTL DEF Spec

--------------------------------------------------------------------------------
(* Silver reflects every change its progress claims, whatever the order of  *)
(* commits, crashes, retries and rebuilds (run_table, upsert_table).        *)
THEOREM ProgressIsReflected == Spec => []ProgressReflected
<1>1. SilverInv => ProgressReflected
  BY DEF SilverInv
<1>. QED BY <1>1, SilverInvariant, PTL

(* A tombstone that the callback wrote gives way only to a later change or  *)
(* to a rebuild, never to an older change of the batch run (README.md:48-49).*)
THEOREM CdcTombstoneStays == Spec => CdcTombstoneFinal
<1>1. ASSUME SilverInv, [Next]_vars, batch.phase # "replace",
             NEW k \in Keys, silver[k] # NoRow, silver[k].priority = 2, silver[k].deleted
      PROVE  silver'[k] # NoRow /\ (silver'[k].deleted \/ silver'[k].change > silver[k].change)
  <2>0. TypeOK /\ CaptureInOrder /\ WriterInv /\ RowsAreEvents /\ StreamRowsNewest
    BY <1>1 DEF SilverInv
  <2>1. PICK c \in 1..Len(captured) : silver[k] = CdcEvent(c)
    <3>1. PICK c \in 1..Len(source) : silver[k] = BatchEvent(c) \/ (silver[k] = CdcEvent(c) /\ c <= Len(captured))
      BY <1>1, <2>0 DEF RowsAreEvents
    <3>2. silver[k] # BatchEvent(c)
      BY <1>1 DEF BatchEvent
    <3>3. Len(captured) \in Nat /\ Len(source) \in Nat
      BY <2>0 DEF TypeOK
    <3>. QED BY <3>1, <3>2, <3>3
  <2>2. silver[k].change = c /\ silver[k].time = captured[c] /\ captured[c] \in Nat /\ c <= captured[c] /\ c \in Nat
    BY <2>0, <2>1, EventsAreRows DEF CdcEvent, CaptureInOrder
  <2>3. CASE silver'[k] = silver[k]
    BY <1>1, <2>3
  <2>4. CASE MergeBatch /\ silver'[k] # silver[k]
    <3>1. PICK i \in 1..batch.upTo : silver'[k] = BatchEvent(i)
      BY <1>1, <2>4, MergeBatchStep
    <3>2. silver'[k] # NoRow /\ Newer(BatchEvent(i), silver[k])
      BY <1>1, <2>4, <3>1, MergeBatchStep
    <3>3. i \in Nat
      BY <2>0 DEF TypeOK
    <3>4. i > captured[c]
      BY <1>1, <2>2, <3>2, <3>3 DEF Newer, BatchEvent
    <3>5. silver'[k].change = i
      BY <3>1 DEF BatchEvent
    <3>. QED BY <2>2, <3>2, <3>3, <3>4, <3>5
  <2>5. CASE MergeStream /\ planned > streamTxn.silver /\ silver'[k] # silver[k]
    <3>1. PICK i \in (consumed + 1)..planned : silver'[k] = CdcEvent(i)
      BY <1>1, <2>5, MergeStreamStep
    <3>2. silver'[k] # NoRow /\ silver'[k].change = i
      BY <1>1, <2>5, <3>1, MergeStreamStep DEF CdcEvent
    <3>3. consumed \in Nat /\ planned \in Nat /\ streamTxn.silver = consumed
      BY <2>0, <2>5 DEF TypeOK, WriterInv
    <3>4. c <= consumed
      BY <1>1, <2>0, <2>2, <3>3 DEF StreamRowsNewest
    <3>. QED BY <2>2, <3>2, <3>3, <3>4
  <2>6. CASE ReplaceCurrent
    BY <1>1, <2>6 DEF ReplaceCurrent
  <2>. QED BY <1>1, <2>0, <2>3, <2>4, <2>5, <2>6, OthersKeepSilver DEF WritesSilver
<1>2. SilverInv /\ [Next]_vars =>
        [ batch.phase = "replace" \/
          \A k \in Keys :
              silver[k] # NoRow /\ silver[k].priority = 2 /\ silver[k].deleted =>
                  silver'[k] # NoRow /\ (silver'[k].deleted \/ silver'[k].change > silver[k].change) ]_vars
  BY <1>1
<1>. QED BY <1>2, SilverInvariant, PTL DEF Spec, CdcTombstoneFinal

(* When both channels have delivered everything, Silver is the source:      *)
(* a row of the batch run is not older than the last change of its key,     *)
(* and a row of the stream is the last one the stream has merged.           *)
THEOREM SilverConverges == Spec => []Converged
<1>1. ASSUME SilverInv, progress = Len(source), consumed = Len(source), NEW k \in Keys
      PROVE  Shown(k) = Expected(k)
  <2>0. TypeOK /\ WriterInv /\ RowsAreEvents /\ StreamRowsNewest /\ ProgressReflected
    BY <1>1 DEF SilverInv
  <2>1. /\ Len(source) \in Nat /\ progress \in Nat
        /\ streamTxn.silver = Len(source)
    BY <1>1, <2>0 DEF TypeOK, WriterInv
  <2>. DEFINE S == {i \in 1..Len(source) : source[i].key = k}
  <2>2. CASE S = {}
    <3>1. LastChange(k) = {}
      BY <2>2 DEF LastChange
    <3>2. silver[k] = NoRow
      BY <2>0, <2>2 DEF RowsAreEvents
    <3>. QED BY <3>1, <3>2 DEF Shown, Expected
  <2>3. CASE S # {}
    <3>1. PICK m \in S : \A i \in S : i <= m
      <4>1. S \in SUBSET (1..Len(source))
        OBVIOUS
      <4>. HIDE DEF S
      <4>. QED BY <2>1, <2>3, <4>1, LastExists
    <3>2. LastChange(k) = {m}
      <4>1. m \in LastChange(k)
        BY <2>1, <3>1 DEF LastChange
      <4>2. ASSUME NEW j \in LastChange(k)
            PROVE  j = m
        <5>1. j \in S /\ ~(m \in (j + 1)..Len(source))
          BY <4>2, <3>1 DEF LastChange
        <5>. QED BY <2>1, <3>1, <5>1
      <4>. QED BY <4>1, <4>2
    <3>3. silver[k] # NoRow /\ ~Newer(BatchEvent(m), silver[k])
      BY <1>1, <2>0, <2>1, <3>1 DEF ProgressReflected
    <3>4. PICK c \in S : silver[k] = BatchEvent(c) \/ silver[k] = CdcEvent(c)
      BY <2>0, <3>3 DEF RowsAreEvents
    <3>5. silver[k].change = c /\ silver[k].deleted = (source[c].op = "DELETE")
      BY <3>4 DEF BatchEvent, CdcEvent
    <3>6. c = m
      <4>1. CASE silver[k] = BatchEvent(c)
        <5>1. ~(m > c)
          BY <2>1, <3>1, <3>3, <4>1 DEF Newer, BatchEvent
        <5>. QED BY <2>1, <3>1, <5>1
      <4>2. CASE silver[k] = CdcEvent(c)
        <5>1. silver[k].priority = 2
          BY <4>2 DEF CdcEvent
        <5>2. m <= c
          BY <2>0, <2>1, <3>1, <3>3, <3>5, <5>1 DEF StreamRowsNewest
        <5>. QED BY <2>1, <3>1, <5>2
      <4>. QED BY <3>4, <4>1, <4>2
    <3>7. Exists(k) <=> source[m].op # "DELETE"
      BY <3>2 DEF Exists
    <3>8. silver[k].deleted <=> source[m].op = "DELETE"
      BY <3>5, <3>6
    <3>. QED BY <3>2, <3>3, <3>5, <3>6, <3>7, <3>8 DEF Shown, Expected
  <2>. QED BY <2>2, <2>3
<1>2. SilverInv => Converged
  BY <1>1 DEF Converged
<1>. QED BY <1>2, SilverInvariant, PTL

================================================================================

------------------------- MODULE JoinedDimensionsProofs -------------------------
(***************************************************************************)
(* The dimensions that join two histories.  The first part reads the       *)
(* versions that a replay makes of any set of events with times of their   *)
(* own.  The second shows that the events of the interval join are such a  *)
(* set, and what the newest of them says at a time.  The third carries it  *)
(* over the steps: what incremental builds, failed ones too, leave of each *)
(* member in the tables.                                                   *)
(***************************************************************************)
EXTENDS JoinedDimensions, FiniteSetTheorems, TLAPS

--------------------------------------------------------------------------------
(* Events with times of their own.                                          *)

LEMMA NatMin ==
    ASSUME NEW T \in SUBSET Nat, T # {}
    PROVE  \E n \in T : \A m \in T : n <= m
<1>. DEFINE R == {ss \in Nat \X Nat : ss[1] < ss[2]}
<1>1. OpToRel(<, Nat) = R
  BY DEF OpToRel
<1>2. IsWellFoundedOn(R, Nat)
  BY <1>1, NatLessThanWellFounded
<1>3. \A m, n \in Nat : m < n => <<m, n>> \in R
  OBVIOUS
<1>. HIDE DEF R
<1>4. PICK n \in T : \A m \in T : <<m, n>> \notin R
  BY <1>2, WFMin
<1>5. ASSUME NEW m \in T PROVE n <= m
  <2>1. m \in Nat /\ n \in Nat /\ <<m, n>> \notin R
    BY <1>4
  <2>2. ~(m < n)
    BY <1>3, <2>1
  <2>. QED BY <2>1, <2>2
<1>. QED BY <1>5

Columns == (Entities \cup {NoParent}) \X Names \X (Names \cup {NoName})
Dated == [at : 1..MaxTime, attrs : Columns, deleted : BOOLEAN]

SomeEvents(E) == E \subseteq Dated /\ E # {}
OneAtATime(E) == E \subseteq Dated /\ \A f, g \in E : f.at = g.at => f = g

LEMMA DatedFields ==
    ASSUME NEW f \in Dated
    PROVE  /\ f.at \in 1..MaxTime /\ f.at \in Nat /\ MaxTime \in Nat
           /\ f.at <= MaxTime /\ MaxTime - f.at \in Nat /\ f.deleted \in BOOLEAN
<1>1. f.at \in 1..MaxTime /\ MaxTime \in Nat /\ f.deleted \in BOOLEAN
  BY JoinedDimensionsAssumption DEF Dated
<1>. QED BY <1>1

IsEarliest(f, E) == f \in E /\ \A g \in E : f.at <= g.at
IsLatest(f, E) == f \in E /\ \A g \in E : g.at <= f.at

LEMMA EarliestIsEarliest ==
    ASSUME NEW E, SomeEvents(E)
    PROVE  IsEarliest(Earliest(E), E)
<1>. DEFINE times == {f.at : f \in E}
<1>1. times \in SUBSET Nat /\ times # {}
  BY DatedFields DEF SomeEvents
<1>2. PICK n \in times : \A m \in times : n <= m
  <2>. HIDE DEF times
  <2>. QED BY <1>1, NatMin
<1>3. PICK f \in E : n = f.at
  BY <1>2
<1>4. \A g \in E : f.at <= g.at
  BY <1>2, <1>3
<1>. QED BY <1>3, <1>4 DEF IsEarliest, Earliest

LEMMA LatestIsLatest ==
    ASSUME NEW E, SomeEvents(E)
    PROVE  IsLatest(Latest(E), E)
<1>. DEFINE left == {MaxTime - f.at : f \in E}
<1>1. left \in SUBSET Nat /\ left # {}
  BY DatedFields DEF SomeEvents
<1>2. PICK n \in left : \A m \in left : n <= m
  <2>. HIDE DEF left
  <2>. QED BY <1>1, NatMin
<1>3. PICK f \in E : n = MaxTime - f.at
  BY <1>2
<1>4. \A g \in E : g.at <= f.at
  <2>. SUFFICES ASSUME NEW g \in E PROVE g.at <= f.at
    OBVIOUS
  <2>1. MaxTime - f.at <= MaxTime - g.at
    BY <1>2, <1>3
  <2>2. f.at \in Nat /\ g.at \in Nat /\ MaxTime \in Nat
    BY DatedFields DEF SomeEvents
  <2>. QED BY <2>1, <2>2
<1>. QED BY <1>3, <1>4 DEF IsLatest, Latest

(* A proof may go up the times. *)
LEMMA TimeInduct ==
    ASSUME NEW E, E \subseteq Dated, NEW G,
           \A e \in E : (\A f \in E : f.at < e.at => f \in G) => e \in G
    PROVE  \A e \in E : e \in G
<1>. SUFFICES ASSUME NEW x \in E, x \notin G PROVE FALSE
  OBVIOUS
<1>1. SomeEvents(E \ G)
  BY DEF SomeEvents
<1>2. PICK e \in E \ G : \A f \in E \ G : e.at <= f.at
  BY <1>1, EarliestIsEarliest DEF IsEarliest
<1>3. ASSUME NEW f \in E, f.at < e.at PROVE f \in G
  <2>1. f.at \in Nat /\ e.at \in Nat
    BY DatedFields
  <2>. QED BY <1>2, <1>3, <2>1
<1>. QED BY <1>2, <1>3

--------------------------------------------------------------------------------
(* The versions that the replay makes of a set of events.                   *)

Earlier(f, E) == {g \in E : g.at < f.at}
Alive(f, E) == {g \in Earlier(f, E) : ~g.deleted}
Starts(E) == {f \in E : /\ ~f.deleted
                        /\ \/ Alive(f, E) = {}
                           \/ Latest(Alive(f, E)).attrs # f.attrs
                           \/ Latest(Earlier(f, E)).deleted}
Bounds(E) == Starts(E) \cup {f \in E : f.deleted}
Later(f, E) == {b \in Bounds(E) : f.at < b.at}
VersionIn(e, f, E) ==
    [of |-> e,
     from |-> IF f = Earliest(Starts(E)) /\ CreatedAt(e) < f.at THEN CreatedAt(e) ELSE f.at,
     to |-> IF Later(f, E) = {} THEN Open ELSE Earliest(Later(f, E)).at,
     parent |-> f.attrs[1], name |-> f.attrs[2], parentName |-> f.attrs[3],
     current |-> Later(f, E) = {},
     deleted |-> Later(f, E) # {} /\ Earliest(Later(f, E)).deleted]
Dim(e, E) == {VersionIn(e, f, E) : f \in Starts(E)}

LEMMA ReplayIsDim == \A e, scope : ReplayEntity(e, scope) = Dim(e, JoinedEvents(e, scope))
  BY DEF ReplayEntity, Dim, VersionIn, Later, Bounds, Starts, Alive, Earlier

LEMMA BoundsAreEvents ==
    ASSUME NEW E
    PROVE  /\ Bounds(E) \subseteq E /\ Starts(E) \subseteq Bounds(E) /\ Starts(E) \subseteq E
           /\ \A f \in Starts(E) : ~f.deleted
           /\ \A f \in Bounds(E) : f.deleted \/ f \in Starts(E)
           /\ \A f \in E : f.deleted => f \in Bounds(E)
  BY DEF Bounds, Starts

(* f shows what s began: nothing begins or ends between them. *)
Shows(s, f, E) ==
    /\ s.at <= f.at /\ s.attrs = f.attrs
    /\ \A b \in Bounds(E) : s.at < b.at => f.at < b.at

(* Every event that deletes nothing shows what some start began: going up   *)
(* the times, one that begins nothing follows an event with its columns.    *)
LEMMA StartBelow ==
    ASSUME NEW E, OneAtATime(E)
    PROVE  \A f \in E : ~f.deleted => \E s \in Starts(E) : Shows(s, f, E)
<1>. DEFINE G == {f \in E : ~f.deleted => \E s \in Starts(E) : Shows(s, f, E)}
<1>0. E \subseteq Dated /\ \A f \in E : f.at \in Nat
  BY DatedFields DEF OneAtATime
<1>1. ASSUME NEW e \in E, \A f \in E : f.at < e.at => f \in G
      PROVE  e \in G
  <2>. SUFFICES ASSUME ~e.deleted PROVE \E s \in Starts(E) : Shows(s, e, E)
    OBVIOUS
  <2>1. CASE e \in Starts(E)
    BY <1>0, <2>1 DEF Shows
  <2>2. CASE e \notin Starts(E)
    <3>1. /\ Alive(e, E) # {} /\ Latest(Alive(e, E)).attrs = e.attrs
          /\ ~Latest(Earlier(e, E)).deleted
      BY <2>2 DEF Starts
    <3>2. SomeEvents(Earlier(e, E)) /\ SomeEvents(Alive(e, E))
      BY <1>0, <3>1 DEF SomeEvents, Earlier, Alive
    <3>3. /\ Latest(Earlier(e, E)) \in E /\ Latest(Earlier(e, E)).at < e.at
          /\ \A g \in E : g.at < e.at => g.at <= Latest(Earlier(e, E)).at
      <4>1. IsLatest(Latest(Earlier(e, E)), Earlier(e, E))
        BY <3>2, LatestIsLatest
      <4>. QED BY <4>1 DEF IsLatest, Earlier
    <3>4. /\ Latest(Alive(e, E)) \in Earlier(e, E)
          /\ \A g \in Alive(e, E) : g.at <= Latest(Alive(e, E)).at
      <4>1. IsLatest(Latest(Alive(e, E)), Alive(e, E))
        BY <3>2, LatestIsLatest
      <4>. QED BY <4>1 DEF IsLatest, Alive
    <3>5. Latest(Earlier(e, E)) \in Alive(e, E)
      BY <3>1, <3>3 DEF Alive, Earlier
    <3>6. PICK l \in E : l = Latest(Earlier(e, E))
      BY <3>3
    <3>7. PICK m \in E : m = Latest(Alive(e, E))
      BY <3>4 DEF Earlier
    <3>8. l.at <= m.at /\ m.at <= l.at /\ l.at \in Nat /\ m.at \in Nat
      BY <1>0, <3>3, <3>4, <3>5, <3>6, <3>7 DEF Earlier
    <3>9. l = m
      BY <3>8 DEF OneAtATime
    <3>10. l.attrs = e.attrs /\ ~l.deleted /\ l.at < e.at
      BY <3>1, <3>3, <3>6, <3>7, <3>9
    <3>11. PICK s \in Starts(E) : Shows(s, l, E)
      BY <1>1, <3>10
    <3>12. s \in E /\ s.at \in Nat /\ l.at \in Nat /\ e.at \in Nat /\ s.at <= l.at /\ s.attrs = l.attrs
      BY <1>0, <3>11, BoundsAreEvents DEF Shows
    <3>13. ASSUME NEW b \in Bounds(E), s.at < b.at PROVE e.at < b.at
      <4>1. l.at < b.at
        BY <3>11, <3>13 DEF Shows
      <4>2. b \in E /\ b.at \in Nat /\ (b.deleted \/ b \in Starts(E))
        BY <1>0, BoundsAreEvents
      <4>3. b # e
        BY <2>2, <4>2
      <4>4. b.at # e.at
        BY <4>3, BoundsAreEvents DEF OneAtATime
      <4>5. ~(b.at < e.at)
        <5>1. b \in E /\ b.at \in Nat
          BY <1>0, BoundsAreEvents
        <5>2. b.at < e.at => b.at <= l.at
          BY <3>3, <3>6, <5>1
        <5>. QED BY <3>12, <4>1, <5>1, <5>2
      <4>6. b.at \in Nat
        BY <1>0, BoundsAreEvents
      <4>. QED BY <3>12, <4>4, <4>5, <4>6
    <3>14. Shows(s, e, E)
      BY <3>10, <3>12, <3>13 DEF Shows
    <3>. QED BY <3>14
  <2>. QED BY <2>1, <2>2
<1>2. \A e \in E : e \in G
  <2>. HIDE DEF G
  <2>. QED BY <1>0, <1>1, TimeInduct
<1>. QED BY <1>2

(* The history of the row begins with its creation. *)
Opens(e, E) ==
    /\ OneAtATime(E)
    /\ \E f \in E : /\ IsEarliest(f, E) /\ ~f.deleted
                    /\ CreatedAt(e) = IF f.at = 1 THEN 0 ELSE f.at

LEMMA OnlyEarliest ==
    ASSUME NEW E, OneAtATime(E), NEW f, IsEarliest(f, E)
    PROVE  f = Earliest(E)
<1>1. SomeEvents(E)
  BY DEF OneAtATime, SomeEvents, IsEarliest
<1>2. IsEarliest(Earliest(E), E)
  BY <1>1, EarliestIsEarliest
<1>3. Earliest(E) \in E /\ f \in E /\ f.at <= Earliest(E).at /\ Earliest(E).at <= f.at
  BY <1>2 DEF IsEarliest
<1>4. Earliest(E).at \in Nat /\ f.at \in Nat
  BY <1>3, DatedFields DEF OneAtATime
<1>5. Earliest(E).at = f.at
  BY <1>3, <1>4
<1>. QED BY <1>3, <1>5 DEF OneAtATime

(* The first event begins the first version. *)
LEMMA FirstStart ==
    ASSUME NEW e, NEW E, Opens(e, E)
    PROVE  \E f \in Starts(E) : /\ f = Earliest(Starts(E)) /\ IsEarliest(f, E)
                                /\ CreatedAt(e) = IF f.at = 1 THEN 0 ELSE f.at
<1>1. PICK f \in E : IsEarliest(f, E) /\ ~f.deleted /\ CreatedAt(e) = IF f.at = 1 THEN 0 ELSE f.at
  BY DEF Opens
<1>2. \A g \in E : g.at \in Nat /\ f.at <= g.at
  BY <1>1, DatedFields DEF IsEarliest, Opens, OneAtATime
<1>3. Alive(f, E) = {}
  BY <1>2 DEF Alive, Earlier
<1>4. f \in Starts(E)
  BY <1>1, <1>3 DEF Starts
<1>5. OneAtATime(Starts(E)) /\ IsEarliest(f, Starts(E))
  BY <1>1, <1>4, BoundsAreEvents DEF Opens, OneAtATime, IsEarliest
<1>6. f = Earliest(Starts(E))
  BY <1>5, OnlyEarliest
<1>. QED BY <1>1, <1>4, <1>6

(* What a version says, in terms of the event that began it. *)
LEMMA VersionFacts ==
    ASSUME NEW e, NEW E, OneAtATime(E), NEW f \in Starts(E)
    PROVE  /\ VersionIn(e, f, E).of = e
           /\ <<VersionIn(e, f, E).parent, VersionIn(e, f, E).name, VersionIn(e, f, E).parentName>> = f.attrs
           /\ VersionIn(e, f, E).from =
                IF f = Earliest(Starts(E)) /\ CreatedAt(e) < f.at THEN CreatedAt(e) ELSE f.at
           /\ VersionIn(e, f, E).to = IF Later(f, E) = {} THEN Open ELSE Earliest(Later(f, E)).at
           /\ VersionIn(e, f, E).current <=> Later(f, E) = {}
           /\ VersionIn(e, f, E).deleted <=> Later(f, E) # {} /\ Earliest(Later(f, E)).deleted
           /\ Later(f, E) # {} => /\ IsEarliest(Earliest(Later(f, E)), Later(f, E))
                                  /\ Earliest(Later(f, E)) \in Bounds(E)
                                  /\ f.at < Earliest(Later(f, E)).at
           /\ \A t \in 0..MaxTime :
                t < VersionIn(e, f, E).to <=> \A b \in Bounds(E) : f.at < b.at => t < b.at
<1>1. /\ VersionIn(e, f, E).of = e
      /\ VersionIn(e, f, E).parent = f.attrs[1]
      /\ VersionIn(e, f, E).name = f.attrs[2]
      /\ VersionIn(e, f, E).parentName = f.attrs[3]
      /\ VersionIn(e, f, E).from =
           IF f = Earliest(Starts(E)) /\ CreatedAt(e) < f.at THEN CreatedAt(e) ELSE f.at
      /\ VersionIn(e, f, E).to = IF Later(f, E) = {} THEN Open ELSE Earliest(Later(f, E)).at
      /\ VersionIn(e, f, E).current = (Later(f, E) = {})
      /\ VersionIn(e, f, E).deleted = (Later(f, E) # {} /\ Earliest(Later(f, E)).deleted)
  BY DEF VersionIn
<1>2. <<VersionIn(e, f, E).parent, VersionIn(e, f, E).name, VersionIn(e, f, E).parentName>> = f.attrs
  <2>1. f \in Dated
    BY BoundsAreEvents DEF OneAtATime
  <2>2. f.attrs \in Columns
    BY <2>1 DEF Dated
  <2>3. <<f.attrs[1], f.attrs[2], f.attrs[3]>> = f.attrs
    BY <2>2 DEF Columns
  <2>. QED BY <1>1, <2>3
<1>3. ASSUME Later(f, E) # {}
      PROVE  /\ IsEarliest(Earliest(Later(f, E)), Later(f, E))
             /\ Earliest(Later(f, E)) \in Bounds(E)
             /\ f.at < Earliest(Later(f, E)).at
  <2>1. SomeEvents(Later(f, E))
    BY <1>3, BoundsAreEvents DEF Later, SomeEvents, OneAtATime
  <2>2. IsEarliest(Earliest(Later(f, E)), Later(f, E))
    BY <2>1, EarliestIsEarliest
  <2>3. Earliest(Later(f, E)) \in Later(f, E)
    BY <2>2 DEF IsEarliest
  <2>. QED BY <2>2, <2>3 DEF Later
<1>4. ASSUME NEW t \in 0..MaxTime
      PROVE  t < VersionIn(e, f, E).to <=> \A b \in Bounds(E) : f.at < b.at => t < b.at
  <2>0. MaxTime \in Nat
    BY JoinedDimensionsAssumption
  <2>1. CASE Later(f, E) = {}
    <3>1. t < Open
      BY <2>0 DEF Open
    <3>. QED BY <1>1, <2>1, <3>1 DEF Later
  <2>2. CASE Later(f, E) # {}
    <3>1. PICK n \in Later(f, E) : n = Earliest(Later(f, E)) /\ \A b \in Later(f, E) : n.at <= b.at
      BY <1>3, <2>2 DEF IsEarliest
    <3>2. \A b \in Later(f, E) : b.at \in Nat
      BY BoundsAreEvents, DatedFields DEF Later, OneAtATime
    <3>3. t < n.at <=> \A b \in Later(f, E) : t < b.at
      BY <3>1, <3>2
    <3>4. VersionIn(e, f, E).to = n.at
      BY <1>1, <2>2, <3>1
    <3>. QED BY <3>3, <3>4 DEF Later
  <2>. QED BY <2>1, <2>2
<1>. QED BY <1>1, <1>2, <1>3, <1>4

Says(v) == <<v.parent, v.name, v.parentName>>
Covers(v, t) == v.from <= t /\ t < v.to

LEMMA VersionSays ==
    ASSUME NEW e, NEW E, OneAtATime(E), NEW f \in Starts(E), NEW v, v = VersionIn(e, f, E)
    PROVE  v.of = e /\ Says(v) = f.attrs
<1>1. VersionIn(e, f, E).of = e
  BY VersionFacts
<1>2. <<VersionIn(e, f, E).parent, VersionIn(e, f, E).name, VersionIn(e, f, E).parentName>> = f.attrs
  BY VersionFacts
<1>. QED BY <1>1, <1>2 DEF Says

(* At each time the versions say what the newest event says. *)
LEMMA DimSays ==
    ASSUME NEW e, NEW E, Opens(e, E), NEW t \in 1..MaxTime,
           NEW l \in E, l.at <= t, \A g \in E : g.at <= t => g.at <= l.at
    PROVE  /\ {Says(v) : v \in {w \in Dim(e, E) : Covers(w, t)}} = IF l.deleted THEN {} ELSE {l.attrs}
           /\ ~l.deleted => \E v \in Dim(e, E) : Covers(v, t) /\ Says(v) = l.attrs
<1>. DEFINE said == {Says(v) : v \in {w \in Dim(e, E) : Covers(w, t)}}
<1>1. OneAtATime(E) /\ E \subseteq Dated
  BY DEF Opens, OneAtATime
<1>2. PICK f \in Starts(E) : /\ f = Earliest(Starts(E)) /\ IsEarliest(f, E)
                             /\ CreatedAt(e) = IF f.at = 1 THEN 0 ELSE f.at
  BY FirstStart
<1>3. \A g \in E : g.at \in Nat /\ g.at >= 1 /\ f.at <= g.at
  <2>1. \A g \in E : g.at \in 1..MaxTime /\ g.at \in Nat
    BY <1>1, DatedFields
  <2>. QED BY <1>2, <2>1 DEF IsEarliest
<1>4. \A s \in Starts(E) :
         /\ VersionIn(e, s, E) \in Dim(e, E) /\ Says(VersionIn(e, s, E)) = s.attrs
         /\ Covers(VersionIn(e, s, E), t) <=>
              s.at <= l.at /\ \A b \in Bounds(E) : s.at < b.at => l.at < b.at
  <2>. SUFFICES ASSUME NEW s \in Starts(E)
                PROVE  /\ VersionIn(e, s, E) \in Dim(e, E) /\ Says(VersionIn(e, s, E)) = s.attrs
                       /\ Covers(VersionIn(e, s, E), t) <=>
                            s.at <= l.at /\ \A b \in Bounds(E) : s.at < b.at => l.at < b.at
    OBVIOUS
  <2>1. VersionIn(e, s, E) \in Dim(e, E)
    BY DEF Dim
  <2>2. s \in E /\ s.at \in Nat /\ l.at \in Nat /\ f.at \in Nat /\ f.at <= l.at /\ t \in Nat /\ f.at >= 1
    BY <1>3, BoundsAreEvents
  <2>3. /\ Says(VersionIn(e, s, E)) = s.attrs
        /\ VersionIn(e, s, E).from = IF s = f /\ CreatedAt(e) < s.at THEN CreatedAt(e) ELSE s.at
        /\ t < VersionIn(e, s, E).to <=> \A b \in Bounds(E) : s.at < b.at => t < b.at
    BY <1>1, <1>2, VersionFacts DEF Says
  <2>4. VersionIn(e, s, E).from <= t <=> s.at <= l.at
    <3>1. s.at <= t <=> s.at <= l.at
      BY <2>2
    <3>2. CASE s = f
      <4>1. VersionIn(e, s, E).from <= f.at
        BY <1>2, <2>2, <2>3, <3>2
      <4>2. VersionIn(e, s, E).from \in Nat
        BY <1>2, <2>2, <2>3, <3>2
      <4>. QED BY <2>2, <3>2, <4>1, <4>2
    <3>3. CASE s # f
      BY <2>3, <3>1, <3>3
    <3>. QED BY <3>2, <3>3
  <2>5. \A b \in Bounds(E) : t < b.at <=> l.at < b.at
    <3>. SUFFICES ASSUME NEW b \in Bounds(E) PROVE t < b.at <=> l.at < b.at
      OBVIOUS
    <3>1. b \in E /\ b.at \in Nat
      BY <1>3, BoundsAreEvents
    <3>2. b.at <= t => b.at <= l.at
      BY <3>1
    <3>. QED BY <2>2, <3>1, <3>2
  <2>. QED BY <2>1, <2>3, <2>4, <2>5 DEF Covers
<1>5. \A a : a \in said <=> \E s \in Starts(E) : Covers(VersionIn(e, s, E), t) /\ a = s.attrs
  <2>1. \A v \in Dim(e, E) : \E s \in Starts(E) : v = VersionIn(e, s, E)
    BY DEF Dim
  <2>. QED BY <1>4, <2>1
<1>6. CASE l.deleted
  <2>1. l \in Bounds(E) /\ \A s \in Starts(E) : s # l
    BY <1>6, BoundsAreEvents
  <2>2. ASSUME NEW s \in Starts(E), Covers(VersionIn(e, s, E), t) PROVE FALSE
    <3>1. s.at <= l.at /\ ~(s.at < l.at)
      <4>1. l.at \in Nat
        BY <1>3
      <4>. QED BY <1>4, <2>1, <2>2, <4>1
    <3>2. s \in E /\ s.at \in Nat /\ l.at \in Nat
      BY <1>3, BoundsAreEvents
    <3>3. s.at = l.at
      BY <3>1, <3>2
    <3>. QED BY <1>1, <2>1, <3>2, <3>3 DEF OneAtATime
  <2>. HIDE DEF said
  <2>3. said = {}
    BY <1>5, <2>2
  <2>. QED BY <1>6, <2>3 DEF said
<1>7. CASE ~l.deleted
  <2>1. PICK s \in Starts(E) : Shows(s, l, E)
    BY <1>1, <1>7, StartBelow
  <2>2. Covers(VersionIn(e, s, E), t) /\ s.attrs = l.attrs
    BY <1>4, <2>1 DEF Shows
  <2>3. ASSUME NEW r \in Starts(E), Covers(VersionIn(e, r, E), t) PROVE r = s
    <3>1. /\ r \in E /\ s \in E /\ r \in Bounds(E) /\ s \in Bounds(E)
          /\ r.at \in Nat /\ s.at \in Nat /\ l.at \in Nat
      BY <1>3, BoundsAreEvents
    <3>2. r.at <= l.at /\ (r.at < s.at => l.at < s.at)
      BY <1>4, <2>3, <3>1
    <3>3. s.at <= l.at /\ (s.at < r.at => l.at < r.at)
      BY <2>1, <3>1 DEF Shows
    <3>4. r.at = s.at
      BY <3>1, <3>2, <3>3
    <3>. QED BY <1>1, <3>1, <3>4 DEF OneAtATime
  <2>. HIDE DEF said
  <2>4. \A a : a \in said <=> a = l.attrs
    BY <1>5, <2>2, <2>3
  <2>5. said = {l.attrs}
    BY <2>4
  <2>. QED BY <1>4, <1>7, <2>2, <2>5 DEF said
<1>. QED BY <1>6, <1>7

(* What the gate asks of the versions of one member. *)
Accepted(versions) ==
    LET current == {v \in versions : v.current}
    IN  /\ Cardinality(current) <= 1
        /\ current = {} => \E v \in versions : v.deleted
        /\ \A v \in versions : v.from < v.to
        /\ \A v, w \in versions : v # w /\ v.from <= w.from => v.to <= w.from

RowsOf(table, e) == {v \in table : v.of = e}

LEMMA GateByMember ==
    ASSUME NEW table
    PROVE  ValidScd2(table) <=> \A e \in {v.of : v \in table} : Accepted(RowsOf(table, e))
  BY DEF ValidScd2, Accepted, RowsOf

LEMMA StartFacts ==
    ASSUME NEW e, NEW E, Opens(e, E), NEW s \in Starts(E)
    PROVE  /\ s \in E /\ s \in Bounds(E) /\ s.at \in 1..MaxTime /\ s.at < Open /\ Open \in Nat
           /\ VersionIn(e, s, E).from \in 0..MaxTime /\ VersionIn(e, s, E).to \in 1..Open
           /\ VersionIn(e, s, E).from <= s.at
           /\ VersionIn(e, s, E).from < VersionIn(e, s, E).to
           /\ \A r \in Starts(E) : r.at < s.at => VersionIn(e, s, E).from = s.at
           /\ VersionIn(e, s, E).from = CreatedAt(e) \/ VersionIn(e, s, E).from = s.at
<1>1. PICK f \in Starts(E) : /\ f = Earliest(Starts(E)) /\ IsEarliest(f, E)
                             /\ CreatedAt(e) = IF f.at = 1 THEN 0 ELSE f.at
  BY FirstStart
<1>2. OneAtATime(E) /\ E \subseteq Dated
  BY DEF Opens, OneAtATime
<1>3. \A g \in E : g.at \in 1..MaxTime /\ g.at \in Nat /\ f.at <= g.at
  BY <1>1, <1>2, DatedFields DEF IsEarliest
<1>4. s \in E /\ s \in Bounds(E) /\ f \in E /\ s.at \in Nat /\ f.at \in Nat /\ s.at \in 1..MaxTime /\ f.at \in 1..MaxTime
  BY <1>3, BoundsAreEvents
<1>5. MaxTime \in Nat /\ Open \in Nat /\ Open = MaxTime + 1
  BY JoinedDimensionsAssumption DEF Open
<1>6. VersionIn(e, s, E).from = IF s = f /\ CreatedAt(e) < s.at THEN CreatedAt(e) ELSE s.at
  BY <1>1, <1>2, VersionFacts
<1>7. VersionIn(e, s, E).from \in 0..MaxTime /\ VersionIn(e, s, E).from <= s.at
  <2>1. CASE VersionIn(e, s, E).from = s.at
    BY <1>4, <2>1
  <2>2. CASE s = f /\ CreatedAt(e) < s.at
    <3>1. CreatedAt(e) = 0
      BY <1>1, <1>4, <2>2
    <3>2. VersionIn(e, s, E).from = 0
      BY <1>6, <2>2, <3>1
    <3>. QED BY <1>4, <1>5, <3>2
  <2>. QED BY <1>6, <2>1, <2>2
<1>8. /\ VersionIn(e, s, E).to \in 1..Open
      /\ s.at < VersionIn(e, s, E).to
  <2>1. CASE Later(s, E) = {}
    <3>1. VersionIn(e, s, E).to = Open
      BY <1>2, <2>1, VersionFacts
    <3>. QED BY <1>4, <1>5, <3>1
  <2>2. CASE Later(s, E) # {}
    <3>1. PICK n \in Bounds(E) : n = Earliest(Later(s, E)) /\ s.at < n.at
      BY <1>2, <2>2, VersionFacts
    <3>2. VersionIn(e, s, E).to = n.at
      <4>1. VersionIn(e, s, E).to = Earliest(Later(s, E)).at
        BY <1>2, <2>2, VersionFacts
      <4>. QED BY <3>1, <4>1
    <3>3. n.at \in 1..MaxTime
      BY <1>3, BoundsAreEvents
    <3>. QED BY <1>5, <3>1, <3>2, <3>3
  <2>. QED BY <2>1, <2>2
<1>9. ASSUME NEW r \in Starts(E), r.at < s.at PROVE VersionIn(e, s, E).from = s.at
  <2>1. r \in E /\ r.at \in Nat /\ f.at <= r.at
    BY <1>3, BoundsAreEvents
  <2>2. s # f
    BY <1>4, <1>9, <2>1
  <2>. QED BY <1>6, <2>2
<1>10. VersionIn(e, s, E).from < VersionIn(e, s, E).to
  BY <1>4, <1>5, <1>7, <1>8
<1>11. s.at < Open
  BY <1>4, <1>5
<1>. QED BY <1>4, <1>5, <1>6, <1>7, <1>8, <1>9, <1>10, <1>11

LEMMA DimTyped ==
    ASSUME NEW e \in Entities, NEW E, Opens(e, E)
    PROVE  Dim(e, E) \subseteq Versions
<1>. SUFFICES ASSUME NEW s \in Starts(E) PROVE VersionIn(e, s, E) \in Versions
  BY DEF Dim
<1>1. s \in E /\ s \in Dated /\ s.attrs \in Columns
  BY BoundsAreEvents DEF Opens, OneAtATime, Dated
<1>2. /\ s.attrs[1] \in Entities \cup {NoParent} /\ s.attrs[2] \in Names
      /\ s.attrs[3] \in Names \cup {NoName}
  BY <1>1 DEF Columns
<1>3. VersionIn(e, s, E).from \in 0..MaxTime /\ VersionIn(e, s, E).to \in 1..Open
  BY StartFacts
<1>4. Later(s, E) # {} => Earliest(Later(s, E)).deleted \in BOOLEAN
  BY VersionFacts, BoundsAreEvents, DatedFields DEF Opens, OneAtATime
<1>5. (Later(s, E) # {} /\ Earliest(Later(s, E)).deleted) \in BOOLEAN
  BY <1>4
<1>6. PICK from \in 0..MaxTime : from = VersionIn(e, s, E).from
  BY <1>3
<1>7. PICK to \in 1..Open : to = VersionIn(e, s, E).to
  BY <1>3
<1>8. PICK deleted \in BOOLEAN : deleted = (Later(s, E) # {} /\ Earliest(Later(s, E)).deleted)
  BY <1>5
<1>9. PICK current \in BOOLEAN : current = (Later(s, E) = {})
  OBVIOUS
<1>10. VersionIn(e, s, E) =
         [of |-> e, from |-> from, to |-> to, parent |-> s.attrs[1], name |-> s.attrs[2],
          parentName |-> s.attrs[3], current |-> current, deleted |-> deleted]
  BY <1>6, <1>7, <1>8, <1>9 DEF VersionIn
<1>. QED BY <1>2, <1>10 DEF Versions

(* The gate accepts what the replay makes of a row.                         *)
LEMMA DimValid ==
    ASSUME NEW e, NEW E, Opens(e, E)
    PROVE  Accepted(Dim(e, E))
<1>. DEFINE S == Starts(E)
            current == {v \in Dim(e, E) : v.current}
<1>1. OneAtATime(E) /\ E \subseteq Dated /\ S \subseteq Bounds(E) /\ Bounds(E) \subseteq E
  BY BoundsAreEvents DEF Opens, OneAtATime
<1>2. \A b \in Bounds(E) : b.at \in Nat /\ b \in E
  BY <1>1, DatedFields
<1>3. \A v \in Dim(e, E) : \E s \in S : v = VersionIn(e, s, E)
  BY DEF Dim
<1>4. \A s \in S : /\ VersionIn(e, s, E).current <=> Later(s, E) = {}
                   /\ VersionIn(e, s, E).deleted <=> Later(s, E) # {} /\ Earliest(Later(s, E)).deleted
                   /\ VersionIn(e, s, E) \in Dim(e, E)
  BY <1>1, VersionFacts DEF Dim
<1>5. Cardinality(current) <= 1
  <2>1. \A v, w \in current : v = w
    <3>. SUFFICES ASSUME NEW s \in S, NEW r \in S, Later(s, E) = {}, Later(r, E) = {}
                  PROVE s = r
      BY <1>3, <1>4
    <3>1. ~(s.at < r.at) /\ ~(r.at < s.at) /\ s.at \in Nat /\ r.at \in Nat
      BY <1>1, <1>2 DEF Later
    <3>2. s.at = r.at
      BY <3>1
    <3>. QED BY <1>1, <3>2 DEF OneAtATime
  <2>2. CASE current = {}
    BY <2>2, FS_EmptySet
  <2>3. CASE current # {}
    <3>1. PICK v \in current : TRUE
      BY <2>3
    <3>. HIDE DEF current
    <3>2. current = {v}
      BY <2>1, <3>1
    <3>3. Cardinality(current) = 1
      BY <3>2, FS_Singleton
    <3>. QED BY <3>3
  <2>. QED BY <2>2, <2>3
<1>6. current = {} => \E v \in Dim(e, E) : v.deleted
  <2>. SUFFICES ASSUME current = {} PROVE \E v \in Dim(e, E) : v.deleted
    OBVIOUS
  <2>1. SomeEvents(S)
    BY <1>1, FirstStart DEF SomeEvents
  <2>2. PICK s \in S : \A r \in S : r.at <= s.at
    <3>1. IsLatest(Latest(S), S)
      BY <2>1, LatestIsLatest
    <3>. QED BY <3>1 DEF IsLatest
  <2>3. Later(s, E) # {}
    BY <1>4
  <2>4. PICK n \in Bounds(E) : n = Earliest(Later(s, E)) /\ s.at < n.at
    BY <1>1, <2>3, VersionFacts
  <2>5. n \notin S
    BY <1>1, <1>2, <2>2, <2>4
  <2>6. n.deleted
    BY <2>5, BoundsAreEvents
  <2>. QED BY <1>4, <2>3, <2>4, <2>6
<1>7. \A v \in Dim(e, E) : v.from < v.to
  BY <1>3, StartFacts
<1>8. \A v, w \in Dim(e, E) : v # w /\ v.from <= w.from => v.to <= w.from
  <2>. SUFFICES ASSUME NEW s \in S, NEW r \in S, VersionIn(e, s, E) # VersionIn(e, r, E),
                       VersionIn(e, s, E).from <= VersionIn(e, r, E).from
                PROVE  VersionIn(e, s, E).to <= VersionIn(e, r, E).from
    BY <1>3
  <2>1. s # r /\ s.at # r.at /\ s.at \in Nat /\ r.at \in Nat /\ s \in Bounds(E) /\ r \in Bounds(E)
    <3>1. s # r /\ s \in Bounds(E) /\ r \in Bounds(E)
      BY <1>1
    <3>. QED BY <1>1, <1>2, <3>1 DEF OneAtATime
  <2>2. /\ VersionIn(e, s, E).from \in Nat /\ VersionIn(e, r, E).from \in Nat
        /\ VersionIn(e, s, E).from <= s.at /\ VersionIn(e, r, E).from <= r.at
    <3>1. /\ VersionIn(e, s, E).from \in 0..MaxTime /\ VersionIn(e, r, E).from \in 0..MaxTime
          /\ VersionIn(e, s, E).from <= s.at /\ VersionIn(e, r, E).from <= r.at
      BY StartFacts
    <3>. QED BY <3>1
  <2>3. CASE s.at < r.at
    <3>1. Later(s, E) # {} /\ r \in Later(s, E)
      BY <2>1, <2>3 DEF Later
    <3>2. /\ IsEarliest(Earliest(Later(s, E)), Later(s, E))
          /\ VersionIn(e, s, E).to = Earliest(Later(s, E)).at
      BY <1>1, <3>1, VersionFacts
    <3>3. VersionIn(e, s, E).to <= r.at
      BY <3>1, <3>2 DEF IsEarliest
    <3>4. VersionIn(e, r, E).from = r.at
      BY <2>3, StartFacts
    <3>. QED BY <3>3, <3>4
  <2>4. CASE r.at < s.at
    <3>1. VersionIn(e, s, E).from = s.at
      BY <2>4, StartFacts
    <3>. QED BY <2>1, <2>2, <2>4, <3>1
  <2>. QED BY <2>1, <2>3, <2>4
<1>. QED BY <1>5, <1>6, <1>7, <1>8 DEF Accepted

--------------------------------------------------------------------------------
(* The histories of the source.                                             *)

LEMMA SeqElements ==
    ASSUME NEW A, NEW s \in Seq(A)
    PROVE  Len(s) \in Nat /\ \A i \in 1..Len(s) : s[i] \in A
  OBVIOUS

Referable(e) ==
    IF e \in Categories THEN (Categories \ {e}) \cup {NoParent}
    ELSE IF e \in Variants THEN Products ELSE {NoParent}

(* The events of a row have times of their own, which the clock has         *)
(* reached; only the last may delete the row, and the first never does.     *)
InOrder(e) ==
    /\ \A i, j \in 1..Len(log[e]) : i < j => log[e][i].at < log[e][j].at
    /\ \A i \in 1..Len(log[e]) :
          log[e][i].at <= now /\ (log[e][i].deleted => i # 1 /\ i = Len(log[e]))

(* A row refers to one that is there before, and is not deleted yet; when   *)
(* it is deleted, it keeps its last parent.                                 *)
RefersLive(e) ==
    \A i \in 1..Len(log[e]) :
        /\ log[e][i].parent \in Referable(e)
        /\ log[e][i].deleted => log[e][i].parent = log[e][i - 1].parent
        /\ e \in Variants => log[e][i].parent = log[e][1].parent
        /\ log[e][i].parent # NoParent =>
              LET p == log[e][i].parent
              IN  /\ log[p] # <<>> /\ log[p][1].at <= log[e][i].at
                  /\ ~log[e][i].deleted =>
                        \A j \in 1..Len(log[p]) : log[p][j].deleted => log[e][i].at < log[p][j].at

SourceInv ==
    /\ now \in 1..MaxTime
    /\ log \in [Entities -> Seq(Events)]
    /\ \A e \in Entities : InOrder(e) /\ RefersLive(e)

Sound ==
    /\ SourceInv
    /\ arrived \in [Entities -> Nat]
    /\ \A e \in Entities : arrived[e] <= Len(log[e])

LEMMA LogFacts ==
    ASSUME Sound, NEW e \in Entities
    PROVE  /\ log[e] \in Seq(Events) /\ Len(log[e]) \in Nat /\ arrived[e] \in Nat /\ arrived[e] <= Len(log[e])
           /\ \A i \in 1..Len(log[e]) :
                /\ log[e][i] \in Events /\ log[e][i].at \in 1..MaxTime /\ log[e][i].at \in Nat
                /\ log[e][i].name \in Names /\ log[e][i].parent \in Entities \cup {NoParent}
                /\ log[e][i].deleted \in BOOLEAN /\ log[e][i].parent \in Referable(e)
                /\ log[e][i].parent # NoParent => log[e][i].parent \in Entities
           /\ \A i \in 1..arrived[e] : i \in 1..Len(log[e]) /\ i \in Nat
           /\ arrived[e] > 0 => 1 \in 1..arrived[e] /\ 1 \in 1..Len(log[e])
<1>1. log[e] \in Seq(Events) /\ arrived[e] \in Nat /\ arrived[e] <= Len(log[e])
  BY DEF Sound, SourceInv
<1>2. Len(log[e]) \in Nat /\ \A i \in 1..Len(log[e]) : log[e][i] \in Events
  BY <1>1, SeqElements
<1>3. \A x \in Events : /\ x.at \in 1..MaxTime /\ x.name \in Names
                        /\ x.parent \in Entities \cup {NoParent} /\ x.deleted \in BOOLEAN
  BY DEF Events
<1>4. \A i \in 1..Len(log[e]) : log[e][i].parent \in Referable(e)
  BY DEF Sound, SourceInv, RefersLive
<1>5. \A i \in 1..arrived[e] : i \in 1..Len(log[e]) /\ i \in Nat
  BY <1>1, <1>2
<1>6. arrived[e] > 0 => 1 \in 1..arrived[e] /\ 1 \in 1..Len(log[e])
  BY <1>1, <1>2
<1>. QED BY <1>1, <1>2, <1>3, <1>4, <1>5, <1>6

(* The i-th event of a row is the last up to t that has arrived. *)
Stands(e, i, t) ==
    /\ i \in 1..arrived[e] /\ log[e][i].at <= t
    /\ i < arrived[e] => t < log[e][i + 1].at

LEMMA StandsLast ==
    ASSUME Sound, NEW e \in Entities, NEW t \in Nat, NEW i, Stands(e, i, t),
           NEW j \in 1..arrived[e], log[e][j].at <= t
    PROVE  j <= i /\ log[e][j].at <= log[e][i].at
<1>1. /\ i \in 1..Len(log[e]) /\ j \in 1..Len(log[e]) /\ i \in Nat /\ j \in Nat /\ i \in 1..arrived[e]
      /\ log[e][i].at \in Nat /\ log[e][j].at \in Nat /\ arrived[e] \in Nat
  BY LogFacts DEF Stands
<1>2. ASSUME i < j PROVE FALSE
  <2>1. i < arrived[e] /\ i + 1 \in 1..arrived[e] /\ i + 1 \in 1..Len(log[e]) /\ i + 1 <= j
    BY <1>1, <1>2, LogFacts
  <2>2. t < log[e][i + 1].at /\ log[e][i + 1].at \in Nat
    BY <2>1, LogFacts DEF Stands
  <2>3. log[e][i + 1].at <= log[e][j].at
    <3>1. CASE i + 1 = j
      BY <1>1, <3>1
    <3>2. CASE i + 1 < j
      <4>1. log[e][i + 1].at < log[e][j].at
        BY <1>1, <2>1, <3>2 DEF Sound, SourceInv, InOrder
      <4>. QED BY <1>1, <2>2, <4>1
    <3>. QED BY <1>1, <2>1, <3>1, <3>2
  <2>. QED BY <1>1, <2>2, <2>3
<1>3. j <= i
  BY <1>1, <1>2
<1>4. j < i => log[e][j].at < log[e][i].at
  BY <1>1 DEF Sound, SourceInv, InOrder
<1>. QED BY <1>1, <1>3, <1>4

LEMMA StandsIsEvent ==
    ASSUME Sound, NEW e \in Entities, NEW t \in Nat, NEW i, Stands(e, i, t)
    PROVE  EventAt(e, t) = log[e][i]
<1>. DEFINE past == {k \in 1..arrived[e] : log[e][k].at <= t}
            last == CHOOSE k \in past : \A j \in past : j <= k
<1>1. i \in past /\ \A j \in past : j <= i
  BY StandsLast DEF Stands
<1>2. last \in past /\ \A j \in past : j <= last
  BY <1>1
<1>3. last \in Nat /\ i \in Nat
  BY <1>1, <1>2
<1>4. last = i
  BY <1>1, <1>2, <1>3
<1>. QED BY <1>1, <1>4 DEF EventAt

LEMMA SomethingStands ==
    ASSUME Sound, NEW e \in Entities, NEW t \in Nat, arrived[e] > 0, log[e][1].at <= t
    PROVE  \E i \in 1..arrived[e] : Stands(e, i, t)
<1>. DEFINE past == {k \in 1..arrived[e] : log[e][k].at <= t}
            left == {arrived[e] - k : k \in past}
<1>1. arrived[e] \in Nat /\ 1 \in past
  BY LogFacts
<1>2. left \in SUBSET Nat /\ left # {}
  BY <1>1
<1>3. PICK n \in left : \A m \in left : n <= m
  <2>. HIDE DEF left
  <2>. QED BY <1>2, NatMin
<1>4. PICK i \in past : n = arrived[e] - i
  BY <1>3
<1>5. \A k \in past : k <= i
  <2>. SUFFICES ASSUME NEW k \in past PROVE k <= i
    OBVIOUS
  <2>1. arrived[e] - i <= arrived[e] - k /\ i \in Nat /\ k \in Nat
    BY <1>3, <1>4
  <2>. QED BY <1>1, <2>1
<1>6. i \in 1..arrived[e] /\ log[e][i].at <= t
  OBVIOUS
<1>7. ASSUME i < arrived[e] PROVE t < log[e][i + 1].at
  <2>1. i + 1 \in 1..arrived[e] /\ ~(i + 1 <= i)
    BY <1>1, <1>6, <1>7
  <2>2. ~(log[e][i + 1].at <= t)
    BY <1>5, <2>1
  <2>3. log[e][i + 1].at \in Nat
    BY <2>1, LogFacts
  <2>. QED BY <2>2, <2>3
<1>. QED BY <1>6, <1>7 DEF Stands

--------------------------------------------------------------------------------
(* The interval join.                                                       *)

StateOf(e, i) ==
    [of |-> e, from |-> log[e][i].at, to |-> IF i < arrived[e] THEN log[e][i + 1].at ELSE Open,
     name |-> log[e][i].name, parent |-> log[e][i].parent, deleted |-> log[e][i].deleted]

LEMMA StatesAre ==
    ASSUME NEW e, NEW scope
    PROVE  \A s : s \in States(e, scope) <=> e \in scope /\ \E i \in 1..arrived[e] : s = StateOf(e, i)
  BY DEF States, StateOf

LEMMA StateFacts ==
    ASSUME Sound, NEW e \in Entities, NEW i \in 1..arrived[e]
    PROVE  /\ StateOf(e, i).of = e /\ StateOf(e, i).from = log[e][i].at
           /\ StateOf(e, i).name = log[e][i].name /\ StateOf(e, i).parent = log[e][i].parent
           /\ StateOf(e, i).deleted = log[e][i].deleted
           /\ StateOf(e, i).from \in Nat /\ StateOf(e, i).to \in Nat
           /\ StateOf(e, i).from < StateOf(e, i).to
           /\ \A t \in 1..MaxTime : StateOf(e, i).from <= t /\ t < StateOf(e, i).to <=> Stands(e, i, t)
<1>1. /\ StateOf(e, i).of = e /\ StateOf(e, i).from = log[e][i].at
      /\ StateOf(e, i).name = log[e][i].name /\ StateOf(e, i).parent = log[e][i].parent
      /\ StateOf(e, i).deleted = log[e][i].deleted
      /\ StateOf(e, i).to = IF i < arrived[e] THEN log[e][i + 1].at ELSE Open
  BY DEF StateOf
<1>2. /\ i \in 1..Len(log[e]) /\ log[e][i].at \in 1..MaxTime /\ log[e][i].at \in Nat
      /\ arrived[e] \in Nat /\ MaxTime \in Nat /\ Open = MaxTime + 1
  BY LogFacts, JoinedDimensionsAssumption DEF Open
<1>3. CASE i < arrived[e]
  <2>1. i + 1 \in 1..arrived[e] /\ i + 1 \in 1..Len(log[e]) /\ log[e][i + 1].at \in Nat /\ i < i + 1
    BY <1>2, <1>3, LogFacts
  <2>2. log[e][i].at < log[e][i + 1].at
    BY <1>2, <2>1 DEF Sound, SourceInv, InOrder
  <2>3. StateOf(e, i).to = log[e][i + 1].at
    BY <1>1, <1>3
  <2>. QED BY <1>1, <1>2, <1>3, <2>1, <2>2, <2>3 DEF Stands
<1>4. CASE ~(i < arrived[e])
  <2>1. StateOf(e, i).to = MaxTime + 1
    BY <1>1, <1>2, <1>4
  <2>2. \A t \in 1..MaxTime : t < MaxTime + 1
    BY <1>2
  <2>. QED BY <1>1, <1>2, <1>4, <2>1, <2>2 DEF Stands
<1>. QED BY <1>3, <1>4

(* The parent's history is at hand. *)
Matched(p, scope) == p # NoParent /\ p \in scope /\ arrived[p] > 0

(* f is what the row, and its parent, said at t. *)
Reads(f, e, scope, t) ==
    LET own == EventAt(e, t)
        parent == EventAt(own.parent, t)
    IN  IF Matched(own.parent, scope)
        THEN /\ f.attrs = <<own.parent, own.name, IF parent.deleted THEN NoName ELSE parent.name>>
             /\ f.deleted = (own.deleted \/ (e \in Variants /\ parent.deleted))
        ELSE /\ e \in Categories /\ f.attrs = <<own.parent, own.name, NoName>>
             /\ f.deleted = own.deleted

Scoped(e, scope) == e \in Categories \cup Variants /\ e \in scope /\ scope \subseteq Entities

(* A row refers to what was there before.                                   *)
LEMMA ParentFacts ==
    ASSUME Sound, NEW e \in Entities, NEW i \in 1..arrived[e], NEW scope, scope \subseteq Entities,
           NEW p, p = log[e][i].parent, Matched(p, scope)
    PROVE  p \in Entities /\ 1 \in 1..arrived[p] /\ log[p][1].at <= log[e][i].at
<1>1. p \in Entities /\ i \in 1..Len(log[e])
  BY LogFacts DEF Matched
<1>2. 1 \in 1..arrived[p]
  BY <1>1, LogFacts DEF Matched
<1>3. log[p][1].at <= log[e][i].at
  BY <1>1 DEF Sound, SourceInv, RefersLive, Matched
<1>. QED BY <1>1, <1>2, <1>3

(* Where the parent's history is at hand, a state of the row overlaps with  *)
(* the parent's state at each of its times.                                 *)
LEMMA Overlapping ==
    ASSUME Sound, NEW e \in Entities, NEW i, NEW p \in Entities, NEW j, NEW t \in 1..MaxTime,
           Stands(e, i, t), Stands(p, j, t)
    PROVE  Overlaps(StateOf(e, i), StateOf(p, j))
<1>1. i \in 1..arrived[e] /\ j \in 1..arrived[p] /\ t \in Nat
  BY DEF Stands
<1>2. StateOf(e, i).from <= t /\ t < StateOf(e, i).to /\ StateOf(p, j).from <= t /\ t < StateOf(p, j).to
  BY <1>1, StateFacts
<1>3. /\ StateOf(e, i).from \in Nat /\ StateOf(e, i).to \in Nat
      /\ StateOf(p, j).from \in Nat /\ StateOf(p, j).to \in Nat
  BY <1>1, StateFacts
<1>. QED BY <1>1, <1>2, <1>3 DEF Overlaps

LEMMA JoinedFields ==
    ASSUME NEW s, NEW p
    PROVE  /\ Joined(s, p).at = IF s.from < p.from THEN p.from ELSE s.from
           /\ Joined(s, p).attrs = <<s.parent, s.name, IF p.deleted THEN NoName ELSE p.name>>
           /\ Joined(s, p).deleted = (s.deleted \/ (s.of \in Variants /\ p.deleted))
           /\ Joined(s, p) = [at |-> Joined(s, p).at, attrs |-> Joined(s, p).attrs, deleted |-> Joined(s, p).deleted]
  BY DEF Joined

Alone(s) == [at |-> s.from, attrs |-> <<s.parent, s.name, NoName>>, deleted |-> s.deleted]

(* The events of the join: of a row and its parent, or of a category alone. *)
LEMMA JoinedCases ==
    ASSUME Sound, NEW e, NEW scope, Scoped(e, scope)
    PROVE  \A f : f \in JoinedEvents(e, scope) <=>
             \E i \in 1..arrived[e] :
                \/ /\ Matched(log[e][i].parent, scope)
                   /\ \E j \in 1..arrived[log[e][i].parent] :
                         /\ Overlaps(StateOf(e, i), StateOf(log[e][i].parent, j))
                         /\ f = Joined(StateOf(e, i), StateOf(log[e][i].parent, j))
                \/ /\ ~Matched(log[e][i].parent, scope) /\ e \in Categories /\ f = Alone(StateOf(e, i))
<1>. DEFINE matches(s) == {p \in ParentStates(s, scope) : Overlaps(s, p)}
            from(s) == IF matches(s) = {} THEN Unmatched(s) ELSE {Joined(s, p) : p \in matches(s)}
<1>1. e \in Entities /\ e \in scope /\ scope \subseteq Entities
  BY DEF Scoped, Entities
<1>2. \A f : f \in JoinedEvents(e, scope) <=> \E i \in 1..arrived[e] : f \in from(StateOf(e, i))
  <2>1. \A f : f \in JoinedEvents(e, scope) <=> \E s \in States(e, scope) : f \in from(s)
    BY DEF JoinedEvents
  <2>. HIDE DEF from
  <2>. QED BY <1>1, <2>1, StatesAre
<1>3. ASSUME NEW i \in 1..arrived[e], NEW f
      PROVE  f \in from(StateOf(e, i)) <=>
                \/ /\ Matched(log[e][i].parent, scope)
                   /\ \E j \in 1..arrived[log[e][i].parent] :
                         /\ Overlaps(StateOf(e, i), StateOf(log[e][i].parent, j))
                         /\ f = Joined(StateOf(e, i), StateOf(log[e][i].parent, j))
                \/ /\ ~Matched(log[e][i].parent, scope) /\ e \in Categories /\ f = Alone(StateOf(e, i))
  <2>. DEFINE s == StateOf(e, i)
              p == log[e][i].parent
  <2>1. s.parent = p /\ s.of = e /\ s.from = log[e][i].at /\ i \in 1..Len(log[e])
    BY <1>1, StateFacts, LogFacts
  <2>2. CASE Matched(p, scope)
    <3>1. p \in Entities /\ 1 \in 1..arrived[p] /\ log[p][1].at <= log[e][i].at
      BY <1>1, <2>2, ParentFacts
    <3>2. \A q : q \in ParentStates(s, scope) <=> \E j \in 1..arrived[p] : q = StateOf(p, j)
      <4>. HIDE DEF s, p
      <4>. QED BY <2>1, <2>2, StatesAre DEF ParentStates, Matched
    <3>3. \E j \in 1..arrived[p] : Overlaps(s, StateOf(p, j))
      <4>1. log[e][i].at \in 1..MaxTime /\ log[e][i].at \in Nat
        BY <1>1, LogFacts
      <4>2. Stands(e, i, log[e][i].at)
        BY <1>1, <2>1, <4>1, StateFacts
      <4>3. arrived[p] > 0
        BY <2>2 DEF Matched
      <4>4. PICK j \in 1..arrived[p] : Stands(p, j, log[e][i].at)
        BY <3>1, <4>1, <4>3, SomethingStands
      <4>. QED BY <1>1, <3>1, <4>1, <4>2, <4>4, Overlapping
    <3>4. matches(s) # {} /\ \A q : q \in matches(s) <=> \E j \in 1..arrived[p] : q = StateOf(p, j) /\ Overlaps(s, q)
      BY <3>2, <3>3
    <3>5. f \in from(s) <=> \E q \in matches(s) : f = Joined(s, q)
      BY <3>4
    <3>. HIDE DEF s, p, matches, from
    <3>6. f \in from(s) <=> \E j \in 1..arrived[p] : Overlaps(s, StateOf(p, j)) /\ f = Joined(s, StateOf(p, j))
      BY <3>4, <3>5
    <3>. QED BY <2>2, <3>6 DEF s, p
  <2>3. CASE ~Matched(p, scope)
    <3>1. ParentStates(s, scope) = {}
      <4>1. CASE p = NoParent
        BY <2>1, <4>1 DEF ParentStates
      <4>2. CASE p # NoParent
        <5>1. p \in Entities
          BY <1>1, <2>1, <4>2, LogFacts
        <5>2. p \notin scope \/ arrived[p] = 0
          BY <1>1, <2>3, <4>2, <5>1, LogFacts DEF Matched
        <5>. HIDE DEF s, p
        <5>. QED BY <2>1, <4>2, <5>2, StatesAre DEF ParentStates
      <4>. QED BY <4>1, <4>2
    <3>2. from(s) = Unmatched(s)
      BY <3>1
    <3>3. f \in Unmatched(s) <=> e \in Categories /\ f = Alone(s)
      BY <2>1 DEF Unmatched, Alone
    <3>. QED BY <2>3, <3>2, <3>3
  <2>. QED BY <2>2, <2>3
<1>. HIDE DEF from
<1>. QED BY <1>2, <1>3

(* An event of the join says what the row and its parent say at its time.   *)
LEMMA JoinReads ==
    ASSUME Sound, NEW e, NEW scope, Scoped(e, scope), NEW f \in JoinedEvents(e, scope)
    PROVE  /\ f \in Dated /\ Reads(f, e, scope, f.at)
           /\ 1 \in 1..arrived[e] /\ log[e][1].at <= f.at
           /\ \E i \in 1..arrived[e] :
                /\ Stands(e, i, f.at)
                /\ f.at = log[e][i].at \/
                   \E j \in 1..arrived[log[e][i].parent] :
                      Matched(log[e][i].parent, scope) /\ f.at = log[log[e][i].parent][j].at
<1>1. e \in Entities /\ scope \subseteq Entities
  BY DEF Scoped, Entities
<1>2. PICK i \in 1..arrived[e] :
                \/ /\ Matched(log[e][i].parent, scope)
                   /\ \E j \in 1..arrived[log[e][i].parent] :
                         /\ Overlaps(StateOf(e, i), StateOf(log[e][i].parent, j))
                         /\ f = Joined(StateOf(e, i), StateOf(log[e][i].parent, j))
                \/ /\ ~Matched(log[e][i].parent, scope) /\ e \in Categories /\ f = Alone(StateOf(e, i))
  BY JoinedCases
<1>. DEFINE s == StateOf(e, i)
            p == log[e][i].parent
<1>3. /\ i \in 1..Len(log[e]) /\ log[e][i].at \in 1..MaxTime /\ log[e][i].at \in Nat /\ i \in Nat
      /\ log[e][i].name \in Names /\ log[e][i].parent \in Entities \cup {NoParent}
      /\ log[e][i].deleted \in BOOLEAN
      /\ 1 \in 1..arrived[e] /\ log[e][1].at <= log[e][i].at /\ log[e][1].at \in Nat
  <2>1. /\ i \in 1..Len(log[e]) /\ log[e][i].at \in 1..MaxTime /\ log[e][i].at \in Nat /\ i \in Nat
        /\ log[e][i].name \in Names /\ log[e][i].parent \in Entities \cup {NoParent}
        /\ log[e][i].deleted \in BOOLEAN /\ arrived[e] \in Nat
    BY <1>1, LogFacts
  <2>2. 1 \in 1..arrived[e] /\ 1 \in 1..Len(log[e])
    BY <2>1, <1>1, LogFacts
  <2>3. i # 1 => log[e][1].at < log[e][i].at
    BY <1>1, <2>1, <2>2 DEF Sound, SourceInv, InOrder
  <2>4. log[e][1].at \in Nat
    BY <1>1, <2>2, LogFacts
  <2>. QED BY <2>1, <2>2, <2>3, <2>4
<1>4. /\ s.of = e /\ s.from = log[e][i].at /\ s.name = log[e][i].name /\ s.parent = p
      /\ s.deleted = log[e][i].deleted /\ s.from \in Nat /\ s.to \in Nat /\ s.from < s.to
      /\ \A t \in 1..MaxTime : s.from <= t /\ t < s.to <=> Stands(e, i, t)
  BY <1>1, StateFacts
<1>5. CASE Matched(p, scope)
  <2>1. PICK j \in 1..arrived[p] : Overlaps(s, StateOf(p, j)) /\ f = Joined(s, StateOf(p, j))
    BY <1>2, <1>5
  <2>2. p \in Entities
    BY <1>1, <1>5, ParentFacts
  <2>. DEFINE q == StateOf(p, j)
  <2>3. /\ q.from = log[p][j].at /\ q.name = log[p][j].name /\ q.deleted = log[p][j].deleted
        /\ q.from \in Nat /\ q.to \in Nat /\ q.from < q.to
        /\ \A t \in 1..MaxTime : q.from <= t /\ t < q.to <=> Stands(p, j, t)
    BY <2>2, StateFacts
  <2>4. log[p][j].at \in 1..MaxTime /\ log[p][j].name \in Names /\ log[p][j].deleted \in BOOLEAN
    BY <2>2, LogFacts
  <2>5. Overlaps(s, q) /\ f = Joined(s, q)
    BY <2>1
  <2>. HIDE DEF s, q
  <2>6. /\ f.at = IF s.from < q.from THEN q.from ELSE s.from
        /\ f.attrs = <<s.parent, s.name, IF q.deleted THEN NoName ELSE q.name>>
        /\ f.deleted = (s.deleted \/ (s.of \in Variants /\ q.deleted))
        /\ f = [at |-> f.at, attrs |-> f.attrs, deleted |-> f.deleted]
    BY <2>5, JoinedFields
  <2>7. /\ f.attrs = <<p, log[e][i].name, IF log[p][j].deleted THEN NoName ELSE log[p][j].name>>
        /\ f.deleted = (log[e][i].deleted \/ (e \in Variants /\ log[p][j].deleted))
    BY <1>4, <2>3, <2>6
  <2>8. f.at \in 1..MaxTime /\ f.at \in Nat /\ s.from <= f.at /\ f.at < s.to /\ q.from <= f.at /\ f.at < q.to
    <3>1. PICK a, b, c, d \in Nat : a = s.from /\ b = s.to /\ c = q.from /\ d = q.to
      BY <1>4, <2>3
    <3>2. a < b /\ c < d /\ a < d /\ c < b
      BY <1>4, <2>3, <2>5, <3>1 DEF Overlaps
    <3>3. a \in 1..MaxTime /\ c \in 1..MaxTime
      BY <1>3, <1>4, <2>3, <2>4, <3>1
    <3>4. f.at = IF a < c THEN c ELSE a
      BY <2>6, <3>1
    <3>5. f.at \in 1..MaxTime /\ f.at \in Nat /\ a <= f.at /\ f.at < b /\ c <= f.at /\ f.at < d
      BY <3>2, <3>3, <3>4
    <3>. QED BY <3>1, <3>5
  <2>9. Stands(e, i, f.at) /\ Stands(p, j, f.at)
    BY <1>4, <2>3, <2>8
  <2>10. EventAt(e, f.at) = log[e][i] /\ EventAt(p, f.at) = log[p][j]
    BY <1>1, <2>2, <2>8, <2>9, StandsIsEvent
  <2>11. Reads(f, e, scope, f.at)
    BY <1>5, <2>7, <2>10 DEF Reads
  <2>12. f \in Dated
    <3>1. PICK name \in Names : name = log[e][i].name
      BY <1>3
    <3>2. PICK parentName \in Names \cup {NoName} : f.attrs = <<p, name, parentName>>
      BY <2>4, <2>7, <3>1
    <3>3. p \in Entities \cup {NoParent}
      BY <2>2
    <3>4. f.attrs \in Columns
      <4>. HIDE DEF p
      <4>. QED BY <3>2, <3>3 DEF Columns
    <3>5. f.deleted \in BOOLEAN
      BY <1>3, <2>4, <2>7
    <3>. QED BY <2>6, <2>8, <3>4, <3>5 DEF Dated
  <2>13. f.at = log[e][i].at \/ f.at = log[p][j].at
    BY <1>4, <2>3, <2>6
  <2>14. log[e][1].at <= f.at
    BY <1>3, <1>4, <2>8
  <2>. QED BY <1>3, <1>5, <2>9, <2>11, <2>12, <2>13, <2>14
<1>6. CASE ~Matched(p, scope)
  <2>1. e \in Categories /\ f = Alone(s)
    BY <1>2, <1>6
  <2>2. /\ f.at = log[e][i].at /\ f.attrs = <<p, log[e][i].name, NoName>> /\ f.deleted = log[e][i].deleted
        /\ f = [at |-> f.at, attrs |-> f.attrs, deleted |-> f.deleted]
    BY <1>4, <2>1 DEF Alone
  <2>3. Stands(e, i, f.at)
    BY <1>3, <1>4, <2>2
  <2>4. EventAt(e, f.at) = log[e][i]
    BY <1>1, <1>3, <2>2, <2>3, StandsIsEvent
  <2>5. Reads(f, e, scope, f.at)
    BY <1>6, <2>1, <2>2, <2>4 DEF Reads
  <2>6. f \in Dated
    <3>1. f.attrs \in Columns
      BY <1>3, <2>2 DEF Columns
    <3>. QED BY <1>3, <2>2, <3>1 DEF Dated
  <2>. QED BY <1>3, <2>2, <2>3, <2>5, <2>6
<1>. QED BY <1>5, <1>6

(* No two events of one row begin together. *)
LEMMA JoinIsOneAtATime ==
    ASSUME Sound, NEW e, NEW scope, Scoped(e, scope)
    PROVE  OneAtATime(JoinedEvents(e, scope))
<1>1. \A f \in JoinedEvents(e, scope) : f \in Dated /\ Reads(f, e, scope, f.at)
  BY JoinReads
<1>2. ASSUME NEW f \in JoinedEvents(e, scope), NEW g \in JoinedEvents(e, scope), f.at = g.at
      PROVE  f = g
  <2>1. f.attrs = g.attrs /\ f.deleted = g.deleted
    BY <1>1, <1>2 DEF Reads
  <2>. QED BY <1>1, <1>2, <2>1 DEF Dated
<1>. QED BY <1>1, <1>2 DEF OneAtATime

(* The history of the row, and of a variant its product's, is at hand.      *)
Present(e, scope) ==
    /\ Scoped(e, scope) /\ arrived[e] > 0
    /\ e \in Variants => Matched(log[e][1].parent, scope)

(* The newest event of the join up to t says what the row and its parent    *)
(* say at t.                                                                *)
LEMMA JoinFinds ==
    ASSUME Sound, NEW e, NEW scope, Present(e, scope), NEW t \in 1..MaxTime, log[e][1].at <= t
    PROVE  \E f \in JoinedEvents(e, scope) :
              /\ f.at <= t /\ Reads(f, e, scope, t)
              /\ \A g \in JoinedEvents(e, scope) : g.at <= t => g.at <= f.at
<1>1. e \in Entities /\ scope \subseteq Entities /\ Scoped(e, scope) /\ t \in Nat /\ arrived[e] > 0
  BY DEF Present, Scoped, Entities
<1>2. PICK i \in 1..arrived[e] : Stands(e, i, t)
  BY <1>1, SomethingStands
<1>. DEFINE s == StateOf(e, i)
            p == log[e][i].parent
<1>3. /\ s.of = e /\ s.from = log[e][i].at /\ s.name = log[e][i].name /\ s.parent = p
      /\ s.deleted = log[e][i].deleted /\ s.from \in Nat
  BY <1>1, StateFacts
<1>4. EventAt(e, t) = log[e][i] /\ log[e][i].at <= t
  BY <1>1, <1>2, StandsIsEvent DEF Stands
<1>5. ASSUME NEW g \in JoinedEvents(e, scope), g.at <= t, NEW m \in Nat, log[e][i].at <= m,
             Matched(p, scope) => \A j \in 1..arrived[p] : log[p][j].at <= t => log[p][j].at <= m
      PROVE  g.at <= m
  <2>1. PICK k \in 1..arrived[e] :
                /\ Stands(e, k, g.at)
                /\ g.at = log[e][k].at \/
                   \E j \in 1..arrived[log[e][k].parent] :
                      Matched(log[e][k].parent, scope) /\ g.at = log[log[e][k].parent][j].at
    BY <1>1, JoinReads
  <2>2. g.at \in Nat /\ log[e][k].at \in Nat /\ log[e][i].at \in Nat
    BY <1>1, JoinReads, DatedFields, LogFacts
  <2>3. log[e][k].at <= g.at /\ log[e][k].at <= t
    BY <1>1, <1>5, <2>1, <2>2 DEF Stands
  <2>4. k <= i /\ log[e][k].at <= log[e][i].at
    BY <1>1, <1>2, <2>3, StandsLast
  <2>5. CASE g.at = log[e][k].at
    BY <1>5, <2>2, <2>4, <2>5
  <2>6. CASE g.at # log[e][k].at /\ k = i
    BY <1>5, <2>1, <2>6
  <2>7. CASE k # i
    <3>1. k < i /\ k < arrived[e] /\ k + 1 \in 1..arrived[e] /\ k + 1 <= i
      BY <1>1, <2>4, <2>7, LogFacts
    <3>2. g.at < log[e][k + 1].at
      BY <2>1, <3>1 DEF Stands
    <3>3. log[e][k + 1].at \in Nat /\ k + 1 \in 1..Len(log[e]) /\ i \in 1..Len(log[e])
      BY <1>1, <3>1, LogFacts
    <3>4. k + 1 < i => log[e][k + 1].at < log[e][i].at
      BY <1>1, <3>3 DEF Sound, SourceInv, InOrder
    <3>5. log[e][k + 1].at <= log[e][i].at
      BY <2>2, <3>1, <3>3, <3>4
    <3>. QED BY <1>5, <2>2, <3>2, <3>3, <3>5
  <2>. QED BY <2>5, <2>6, <2>7
<1>6. CASE Matched(p, scope)
  <2>1. p \in Entities /\ 1 \in 1..arrived[p] /\ log[p][1].at <= log[e][i].at /\ arrived[p] > 0
    BY <1>1, <1>6, ParentFacts DEF Matched
  <2>2. log[p][1].at <= t
    <3>1. log[p][1].at \in Nat /\ log[e][i].at \in Nat
      BY <1>1, <2>1, LogFacts
    <3>. QED BY <1>4, <2>1, <3>1
  <2>3. PICK j \in 1..arrived[p] : Stands(p, j, t)
    BY <1>1, <2>1, <2>2, SomethingStands
  <2>. DEFINE q == StateOf(p, j)
  <2>4. /\ q.from = log[p][j].at /\ q.name = log[p][j].name /\ q.deleted = log[p][j].deleted
        /\ q.from \in Nat
    BY <2>1, StateFacts
  <2>5. EventAt(p, t) = log[p][j] /\ log[p][j].at <= t
    BY <1>1, <2>1, <2>3, StandsIsEvent DEF Stands
  <2>6. Overlaps(s, q)
    BY <1>1, <1>2, <2>1, <2>3, Overlapping
  <2>7. PICK f \in JoinedEvents(e, scope) : f = Joined(s, q)
    BY <1>1, <1>6, <2>6, JoinedCases
  <2>8. /\ f.at = IF s.from < q.from THEN q.from ELSE s.from
        /\ f.attrs = <<p, log[e][i].name, IF log[p][j].deleted THEN NoName ELSE log[p][j].name>>
        /\ f.deleted = (log[e][i].deleted \/ (e \in Variants /\ log[p][j].deleted))
    BY <1>3, <2>4, <2>7, JoinedFields
  <2>9. Reads(f, e, scope, t)
    BY <1>4, <1>6, <2>5, <2>8 DEF Reads
  <2>10. f.at \in Nat /\ f.at <= t /\ s.from <= f.at /\ q.from <= f.at
    BY <1>3, <1>4, <2>4, <2>5, <2>8
  <2>11. \A k \in 1..arrived[p] : log[p][k].at <= t => log[p][k].at <= f.at
    <3>. SUFFICES ASSUME NEW k \in 1..arrived[p], log[p][k].at <= t PROVE log[p][k].at <= f.at
      OBVIOUS
    <3>1. log[p][k].at <= log[p][j].at
      BY <1>1, <2>1, <2>3, StandsLast
    <3>2. log[p][k].at \in Nat /\ log[p][j].at \in Nat
      BY <2>1, LogFacts
    <3>. QED BY <2>4, <2>10, <3>1, <3>2
  <2>12. \A g \in JoinedEvents(e, scope) : g.at <= t => g.at <= f.at
    BY <1>3, <1>5, <2>10, <2>11
  <2>. QED BY <2>9, <2>10, <2>12
<1>7. CASE ~Matched(p, scope)
  <2>1. e \in Categories
    <3>1. e \in Variants => log[e][i].parent = log[e][1].parent
      BY <1>1, LogFacts DEF Sound, SourceInv, RefersLive
    <3>. QED BY <1>7, <3>1 DEF Present, Scoped
  <2>2. PICK f \in JoinedEvents(e, scope) : f = Alone(s)
    BY <1>1, <1>7, <2>1, JoinedCases
  <2>3. f.at = log[e][i].at /\ f.attrs = <<p, log[e][i].name, NoName>> /\ f.deleted = log[e][i].deleted
    BY <1>3, <2>2 DEF Alone
  <2>4. Reads(f, e, scope, t)
    BY <1>4, <1>7, <2>1, <2>3 DEF Reads
  <2>5. f.at \in Nat /\ f.at <= t
    BY <1>3, <1>4, <2>3
  <2>6. \A g \in JoinedEvents(e, scope) : g.at <= t => g.at <= f.at
    BY <1>3, <1>5, <1>7, <2>3, <2>5
  <2>. QED BY <2>4, <2>5, <2>6
<1>. QED BY <1>6, <1>7

LEMMA JoinOpens ==
    ASSUME Sound, NEW e, NEW scope, Present(e, scope)
    PROVE  Opens(e, JoinedEvents(e, scope))
<1>1. e \in Entities /\ scope \subseteq Entities /\ Scoped(e, scope)
  BY DEF Present, Scoped, Entities
<1>2. 1 \in 1..arrived[e] /\ 1 \in 1..Len(log[e])
  BY <1>1, LogFacts DEF Present
<1>. DEFINE t == log[e][1].at
<1>3. t \in 1..MaxTime /\ t \in Nat
  BY <1>1, <1>2, LogFacts
<1>4. PICK f \in JoinedEvents(e, scope) : f.at <= t /\ Reads(f, e, scope, t)
  BY <1>3, JoinFinds
<1>5. \A g \in JoinedEvents(e, scope) : t <= g.at /\ g.at \in Nat
  BY <1>1, JoinReads, DatedFields
<1>6. f.at = t /\ IsEarliest(f, JoinedEvents(e, scope))
  BY <1>3, <1>4, <1>5 DEF IsEarliest
<1>7. EventAt(e, t) = log[e][1] /\ ~log[e][1].deleted
  <2>1. Stands(e, 1, t)
    BY <1>1, <1>2, <1>3, StateFacts
  <2>2. ~log[e][1].deleted
    BY <1>1, <1>2 DEF Sound, SourceInv, InOrder
  <2>. QED BY <1>1, <1>3, <2>1, <2>2, StandsIsEvent
<1>8. ~f.deleted
  <2>1. CASE ~Matched(log[e][1].parent, scope)
    BY <1>4, <1>7, <2>1 DEF Reads
  <2>2. CASE Matched(log[e][1].parent, scope)
    <3>. DEFINE p == log[e][1].parent
    <3>1. p \in Entities /\ log[p][1].at <= t /\ arrived[p] > 0 /\ p # NoParent
      BY <1>1, <1>2, <2>2, ParentFacts DEF Matched
    <3>2. PICK j \in 1..arrived[p] : Stands(p, j, t)
      BY <1>3, <3>1, SomethingStands
    <3>3. EventAt(p, t) = log[p][j] /\ log[p][j].at <= t
      BY <1>3, <3>1, <3>2, StandsIsEvent DEF Stands
    <3>4. j \in 1..Len(log[p]) /\ log[p][j].at \in Nat
      BY <3>1, LogFacts
    <3>5. log[p][j].deleted => t < log[p][j].at
      BY <1>1, <1>2, <1>7, <3>1, <3>4 DEF Sound, SourceInv, RefersLive
    <3>6. ~EventAt(p, t).deleted
      BY <1>3, <3>3, <3>4, <3>5
    <3>. QED BY <1>4, <1>7, <2>2, <3>6 DEF Reads
  <2>. QED BY <2>1, <2>2
<1>9. CreatedAt(e) = IF f.at = 1 THEN 0 ELSE f.at
  BY <1>6 DEF CreatedAt
<1>10. OneAtATime(JoinedEvents(e, scope))
  BY <1>1, JoinIsOneAtATime
<1>. QED BY <1>6, <1>8, <1>9, <1>10 DEF Opens

LEMMA JoinIsEmpty ==
    ASSUME Sound, NEW e, NEW scope, Scoped(e, scope), ~Present(e, scope)
    PROVE  JoinedEvents(e, scope) = {}
<1>. SUFFICES ASSUME NEW f \in JoinedEvents(e, scope) PROVE FALSE
  OBVIOUS
<1>1. e \in Entities
  BY DEF Scoped, Entities
<1>2. PICK i \in 1..arrived[e] : Matched(log[e][i].parent, scope) \/ e \in Categories
  BY JoinedCases
<1>3. arrived[e] > 0
  BY <1>1, LogFacts
<1>4. e \in Variants => log[e][i].parent = log[e][1].parent
  BY <1>1, LogFacts DEF Sound, SourceInv, RefersLive
<1>5. e \in Variants => e \notin Categories
  BY JoinedDimensionsAssumption
<1>. QED BY <1>2, <1>3, <1>4, <1>5 DEF Present

(* What a replay of a row, with or without its parents, always is. *)
LEMMA ReplayFacts ==
    ASSUME Sound, NEW e, NEW scope, Scoped(e, scope)
    PROVE  /\ ReplayEntity(e, scope) \subseteq Versions
           /\ \A v \in ReplayEntity(e, scope) : v.of = e
           /\ ReplayEntity(e, scope) # {} => Accepted(ReplayEntity(e, scope)) /\ Present(e, scope)
           /\ Present(e, scope) => Accepted(ReplayEntity(e, scope))
<1>. DEFINE E == JoinedEvents(e, scope)
<1>1. ReplayEntity(e, scope) = Dim(e, E)
  BY ReplayIsDim
<1>2. e \in Entities
  BY DEF Scoped, Entities
<1>3. CASE Present(e, scope)
  <2>1. Opens(e, E)
    BY <1>3, JoinOpens
  <2>2. \A v \in Dim(e, E) : v.of = e
    BY DEF Dim, VersionIn
  <2>. QED BY <1>1, <1>2, <1>3, <2>1, <2>2, DimTyped, DimValid
<1>4. CASE ~Present(e, scope)
  <2>1. E = {}
    BY <1>4, JoinIsEmpty
  <2>2. Dim(e, E) = {}
    BY <2>1 DEF Dim, Starts
  <2>. QED BY <1>1, <1>4, <2>2
<1>. QED BY <1>3, <1>4

LEMMA ReadsIsSaid ==
    ASSUME NEW e, NEW f, NEW t, Reads(f, e, Entities, t),
           EventAt(e, t).parent \in Entities \cup {NoParent}, e \in Categories => e \notin Variants
    PROVE  SaidAt(e, t) = IF f.deleted THEN {} ELSE {f.attrs}
<1>. DEFINE own == EventAt(e, t)
            parents == {EventAt(p, t) : p \in {p \in Entities : p = own.parent /\ arrived[p] > 0}}
            names == {p.name : p \in {p \in parents : ~p.deleted}}
<1>1. SaidAt(e, t) = IF own.deleted \/ (e \in Variants /\ names = {}) THEN {}
                     ELSE {<<own.parent, own.name, IF names = {} THEN NoName ELSE CHOOSE n \in names : TRUE>>}
  BY DEF SaidAt
<1>2. CASE Matched(own.parent, Entities)
  <2>. DEFINE parent == EventAt(own.parent, t)
  <2>1. parents = {parent}
    BY <1>2 DEF Matched
  <2>2. names = IF parent.deleted THEN {} ELSE {parent.name}
    BY <2>1
  <2>3. /\ f.attrs = <<own.parent, own.name, IF parent.deleted THEN NoName ELSE parent.name>>
        /\ f.deleted = (own.deleted \/ (e \in Variants /\ parent.deleted))
    BY <1>2 DEF Reads
  <2>. HIDE DEF parents, names, own, parent
  <2>4. CASE parent.deleted
    BY <1>1, <2>2, <2>3, <2>4
  <2>5. CASE ~parent.deleted
    <3>1. names = {parent.name} /\ (CHOOSE n \in names : TRUE) = parent.name
      BY <2>2, <2>5
    <3>. QED BY <1>1, <2>3, <2>5, <3>1
  <2>. QED BY <2>4, <2>5
<1>3. CASE ~Matched(own.parent, Entities)
  <2>1. parents = {}
    BY <1>3, JoinedDimensionsAssumption DEF Matched
  <2>2. names = {}
    BY <2>1
  <2>3. e \in Categories /\ f.attrs = <<own.parent, own.name, NoName>> /\ f.deleted = own.deleted
    BY <1>3 DEF Reads
  <2>. HIDE DEF parents, names, own
  <2>. QED BY <1>1, <2>2, <2>3
<1>. QED BY <1>2, <1>3

(* The replay of the whole history says what the source said. *)
LEMMA ReplaySays ==
    ASSUME Sound
    PROVE  ReplayFollowsSource
<1>. SUFFICES ASSUME NEW e \in Categories \cup Variants, arrived[e] > 0,
                     NEW t \in 1..MaxTime, CreatedAt(e) <= t
              PROVE {<<v.parent, v.name, v.parentName>> :
                        v \in {w \in ReplayEntity(e, Entities) : w.from <= t /\ t < w.to}} = SaidAt(e, t)
  BY DEF ReplayFollowsSource
<1>. DEFINE E == JoinedEvents(e, Entities)
            said == {Says(v) : v \in {w \in Dim(e, E) : Covers(w, t)}}
<1>1. e \in Entities /\ Scoped(e, Entities) /\ t \in Nat /\ 1 \in 1..Len(log[e]) /\ 1 \in 1..arrived[e]
  BY LogFacts DEF Entities, Scoped
<1>2. {<<v.parent, v.name, v.parentName>> :
          v \in {w \in ReplayEntity(e, Entities) : w.from <= t /\ t < w.to}} = said
  BY ReplayIsDim DEF Says, Covers
<1>3. log[e][1].at <= t
  <2>1. log[e][1].at \in 1..MaxTime
    BY <1>1, LogFacts
  <2>. QED BY <1>1, <2>1 DEF CreatedAt
<1>4. PICK i \in 1..arrived[e] : Stands(e, i, t)
  BY <1>1, <1>3, SomethingStands
<1>5. EventAt(e, t) = log[e][i] /\ log[e][i].parent \in Entities \cup {NoParent} /\ i \in 1..Len(log[e])
  BY <1>1, <1>4, StandsIsEvent, LogFacts
<1>6. e \in Categories => e \notin Variants
  BY JoinedDimensionsAssumption
<1>7. CASE Present(e, Entities)
  <2>1. PICK f \in E : f.at <= t /\ Reads(f, e, Entities, t) /\ \A g \in E : g.at <= t => g.at <= f.at
    BY <1>3, <1>7, JoinFinds
  <2>2. Opens(e, E)
    BY <1>7, JoinOpens
  <2>3. said = IF f.deleted THEN {} ELSE {f.attrs}
    BY <2>1, <2>2, DimSays
  <2>4. SaidAt(e, t) = IF f.deleted THEN {} ELSE {f.attrs}
    BY <1>5, <1>6, <2>1, ReadsIsSaid
  <2>. QED BY <1>2, <2>3, <2>4
<1>8. CASE ~Present(e, Entities)
  <2>1. e \in Variants /\ ~Matched(log[e][1].parent, Entities)
    BY <1>1, <1>8 DEF Present
  <2>2. log[e][i].parent = log[e][1].parent
    BY <1>1, <1>5, <2>1 DEF Sound, SourceInv, RefersLive
  <2>3. \A p \in Entities : p = log[e][i].parent => ~(arrived[p] > 0)
    BY <2>1, <2>2, JoinedDimensionsAssumption DEF Matched
  <2>4. SaidAt(e, t) = {}
    BY <1>5, <2>1, <2>3 DEF SaidAt
  <2>5. E = {}
    BY <1>1, <1>8, JoinIsEmpty
  <2>6. Dim(e, E) = {}
    BY <2>5 DEF Dim, Starts
  <2>7. said = {}
    BY <2>6
  <2>. QED BY <1>2, <2>4, <2>7
<1>. QED BY <1>7, <1>8

--------------------------------------------------------------------------------
(* The replay of a part of the history.                                     *)

Right(e) == ReplayEntity(e, Entities)

(* A scope with all the parents that a row ever had is enough.              *)
LEMMA ScopeIsEnough ==
    ASSUME Sound, NEW e, NEW scope, Scoped(e, scope), PastParents(e) \subseteq scope
    PROVE  ReplayEntity(e, scope) = Right(e)
<1>1. e \in Entities /\ Scoped(e, Entities)
  BY DEF Scoped, Entities
<1>2. \A i \in 1..arrived[e] : Matched(log[e][i].parent, scope) <=> Matched(log[e][i].parent, Entities)
  <2>. SUFFICES ASSUME NEW i \in 1..arrived[e], log[e][i].parent # NoParent
                PROVE  log[e][i].parent \in scope /\ log[e][i].parent \in Entities
    BY DEF Matched
  <2>1. log[e][i].parent \in PastParents(e)
    BY DEF PastParents
  <2>. QED BY <2>1 DEF Scoped
<1>3. \A f : f \in JoinedEvents(e, scope) <=> f \in JoinedEvents(e, Entities)
  BY <1>1, <1>2, JoinedCases
<1>4. JoinedEvents(e, scope) = JoinedEvents(e, Entities)
  BY <1>3
<1>. QED BY <1>4, ReplayIsDim DEF Right

(* Two replays of a category cover the same times, whatever parents they    *)
(* have at hand.                                                            *)
LEMMA ReplaysOverlap ==
    ASSUME Sound, NEW e \in Categories, NEW one, Scoped(e, one), NEW two, Scoped(e, two),
           NEW v \in ReplayEntity(e, one)
    PROVE  \E w \in ReplayEntity(e, two) : Covers(w, v.from)
<1>. DEFINE E == JoinedEvents(e, one)
            F == JoinedEvents(e, two)
<1>1. ReplayEntity(e, one) = Dim(e, E) /\ ReplayEntity(e, two) = Dim(e, F)
  BY ReplayIsDim
<1>2. e \in Entities /\ e \notin Variants
  BY JoinedDimensionsAssumption DEF Entities
<1>3. Present(e, one) /\ Present(e, two)
  BY <1>2, ReplayFacts DEF Present
<1>4. Opens(e, E) /\ Opens(e, F) /\ OneAtATime(E) /\ OneAtATime(F)
  BY <1>3, JoinOpens DEF Opens
<1>5. PICK s \in Starts(E) : v = VersionIn(e, s, E)
  BY <1>1 DEF Dim
<1>6. v.from = CreatedAt(e) \/ v.from = s.at
  BY <1>4, <1>5, StartFacts
<1>7. s \in E /\ ~s.deleted /\ s.at \in 1..MaxTime /\ s.at \in Nat
  BY <1>4, <1>5, BoundsAreEvents, StartFacts
<1>8. CASE v.from = s.at
  <2>1. Reads(s, e, one, s.at) /\ log[e][1].at <= s.at
    BY <1>7, JoinReads
  <2>2. ~EventAt(e, s.at).deleted
    BY <1>2, <1>7, <2>1 DEF Reads
  <2>3. PICK f \in F : f.at <= s.at /\ Reads(f, e, two, s.at) /\ \A g \in F : g.at <= s.at => g.at <= f.at
    BY <1>3, <1>7, <2>1, JoinFinds
  <2>4. ~f.deleted
    BY <1>2, <2>2, <2>3 DEF Reads
  <2>5. \E w \in Dim(e, F) : Covers(w, s.at)
    BY <1>4, <1>7, <2>3, <2>4, DimSays
  <2>. QED BY <1>1, <1>8, <2>5
<1>9. CASE v.from = CreatedAt(e)
  <2>1. PICK f \in Starts(F) : /\ f = Earliest(Starts(F)) /\ IsEarliest(f, F)
                               /\ CreatedAt(e) = IF f.at = 1 THEN 0 ELSE f.at
    BY <1>4, FirstStart
  <2>2. VersionIn(e, f, F).from = IF CreatedAt(e) < f.at THEN CreatedAt(e) ELSE f.at
    BY <1>4, <2>1, VersionFacts
  <2>3. f.at \in 1..MaxTime /\ VersionIn(e, f, F).from < VersionIn(e, f, F).to
    BY <1>4, StartFacts
  <2>4. VersionIn(e, f, F).from = CreatedAt(e)
    BY <2>1, <2>2, <2>3
  <2>5. CreatedAt(e) \in Nat
    BY <2>1, <2>3
  <2>6. Covers(VersionIn(e, f, F), CreatedAt(e)) /\ VersionIn(e, f, F) \in Dim(e, F)
    BY <2>3, <2>4, <2>5 DEF Covers, Dim
  <2>. QED BY <1>1, <1>9, <2>6
<1>. QED BY <1>6, <1>8, <1>9

(* If all the parents of a category are in the history, its replay without  *)
(* one of them loses a key.                                                 *)
ParentsArrived(e) == \A p \in PastParents(e) : arrived[p] > 0
HasKeys(versions, e) == KeysIn(Right(e)) \subseteq KeysIn(versions)

LEMMA KeysNeedParents ==
    ASSUME Sound, NEW e \in Categories, NEW scope, Scoped(e, scope),
           ParentsArrived(e), HasKeys(ReplayEntity(e, scope), e)
    PROVE  ReplayEntity(e, scope) = Right(e)
<1>1. e \in Entities /\ e \notin Variants /\ Scoped(e, Entities)
  BY JoinedDimensionsAssumption DEF Entities, Scoped
<1>2. ASSUME NEW p \in PastParents(e) PROVE p \in scope
  <2>1. PICK k \in 1..arrived[e] : log[e][k].parent = p /\ p # NoParent
    BY DEF PastParents
  <2>2. p \in Entities /\ arrived[p] > 0 /\ k \in 1..Len(log[e]) /\ 1 \in 1..arrived[e]
    <3>1. arrived[e] > 0
      BY <1>1, LogFacts
    <3>2. arrived[p] > 0
      BY DEF ParentsArrived
    <3>. QED BY <1>1, <2>1, <3>1, <3>2, LogFacts
  <2>3. PICK i \in 1..arrived[e] : log[e][i].parent = p /\ ~log[e][i].deleted
    <3>1. CASE ~log[e][k].deleted
      BY <2>1, <3>1
    <3>2. CASE log[e][k].deleted
      <4>1. /\ k # 1 /\ k = Len(log[e]) /\ log[e][k].parent = log[e][k - 1].parent
            /\ k \in Nat /\ Len(log[e]) \in Nat
        BY <1>1, <2>2, <3>2, LogFacts DEF Sound, SourceInv, InOrder, RefersLive
      <4>2. k - 1 \in 1..arrived[e] /\ k - 1 \in 1..Len(log[e]) /\ k - 1 # Len(log[e])
        <5>1. k \in 1..arrived[e] /\ arrived[e] \in Nat /\ k \in 1..Len(log[e])
          BY <1>1, <2>2, LogFacts
        <5>2. PICK m \in Nat, n \in Nat : m = arrived[e] /\ n = Len(log[e])
          BY <4>1, <5>1
        <5>3. k # 1 /\ k \in Nat /\ k \in 1..m /\ k = n
          BY <4>1, <5>1, <5>2
        <5>4. k - 1 \in 1..m /\ k - 1 \in 1..n /\ k - 1 # n
          BY <5>3
        <5>. QED BY <5>2, <5>4
      <4>3. ~log[e][k - 1].deleted
        BY <1>1, <4>2 DEF Sound, SourceInv, InOrder
      <4>. QED BY <2>1, <4>1, <4>2, <4>3
    <3>. QED BY <3>1, <3>2
  <2>. DEFINE t == log[e][i].at
              E == JoinedEvents(e, Entities)
              F == JoinedEvents(e, scope)
  <2>4. i \in 1..Len(log[e]) /\ t \in 1..MaxTime /\ t \in Nat /\ arrived[e] > 0 /\ log[e][1].at <= t
    <3>1. i \in 1..Len(log[e]) /\ t \in 1..MaxTime /\ t \in Nat /\ i \in Nat /\ arrived[e] \in Nat
      BY <1>1, LogFacts
    <3>2. 1 \in 1..Len(log[e]) /\ (1 < i => log[e][1].at < t)
      BY <1>1, <2>2, <3>1, LogFacts DEF Sound, SourceInv, InOrder
    <3>3. log[e][1].at \in Nat
      BY <1>1, <3>2, LogFacts
    <3>. QED BY <3>1, <3>2, <3>3
  <2>5. EventAt(e, t) = log[e][i]
    <3>1. Stands(e, i, t)
      BY <1>1, <2>4, StateFacts
    <3>. QED BY <1>1, <2>4, <3>1, StandsIsEvent
  <2>6. Present(e, Entities) /\ Present(e, scope) /\ Matched(p, Entities)
    BY <1>1, <2>1, <2>2, <2>4 DEF Present, Matched
  <2>7. EventAt(p, t).name \in Names /\ ~EventAt(p, t).deleted
    <3>1. log[p][1].at <= t
      BY <1>1, <2>3, <2>6, ParentFacts
    <3>2. PICK j \in 1..arrived[p] : Stands(p, j, t)
      BY <2>2, <2>4, <3>1, SomethingStands
    <3>3. EventAt(p, t) = log[p][j] /\ log[p][j].at <= t
      BY <2>2, <2>4, <3>2, StandsIsEvent DEF Stands
    <3>4. j \in 1..Len(log[p]) /\ log[p][j].at \in Nat /\ log[p][j].name \in Names
      BY <2>2, LogFacts
    <3>5. log[p][j].deleted => t < log[p][j].at
      BY <1>1, <2>1, <2>3, <2>4, <3>4 DEF Sound, SourceInv, RefersLive
    <3>. QED BY <2>4, <3>3, <3>4, <3>5
  <2>8. PICK f \in E : f.at <= t /\ Reads(f, e, Entities, t) /\ \A g \in E : g.at <= t => g.at <= f.at
    BY <2>4, <2>6, JoinFinds
  <2>9. f.attrs = <<p, log[e][i].name, EventAt(p, t).name>> /\ ~f.deleted
    BY <1>1, <2>3, <2>5, <2>6, <2>7, <2>8 DEF Reads
  <2>10. Opens(e, E) /\ Opens(e, F)
    BY <2>6, JoinOpens
  <2>11. PICK v \in Dim(e, E) : Says(v) = f.attrs
    <3>1. t \in 1..MaxTime /\ ~f.deleted /\ Opens(e, E)
      BY <2>4, <2>9, <2>10
    <3>2. f.at <= t /\ \A g \in E : g.at <= t => g.at <= f.at
      BY <2>8
    <3>. HIDE DEF E, t
    <3>3. \E v \in Dim(e, E) : Covers(v, t) /\ Says(v) = f.attrs
      BY <3>1, <3>2, DimSays
    <3>. QED BY <3>3
  <2>12. v.parent = p /\ v.parentName # NoName
    BY <2>7, <2>9, <2>11, JoinedDimensionsAssumption DEF Says
  <2>13. PICK w \in Dim(e, F) : KeyOf(w) = KeyOf(v)
    BY <2>11, ReplayIsDim DEF Right, KeysIn, HasKeys
  <2>14. w.parent = p /\ w.parentName # NoName
    BY <2>12, <2>13 DEF KeyOf
  <2>15. PICK s \in Starts(F) : w = VersionIn(e, s, F)
    BY DEF Dim
  <2>16. s.attrs = <<w.parent, w.name, w.parentName>> /\ s \in F
    <3>. HIDE DEF F
    <3>1. s \in F /\ OneAtATime(F)
      BY <2>10, BoundsAreEvents DEF Opens
    <3>2. Says(w) = s.attrs
      BY <2>15, <3>1, VersionSays
    <3>. QED BY <3>1, <3>2 DEF Says
  <2>17. Reads(s, e, scope, s.at)
    BY <2>16, JoinReads
  <2>18. Matched(p, scope)
    BY <2>14, <2>16, <2>17 DEF Reads
  <2>. QED BY <2>18 DEF Matched
<1>. QED BY <1>2, ScopeIsEnough

--------------------------------------------------------------------------------
(* The steps of the source.                                                 *)

(* What an event that a transaction at t adds to the history of e is like.  *)
Adds(e, x, t) ==
    /\ x \in Events /\ x.at = t /\ log'[e] = Append(log[e], x)
    /\ FreeAt(e, t) /\ (log[e] = <<>> \/ Live(e))
    /\ x.parent \in Referable(e)
    /\ log[e] # <<>> /\ (e \in Variants \/ x.deleted) => x.parent = Newest(e).parent
    /\ x.deleted => log[e] # <<>>
    /\ ~x.deleted /\ x.parent # NoParent => Live(x.parent) /\ log'[x.parent] = log[x.parent]

SourceStep(t) ==
    /\ t \in 1..MaxTime /\ now <= t /\ now' = t
    /\ log' \in [Entities -> Seq(Events)]
    /\ \A e \in Entities : log'[e] = log[e] \/ \E x : Adds(e, x, t)
    /\ \A p \in Entities : \A x :
          Adds(p, x, t) /\ x.deleted =>
             \A c \in Entities : Live(c) /\ Newest(c).parent = p => Newest(c).at < t

LEMMA AppendIs ==
    ASSUME NEW A, NEW s \in Seq(A), NEW x \in A
    PROVE  /\ Append(s, x) \in Seq(A) /\ Len(Append(s, x)) = Len(s) + 1 /\ Len(s) \in Nat
           /\ \A i \in 1..Len(s) : Append(s, x)[i] = s[i]
           /\ Append(s, x)[Len(s) + 1] = x
  OBVIOUS

(* The newest event of a row. *)
LEMMA NewestFacts ==
    ASSUME SourceInv, NEW e \in Entities, log[e] # <<>>
    PROVE  /\ Len(log[e]) \in 1..Len(log[e]) /\ 1 \in 1..Len(log[e]) /\ Newest(e) = log[e][Len(log[e])]
           /\ Newest(e) \in Events
           /\ \A i \in 1..Len(log[e]) : /\ log[e][i] \in Events /\ log[e][i].at \in Nat
                                        /\ log[e][i].at <= Newest(e).at
                                        /\ i # Len(log[e]) => log[e][i].at < Newest(e).at
           /\ Newest(e).at \in Nat /\ Newest(e).at <= now
           /\ Live(e) => \A i \in 1..Len(log[e]) : ~log[e][i].deleted
<1>1. log[e] \in Seq(Events)
  BY DEF SourceInv
<1>2. Len(log[e]) \in Nat /\ Len(log[e]) # 0
  BY <1>1
<1>3. Len(log[e]) \in 1..Len(log[e]) /\ 1 \in 1..Len(log[e])
  BY <1>2
<1>4. Newest(e) = log[e][Len(log[e])]
  BY DEF Newest
<1>5. \A i \in 1..Len(log[e]) : log[e][i] \in Events /\ log[e][i].at \in Nat
  <2>1. \A i \in 1..Len(log[e]) : log[e][i] \in Events
    BY <1>1, SeqElements
  <2>2. \A x \in Events : x.at \in Nat
    BY DEF Events
  <2>. QED BY <2>1, <2>2
<1>6. \A i \in 1..Len(log[e]) : /\ i # Len(log[e]) => log[e][i].at < Newest(e).at
                                /\ log[e][i].deleted => i = Len(log[e])
                                /\ log[e][i].at <= now
  BY <1>2, <1>3, <1>4 DEF SourceInv, InOrder
<1>7. \A i \in 1..Len(log[e]) : log[e][i].at <= Newest(e).at
  BY <1>3, <1>4, <1>5, <1>6
<1>8. Live(e) => \A i \in 1..Len(log[e]) : ~log[e][i].deleted
  BY <1>4, <1>6 DEF Live
<1>. QED BY <1>3, <1>4, <1>5, <1>6, <1>7, <1>8

(* The histories grow at their ends. *)
Extends == \A e \in Entities : /\ Len(log[e]) \in Nat /\ Len(log'[e]) \in Nat /\ Len(log[e]) <= Len(log'[e])
                               /\ \A i \in 1..Len(log[e]) : log'[e][i] = log[e][i] /\ i \in 1..Len(log'[e])

LEMMA StepExtends ==
    ASSUME SourceInv, NEW t, SourceStep(t)
    PROVE  Extends
<1>. SUFFICES ASSUME NEW e \in Entities
              PROVE /\ Len(log[e]) \in Nat /\ Len(log'[e]) \in Nat /\ Len(log[e]) <= Len(log'[e])
                    /\ \A i \in 1..Len(log[e]) : log'[e][i] = log[e][i] /\ i \in 1..Len(log'[e])
  BY DEF Extends
<1>1. log[e] \in Seq(Events) /\ Len(log[e]) \in Nat
  BY DEF SourceInv
<1>2. CASE log'[e] = log[e]
  BY <1>1, <1>2
<1>3. ASSUME NEW x, Adds(e, x, t) PROVE /\ Len(log'[e]) = Len(log[e]) + 1
                                        /\ \A i \in 1..Len(log[e]) : log'[e][i] = log[e][i]
  BY <1>1, <1>3, AppendIs DEF Adds
<1>4. CASE \E x : Adds(e, x, t)
  BY <1>1, <1>3, <1>4
<1>. QED BY <1>2, <1>4 DEF SourceStep

LEMMA StepInOrder ==
    ASSUME SourceInv, NEW t, SourceStep(t), NEW e \in Entities
    PROVE  InOrder(e)'
<1>1. log[e] \in Seq(Events) /\ Len(log[e]) \in Nat /\ InOrder(e) /\ now \in Nat /\ t \in Nat /\ now <= t /\ now' = t
  BY DEF SourceInv, SourceStep
<1>2. CASE log'[e] = log[e]
  <2>1. \A i \in 1..Len(log[e]) : log[e][i].at \in Nat
    <3>1. \A i \in 1..Len(log[e]) : log[e][i] \in Events
      BY <1>1, SeqElements
    <3>. QED BY <3>1 DEF Events
  <2>. QED BY <1>1, <1>2, <2>1 DEF InOrder
<1>3. ASSUME NEW x, Adds(e, x, t) PROVE InOrder(e)'
  <2>1. /\ Len(log'[e]) = Len(log[e]) + 1 /\ \A i \in 1..Len(log[e]) : log'[e][i] = log[e][i]
        /\ log'[e][Len(log[e]) + 1] = x /\ x.at = t
    BY <1>1, <1>3, AppendIs DEF Adds
  <2>2. \A i \in 1..Len(log[e]) : log[e][i].at < t /\ log[e][i].at \in Nat /\ ~log[e][i].deleted
    <3>1. CASE log[e] = <<>>
      BY <3>1
    <3>2. CASE log[e] # <<>>
      <4>1. Newest(e).at < t /\ Live(e)
        BY <1>3, <3>2 DEF Adds, FreeAt
      <4>2. \A i \in 1..Len(log[e]) : log[e][i].at <= Newest(e).at /\ log[e][i].at \in Nat /\ ~log[e][i].deleted
        BY <3>2, <4>1, NewestFacts
      <4>3. Newest(e).at \in Nat
        BY <3>2, NewestFacts
      <4>. QED BY <1>1, <4>1, <4>2, <4>3
    <3>. QED BY <3>1, <3>2
  <2>3. x.deleted => Len(log[e]) # 0
    BY <1>1, <1>3 DEF Adds
  <2>4. ASSUME NEW i \in 1..Len(log'[e]), NEW j \in 1..Len(log'[e]), i < j
        PROVE  log'[e][i].at < log'[e][j].at
    <3>1. i \in 1..Len(log[e]) /\ (j \in 1..Len(log[e]) \/ j = Len(log[e]) + 1)
      BY <1>1, <2>1, <2>4
    <3>2. CASE j \in 1..Len(log[e])
      BY <1>1, <2>1, <2>4, <3>1, <3>2 DEF InOrder
    <3>3. CASE j = Len(log[e]) + 1
      BY <2>1, <2>2, <3>1, <3>3
    <3>. QED BY <3>1, <3>2, <3>3
  <2>5. ASSUME NEW i \in 1..Len(log'[e])
        PROVE  log'[e][i].at <= t /\ (log'[e][i].deleted => i # 1 /\ i = Len(log'[e]))
    <3>1. CASE i \in 1..Len(log[e])
      BY <1>1, <2>1, <2>2, <3>1
    <3>2. CASE i = Len(log[e]) + 1
      BY <1>1, <2>1, <2>3, <3>2
    <3>. QED BY <1>1, <2>1, <3>1, <3>2
  <2>. QED BY <1>1, <2>4, <2>5 DEF InOrder
<1>. QED BY <1>2, <1>3 DEF SourceStep

LEMMA StepRefersLive ==
    ASSUME SourceInv, NEW t, SourceStep(t), NEW e \in Entities
    PROVE  RefersLive(e)'
<1>1. log[e] \in Seq(Events) /\ Len(log[e]) \in Nat /\ RefersLive(e) /\ now \in Nat /\ t \in Nat /\ now <= t /\ now' = t
  BY DEF SourceInv, SourceStep
<1>2. Extends
  BY StepExtends
<1>3. \A p : p \in Referable(e) /\ p # NoParent => p \in Entities
  BY DEF Referable, Entities
(* A parent's new event does not delete it before a child's old event. *)
<1>4. ASSUME NEW i \in 1..Len(log[e]), ~log[e][i].deleted, NEW p \in Entities, p = log[e][i].parent,
             NEW j \in 1..Len(log'[p]), log'[p][j].deleted,
             \A k \in 1..Len(log[p]) : log[p][k].deleted => log[e][i].at < log[p][k].at
      PROVE  log[e][i].at < log'[p][j].at
  <2>1. CASE j \in 1..Len(log[p])
    BY <1>2, <1>4, <2>1 DEF Extends
  <2>2. CASE j \notin 1..Len(log[p])
    <3>1. log[p] \in Seq(Events) /\ Len(log[p]) \in Nat
      BY DEF SourceInv
    <3>2. PICK x : Adds(p, x, t)
      BY <2>2 DEF SourceStep
    <3>3. Len(log'[p]) = Len(log[p]) + 1 /\ log'[p][Len(log[p]) + 1] = x /\ x.at = t
      BY <3>1, <3>2, AppendIs DEF Adds
    <3>4. j = Len(log[p]) + 1
      BY <2>2, <3>1, <3>3
    <3>5. log[e] # <<>>
      BY <1>1
    <3>6. CASE i = Len(log[e])
      <4>1. Live(e) /\ Newest(e).parent = p /\ Newest(e).at = log[e][i].at
        BY <1>4, <3>5, <3>6 DEF Live, Newest
      <4>2. Newest(e).at < t
        BY <1>4, <3>2, <3>3, <3>4, <4>1 DEF SourceStep
      <4>. QED BY <3>3, <3>4, <4>1, <4>2
    <3>7. CASE i # Len(log[e])
      <4>1. log[e][i].at < Newest(e).at /\ Newest(e).at <= now /\ Newest(e).at \in Nat /\ log[e][i].at \in Nat
        BY <3>5, <3>7, NewestFacts
      <4>. QED BY <1>1, <3>3, <3>4, <4>1
    <3>. QED BY <3>6, <3>7
  <2>. QED BY <2>1, <2>2
<1>. DEFINE Ok(i) ==
        /\ log'[e][i].parent \in Referable(e)
        /\ log'[e][i].deleted => log'[e][i].parent = log'[e][i - 1].parent
        /\ e \in Variants => log'[e][i].parent = log'[e][1].parent
        /\ log'[e][i].parent # NoParent =>
              LET p == log'[e][i].parent
              IN  /\ log'[p] # <<>> /\ log'[p][1].at <= log'[e][i].at
                  /\ ~log'[e][i].deleted =>
                        \A j \in 1..Len(log'[p]) : log'[p][j].deleted => log'[e][i].at < log'[p][j].at
<1>5. ASSUME NEW i \in 1..Len(log[e]) PROVE Ok(i)
  <2>. DEFINE p == log[e][i].parent
  <2>1. log'[e][i] = log[e][i] /\ log'[e][1] = log[e][1]
    BY <1>1, <1>2 DEF Extends
  <2>2. /\ p \in Referable(e) /\ (e \in Variants => p = log[e][1].parent)
        /\ log[e][i].deleted => p = log[e][i - 1].parent
    BY <1>1 DEF RefersLive
  <2>3. log[e][i].deleted => log'[e][i].parent = log'[e][i - 1].parent
    <3>. SUFFICES ASSUME log[e][i].deleted PROVE log'[e][i].parent = log'[e][i - 1].parent
      OBVIOUS
    <3>1. i # 1
      BY DEF SourceInv, InOrder
    <3>2. i - 1 \in 1..Len(log[e])
      BY <1>1, <3>1
    <3>. QED BY <1>2, <2>1, <2>2, <3>2 DEF Extends
  <2>4. ASSUME p # NoParent
        PROVE  /\ log'[p] # <<>> /\ log'[p][1].at <= log'[e][i].at
               /\ ~log'[e][i].deleted =>
                     \A j \in 1..Len(log'[p]) : log'[p][j].deleted => log'[e][i].at < log'[p][j].at
    <3>1. p \in Entities
      BY <1>3, <2>2, <2>4
    <3>2. /\ log[p] # <<>> /\ log[p][1].at <= log[e][i].at
          /\ ~log[e][i].deleted => \A j \in 1..Len(log[p]) : log[p][j].deleted => log[e][i].at < log[p][j].at
      BY <1>1, <2>4 DEF RefersLive
    <3>3. 1 \in 1..Len(log[p])
      BY <3>1, <3>2, NewestFacts
    <3>4. log'[p][1] = log[p][1] /\ log'[p] # <<>>
      BY <1>2, <3>1, <3>3 DEF Extends
    <3>5. ~log[e][i].deleted => \A j \in 1..Len(log'[p]) : log'[p][j].deleted => log[e][i].at < log'[p][j].at
      BY <1>4, <3>1, <3>2
    <3>. QED BY <2>1, <3>2, <3>4, <3>5
  <2>. QED BY <2>1, <2>2, <2>3, <2>4
<1>6. ASSUME NEW x, Adds(e, x, t) PROVE Ok(Len(log[e]) + 1)
  <2>. DEFINE n == Len(log[e]) + 1
              p == x.parent
  <2>1. log'[e][n] = x /\ Len(log'[e]) = n /\ x.at = t /\ \A i \in 1..Len(log[e]) : log'[e][i] = log[e][i]
    BY <1>1, <1>6, AppendIs DEF Adds
  <2>2. /\ p \in Referable(e)
        /\ log[e] # <<>> /\ (e \in Variants \/ x.deleted) => p = Newest(e).parent
        /\ x.deleted => log[e] # <<>>
        /\ ~x.deleted /\ p # NoParent => Live(p) /\ log'[p] = log[p]
    BY <1>6 DEF Adds
  <2>3. x.deleted => log'[e][n].parent = log'[e][n - 1].parent
    <3>. SUFFICES ASSUME x.deleted PROVE log'[e][n].parent = log'[e][n - 1].parent
      OBVIOUS
    <3>1. Len(log[e]) \in 1..Len(log[e]) /\ Newest(e) = log[e][Len(log[e])] /\ p = Newest(e).parent
      BY <2>2, NewestFacts
    <3>2. n - 1 = Len(log[e])
      BY <1>1
    <3>. QED BY <2>1, <3>1, <3>2
  <2>4. e \in Variants => log'[e][n].parent = log'[e][1].parent
    <3>1. CASE log[e] = <<>>
      <4>1. n = 1
        BY <3>1
      <4>. QED BY <4>1
    <3>2. CASE log[e] # <<>>
      <4>1. Len(log[e]) \in 1..Len(log[e]) /\ 1 \in 1..Len(log[e]) /\ Newest(e) = log[e][Len(log[e])]
        BY <3>2, NewestFacts
      <4>2. e \in Variants => Newest(e).parent = log[e][1].parent
        BY <1>1, <4>1 DEF RefersLive
      <4>. QED BY <2>1, <2>2, <3>2, <4>1, <4>2
    <3>. QED BY <3>1, <3>2
  <2>5. ASSUME p # NoParent
        PROVE  /\ log'[p] # <<>> /\ log'[p][1].at <= t
               /\ ~x.deleted => \A j \in 1..Len(log'[p]) : log'[p][j].deleted => t < log'[p][j].at
    <3>1. p \in Entities
      BY <1>3, <2>2, <2>5
    <3>2. log[p] # <<>>
      <4>1. CASE x.deleted
        <5>1. Len(log[e]) \in 1..Len(log[e]) /\ Newest(e) = log[e][Len(log[e])] /\ p = Newest(e).parent
          BY <2>2, <4>1, NewestFacts
        <5>. QED BY <1>1, <2>5, <5>1 DEF RefersLive
      <4>2. CASE ~x.deleted
        BY <2>2, <2>5, <4>2 DEF Live
      <4>. QED BY <4>1, <4>2
    <3>3. 1 \in 1..Len(log[p]) /\ log[p][1].at <= Newest(p).at /\ Newest(p).at <= now
          /\ log[p][1].at \in Nat /\ Newest(p).at \in Nat
      BY <3>1, <3>2, NewestFacts
    <3>4. log'[p][1] = log[p][1] /\ log'[p] # <<>>
      BY <1>2, <3>1, <3>3 DEF Extends
    <3>5. log'[p][1].at <= t
      BY <1>1, <3>3, <3>4
    <3>6. ~x.deleted => \A j \in 1..Len(log'[p]) : ~log'[p][j].deleted
      BY <2>2, <2>5, <3>1, <3>2, NewestFacts
    <3>. QED BY <3>4, <3>5, <3>6
  <2>. QED BY <2>1, <2>2, <2>3, <2>4, <2>5
<1>7. \A i \in 1..Len(log'[e]) : Ok(i)
  <2>1. CASE log'[e] = log[e]
    BY <1>5, <2>1
  <2>2. ASSUME NEW x, Adds(e, x, t) PROVE \A i \in 1..Len(log'[e]) : Ok(i)
    <3>1. Len(log'[e]) = Len(log[e]) + 1
      BY <1>1, <2>2, AppendIs DEF Adds
    <3>2. \A i \in 1..Len(log'[e]) : i \in 1..Len(log[e]) \/ i = Len(log[e]) + 1
      BY <1>1, <3>1
    <3>3. Ok(Len(log[e]) + 1)
      BY <1>6, <2>2
    <3>. HIDE DEF Ok
    <3>. QED BY <1>5, <3>2, <3>3
  <2>. HIDE DEF Ok
  <2>. QED BY <2>1, <2>2 DEF SourceStep
<1>8. Referable(e)' = Referable(e)
  BY DEF Referable
<1>. QED BY <1>7, <1>8 DEF RefersLive

LEMMA StepKeepsSource ==
    ASSUME SourceInv, NEW t, SourceStep(t)
    PROVE  SourceInv'
  BY StepInOrder, StepRefersLive DEF SourceInv, SourceStep

LEMMA AppendInjective ==
    ASSUME NEW A, NEW s \in Seq(A), NEW x \in A, NEW y \in A
    PROVE  (Append(s, x) = Append(s, y) => x = y) /\ Append(s, x) # s
<1>1. Append(s, x)[Len(s) + 1] = x /\ Append(s, y)[Len(s) + 1] = y
  BY AppendIs
<1>2. Len(Append(s, x)) = Len(s) + 1 /\ Len(s) \in Nat
  BY AppendIs
<1>. QED BY <1>1, <1>2

LEMMA TimesFacts == SourceInv => \A t \in Times : t \in 1..MaxTime /\ now <= t /\ t \in Nat
<1>. SUFFICES ASSUME SourceInv, NEW t \in Times PROVE t \in 1..MaxTime /\ now <= t /\ t \in Nat
  OBVIOUS
<1>1. now \in 1..MaxTime /\ MaxTime \in Nat /\ t \in 1..MaxTime
  BY JoinedDimensionsAssumption DEF SourceInv, Times
<1>2. CASE now = 1
  BY <1>1, <1>2
<1>3. CASE now # 1
  BY <1>1, <1>3 DEF Times
<1>. QED BY <1>1, <1>2, <1>3

LEMMA Disjoint ==
    /\ \A e \in Categories : e \notin Products /\ e \notin Variants
    /\ \A e \in Products : e \notin Categories /\ e \notin Variants
    /\ \A e \in Variants : e \notin Categories /\ e \notin Products
    /\ NoParent \notin Entities
    /\ Categories \subseteq Entities /\ Products \subseteq Entities /\ Variants \subseteq Entities
    /\ \A e \in Entities : e \in Categories \/ e \in Products \/ e \in Variants
  BY JoinedDimensionsAssumption DEF Entities

LEMMA WriteIsStep ==
    ASSUME SourceInv, NEW t \in Times, NEW e \in Entities, NEW name \in Names,
           NEW parent \in Entities \cup {NoParent}, Write(e, name, parent, t)
    PROVE  SourceStep(t)
<1>. DEFINE y == [at |-> t, name |-> name, parent |-> parent, deleted |-> FALSE]
<1>1. t \in 1..MaxTime /\ now <= t /\ now' = t /\ log \in [Entities -> Seq(Events)]
  BY TimesFacts DEF Write, SourceInv
<1>2. y \in Events
  BY <1>1 DEF Events
<1>3. log' = [log EXCEPT ![e] = Append(log[e], y)]
  BY DEF Write
<1>4. log'[e] = Append(log[e], y) /\ \A c \in Entities : c # e => log'[c] = log[c]
  BY <1>1, <1>3
<1>5. log' \in [Entities -> Seq(Events)]
  <2>1. Append(log[e], y) \in Seq(Events)
    BY <1>1, <1>2, AppendIs
  <2>. QED BY <1>1, <1>3, <2>1
<1>6. /\ FreeAt(e, t) /\ (log[e] = <<>> \/ Live(e)) /\ MayRefer(e, parent)
  BY DEF Write
<1>7. parent \in Referable(e)
  BY <1>6, Disjoint DEF MayRefer, Referable
<1>8. e \in Variants /\ log[e] # <<>> => parent = Newest(e).parent
  BY <1>6, Disjoint DEF MayRefer
<1>9. parent # NoParent => Live(parent) /\ parent # e /\ parent \in Entities
  BY <1>6, Disjoint DEF MayRefer
<1>10. parent # NoParent => Live(parent) /\ log'[parent] = log[parent]
  BY <1>4, <1>9
<1>11. Adds(e, y, t)
  BY <1>2, <1>4, <1>6, <1>7, <1>8, <1>10 DEF Adds
<1>12. ASSUME NEW p \in Entities, NEW x, Adds(p, x, t), x.deleted PROVE FALSE
  <2>1. x \in Events /\ log'[p] = Append(log[p], x) /\ log[p] \in Seq(Events) /\ log[e] \in Seq(Events)
    BY <1>1, <1>12 DEF Adds
  <2>2. CASE p = e
    <3>1. x = y
      BY <1>2, <1>4, <2>1, <2>2, AppendInjective
    <3>. QED BY <1>12, <3>1
  <2>3. CASE p # e
    BY <1>4, <2>1, <2>3, AppendInjective
  <2>. QED BY <2>2, <2>3
<1>. QED BY <1>1, <1>4, <1>5, <1>11, <1>12 DEF SourceStep

LEMMA DeleteIsStep ==
    ASSUME SourceInv, NEW t \in Times, NEW e \in Entities, Delete(e, t)
    PROVE  SourceStep(t)
<1>. DEFINE children == {c \in Entities : Live(c) /\ Newest(c).parent = e}
            Gone(c) == [Newest(c) EXCEPT !.at = t, !.deleted = TRUE]
            Orphan(c) == [Newest(c) EXCEPT !.at = t, !.parent = NoParent]
<1>1. t \in 1..MaxTime /\ now <= t /\ now' = t /\ log \in [Entities -> Seq(Events)]
  BY TimesFacts DEF Delete, SourceInv
<1>2. /\ Live(e) /\ \A c \in children \cup {e} : FreeAt(c, t)
      /\ log' = [c \in Entities |->
                   IF c = e \/ (c \in children /\ c \in Variants) THEN Append(log[c], Gone(c))
                   ELSE IF c \in children THEN Append(log[c], Orphan(c)) ELSE log[c]]
  BY DEF Delete
<1>3. \A c \in children \cup {e} : /\ c \in Entities /\ Live(c) /\ log[c] # <<>> /\ Newest(c) \in Events
                                   /\ Newest(c).parent \in Referable(c) /\ FreeAt(c, t)
  <2>. SUFFICES ASSUME NEW c \in children \cup {e} PROVE Newest(c) \in Events /\ Newest(c).parent \in Referable(c)
    BY <1>2 DEF Live
  <2>1. c \in Entities /\ log[c] # <<>>
    BY <1>2 DEF Live
  <2>2. Newest(c) \in Events /\ Len(log[c]) \in 1..Len(log[c]) /\ Newest(c) = log[c][Len(log[c])]
    BY <2>1, NewestFacts
  <2>3. RefersLive(c)
    BY <2>1 DEF SourceInv
  <2>. QED BY <2>2, <2>3 DEF RefersLive
<1>4. \A c \in children \cup {e} :
         /\ Gone(c) \in Events /\ Gone(c).at = t /\ Gone(c).deleted /\ Gone(c).parent = Newest(c).parent
         /\ Orphan(c) \in Events /\ Orphan(c).at = t /\ Orphan(c).deleted = Newest(c).deleted
         /\ Orphan(c).parent = NoParent
  BY <1>1, <1>3 DEF Events
<1>5. \A c \in children : c \in Variants \/ c \in Categories
  <2>1. e \in Entities /\ NoParent \notin Entities
    BY Disjoint
  <2>2. \A c \in children : e \in Referable(c)
    BY <1>3
  <2>. QED BY <2>1, <2>2 DEF Referable
<1>. HIDE DEF children, Gone, Orphan
<1>6. \A c \in Entities :
         log'[c] = IF c = e \/ (c \in children /\ c \in Variants) THEN Append(log[c], Gone(c))
                   ELSE IF c \in children THEN Append(log[c], Orphan(c)) ELSE log[c]
  BY <1>2
<1>7. log' \in [Entities -> Seq(Events)]
  <2>. DEFINE new(c) == IF c = e \/ (c \in children /\ c \in Variants) THEN Append(log[c], Gone(c))
                        ELSE IF c \in children THEN Append(log[c], Orphan(c)) ELSE log[c]
  <2>1. ASSUME NEW c \in Entities PROVE new(c) \in Seq(Events)
    <3>1. log[c] \in Seq(Events)
      BY <1>1
    <3>2. c \in children \cup {e} =>
             Append(log[c], Gone(c)) \in Seq(Events) /\ Append(log[c], Orphan(c)) \in Seq(Events)
      BY <1>4, <3>1, AppendIs
    <3>. QED BY <3>1, <3>2
  <2>2. log' = [c \in Entities |-> new(c)]
    BY <1>2
  <2>. HIDE DEF new
  <2>. QED BY <2>1, <2>2
<1>8. ASSUME NEW c \in Entities, c = e \/ (c \in children /\ c \in Variants) PROVE Adds(c, Gone(c), t)
  <2>1. c \in children \cup {e} /\ log'[c] = Append(log[c], Gone(c))
    BY <1>6, <1>8
  <2>. QED BY <1>3, <1>4, <2>1 DEF Adds
<1>9. ASSUME NEW c \in Entities, c # e, c \in children, c \notin Variants PROVE Adds(c, Orphan(c), t)
  <2>1. c \in children \cup {e} /\ log'[c] = Append(log[c], Orphan(c)) /\ c \in Categories
    BY <1>5, <1>6, <1>9
  <2>2. NoParent \in Referable(c) /\ ~Newest(c).deleted
    BY <1>3, <2>1 DEF Referable, Live
  <2>. QED BY <1>3, <1>4, <1>9, <2>1, <2>2 DEF Adds
<1>10. \A c \in Entities : log'[c] = log[c] \/ \E x : Adds(c, x, t)
  <2>. SUFFICES ASSUME NEW c \in Entities PROVE log'[c] = log[c] \/ \E x : Adds(c, x, t)
    OBVIOUS
  <2>1. CASE c = e \/ (c \in children /\ c \in Variants)
    BY <1>8, <2>1
  <2>2. CASE c # e /\ c \in children /\ c \notin Variants
    BY <1>9, <2>2
  <2>3. CASE c # e /\ c \notin children
    BY <1>6, <2>3
  <2>. QED BY <2>1, <2>2, <2>3
<1>11. ASSUME NEW p \in Entities, NEW x, Adds(p, x, t), x.deleted, NEW c \in Entities,
              Live(c), Newest(c).parent = p
       PROVE  Newest(c).at < t
  <2>1. x \in Events /\ log'[p] = Append(log[p], x) /\ log[p] \in Seq(Events)
    BY <1>1, <1>11 DEF Adds
  <2>2. CASE p = e
    <3>1. c \in children
      BY <1>11, <2>2 DEF children
    <3>2. FreeAt(c, t) /\ log[c] # <<>>
      BY <1>3, <3>1
    <3>. QED BY <3>2 DEF FreeAt
  <2>3. CASE p # e /\ p \in Variants
    <3>1. log[c] # <<>>
      BY <1>11 DEF Live
    <3>2. Len(log[c]) \in 1..Len(log[c]) /\ Newest(c) = log[c][Len(log[c])]
      BY <3>1, NewestFacts
    <3>3. RefersLive(c)
      BY DEF SourceInv
    <3>4. p \in Referable(c)
      BY <1>11, <3>2, <3>3 DEF RefersLive
    <3>. QED BY <2>3, <3>4, Disjoint DEF Referable
  <2>4. CASE p # e /\ p \notin Variants /\ p \in children
    <3>1. log'[p] = Append(log[p], Orphan(p)) /\ Orphan(p) \in Events /\ Orphan(p).deleted = Newest(p).deleted
      BY <1>4, <1>6, <2>4
    <3>2. x = Orphan(p)
      <4>1. PICK y \in Events : y = Orphan(p)
        BY <3>1
      <4>2. Append(log[p], x) = Append(log[p], y)
        BY <2>1, <3>1, <4>1
      <4>3. x = y
        BY <2>1, <4>2, AppendInjective
      <4>. QED BY <4>1, <4>3
    <3>3. ~Newest(p).deleted
      BY <1>3, <2>4 DEF Live
    <3>. QED BY <1>11, <3>1, <3>2, <3>3
  <2>5. CASE p # e /\ p \notin children
    BY <1>6, <2>1, <2>5, AppendInjective
  <2>. QED BY <2>2, <2>3, <2>4, <2>5
<1>. QED BY <1>1, <1>7, <1>10, <1>11 DEF SourceStep

--------------------------------------------------------------------------------
(* What a step does to the replay of a row.                                 *)

(* Nothing of the row has arrived in this step. *)
SameRow(e) ==
    /\ arrived'[e] = arrived[e] /\ arrived[e] \in Nat
    /\ \A i \in 1..arrived[e] : log'[e][i] = log[e][i]

LEMMA SameStates ==
    ASSUME NEW e, SameRow(e), NEW scope
    PROVE  States(e, scope)' = States(e, scope)
<1>1. \A i \in 1..arrived[e] : i < arrived[e] => i + 1 \in 1..arrived[e]
  BY DEF SameRow
<1>2. \A i \in 1..arrived[e] :
         [of |-> e, from |-> log'[e][i].at, to |-> IF i < arrived'[e] THEN log'[e][i + 1].at ELSE Open,
          name |-> log'[e][i].name, parent |-> log'[e][i].parent, deleted |-> log'[e][i].deleted]
         = [of |-> e, from |-> log[e][i].at, to |-> IF i < arrived[e] THEN log[e][i + 1].at ELSE Open,
            name |-> log[e][i].name, parent |-> log[e][i].parent, deleted |-> log[e][i].deleted]
  BY <1>1 DEF SameRow
<1>3. 1..arrived'[e] = 1..arrived[e]
  BY DEF SameRow
<1>. QED BY <1>2, <1>3 DEF States, Open

LEMMA SamePast == ASSUME NEW e, SameRow(e) PROVE PastParents(e)' = PastParents(e)
  BY DEF SameRow, PastParents

LEMMA SameReplay ==
    ASSUME NEW e, SameRow(e), \A p \in PastParents(e) : SameRow(p), NEW scope
    PROVE  ReplayEntity(e, scope)' = ReplayEntity(e, scope)
<1>1. States(e, scope)' = States(e, scope)
  BY SameStates
<1>2. \A s \in States(e, scope) : s.parent = NoParent \/ s.parent \in PastParents(e)
  BY DEF States, PastParents
<1>3. ASSUME NEW s \in States(e, scope) PROVE ParentStates(s, scope)' = ParentStates(s, scope)
  <2>1. CASE s.parent = NoParent
    BY <2>1 DEF ParentStates
  <2>2. CASE s.parent # NoParent
    <3>1. PICK p : p = s.parent
      OBVIOUS
    <3>2. SameRow(p)
      BY <1>2, <2>2, <3>1
    <3>3. States(p, scope)' = States(p, scope)
      BY <3>2, SameStates
    <3>. QED BY <2>2, <3>1, <3>3 DEF ParentStates
  <2>. QED BY <2>1, <2>2
<1>4. JoinedEvents(e, scope)' = JoinedEvents(e, scope)
  BY <1>1, <1>3 DEF JoinedEvents
<1>5. PICK E : E = JoinedEvents(e, scope) /\ E = JoinedEvents(e, scope)'
  BY <1>4
<1>6. ReplayEntity(e, scope) = Dim(e, E)
  BY <1>5, ReplayIsDim
<1>7. ReplayEntity(e, scope)' = Dim(e, E)'
  BY <1>5 DEF ReplayEntity, Dim, VersionIn, Later, Bounds, Starts, Alive, Earlier
<1>8. CASE E = {}
  BY <1>6, <1>7, <1>8 DEF Dim, Starts
<1>9. CASE E # {}
  <2>1. States(e, scope) # {}
    BY <1>5, <1>9 DEF JoinedEvents
  <2>2. 1 \in 1..arrived[e]
    BY <2>1 DEF States, SameRow
  <2>3. CreatedAt(e)' = CreatedAt(e)
    BY <2>2 DEF CreatedAt, SameRow
  <2>4. \A f : VersionIn(e, f, E)' = VersionIn(e, f, E)
    BY <2>3 DEF VersionIn, Open
  <2>5. Dim(e, E)' = Dim(e, E)
    BY <2>4 DEF Dim
  <2>. QED BY <1>6, <1>7, <2>5
<1>. QED BY <1>8, <1>9

--------------------------------------------------------------------------------
(* What the steps leave of each member.                                     *)

(* The build rebuilds a touched member; the release is right about one that *)
(* Silver reports and nothing touched.                                      *)
Touched(e) == ({e} \cup PastParents(e)) \cap changed # {}
Reported(e) == {e} \cup PastParents(e) \subseteq rows

(* Of a member that nothing touched, a failed build may leave a version     *)
(* without its parent's name beside the right ones; never less than these.  *)
Lived(e, v) == \E scope \in SUBSET Entities : Scoped(e, scope) /\ v \in ReplayEntity(e, scope)
Kept(versions, e) ==
    /\ HasKeys(versions, e)
    /\ Accepted(versions) => versions = Right(e)
    /\ \A v \in versions : Lived(e, v)

SilverInv == \A e \in Entities : arrived[e] > 0 /\ e \notin rows => arrived[e] = Len(log[e]) /\ ~Live(e)
BuildInv ==
    /\ build.mode = "idle" => build = Idle
    /\ build.mode = "incremental" => release # NoRelease
PlacedIn(d, v) ==
    /\ v.of \in Members(d) /\ arrived[v.of] > 0
    /\ v.of \in Variants => v.parent = log[v.of][1].parent
Placed == \A d \in Dimensions : \A v \in gold[d] : PlacedIn(d, v)
WrittenIn(d, e) ==
    d \notin build.todo /\ (build.mode = "full" \/ (build.mode = "incremental" /\ Touched(e))) =>
        RowsOf(gold[d], e) = Right(e)
WrittenInv == \A d \in Dimensions : \A e \in Members(d) : WrittenIn(d, e)
CurrentIn(d, e) ==
    release # NoRelease /\ Reported(e) /\ ~Touched(e) =>
        /\ RowsOf(release[d], e) = Right(e) /\ Kept(RowsOf(gold[d], e), e)
        /\ e \in Variants => RowsOf(gold[d], e) = Right(e)
CurrentInv == \A d \in Dimensions : \A e \in Members(d) : CurrentIn(d, e)
RootIn(c) ==
    PastParents(c) = {} /\ c \notin changed =>
        RowsOf(gold["dim_category"], c) = {} \/ RowsOf(gold["dim_category"], c) = Right(c)
RootsInv == \A c \in Categories : RootIn(c)
GateIn(d, e) == RowsOf(gold[d], e) = {} \/ Accepted(RowsOf(gold[d], e))
GateInv == ~ThreeLevels => \A d \in Dimensions : \A e \in Members(d) : GateIn(d, e)

Inv ==
    /\ TypeOK /\ Sound /\ SilverInv /\ BuildInv
    /\ Placed /\ WrittenInv /\ CurrentInv /\ RootsInv /\ GateInv

SameMember(e) == SameRow(e) /\ \A p \in PastParents(e) : SameRow(p)

LEMMA SameRight ==
    ASSUME NEW e, SameMember(e)
    PROVE  /\ PastParents(e)' = PastParents(e)
           /\ Right(e)' = Right(e)
           /\ \A v : Lived(e, v)' <=> Lived(e, v)
           /\ \A versions : Kept(versions, e)' <=> Kept(versions, e)
<1>1. SameRow(e) /\ \A p \in PastParents(e) : SameRow(p)
  BY DEF SameMember
<1>2. PastParents(e)' = PastParents(e)
  BY <1>1, SamePast
<1>3. \A scope : ReplayEntity(e, scope)' = ReplayEntity(e, scope)
  BY <1>1, SameReplay
<1>4. Right(e)' = Right(e)
  BY <1>3 DEF Right
<1>5. ASSUME NEW v PROVE Lived(e, v)' <=> Lived(e, v)
  BY <1>3 DEF Lived, Scoped
<1>6. ASSUME NEW versions PROVE Kept(versions, e)' <=> Kept(versions, e)
  BY <1>4, <1>5 DEF Kept, HasKeys, Accepted
<1>. QED BY <1>2, <1>4, <1>5, <1>6

LEMMA PastFacts ==
    ASSUME Sound, NEW e \in Entities
    PROVE  /\ PastParents(e) \subseteq Entities
           /\ e \in Categories => PastParents(e) \subseteq Categories
           /\ arrived[e] = 0 => PastParents(e) = {}
           /\ e \in Variants /\ arrived[e] > 0 =>
                 log[e][1].parent \in Products /\ PastParents(e) = {log[e][1].parent}
<1>1. \A i \in 1..arrived[e] : i \in 1..Len(log[e]) /\ log[e][i].parent \in Referable(e)
  BY LogFacts
<1>2. arrived[e] \in Nat /\ (arrived[e] > 0 => 1 \in 1..arrived[e])
  BY LogFacts
<1>3. e \in Categories => PastParents(e) \subseteq Categories
  BY <1>1 DEF PastParents, Referable
<1>4. arrived[e] = 0 => PastParents(e) = {}
  BY DEF PastParents
<1>5. ASSUME e \in Variants, arrived[e] > 0
      PROVE  log[e][1].parent \in Products /\ PastParents(e) = {log[e][1].parent}
  <2>1. e \notin Categories
    BY <1>5, Disjoint
  <2>2. \A i \in 1..arrived[e] : log[e][i].parent \in Products
    BY <1>1, <1>5, <2>1 DEF Referable
  <2>3. \A i \in 1..arrived[e] : log[e][i].parent = log[e][1].parent
    BY <1>1, <1>5 DEF Sound, SourceInv, RefersLive
  <2>4. \A p \in Products : p # NoParent
    BY Disjoint
  <2>. QED BY <1>2, <1>5, <2>2, <2>3, <2>4 DEF PastParents
<1>6. PastParents(e) \subseteq Entities
  BY <1>1, Disjoint DEF PastParents, Referable
<1>. QED BY <1>3, <1>4, <1>5, <1>6

LEMMA AcceptedIsSome == ASSUME NEW versions, Accepted(versions) PROVE versions # {}
  BY DEF Accepted

LEMMA MemberFacts ==
    ASSUME NEW d \in Dimensions, NEW e \in Members(d)
    PROVE  /\ e \in Entities /\ e \in Categories \cup Variants
           /\ d = "dim_category" => e \in Categories /\ e \notin Variants
           /\ d = "dim_product" => e \in Variants /\ e \notin Categories
           /\ d = "dim_category" \/ d = "dim_product"
  BY Disjoint DEF Members, Dimensions

(* What Silver reports of a member is enough for its versions.              *)
LEMMA ReportedFacts ==
    ASSUME Sound, TypeOK, NEW e \in Categories \cup Variants, Reported(e)
    PROVE  /\ Accepted(Right(e)) /\ Right(e) # {} /\ ParentsArrived(e)
           /\ arrived[e] > 0 /\ Scoped(e, Entities)
<1>1. e \in Entities
  BY Disjoint
<1>2. \A x \in rows : x \in Entities /\ arrived[x] > 0
  BY DEF TypeOK
<1>3. arrived[e] > 0 /\ ParentsArrived(e)
  BY <1>2 DEF Reported, ParentsArrived
<1>4. Scoped(e, Entities)
  BY <1>1 DEF Scoped
<1>5. e \in Variants => Matched(log[e][1].parent, Entities)
  <2>. HAVE e \in Variants
  <2>1. log[e][1].parent \in Products /\ log[e][1].parent \in PastParents(e)
    BY <1>1, <1>3, PastFacts
  <2>. QED BY <1>3, <2>1, Disjoint DEF ParentsArrived, Matched
<1>6. Present(e, Entities)
  BY <1>3, <1>4, <1>5 DEF Present
<1>7. Accepted(Right(e))
  BY <1>4, <1>6, ReplayFacts DEF Right
<1>. QED BY <1>3, <1>4, <1>7, AcceptedIsSome

LEMMA RightIsKept ==
    ASSUME NEW e, Scoped(e, Entities), NEW versions, versions = Right(e)
    PROVE  Kept(versions, e)
  BY DEF Kept, HasKeys, Lived, Right

(* What the gate lets through of a member that nothing touched is right.    *)
LEMMA KeptAndValid ==
    ASSUME NEW e, NEW versions, Kept(versions, e), Right(e) # {}, versions # {} => Accepted(versions)
    PROVE  versions = Right(e)
<1>1. versions # {}
  BY DEF Kept, HasKeys, KeysIn
<1>. QED BY <1>1 DEF Kept

--------------------------------------------------------------------------------
(* What a build writes of each member.                                      *)

Replayed(e, scope) == IF e \in scope THEN ReplayEntity(e, scope) ELSE {}

LEMMA ReplayOfMember ==
    ASSUME Sound, NEW d \in Dimensions, NEW e \in Members(d), NEW scope, scope \subseteq Entities
    PROVE  /\ RowsOf(Replay(d, scope), e) = Replayed(e, scope)
           /\ \A v : v.of = e => (KeyOf(v) \in KeysIn(Replay(d, scope)) <=> KeyOf(v) \in KeysIn(Replayed(e, scope)))
<1>1. \A m \in Members(d) \cap scope : Scoped(m, scope)
  BY MemberFacts DEF Scoped
<1>2. \A m \in Members(d) \cap scope : \A v \in ReplayEntity(m, scope) : v.of = m
  BY <1>1, ReplayFacts
<1>3. \A v : v \in Replay(d, scope) <=> \E m \in Members(d) \cap scope : v \in ReplayEntity(m, scope)
  BY DEF Replay
<1>4. RowsOf(Replay(d, scope), e) = Replayed(e, scope)
  BY <1>2, <1>3 DEF RowsOf, Replayed
<1>5. ASSUME NEW v, v.of = e
      PROVE  KeyOf(v) \in KeysIn(Replay(d, scope)) <=> KeyOf(v) \in KeysIn(Replayed(e, scope))
  <2>1. \A w : KeyOf(v) = KeyOf(w) => w.of = e
    BY <1>5 DEF KeyOf
  <2>2. \A w : w \in Replay(d, scope) /\ w.of = e <=> w \in Replayed(e, scope)
    BY <1>4 DEF RowsOf
  <2>. QED BY <2>1, <2>2 DEF KeysIn
<1>. QED BY <1>4, <1>5

LEMMA UpsertOfMember ==
    ASSUME Sound, NEW d \in Dimensions, NEW e \in Members(d), NEW scope, scope \subseteq Entities,
           NEW table, NEW affected
    PROVE  RowsOf(Upsert(table, Replay(d, scope), affected), e) =
             {v \in RowsOf(table, e) : KeyOf(v) \notin KeysIn(Replayed(e, scope)) /\ SourceKey(v) \notin affected}
                \cup Replayed(e, scope)
<1>1. PICK R : R = Replay(d, scope)
  OBVIOUS
<1>2. RowsOf(R, e) = Replayed(e, scope)
  BY <1>1, ReplayOfMember
<1>3. \A v : v.of = e => (KeyOf(v) \in KeysIn(R) <=> KeyOf(v) \in KeysIn(Replayed(e, scope)))
  BY <1>1, ReplayOfMember
<1>4. RowsOf(Upsert(table, R, affected), e) =
        {v \in RowsOf(table, e) : KeyOf(v) \notin KeysIn(R) /\ SourceKey(v) \notin affected} \cup RowsOf(R, e)
  BY DEF RowsOf, Upsert
<1>5. {v \in RowsOf(table, e) : KeyOf(v) \notin KeysIn(R) /\ SourceKey(v) \notin affected}
        = {v \in RowsOf(table, e) : KeyOf(v) \notin KeysIn(Replayed(e, scope)) /\ SourceKey(v) \notin affected}
  BY <1>3 DEF RowsOf
<1>. QED BY <1>1, <1>2, <1>4, <1>5

(* Members whose old rows an incremental build deletes.                     *)
Rewritten(d, e) == IF d = "dim_category" THEN e \in Affected(d) ELSE e \in Scope(d)

LEMMA ScopeIsEntities == ASSUME Sound, NEW d \in Dimensions PROVE Scope(d) \subseteq Entities
<1>1. Affected(d) \subseteq Entities
  BY Disjoint DEF Affected, Dimensions
<1>2. \A c \in Entities : PastParents(c) \subseteq Entities
  BY PastFacts
<1>. QED BY <1>1, <1>2, Disjoint DEF Scope

LEMMA RewrittenFacts ==
    ASSUME Sound, TypeOK, NEW d \in Dimensions, NEW e \in Members(d)
    PROVE  /\ Touched(e) => Rewritten(d, e) /\ Affected(d) # {}
           /\ Rewritten(d, e) => e \in Scope(d) /\ PastParents(e) \subseteq Scope(d)
           /\ \A v : PlacedIn(d, v) /\ v.of = e => (SourceKey(v) \in Affected(d) <=> Rewritten(d, e))
           /\ ~Rewritten(d, e) /\ e \in Scope(d) =>
                 d = "dim_category" /\ \E c \in Categories : e \in PastParents(c)
<1>1. CASE d = "dim_category"
  <2>1. e \in Categories /\ e \notin Variants /\ e \in Entities
    BY <1>1, MemberFacts
  <2>2. Touched(e) <=> e \in Affected(d)
    BY <1>1, <2>1 DEF Touched, Affected
  <2>3. \A v : v.of = e => SourceKey(v) = e
    BY <2>1 DEF SourceKey
  <2>4. \A c \in Affected(d) : c \in Categories
    BY <1>1 DEF Affected
  <2>5. Scope(d) = Affected(d) \cup UNION {PastParents(c) : c \in Affected(d)}
    BY <1>1 DEF Scope
  <2>. QED BY <1>1, <2>1, <2>2, <2>3, <2>4, <2>5 DEF Rewritten
<1>2. CASE d = "dim_product"
  <2>1. e \in Variants /\ e \in Entities
    BY <1>2, MemberFacts
  <2>2. arrived[e] \in Nat
    BY <2>1, LogFacts
  <2>3. Scope(d) = Affected(d) \cup {v \in Variants : PastParents(v) \cap Affected(d) # {}}
    BY <1>2 DEF Scope
  <2>4. Affected(d) = {p \in Products : p \in changed \/ \E v \in changed \cap Variants : p \in PastParents(v)}
    BY <1>2 DEF Affected
  <2>5. e \notin Affected(d)
    BY <2>1, <2>4, Disjoint
  <2>6. CASE arrived[e] = 0
    <3>1. e \notin changed /\ PastParents(e) = {}
      BY <2>1, <2>6, PastFacts DEF TypeOK
    <3>2. ~Touched(e) /\ e \notin Scope(d)
      BY <2>3, <2>5, <3>1 DEF Touched
    <3>3. \A v : ~(PlacedIn(d, v) /\ v.of = e)
      BY <2>6 DEF PlacedIn
    <3>. QED BY <1>2, <3>2, <3>3 DEF Rewritten
  <2>7. CASE arrived[e] > 0
    <3>1. PICK p \in Products : p = log[e][1].parent /\ PastParents(e) = {p}
      BY <2>1, <2>7, PastFacts
    <3>2. e \in Scope(d) <=> p \in Affected(d)
      BY <2>1, <2>3, <2>5, <3>1
    <3>3. Touched(e) => p \in Affected(d)
      BY <2>1, <2>4, <3>1 DEF Touched
    <3>4. \A v : PlacedIn(d, v) /\ v.of = e => SourceKey(v) = p
      BY <2>1, <3>1 DEF PlacedIn, SourceKey
    <3>5. p \in Affected(d) => p \in Scope(d)
      BY <2>3
    <3>. QED BY <1>2, <3>1, <3>2, <3>3, <3>4, <3>5 DEF Rewritten
  <2>. QED BY <2>2, <2>6, <2>7
<1>. QED BY <1>1, <1>2, MemberFacts

LEMMA FullWrites ==
    ASSUME Sound, NEW d \in Dimensions, NEW e \in Members(d)
    PROVE  RowsOf(Replay(d, Entities), e) = Right(e)
  BY ReplayOfMember, MemberFacts DEF Replayed, Right

LEMMA RewrittenIsRight ==
    ASSUME Sound, TypeOK, Placed, NEW d \in Dimensions, NEW e \in Members(d), Rewritten(d, e),
           NEW new, new = Upsert(gold[d], Replay(d, Scope(d)), Affected(d))
    PROVE  RowsOf(new, e) = Right(e)
<1>1. PICK scope, affected : scope = Scope(d) /\ affected = Affected(d)
  OBVIOUS
<1>2. scope \subseteq Entities
  BY <1>1, ScopeIsEntities
<1>3. e \in scope /\ PastParents(e) \subseteq scope
  BY <1>1, RewrittenFacts
<1>4. Scoped(e, scope)
  BY <1>2, <1>3, MemberFacts DEF Scoped
<1>5. ReplayEntity(e, scope) = Right(e)
  BY <1>3, <1>4, ScopeIsEnough
<1>6. \A v \in RowsOf(gold[d], e) : SourceKey(v) \in affected
  BY <1>1, RewrittenFacts DEF Placed, RowsOf
<1>7. Replayed(e, scope) = Right(e)
  BY <1>3, <1>5 DEF Replayed
<1>8. RowsOf(Upsert(gold[d], Replay(d, scope), affected), e) =
        {v \in RowsOf(gold[d], e) : KeyOf(v) \notin KeysIn(Replayed(e, scope)) /\ SourceKey(v) \notin affected}
            \cup Replayed(e, scope)
  BY <1>2, UpsertOfMember
<1>. QED BY <1>1, <1>6, <1>7, <1>8

(* The other members keep what they had, but for what a parent that was let *)
(* in for its name has again.                                               *)
LEMMA NotRewritten ==
    ASSUME Sound, TypeOK, Placed, NEW d \in Dimensions, NEW e \in Members(d), ~Rewritten(d, e),
           NEW new, new = Upsert(gold[d], Replay(d, Scope(d)), Affected(d))
    PROVE  /\ e \notin Scope(d) => RowsOf(new, e) = RowsOf(gold[d], e)
           /\ e \in Scope(d) =>
                /\ RowsOf(new, e) =
                     {v \in RowsOf(gold[d], e) : KeyOf(v) \notin KeysIn(ReplayEntity(e, Scope(d)))}
                        \cup ReplayEntity(e, Scope(d))
                /\ Scoped(e, Scope(d)) /\ e \in Categories
<1>1. PICK scope, affected : scope = Scope(d) /\ affected = Affected(d)
  OBVIOUS
<1>2. scope \subseteq Entities
  BY <1>1, ScopeIsEntities
<1>3. \A v \in RowsOf(gold[d], e) : SourceKey(v) \notin affected
  BY <1>1, RewrittenFacts DEF Placed, RowsOf
<1>4. RowsOf(new, e) =
        {v \in RowsOf(gold[d], e) : KeyOf(v) \notin KeysIn(Replayed(e, scope)) /\ SourceKey(v) \notin affected}
            \cup Replayed(e, scope)
  BY <1>1, <1>2, UpsertOfMember
<1>5. RowsOf(new, e) =
        {v \in RowsOf(gold[d], e) : KeyOf(v) \notin KeysIn(Replayed(e, scope))} \cup Replayed(e, scope)
  BY <1>3, <1>4
<1>6. e \notin scope => RowsOf(new, e) = RowsOf(gold[d], e)
  BY <1>5 DEF Replayed, KeysIn
<1>7. ASSUME e \in scope PROVE Scoped(e, scope) /\ e \in Categories
  BY <1>1, <1>2, <1>7, RewrittenFacts, MemberFacts DEF Scoped
<1>8. e \in scope => RowsOf(new, e) =
        {v \in RowsOf(gold[d], e) : KeyOf(v) \notin KeysIn(ReplayEntity(e, scope))} \cup ReplayEntity(e, scope)
  BY <1>5 DEF Replayed
<1>. QED BY <1>1, <1>6, <1>7, <1>8

(* A merge without deletions loses no key; when the gate accepts its result *)
(* nothing old is left, because the old and the new versions overlap.       *)
LEMMA MergeKeeps ==
    ASSUME Sound, TypeOK, NEW e \in Categories, Reported(e), NEW scope, Scoped(e, scope),
           NEW old, Kept(old, e), NEW new,
           new = {v \in old : KeyOf(v) \notin KeysIn(ReplayEntity(e, scope))} \cup ReplayEntity(e, scope)
    PROVE  Kept(new, e)
<1>1. PICK W : W = ReplayEntity(e, scope)
  OBVIOUS
<1>2. new = {v \in old : KeyOf(v) \notin KeysIn(W)} \cup W
  BY <1>1
<1>3. KeysIn(old) \subseteq KeysIn(new)
  BY <1>2 DEF KeysIn
<1>4. HasKeys(new, e)
  BY <1>3 DEF HasKeys, Kept
<1>5. \A v \in new : Lived(e, v)
  <2>1. \A v \in W : Lived(e, v)
    BY <1>1 DEF Lived, Scoped
  <2>2. \A v \in old : Lived(e, v)
    BY DEF Kept
  <2>. QED BY <1>2, <2>1, <2>2
<1>6. ASSUME Accepted(new) PROVE new = Right(e)
  <2>1. ASSUME NEW v \in old, KeyOf(v) \notin KeysIn(W) PROVE FALSE
    <3>1. Lived(e, v)
      BY <2>1 DEF Kept
    <3>2. PICK other : Scoped(e, other) /\ v \in ReplayEntity(e, other)
      BY <3>1 DEF Lived
    <3>3. PICK w \in W : Covers(w, v.from)
      BY <1>1, <3>2, ReplaysOverlap
    <3>4. v \in new /\ w \in new /\ v # w
      BY <1>2, <2>1, <3>3 DEF KeysIn
    <3>5. w.from <= v.from => w.to <= v.from
      BY <1>6, <3>4 DEF Accepted
    <3>6. w.from <= v.from /\ v.from < w.to
      BY <3>3 DEF Covers
    <3>7. v \in Versions /\ w \in Versions
      BY <1>1, <3>2, <3>3, ReplayFacts
    <3>8. v.from \in Nat /\ w.to \in Nat
      BY <3>7, JoinedDimensionsAssumption DEF Versions, Open
    <3>. QED BY <3>5, <3>6, <3>8
  <2>2. new = W
    BY <1>2, <2>1
  <2>3. ParentsArrived(e)
    BY ReportedFacts
  <2>4. HasKeys(ReplayEntity(e, scope), e)
    BY <1>1, <1>4, <2>2
  <2>. QED BY <1>1, <2>2, <2>3, <2>4, KeysNeedParents
<1>. QED BY <1>4, <1>5, <1>6 DEF Kept

(* A parent without a parent is replayed whole.                             *)
LEMMA MergeOfRoot ==
    ASSUME Sound, NEW e \in Categories, PastParents(e) = {}, NEW scope, Scoped(e, scope),
           NEW old, old = {} \/ old = Right(e), NEW new,
           new = {v \in old : KeyOf(v) \notin KeysIn(ReplayEntity(e, scope))} \cup ReplayEntity(e, scope)
    PROVE  new = Right(e)
<1>1. ReplayEntity(e, scope) = Right(e)
  BY ScopeIsEnough
<1>2. \A v \in old : KeyOf(v) \in KeysIn(Right(e))
  BY DEF KeysIn
<1>. QED BY <1>1, <1>2

LEMMA ReplayPlaced ==
    ASSUME Sound, NEW e, NEW scope, Scoped(e, scope), NEW v \in ReplayEntity(e, scope)
    PROVE  /\ v \in Versions /\ v.of = e /\ arrived[e] > 0
           /\ e \in Variants => v.parent = log[e][1].parent
<1>1. v \in Versions /\ v.of = e /\ Present(e, scope)
  BY ReplayFacts
<1>2. arrived[e] > 0 /\ e \in Entities
  BY <1>1 DEF Present, Scoped
<1>3. ASSUME e \in Variants PROVE v.parent = log[e][1].parent
  <2>1. PICK E : E = JoinedEvents(e, scope)
    OBVIOUS
  <2>2. PICK f \in Starts(E) : v = VersionIn(e, f, E)
    BY <2>1, ReplayIsDim DEF Dim
  <2>3. OneAtATime(E)
    BY <2>1, JoinIsOneAtATime
  <2>4. Says(v) = f.attrs
    BY <2>2, <2>3, VersionSays
  <2>5. f \in JoinedEvents(e, scope)
    BY <2>1, BoundsAreEvents
  <2>6. f \in Dated /\ Reads(f, e, scope, f.at)
    BY <2>5, JoinReads
  <2>7. PICK i \in 1..arrived[e] : Stands(e, i, f.at)
    BY <2>5, JoinReads
  <2>8. f.at \in Nat
    BY <2>6, DatedFields
  <2>9. EventAt(e, f.at) = log[e][i]
    BY <1>2, <2>7, <2>8, StandsIsEvent
  <2>10. PICK second, third : f.attrs = <<log[e][i].parent, second, third>>
    BY <2>6, <2>9 DEF Reads
  <2>11. v.parent = log[e][i].parent
    BY <2>4, <2>10 DEF Says
  <2>12. i \in 1..Len(log[e])
    BY <1>2, LogFacts
  <2>. QED BY <1>2, <1>3, <2>11, <2>12 DEF Sound, SourceInv, RefersLive
<1>. QED BY <1>1, <1>2, <1>3

LEMMA ReplayIsPlaced ==
    ASSUME Sound, NEW d \in Dimensions, NEW scope, scope \subseteq Entities
    PROVE  \A v \in Replay(d, scope) : v \in Versions /\ PlacedIn(d, v)
<1>. SUFFICES ASSUME NEW v \in Replay(d, scope) PROVE v \in Versions /\ PlacedIn(d, v)
  OBVIOUS
<1>1. PICK e \in Members(d) \cap scope : v \in ReplayEntity(e, scope)
  BY DEF Replay
<1>2. Scoped(e, scope)
  BY <1>1, MemberFacts DEF Scoped
<1>. QED BY <1>1, <1>2, ReplayPlaced DEF PlacedIn

(* Steps that leave the histories as they are.                              *)
LEMMA QuietStep ==
    ASSUME Sound, UNCHANGED <<sourceVars, arrived>>, NEW e \in Entities
    PROVE  /\ PastParents(e)' = PastParents(e) /\ Right(e)' = Right(e)
           /\ \A versions : Kept(versions, e)' <=> Kept(versions, e)
<1>1. \A x \in Entities : SameRow(x)
  BY DEF Sound, SameRow, sourceVars
<1>2. PastParents(e) \subseteq Entities
  BY PastFacts
<1>3. SameMember(e)
  BY <1>1, <1>2 DEF SameMember
<1>. QED BY <1>3, SameRight

LEMMA QuietSource ==
    ASSUME SourceInv, UNCHANGED <<now, log>>
    PROVE  SourceInv'
<1>1. ASSUME NEW e \in Entities PROVE InOrder(e)'
  <2>1. InOrder(e)
    BY DEF SourceInv
  <2>. QED BY <2>1 DEF InOrder
<1>2. ASSUME NEW e \in Entities PROVE RefersLive(e)'
  <2>1. RefersLive(e)
    BY DEF SourceInv
  <2>2. Referable(e)' = Referable(e)
    BY DEF Referable
  <2>. QED BY <2>1, <2>2 DEF RefersLive
<1>. QED BY <1>1, <1>2 DEF SourceInv

LEMMA QuietSound ==
    ASSUME Sound, UNCHANGED <<sourceVars, arrived>>
    PROVE  Sound'
  BY QuietSource DEF Sound, sourceVars

LEMMA QuietThreeLevels ==
    ASSUME Sound, UNCHANGED <<sourceVars, arrived>>
    PROVE  ThreeLevels' <=> ThreeLevels
<1>1. \A c \in Entities : PastParents(c)' = PastParents(c)
  BY QuietStep
<1>2. \A c \in Categories : c \in Entities /\ PastParents(c) \subseteq Entities
  BY PastFacts, Disjoint
<1>3. ThreeLevels' <=> \E c \in Categories : \E p \in PastParents(c)' : PastParents(p)' # {}
  BY DEF ThreeLevels
<1>. QED BY <1>1, <1>2, <1>3 DEF ThreeLevels

--------------------------------------------------------------------------------
(* The builder writes a table.                                              *)

(* What a write leaves of the table and of each member.                     *)
Writes(d, new) ==
    \/ build.mode = "full" /\ new = Replay(d, Entities)
    \/ build.mode = "incremental" /\ new = Upsert(gold[d], Replay(d, Scope(d)), Affected(d))

LEMMA WriteIs ==
    ASSUME TypeOK, BuildInv, NEW d \in Dimensions, WriteDimension(d)
    PROVE  /\ Writes(d, gold'[d]) /\ \A x \in Dimensions : x # d => gold'[x] = gold[x]
           /\ gold' = [gold EXCEPT ![d] = gold'[d]]
           /\ build'.mode = build.mode /\ build'.todo = build.todo \ {d}
           /\ build' \in [mode : {"idle", "full", "incremental"}, todo : SUBSET Dimensions]
           /\ build'.mode # "idle"
           /\ UNCHANGED <<sourceVars, silverVars, release>> /\ UNCHANGED <<sourceVars, arrived>>
<1>1. d \in build.todo /\ build' = [build EXCEPT !.todo = @ \ {d}]
  BY DEF WriteDimension
<1>2. build \in [mode : {"idle", "full", "incremental"}, todo : SUBSET Dimensions]
  BY DEF TypeOK
<1>3. build.mode # "idle"
  BY <1>1 DEF BuildInv, Idle
<1>4. build'.mode = build.mode /\ build'.todo = build.todo \ {d}
      /\ build' \in [mode : {"idle", "full", "incremental"}, todo : SUBSET Dimensions]
  BY <1>1, <1>2
<1>5. gold \in [Dimensions -> SUBSET Versions]
  BY DEF TypeOK
<1>6. PICK new : /\ gold' = [gold EXCEPT ![d] = new]
                 /\ new = IF build.mode = "full" THEN Replay(d, Entities)
                          ELSE Upsert(gold[d], Replay(d, Scope(d)), Affected(d))
  BY DEF WriteDimension
<1>7. gold'[d] = new /\ \A x \in Dimensions : x # d => gold'[x] = gold[x]
  BY <1>5, <1>6
<1>8. build.mode = "full" \/ build.mode = "incremental"
  BY <1>2, <1>3
<1>9. Writes(d, new)
  BY <1>6, <1>8 DEF Writes
<1>10. UNCHANGED <<sourceVars, silverVars, release>> /\ UNCHANGED <<sourceVars, arrived>>
  BY DEF WriteDimension, silverVars
<1>. QED BY <1>3, <1>4, <1>6, <1>7, <1>9, <1>10

LEMMA WriteIsPlaced ==
    ASSUME Sound, TypeOK, Placed, NEW d \in Dimensions, NEW new, Writes(d, new)
    PROVE  \A v \in new : v \in Versions /\ PlacedIn(d, v)
<1>1. \A v \in gold[d] : v \in Versions /\ PlacedIn(d, v)
  BY DEF Placed, TypeOK
<1>2. CASE new = Replay(d, Entities)
  BY <1>2, ReplayIsPlaced
<1>3. CASE new = Upsert(gold[d], Replay(d, Scope(d)), Affected(d))
  <2>1. Scope(d) \subseteq Entities
    BY ScopeIsEntities
  <2>2. \A v \in Replay(d, Scope(d)) : v \in Versions /\ PlacedIn(d, v)
    BY <2>1, ReplayIsPlaced
  <2>3. new \subseteq gold[d] \cup Replay(d, Scope(d))
    BY <1>3 DEF Upsert
  <2>. QED BY <1>1, <2>2, <2>3
<1>. QED BY <1>2, <1>3 DEF Writes

LEMMA WriteOfMember ==
    ASSUME Inv, NEW d \in Dimensions, NEW e \in Members(d), NEW new, Writes(d, new)
    PROVE  /\ build.mode = "full" \/ Touched(e) => RowsOf(new, e) = Right(e)
           /\ Kept(RowsOf(gold[d], e), e) /\ Reported(e) => Kept(RowsOf(new, e), e)
           /\ e \in Variants => RowsOf(new, e) = Right(e) \/ RowsOf(new, e) = RowsOf(gold[d], e)
           /\ d = "dim_category" /\ RootIn(e) /\ PastParents(e) = {} =>
                 e \in changed \/ RowsOf(new, e) = {} \/ RowsOf(new, e) = Right(e)
           /\ ~ThreeLevels => RowsOf(new, e) = {} \/ Accepted(RowsOf(new, e))
<1>. Sound /\ TypeOK /\ Placed /\ RootsInv /\ GateInv
  BY DEF Inv
<1>1. e \in Entities /\ e \in Categories \cup Variants /\ Scoped(e, Entities)
  BY MemberFacts DEF Scoped
<1>2. ASSUME RowsOf(new, e) = Right(e)
      PROVE  Kept(RowsOf(new, e), e) /\ (RowsOf(new, e) = {} \/ Accepted(RowsOf(new, e)))
  BY <1>1, <1>2, RightIsKept, ReplayFacts DEF Right
<1>3. CASE RowsOf(new, e) = Right(e)
  BY <1>2, <1>3
<1>4. CASE RowsOf(new, e) # Right(e)
  <2>1. build.mode # "full"
    BY <1>4, FullWrites DEF Writes
  <2>2. new = Upsert(gold[d], Replay(d, Scope(d)), Affected(d))
    BY <2>1 DEF Writes
  <2>3. ~Rewritten(d, e)
    BY <1>4, <2>2, RewrittenIsRight
  <2>4. ~Touched(e)
    BY <2>3, RewrittenFacts
  <2>5. CASE e \notin Scope(d)
    <3>1. RowsOf(new, e) = RowsOf(gold[d], e)
      BY <2>2, <2>3, <2>5, NotRewritten
    <3>. QED BY <2>1, <2>4, <3>1 DEF RootIn, GateInv, GateIn
  <2>6. CASE e \in Scope(d)
    <3>1. PICK scope : scope = Scope(d)
      OBVIOUS
    <3>2. /\ RowsOf(new, e) = {v \in RowsOf(gold[d], e) : KeyOf(v) \notin KeysIn(ReplayEntity(e, scope))}
                                \cup ReplayEntity(e, scope)
          /\ Scoped(e, scope) /\ e \in Categories
      BY <2>2, <2>3, <2>6, <3>1, NotRewritten
    <3>3. d = "dim_category" /\ e \notin Variants
      BY <3>2, MemberFacts, Disjoint
    <3>4. Kept(RowsOf(gold[d], e), e) /\ Reported(e) => Kept(RowsOf(new, e), e)
      BY <3>2, MergeKeeps
    <3>5. e \notin changed
      BY <2>4 DEF Touched
    <3>6. PastParents(e) # {}
      <4>. SUFFICES ASSUME PastParents(e) = {} PROVE FALSE
        OBVIOUS
      <4>1. RowsOf(gold[d], e) = {} \/ RowsOf(gold[d], e) = Right(e)
        BY <3>2, <3>3, <3>5 DEF RootsInv, RootIn
      <4>2. RowsOf(new, e) = Right(e)
        BY <3>2, <4>1, MergeOfRoot
      <4>. QED BY <1>4, <4>2
    <3>7. ThreeLevels
      BY <2>3, <2>6, <3>6, RewrittenFacts DEF ThreeLevels
    <3>. QED BY <2>1, <2>4, <3>3, <3>4, <3>6, <3>7
  <2>. QED BY <2>5, <2>6
<1>. QED BY <1>3, <1>4

LEMMA WriteKeeps ==
    ASSUME Inv, NEW d \in Dimensions, WriteDimension(d)
    PROVE  Inv'
<1>. Sound /\ TypeOK /\ BuildInv /\ Placed /\ SilverInv
  BY DEF Inv
<1>1. PICK new : new = gold'[d]
  OBVIOUS
<1>2. /\ Writes(d, new) /\ gold' = [gold EXCEPT ![d] = new]
      /\ \A x \in Dimensions : x # d => gold'[x] = gold[x]
  BY <1>1, WriteIs
<1>3. /\ build'.mode = build.mode /\ build'.todo = build.todo \ {d} /\ build'.mode # "idle"
      /\ build' \in [mode : {"idle", "full", "incremental"}, todo : SUBSET Dimensions]
      /\ UNCHANGED <<sourceVars, silverVars, release>> /\ UNCHANGED <<sourceVars, arrived>>
  BY WriteIs
<1>4. UNCHANGED <<now, log, arrived, rows, changed, release>>
  BY <1>3 DEF sourceVars, silverVars
<1>5. \A v \in new : v \in Versions /\ PlacedIn(d, v)
  BY <1>2, WriteIsPlaced
<1>6. \A e \in Entities : /\ PastParents(e)' = PastParents(e) /\ Right(e)' = Right(e)
                          /\ \A versions : Kept(versions, e)' <=> Kept(versions, e)
  BY <1>3, QuietStep
<1>7. \A e \in Entities : (Touched(e)' <=> Touched(e)) /\ (Reported(e)' <=> Reported(e))
  BY <1>4, <1>6 DEF Touched, Reported
<1>8. \A x \in Dimensions : \A e \in Members(x) : e \in Entities /\ Members(x)' = Members(x)
  BY MemberFacts DEF Members
<1>9. TypeOK'
  <2>1. gold' \in [Dimensions -> SUBSET Versions]
    BY <1>2, <1>5 DEF TypeOK
  <2>. QED BY <1>3, <1>4, <2>1 DEF TypeOK
<1>10. Sound' /\ SilverInv'
  <2>1. SilverInv'
    BY <1>4 DEF SilverInv, Live, Newest
  <2>. QED BY <1>3, <2>1, QuietSound
<1>11. BuildInv'
  BY <1>3, <1>4 DEF BuildInv
<1>12. Placed'
  <2>. SUFFICES ASSUME NEW x \in Dimensions, NEW v \in gold'[x] PROVE PlacedIn(x, v)'
    BY DEF Placed
  <2>1. PlacedIn(x, v)
    BY <1>1, <1>2, <1>5 DEF Placed
  <2>. QED BY <1>4, <2>1 DEF PlacedIn, Members
<1>13. ASSUME NEW e \in Members(d)
       PROVE  /\ build.mode = "full" \/ Touched(e) => RowsOf(new, e) = Right(e)
              /\ Kept(RowsOf(gold[d], e), e) /\ Reported(e) => Kept(RowsOf(new, e), e)
              /\ e \in Variants => RowsOf(new, e) = Right(e) \/ RowsOf(new, e) = RowsOf(gold[d], e)
              /\ d = "dim_category" /\ RootIn(e) /\ PastParents(e) = {} =>
                    e \in changed \/ RowsOf(new, e) = {} \/ RowsOf(new, e) = Right(e)
              /\ ~ThreeLevels => RowsOf(new, e) = {} \/ Accepted(RowsOf(new, e))
  BY <1>2, WriteOfMember
<1>14. WrittenInv'
  <2>. SUFFICES ASSUME NEW x \in Dimensions, NEW e \in Members(x) PROVE WrittenIn(x, e)'
    BY DEF WrittenInv, Members
  <2>1. WrittenIn(x, e)
    BY DEF Inv, WrittenInv
  <2>2. e \in Entities
    BY <1>8
  <2>3. CASE x = d
    <3>1. build.mode = "full" \/ Touched(e) => RowsOf(gold'[x], e) = Right(e)
      BY <1>1, <1>13, <2>3
    <3>. QED BY <1>3, <1>6, <1>7, <2>2, <3>1 DEF WrittenIn, RowsOf
  <2>4. CASE x # d
    <3>1. gold'[x] = gold[x]
      BY <1>2, <2>4
    <3>. QED BY <1>3, <1>6, <1>7, <2>1, <2>2, <2>4, <3>1 DEF WrittenIn, RowsOf
  <2>. QED BY <2>3, <2>4
<1>15. CurrentInv'
  <2>. SUFFICES ASSUME NEW x \in Dimensions, NEW e \in Members(x),
                       release # NoRelease, Reported(e), ~Touched(e)
                PROVE  /\ RowsOf(release[x], e) = Right(e) /\ Kept(RowsOf(gold'[x], e), e)
                       /\ e \in Variants => RowsOf(gold'[x], e) = Right(e)
    <3>1. ASSUME NEW x \in Dimensions, NEW e \in Members(x) PROVE CurrentIn(x, e)'
      BY <1>4, <1>6, <1>7, <1>8 DEF CurrentIn, RowsOf
    <3>. QED BY <3>1 DEF CurrentInv, Members
  <2>1. /\ RowsOf(release[x], e) = Right(e) /\ Kept(RowsOf(gold[x], e), e)
        /\ e \in Variants => RowsOf(gold[x], e) = Right(e)
    BY DEF Inv, CurrentInv, CurrentIn
  <2>2. CASE x = d
    BY <1>1, <1>13, <2>1, <2>2
  <2>3. CASE x # d
    BY <1>2, <2>1, <2>3
  <2>. QED BY <2>2, <2>3
<1>16. RootsInv'
  <2>. SUFFICES ASSUME NEW c \in Categories, PastParents(c) = {}, c \notin changed
                PROVE  RowsOf(gold'["dim_category"], c) = {} \/ RowsOf(gold'["dim_category"], c) = Right(c)
    <3>1. ASSUME NEW c \in Categories PROVE RootIn(c)'
      BY <1>4, <1>6, Disjoint DEF RootIn, RowsOf
    <3>. QED BY <3>1 DEF RootsInv
  <2>1. c \in Members("dim_category") /\ "dim_category" \in Dimensions
    BY DEF Members, Dimensions
  <2>2. RootIn(c)
    BY DEF Inv, RootsInv
  <2>3. CASE d = "dim_category"
    BY <1>1, <1>13, <2>1, <2>2, <2>3
  <2>4. CASE d # "dim_category"
    BY <1>2, <2>1, <2>2, <2>4 DEF RootIn
  <2>. QED BY <2>3, <2>4
<1>17. GateInv'
  <2>1. ThreeLevels' <=> ThreeLevels
    BY <1>3, QuietThreeLevels
  <2>. SUFFICES ASSUME ~ThreeLevels, NEW x \in Dimensions, NEW e \in Members(x) PROVE GateIn(x, e)'
    BY <2>1 DEF GateInv, Members
  <2>2. RowsOf(gold'[x], e) = {} \/ Accepted(RowsOf(gold'[x], e))
    <3>1. CASE x = d
      BY <1>1, <1>13, <3>1
    <3>2. CASE x # d
      BY <1>2, <3>2 DEF Inv, GateInv, GateIn
    <3>. QED BY <3>1, <3>2
  <2>. QED BY <2>2 DEF GateIn, RowsOf, Accepted
<1>. QED BY <1>9, <1>10, <1>11, <1>12, <1>14, <1>15, <1>16, <1>17 DEF Inv

--------------------------------------------------------------------------------
(* The other steps.                                                         *)

(* What the builder owes, were its state this one.                          *)
Owes(mode, todo) ==
    \A d \in Dimensions : \A e \in Members(d) :
        d \notin todo /\ (mode = "full" \/ (mode = "incremental" /\ Touched(e))) =>
            RowsOf(gold[d], e) = Right(e)

(* Steps of the source and of the builder that write no table.              *)
LEMMA Frame ==
    ASSUME Inv, Sound', SilverInv', BuildInv', \A e \in Entities : SameRow(e),
           UNCHANGED <<arrived, rows, changed, gold, release>>,
           build' \in [mode : {"idle", "full", "incremental"}, todo : SUBSET Dimensions],
           Owes(build'.mode, build'.todo)
    PROVE  Inv'
<1>. Sound /\ TypeOK /\ Placed
  BY DEF Inv
<1>1. \A e \in Entities : SameMember(e)
  BY PastFacts DEF SameMember
<1>2. \A e \in Entities : /\ PastParents(e)' = PastParents(e) /\ Right(e)' = Right(e)
                          /\ \A versions : Kept(versions, e)' <=> Kept(versions, e)
  BY <1>1, SameRight
<1>3. \A e \in Entities : (Touched(e)' <=> Touched(e)) /\ (Reported(e)' <=> Reported(e))
  BY <1>2 DEF Touched, Reported
<1>4. TypeOK'
  <2>1. now' \in 1..MaxTime /\ log' \in [Entities -> Seq(Events)]
    BY DEF Sound, SourceInv
  <2>2. \A e \in Entities : arrived'[e] \in Nat /\ arrived'[e] <= Len(log'[e]) /\ log'[e] \in Seq(Events)
    BY <2>1 DEF Sound
  <2>3. \A e \in Entities : Len(log'[e]) \in Nat
    BY <2>2, SeqElements
  <2>4. \A e \in Entities : arrived'[e] \in 0..Len(log'[e])
    BY <2>2, <2>3
  <2>. QED BY <2>1, <2>4 DEF TypeOK
<1>5. Placed'
  <2>. SUFFICES ASSUME NEW d \in Dimensions, NEW v \in gold[d] PROVE PlacedIn(d, v)'
    BY DEF Placed
  <2>1. PlacedIn(d, v)
    BY DEF Placed
  <2>2. v.of \in Entities /\ SameRow(v.of)
    BY <2>1, MemberFacts DEF PlacedIn
  <2>3. arrived[v.of] > 0 => log'[v.of][1] = log[v.of][1]
    BY <2>2 DEF SameRow
  <2>. QED BY <2>1, <2>3 DEF PlacedIn, Members
<1>6. WrittenInv'
  <2>1. ASSUME NEW d \in Dimensions, NEW e \in Members(d) PROVE WrittenIn(d, e)'
    BY <1>2, <1>3, MemberFacts DEF Owes, WrittenIn, RowsOf
  <2>. QED BY <2>1 DEF WrittenInv, Members
<1>7. CurrentInv'
  <2>1. ASSUME NEW d \in Dimensions, NEW e \in Members(d) PROVE CurrentIn(d, e)'
    <3>1. CurrentIn(d, e) /\ e \in Entities
      BY MemberFacts DEF Inv, CurrentInv
    <3>. QED BY <1>2, <1>3, <3>1 DEF CurrentIn, RowsOf
  <2>. QED BY <2>1 DEF CurrentInv, Members
<1>8. RootsInv'
  <2>1. ASSUME NEW c \in Categories PROVE RootIn(c)'
    <3>1. RootIn(c) /\ c \in Entities
      BY Disjoint DEF Inv, RootsInv
    <3>. QED BY <1>2, <3>1 DEF RootIn, RowsOf
  <2>. QED BY <2>1 DEF RootsInv
<1>9. GateInv'
  <2>1. \A c \in Categories : c \in Entities /\ PastParents(c) \subseteq Entities
    BY PastFacts, Disjoint
  <2>2. ThreeLevels' <=> ThreeLevels
    <3>1. ThreeLevels' <=> \E c \in Categories : \E p \in PastParents(c)' : PastParents(p)' # {}
      BY DEF ThreeLevels
    <3>. QED BY <1>2, <2>1, <3>1 DEF ThreeLevels
  <2>3. ASSUME NEW d \in Dimensions, NEW e \in Members(d), GateIn(d, e) PROVE GateIn(d, e)'
    BY <2>3 DEF GateIn, RowsOf, Accepted
  <2>. QED BY <2>2, <2>3 DEF Inv, GateInv, Members
<1>. QED BY <1>4, <1>5, <1>6, <1>7, <1>8, <1>9 DEF Inv

LEMMA BuilderFrame ==
    ASSUME Inv, UNCHANGED <<sourceVars, silverVars, gold, release>>, BuildInv',
           build' \in [mode : {"idle", "full", "incremental"}, todo : SUBSET Dimensions],
           Owes(build'.mode, build'.todo)
    PROVE  Inv'
<1>1. UNCHANGED <<now, log, arrived, rows, changed, gold, release>> /\ UNCHANGED <<sourceVars, arrived>>
  BY DEF sourceVars, silverVars
<1>2. Sound' /\ \A e \in Entities : SameRow(e)
  BY <1>1, QuietSound DEF Inv, Sound, SameRow
<1>3. SilverInv'
  BY <1>1 DEF Inv, SilverInv, Live, Newest
<1>. QED BY <1>1, <1>2, <1>3, Frame

LEMMA IdleOwes == ASSUME NEW mode, mode = "idle", NEW todo PROVE Owes(mode, todo)
  BY DEF Owes

LEMMA StartFullKeeps == ASSUME Inv, StartFull PROVE Inv'
<1>1. build' = [mode |-> "full", todo |-> Dimensions]
  BY DEF StartFull
<1>2. Owes(build'.mode, build'.todo)
  BY <1>1 DEF Owes
<1>3. BuildInv' /\ build' \in [mode : {"idle", "full", "incremental"}, todo : SUBSET Dimensions]
  BY <1>1 DEF BuildInv
<1>. QED BY <1>2, <1>3, BuilderFrame DEF StartFull

LEMMA StartIncrementalKeeps == ASSUME Inv, StartIncremental PROVE Inv'
<1>1. build' = [mode |-> "incremental", todo |-> ChangedDimensions] /\ release' = release /\ release # NoRelease
  BY DEF StartIncremental
<1>2. Owes(build'.mode, build'.todo)
  <2>1. ASSUME NEW d \in Dimensions, NEW e \in Members(d), d \notin ChangedDimensions PROVE ~Touched(e)
    BY <2>1, RewrittenFacts DEF ChangedDimensions, Inv
  <2>. QED BY <1>1, <2>1 DEF Owes
<1>3. BuildInv' /\ build' \in [mode : {"idle", "full", "incremental"}, todo : SUBSET Dimensions]
  BY <1>1 DEF BuildInv, ChangedDimensions
<1>. QED BY <1>2, <1>3, BuilderFrame DEF StartIncremental

LEMMA FailKeeps == ASSUME Inv, Fail PROVE Inv'
<1>1. build' = [mode |-> "idle", todo |-> {}]
  BY DEF Fail, Idle
<1>2. Owes(build'.mode, build'.todo)
  BY <1>1, IdleOwes
<1>3. BuildInv' /\ build' \in [mode : {"idle", "full", "incremental"}, todo : SUBSET Dimensions]
  BY <1>1 DEF BuildInv, Idle
<1>. QED BY <1>2, <1>3, BuilderFrame DEF Fail

LEMMA StutterKeeps == ASSUME Inv, UNCHANGED vars PROVE Inv'
<1>1. UNCHANGED <<sourceVars, silverVars, gold, release>> /\ build' = build /\ release' = release
  BY DEF vars
<1>2. Owes(build'.mode, build'.todo)
  BY <1>1 DEF Inv, WrittenInv, WrittenIn, Owes
<1>3. BuildInv' /\ build' \in [mode : {"idle", "full", "incremental"}, todo : SUBSET Dimensions]
  BY <1>1 DEF Inv, BuildInv, TypeOK, Idle
<1>. QED BY <1>1, <1>2, <1>3, BuilderFrame

(* The source goes on; Silver has nothing of it yet.                        *)
LEMMA SourceKeeps ==
    ASSUME Inv, NEW t, SourceStep(t), UNCHANGED <<silverVars, gold, release, build>>
    PROVE  Inv'
<1>. Sound /\ SourceInv
  BY DEF Inv, Sound
<1>1. UNCHANGED <<arrived, rows, changed, gold, release, build>>
  BY DEF silverVars
<1>2. Extends
  BY StepExtends
<1>3. \A e \in Entities : arrived[e] \in Nat /\ arrived[e] <= Len(log[e])
  BY DEF Sound
<1>4. ASSUME NEW e \in Entities PROVE SameRow(e) /\ arrived[e] <= Len(log'[e])
  <2>1. PICK a \in Nat : a = arrived[e] /\ a <= Len(log[e])
    BY <1>3
  <2>2. PICK m, n \in Nat : m = Len(log[e]) /\ n = Len(log'[e]) /\ m <= n
    BY <1>2 DEF Extends
  <2>3. \A i \in 1..m : log'[e][i] = log[e][i]
    BY <1>2, <2>2 DEF Extends
  <2>4. \A i \in 1..a : i \in 1..m
    BY <2>1, <2>2
  <2>. QED BY <1>1, <2>1, <2>2, <2>3, <2>4 DEF SameRow
<1>5. SourceInv'
  BY StepKeepsSource
<1>6. Sound'
  <2>1. arrived' \in [Entities -> Nat]
    BY <1>1 DEF Sound
  <2>2. \A e \in Entities : arrived'[e] <= Len(log'[e])
    BY <1>1, <1>4
  <2>. QED BY <1>5, <2>1, <2>2 DEF Sound
<1>7. SilverInv'
  <2>. SUFFICES ASSUME NEW e \in Entities, arrived[e] > 0, e \notin rows
                PROVE  arrived[e] = Len(log'[e]) /\ ~Live(e)'
    BY <1>1 DEF SilverInv
  <2>1. arrived[e] = Len(log[e]) /\ ~Live(e)
    BY DEF Inv, SilverInv
  <2>2. log[e] # <<>>
    BY <2>1
  <2>3. log'[e] = log[e]
    BY <2>1, <2>2 DEF SourceStep, Adds
  <2>. QED BY <2>1, <2>3 DEF Live, Newest
<1>8. BuildInv'
  BY <1>1 DEF Inv, BuildInv
<1>9. Owes(build'.mode, build'.todo)
  BY <1>1 DEF Inv, WrittenInv, WrittenIn, Owes
<1>10. build' \in [mode : {"idle", "full", "incremental"}, todo : SUBSET Dimensions]
  BY <1>1 DEF Inv, TypeOK
<1>. QED BY <1>1, <1>4, <1>6, <1>7, <1>8, <1>9, <1>10, Frame

(* Silver takes the events of a row: what it has of the row is reported,    *)
(* unless there was nothing and the stream brings its end.                  *)
LEMMA ArriveIs ==
    ASSUME Inv, NEW x \in Entities, NEW channel, Arrive(x, channel)
    PROVE  /\ UNCHANGED <<now, log, gold, release, build>> /\ build = Idle
           /\ arrived' = [arrived EXCEPT ![x] = Len(log[x])]
           /\ arrived' \in [Entities -> Nat] /\ arrived'[x] = Len(log[x]) /\ arrived'[x] > 0
           /\ \A e \in Entities : arrived[e] <= arrived'[e] /\ arrived'[e] <= Len(log[e])
           /\ \A e \in Entities : e # x => SameRow(e)
           /\ rows \subseteq rows' /\ changed \subseteq changed' /\ rows' \subseteq rows \cup {x}
           /\ changed' \subseteq changed \cup {x} /\ changed' \subseteq rows'
           /\ x \in changed' \/ (x \notin rows' /\ ~Live(x) /\ arrived[x] = 0)
<1>1. /\ UNCHANGED <<now, log, gold, release, build>> /\ build = Idle /\ arrived[x] < Len(log[x])
      /\ arrived' = [arrived EXCEPT ![x] = Len(log[x])]
  BY DEF Arrive, sourceVars
<1>2. arrived \in [Entities -> Nat] /\ \A e \in Entities : arrived[e] <= Len(log[e]) /\ Len(log[e]) \in Nat
  BY LogFacts DEF Inv, Sound
<1>3. arrived' \in [Entities -> Nat] /\ arrived'[x] = Len(log[x])
  BY <1>1, <1>2
<1>4. \A e \in Entities : e # x => arrived'[e] = arrived[e]
  BY <1>1, <1>2
<1>5. arrived'[x] > 0 /\ arrived[x] <= arrived'[x]
  <2>1. PICK a, n \in Nat : a = arrived[x] /\ n = Len(log[x])
    BY <1>2
  <2>. QED BY <1>1, <1>3, <2>1
<1>6. \A e \in Entities : arrived[e] <= arrived'[e] /\ arrived'[e] <= Len(log[e])
  <2>. SUFFICES ASSUME NEW e \in Entities PROVE arrived[e] <= arrived'[e] /\ arrived'[e] <= Len(log[e])
    OBVIOUS
  <2>1. PICK a, n \in Nat : a = arrived[e] /\ n = Len(log[e]) /\ a <= n
    BY <1>2
  <2>. QED BY <1>3, <1>4, <1>5, <2>1
<1>7. \A e \in Entities : e # x => SameRow(e)
  BY <1>1, <1>2, <1>4 DEF SameRow
<1>8. changed \subseteq rows
  BY DEF Inv, TypeOK
<1>9. CASE x \in rows \/ Live(x) \/ channel = "batch"
  <2>1. rows' = rows \cup {x} /\ changed' = changed \cup {x}
    BY <1>9 DEF Arrive
  <2>. QED BY <1>1, <1>3, <1>5, <1>6, <1>7, <1>8, <2>1
<1>10. CASE ~(x \in rows \/ Live(x) \/ channel = "batch")
  <2>1. rows' = rows /\ changed' = changed
    BY <1>10 DEF Arrive
  <2>2. arrived[x] > 0 => arrived[x] = Len(log[x])
    BY <1>10 DEF Inv, SilverInv
  <2>3. arrived[x] = 0
    <3>1. PICK a, n \in Nat : a = arrived[x] /\ n = Len(log[x])
      BY <1>2
    <3>. QED BY <1>1, <2>2, <3>1
  <2>. QED BY <1>1, <1>3, <1>5, <1>6, <1>7, <1>8, <1>10, <2>1, <2>3
<1>. QED BY <1>9, <1>10

LEMMA ArriveKeeps ==
    ASSUME Inv, NEW x \in Entities, NEW channel, Arrive(x, channel)
    PROVE  Inv'
<1>. Sound /\ TypeOK /\ Placed
  BY DEF Inv
<1>1. UNCHANGED <<now, log, gold, release, build>> /\ build = Idle
  BY ArriveIs
<1>2. /\ arrived' \in [Entities -> Nat] /\ arrived'[x] = Len(log[x]) /\ arrived'[x] > 0
      /\ \A e \in Entities : arrived[e] <= arrived'[e] /\ arrived'[e] <= Len(log[e])
  BY ArriveIs
<1>3. \A e \in Entities : e # x => SameRow(e)
  BY ArriveIs
<1>4. /\ rows \subseteq rows' /\ changed \subseteq changed' /\ rows' \subseteq rows \cup {x}
      /\ changed' \subseteq rows'
      /\ x \in changed' \/ (x \notin rows' /\ ~Live(x) /\ arrived[x] = 0)
  BY ArriveIs
<1>5. \A e \in Entities : arrived[e] \in Nat /\ Len(log[e]) \in Nat
  BY LogFacts
<1>6. \A e \in Entities : arrived[e] > 0 => arrived'[e] > 0
  <2>. SUFFICES ASSUME NEW e \in Entities, arrived[e] > 0 PROVE arrived'[e] > 0
    OBVIOUS
  <2>1. PICK a, b \in Nat : a = arrived[e] /\ b = arrived'[e] /\ a <= b
    BY <1>2, <1>5
  <2>. QED BY <2>1
<1>7. TypeOK'
  <2>1. \A e \in Entities : arrived'[e] \in 0..Len(log'[e])
    BY <1>1, <1>2, <1>5
  <2>2. \A e \in rows' : e \in Entities /\ arrived'[e] > 0
    BY <1>2, <1>4, <1>6 DEF TypeOK
  <2>. QED BY <1>1, <1>4, <2>1, <2>2 DEF TypeOK
<1>8. Sound'
  <2>1. SourceInv'
    BY <1>1, QuietSource DEF Sound
  <2>. QED BY <1>1, <1>2, <2>1 DEF Sound
<1>9. SilverInv'
  <2>. SUFFICES ASSUME NEW e \in Entities, arrived'[e] > 0, e \notin rows'
                PROVE  arrived'[e] = Len(log[e]) /\ ~Live(e)
    BY <1>1 DEF SilverInv, Live, Newest
  <2>1. CASE e = x
    BY <1>2, <1>4, <2>1
  <2>2. CASE e # x
    BY <1>3, <1>4, <2>2 DEF Inv, SilverInv, SameRow
  <2>. QED BY <2>1, <2>2
<1>10. BuildInv' /\ WrittenInv'
  <2>1. build'.mode = "idle" /\ build' = Idle
    BY <1>1 DEF Idle
  <2>2. \A d, e : WrittenIn(d, e)'
    BY <2>1 DEF WrittenIn
  <2>3. BuildInv'
    BY <2>1 DEF BuildInv, Idle
  <2>. QED BY <2>2, <2>3 DEF WrittenInv
<1>11. Placed'
  <2>1. ASSUME NEW d \in Dimensions, NEW v \in gold[d] PROVE PlacedIn(d, v)'
    <3>1. PlacedIn(d, v)
      BY DEF Placed
    <3>2. v.of \in Entities
      BY <3>1, MemberFacts DEF PlacedIn
    <3>. QED BY <1>1, <1>6, <3>1, <3>2 DEF PlacedIn, Members
  <2>. QED BY <1>1, <2>1 DEF Placed
<1>12. ASSUME NEW e \in Entities, e # x, x \notin PastParents(e)
       PROVE  /\ PastParents(e)' = PastParents(e) /\ Right(e)' = Right(e)
              /\ \A versions : Kept(versions, e)' <=> Kept(versions, e)
  <2>1. PastParents(e) \subseteq Entities
    BY PastFacts
  <2>2. SameMember(e)
    BY <1>3, <1>12, <2>1 DEF SameMember
  <2>. QED BY <2>2, SameRight
<1>13. CurrentInv'
  <2>1. ASSUME NEW d \in Dimensions, NEW e \in Members(d) PROVE CurrentIn(d, e)'
    <3>. SUFFICES ASSUME release # NoRelease, Reported(e)', ~Touched(e)'
                  PROVE  /\ RowsOf(release[d], e) = Right(e)' /\ Kept(RowsOf(gold[d], e), e)'
                         /\ e \in Variants => RowsOf(gold[d], e) = Right(e)'
      BY <1>1 DEF CurrentIn, RowsOf
    <3>1. x \notin {e} \cup PastParents(e)'
      BY <1>4 DEF Reported, Touched
    <3>2. e \in Entities /\ e # x /\ SameRow(e)
      BY <1>3, <3>1, MemberFacts
    <3>3. PastParents(e)' = PastParents(e)
      BY <3>2, SamePast
    <3>4. Reported(e) /\ ~Touched(e)
      BY <1>4, <3>1, <3>3 DEF Reported, Touched
    <3>5. CurrentIn(d, e)
      BY DEF Inv, CurrentInv
    <3>6. /\ RowsOf(release[d], e) = Right(e) /\ Kept(RowsOf(gold[d], e), e)
          /\ e \in Variants => RowsOf(gold[d], e) = Right(e)
      BY <3>4, <3>5 DEF CurrentIn
    <3>7. PICK kept : kept = RowsOf(gold[d], e) /\ kept = RowsOf(gold[d], e)'
      BY <1>1 DEF RowsOf
    <3>8. Kept(kept, e)' /\ Right(e)' = Right(e)
      BY <1>12, <3>1, <3>2, <3>3, <3>6, <3>7
    <3>. QED BY <3>6, <3>7, <3>8
  <2>. QED BY <2>1 DEF CurrentInv, Members
<1>14. RootsInv'
  <2>1. ASSUME NEW c \in Categories PROVE RootIn(c)'
    <3>. SUFFICES ASSUME PastParents(c)' = {}, c \notin changed'
                  PROVE  \/ RowsOf(gold["dim_category"], c) = {}
                         \/ RowsOf(gold["dim_category"], c) = Right(c)'
      BY <1>1 DEF RootIn, RowsOf
    <3>1. c \in Entities /\ "dim_category" \in Dimensions
      BY Disjoint DEF Dimensions
    <3>2. CASE c = x
      <4>1. arrived[c] = 0
        BY <1>4, <3>2
      <4>2. \A v \in gold["dim_category"] : arrived[v.of] > 0
        BY <3>1 DEF Placed, PlacedIn
      <4>. QED BY <4>1, <4>2 DEF RowsOf
    <3>3. CASE c # x
      <4>1. PastParents(c)' = PastParents(c)
        BY <1>3, <3>1, <3>3, SamePast
      <4>2. Right(c)' = Right(c)
        BY <1>12, <3>1, <3>3, <4>1
      <4>3. c \notin changed /\ RootIn(c)
        BY <1>4 DEF Inv, RootsInv
      <4>. QED BY <4>1, <4>2, <4>3 DEF RootIn
    <3>. QED BY <3>2, <3>3
  <2>. QED BY <2>1 DEF RootsInv
<1>15. GateInv'
  <2>1. ASSUME NEW e \in Entities PROVE PastParents(e) \subseteq PastParents(e)'
    <3>1. PICK a, b \in Nat : a = arrived[e] /\ b = arrived'[e] /\ a <= b
      BY <1>2, <1>5
    <3>2. \A i \in 1..a : i \in 1..b
      BY <3>1
    <3>. QED BY <1>1, <3>1, <3>2 DEF PastParents
  <2>2. \A c \in Categories : c \in Entities /\ PastParents(c) \subseteq Entities
    BY PastFacts, Disjoint
  <2>3. ThreeLevels => ThreeLevels'
    <3>1. ThreeLevels' <=> \E c \in Categories : \E p \in PastParents(c)' : PastParents(p)' # {}
      BY DEF ThreeLevels
    <3>. QED BY <2>1, <2>2, <3>1 DEF ThreeLevels
  <2>4. ASSUME NEW d \in Dimensions, NEW e \in Members(d), GateIn(d, e) PROVE GateIn(d, e)'
    BY <1>1, <2>4 DEF GateIn, RowsOf, Accepted
  <2>5. ASSUME ~ThreeLevels', NEW d \in Dimensions, NEW e \in Members(d) PROVE GateIn(d, e)'
    <3>1. GateIn(d, e)
      BY <2>3, <2>5 DEF Inv, GateInv
    <3>. QED BY <2>4, <3>1
  <2>. QED BY <2>5 DEF GateInv, Members
<1>. QED BY <1>7, <1>8, <1>9, <1>10, <1>11, <1>13, <1>14, <1>15 DEF Inv

(* The release that a build publishes.                                      *)
LEMMA PublishIsRight ==
    ASSUME Inv, Publish, NEW d \in Dimensions, NEW e \in Members(d), Reported(e)
    PROVE  /\ RowsOf(release'[d], e) = Right(e) /\ Kept(RowsOf(gold[d], e), e)
           /\ e \in Variants => RowsOf(gold[d], e) = Right(e)
<1>. Sound /\ TypeOK /\ BuildInv
  BY DEF Inv
<1>1. /\ build.mode # "idle" /\ build.todo = {} /\ \A x \in Written : ValidScd2(gold[x])
      /\ release'[d] = IF d \in Written THEN gold[d] ELSE release[d]
  BY DEF Publish, BuildInv
<1>2. build.mode = "full" \/ (build.mode = "incremental" /\ release # NoRelease)
  BY <1>1 DEF TypeOK, BuildInv
<1>3. e \in Categories \cup Variants
  BY MemberFacts
<1>4. Accepted(Right(e)) /\ Right(e) # {} /\ Scoped(e, Entities)
  BY <1>3, ReportedFacts
<1>5. WrittenIn(d, e) /\ CurrentIn(d, e)
  BY DEF Inv, WrittenInv, CurrentInv
<1>6. CASE build.mode = "full" \/ Touched(e)
  <2>1. RowsOf(gold[d], e) = Right(e)
    BY <1>1, <1>2, <1>5, <1>6 DEF WrittenIn
  <2>2. Affected(d) # {} \/ build.mode = "full"
    BY <1>6, RewrittenFacts
  <2>3. d \in Written
    BY <2>2 DEF Written, ChangedDimensions
  <2>4. Kept(RowsOf(gold[d], e), e)
    BY <1>4, <2>1, RightIsKept
  <2>. QED BY <1>1, <2>1, <2>3, <2>4
<1>7. CASE build.mode # "full" /\ ~Touched(e)
  <2>1. /\ RowsOf(release[d], e) = Right(e) /\ Kept(RowsOf(gold[d], e), e)
        /\ e \in Variants => RowsOf(gold[d], e) = Right(e)
    BY <1>2, <1>5, <1>7 DEF CurrentIn
  <2>2. CASE d \notin Written
    BY <1>1, <2>1, <2>2
  <2>3. CASE d \in Written
    <3>1. \A m \in {v.of : v \in gold[d]} : Accepted(RowsOf(gold[d], m))
      BY <1>1, <2>3, GateByMember
    <3>2. RowsOf(gold[d], e) # {} => Accepted(RowsOf(gold[d], e))
      BY <3>1 DEF RowsOf
    <3>3. RowsOf(gold[d], e) = Right(e)
      BY <1>4, <2>1, <3>2, KeptAndValid
    <3>. QED BY <1>1, <2>1, <2>3, <3>3
  <2>. QED BY <2>2, <2>3
<1>. QED BY <1>6, <1>7

LEMMA PublishKeeps == ASSUME Inv, Publish PROVE Inv'
<1>. Sound /\ TypeOK /\ Placed /\ BuildInv /\ SilverInv
  BY DEF Inv
<1>1. /\ UNCHANGED <<now, log, arrived, rows, gold>> /\ UNCHANGED <<sourceVars, arrived>>
      /\ changed' = {} /\ build' = Idle
  BY DEF Publish, sourceVars
<1>2. build.mode # "idle" /\ build.todo = {}
  BY DEF Publish, BuildInv
<1>3. build.mode = "full" \/ (build.mode = "incremental" /\ release # NoRelease)
  BY <1>2 DEF TypeOK, BuildInv
<1>4. \A e \in Entities : /\ PastParents(e)' = PastParents(e) /\ Right(e)' = Right(e)
                          /\ \A versions : Kept(versions, e)' <=> Kept(versions, e)
  BY <1>1, QuietStep
<1>5. \A e \in Entities : Reported(e)' <=> Reported(e)
  BY <1>1, <1>4 DEF Reported
<1>6. TypeOK'
  <2>1. release' = [d \in Dimensions |-> IF d \in Written THEN gold[d] ELSE release[d]]
    BY DEF Publish
  <2>2. \A d \in Dimensions : gold[d] \in SUBSET Versions
    BY DEF TypeOK
  <2>3. \A d \in Dimensions : d \notin Written => release[d] \in SUBSET Versions
    BY <1>3 DEF TypeOK, Written
  <2>4. release' \in [Dimensions -> SUBSET Versions]
    BY <2>1, <2>2, <2>3
  <2>5. build' \in [mode : {"idle", "full", "incremental"}, todo : SUBSET Dimensions]
    BY <1>1 DEF Idle
  <2>. QED BY <1>1, <2>4, <2>5 DEF TypeOK
<1>7. Sound' /\ SilverInv'
  <2>1. SilverInv'
    BY <1>1 DEF SilverInv, Live, Newest
  <2>. QED BY <1>1, <2>1, QuietSound
<1>8. BuildInv' /\ WrittenInv'
  <2>1. build'.mode = "idle" /\ build' = Idle
    BY <1>1 DEF Idle
  <2>2. \A d, e : WrittenIn(d, e)'
    BY <2>1 DEF WrittenIn
  <2>3. BuildInv'
    BY <2>1 DEF BuildInv, Idle
  <2>. QED BY <2>2, <2>3 DEF WrittenInv
<1>9. Placed'
  BY <1>1 DEF Placed, PlacedIn, Members
<1>10. CurrentInv'
  <2>1. ASSUME NEW d \in Dimensions, NEW e \in Members(d) PROVE CurrentIn(d, e)'
    <3>1. e \in Entities
      BY MemberFacts
    <3>2. CASE ~Reported(e)
      BY <1>5, <3>1, <3>2 DEF CurrentIn
    <3>3. CASE Reported(e)
      <4>1. /\ RowsOf(release'[d], e) = Right(e) /\ Kept(RowsOf(gold[d], e), e)
            /\ e \in Variants => RowsOf(gold[d], e) = Right(e)
        BY <3>3, PublishIsRight
      <4>. QED BY <1>1, <1>4, <3>1, <4>1 DEF CurrentIn, RowsOf
    <3>. QED BY <3>2, <3>3
  <2>. QED BY <2>1 DEF CurrentInv, Members
<1>11. RootsInv'
  <2>1. ASSUME NEW c \in Categories PROVE RootIn(c)'
    <3>1. c \in Entities /\ "dim_category" \in Dimensions /\ c \in Members("dim_category")
      BY Disjoint DEF Dimensions, Members
    <3>2. RootIn(c) /\ WrittenIn("dim_category", c)
      BY <3>1 DEF Inv, RootsInv, WrittenInv
    <3>3. c \in changed => RowsOf(gold["dim_category"], c) = Right(c)
      BY <1>2, <1>3, <3>2 DEF WrittenIn, Touched
    <3>4. PastParents(c) = {} =>
             RowsOf(gold["dim_category"], c) = {} \/ RowsOf(gold["dim_category"], c) = Right(c)
      BY <3>2, <3>3 DEF RootIn
    <3>. QED BY <1>1, <1>4, <3>1, <3>4 DEF RootIn, RowsOf
  <2>. QED BY <2>1 DEF RootsInv
<1>12. GateInv'
  <2>1. ThreeLevels' <=> ThreeLevels
    BY <1>1, QuietThreeLevels
  <2>2. ASSUME NEW d \in Dimensions, NEW e \in Members(d), GateIn(d, e) PROVE GateIn(d, e)'
    BY <1>1, <2>2 DEF GateIn, RowsOf, Accepted
  <2>3. ASSUME ~ThreeLevels', NEW d \in Dimensions, NEW e \in Members(d) PROVE GateIn(d, e)'
    <3>1. GateIn(d, e)
      BY <2>1, <2>3 DEF Inv, GateInv
    <3>. QED BY <2>2, <3>1
  <2>. QED BY <2>3 DEF GateInv, Members
<1>. QED BY <1>6, <1>7, <1>8, <1>9, <1>10, <1>11, <1>12 DEF Inv

--------------------------------------------------------------------------------
LEMMA InitInv == Init => Inv
<1>. SUFFICES ASSUME Init PROVE Inv
  OBVIOUS
<1>1. /\ now = 1 /\ log = [e \in Entities |-> <<>>] /\ arrived = [e \in Entities |-> 0]
      /\ rows = {} /\ changed = {} /\ gold = [d \in Dimensions |-> {}] /\ release = NoRelease
      /\ build = [mode |-> "idle", todo |-> {}]
  BY DEF Init, Idle
<1>2. \A e \in Entities : log[e] = <<>> /\ Len(log[e]) = 0 /\ arrived[e] = 0
  BY <1>1
<1>3. now \in 1..MaxTime /\ log \in [Entities -> Seq(Events)]
  BY <1>1, JoinedDimensionsAssumption
<1>4. TypeOK
  BY <1>1, <1>2, <1>3 DEF TypeOK
<1>5. Sound
  <2>1. \A e \in Entities : InOrder(e) /\ RefersLive(e)
    BY <1>2 DEF InOrder, RefersLive
  <2>. QED BY <1>1, <1>2, <1>3, <2>1 DEF Sound, SourceInv
<1>6. SilverInv /\ BuildInv
  BY <1>1, <1>2 DEF SilverInv, BuildInv, Idle
<1>7. \A d \in Dimensions : \A e : gold[d] = {} /\ RowsOf(gold[d], e) = {}
  BY <1>1 DEF RowsOf
<1>8. Placed /\ GateInv
  BY <1>7 DEF Placed, GateInv, GateIn
<1>9. WrittenInv /\ CurrentInv
  BY <1>1 DEF WrittenInv, WrittenIn, CurrentInv, CurrentIn
<1>10. RootsInv
  BY <1>7 DEF RootsInv, RootIn, Dimensions
<1>. QED BY <1>4, <1>5, <1>6, <1>8, <1>9, <1>10 DEF Inv

LEMMA NextInv == Inv /\ [Next]_vars => Inv'
<1>. SUFFICES ASSUME Inv, [Next]_vars PROVE Inv'
  OBVIOUS
<1>. SourceInv
  BY DEF Inv, Sound
<1>1. ASSUME NEW t \in Times, NEW e \in Entities, NEW name \in Names,
             NEW parent \in Entities \cup {NoParent}, Write(e, name, parent, t)
      PROVE  Inv'
  <2>1. SourceStep(t)
    BY <1>1, WriteIsStep
  <2>2. UNCHANGED <<silverVars, gold, release, build>>
    BY <1>1 DEF Write
  <2>. QED BY <2>1, <2>2, SourceKeeps
<1>2. ASSUME NEW t \in Times, NEW e \in Entities, Delete(e, t) PROVE Inv'
  <2>1. SourceStep(t)
    BY <1>2, DeleteIsStep
  <2>2. UNCHANGED <<silverVars, gold, release, build>>
    BY <1>2 DEF Delete
  <2>. QED BY <2>1, <2>2, SourceKeeps
<1>3. ASSUME NEW e \in Entities, NEW channel \in {"batch", "cdc"}, Arrive(e, channel) PROVE Inv'
  BY <1>3, ArriveKeeps
<1>4. ASSUME NEW d \in Dimensions, WriteDimension(d) PROVE Inv'
  BY <1>4, WriteKeeps
<1>5. CASE StartFull
  BY <1>5, StartFullKeeps
<1>6. CASE StartIncremental
  BY <1>6, StartIncrementalKeeps
<1>7. CASE Publish
  BY <1>7, PublishKeeps
<1>8. CASE Fail
  BY <1>8, FailKeeps
<1>9. CASE UNCHANGED vars
  BY <1>9, StutterKeeps
<1>. QED BY <1>1, <1>2, <1>3, <1>4, <1>5, <1>6, <1>7, <1>8, <1>9 DEF Next

(* The invariant above, for all hierarchies and histories, clocks and       *)
(* orders of arrival: what builds of build_gold.py, failed ones too, leave  *)
(* of each member in the tables and in the release.                         *)
THEOREM InvAlways == Spec => []Inv
<1>1. Init => Inv
  BY InitInv
<1>2. Inv /\ [Next]_vars => Inv'
  BY NextInv
<1>. QED BY <1>1, <1>2, PTL DEF Spec

(* Silver has no more of a row than the source wrote, its current table     *)
(* only rows whose events the history has, and the change feed only rows of *)
(* the current table; the tables hold versions                              *)
(* (unified_silver.py, build_gold.py:_upsert_replayed_scd2).                *)
THEOREM TypeCorrect == Spec => []TypeOK
<1>1. Inv => TypeOK
  BY DEF Inv
<1>. QED BY <1>1, InvAlways, PTL

(* A replay of the whole history says of each member and each time what the *)
(* row and the parent it had then said, in whatever order the events        *)
(* reached Silver: the interval join of scd2.py                             *)
(* (build_dim_category_from_history, build_dim_product_from_history) and    *)
(* the change detection of _replay_single_entity_scd2 lose and invent       *)
(* nothing.                                                                 *)
THEOREM ReplayAlwaysFollows == Spec => []ReplayFollowsSource
<1>1. Inv => ReplayFollowsSource
  BY ReplaySays DEF Inv
<1>. QED BY <1>1, InvAlways, PTL

(* Where no category has a grandparent, the SCD2 gate                       *)
(* (quality.py:_scd2_violations) accepts what any build has written, after  *)
(* any number of failed builds.                                             *)
THEOREM TwoLevelsAlwaysPass == Spec => []TwoLevelsPassTheGate
<1>1. ASSUME Inv PROVE TwoLevelsPassTheGate
  <2>. SUFFICES ASSUME ~ThreeLevels, NEW d \in Written PROVE ValidScd2(gold[d])
    BY DEF TwoLevelsPassTheGate
  <2>1. d \in Dimensions
    BY DEF Written, ChangedDimensions
  <2>2. ASSUME NEW e \in {v.of : v \in gold[d]} PROVE Accepted(RowsOf(gold[d], e))
    <3>1. PICK v \in gold[d] : v.of = e
      BY <2>2
    <3>2. e \in Members(d)
      BY <1>1, <2>1, <3>1 DEF Inv, Placed, PlacedIn
    <3>3. GateIn(d, e)
      BY <1>1, <2>1, <3>2 DEF Inv, GateInv
    <3>4. RowsOf(gold[d], e) # {}
      BY <3>1 DEF RowsOf
    <3>. QED BY <3>3, <3>4 DEF GateIn
  <2>. QED BY <2>2, GateByMember
<1>. QED BY <1>1, InvAlways, PTL

(* A published release says of every member that Silver reports, with all   *)
(* its parents, what a full rebuild would say: the scope of an incremental  *)
(* build (update_category, update_product) is large enough, and the gate    *)
(* refuses every table in which a failed build left something else.         *)
THEOREM ReleaseAlwaysFullReplay == Spec => ReleaseIsFullReplay
<1>1. ASSUME Inv, [Next]_vars
      PROVE  [release' # release =>
                \A d \in Dimensions, e \in Entities :
                    e \in Members(d) /\ {e} \cup PastParents(e) \subseteq rows =>
                        {v \in release'[d] : v.of = e} = ReplayEntity(e, Entities)]_vars
  <2>. SUFFICES ASSUME release' # release, NEW d \in Dimensions, NEW e \in Members(d),
                       {e} \cup PastParents(e) \subseteq rows
                PROVE  {v \in release'[d] : v.of = e} = ReplayEntity(e, Entities)
    OBVIOUS
  <2>1. Publish
    BY <1>1 DEF Next, Write, Delete, Arrive, StartFull, StartIncremental, WriteDimension, Fail, vars
  <2>2. Reported(e)
    BY DEF Reported
  <2>3. RowsOf(release'[d], e) = Right(e)
    BY <1>1, <2>1, <2>2, PublishIsRight
  <2>. QED BY <2>3 DEF RowsOf, Right
<1>. QED BY <1>1, InvAlways, PTL DEF Spec, ReleaseIsFullReplay

================================================================================

--------------------------- MODULE Scd2DimensionProofs ---------------------------
(***************************************************************************)
(* The replay is right for every history, and what a build leaves behind   *)
(* is always a replay.  The first part orders the events by a number, so   *)
(* that a first and a last event exist and a proof can go up the history.  *)
(* The second part reads the versions that a replay makes of a set of      *)
(* events.  The third carries it over the steps: the candidate dimension   *)
(* is the replay of a part of the history between the checkpoint and what  *)
(* is loaded, and of all that is loaded while a build works on it.         *)
(***************************************************************************)
EXTENDS Scd2Dimension, FiniteSetTheorems, TLAPS

--------------------------------------------------------------------------------
(* The order of the events.                                                 *)

LEMMA NatMin ==
    ASSUME NEW T \in SUBSET Nat, T # {}
    PROVE  \E n \in T : \A m \in T : n <= m
<1>. DEFINE R == {ss \in Nat \X Nat : ss[1] < ss[2]}
<1>1. OpToRel(<, Nat) = R
  BY DEF OpToRel
<1>2. IsWellFoundedOn(R, Nat)
  BY <1>1, NatLessThanWellFounded
<1>3. \A m, n \in Nat : m < n => <<m, n>> \in R
  OBVIOUS
<1>. HIDE DEF R
<1>4. PICK n \in T : \A m \in T : <<m, n>> \notin R
  BY <1>2, WFMin
<1>5. ASSUME NEW m \in T PROVE n <= m
  <2>1. m \in Nat /\ n \in Nat /\ <<m, n>> \notin R
    BY <1>4
  <2>2. ~(m < n)
    BY <1>3, <2>1
  <2>. QED BY <2>1, <2>2
<1>. QED BY <1>5

Major(e) == 2 * e.time + (IF e.channel = "cdc" THEN 1 ELSE 0)
Rank(e) == Major(e) * (MaxChanges + 1) + e.change
HighestRank == (2 * MaxTime + 1) * (MaxChanges + 1) + MaxChanges

LEMMA EventFields ==
    \A e \in Events : /\ e.time \in 1..MaxTime /\ e.channel \in Channels /\ e.change \in 1..MaxChanges
                      /\ e.time \in Nat /\ e.change \in Nat /\ Major(e) \in Nat /\ Major(e) <= 2 * MaxTime + 1
  BY Scd2DimensionAssumption DEF Events, Channels, Major

LEMMA SameFields ==
    \A e, f \in Events : e.time = f.time /\ e.channel = f.channel /\ e.change = f.change => e = f
  BY DEF Events

(* Numbers in two digits compare as the digits do. *)
LEMMA TwoDigits ==
    ASSUME NEW a \in Nat, NEW b \in Nat, NEW w \in Nat, NEW m \in 1..w, NEW n \in 1..w
    PROVE  /\ a < b => a * (w + 1) + m < b * (w + 1) + n
           /\ a = b => (a * (w + 1) + m < b * (w + 1) + n <=> m < n)
<1>1. ASSUME a < b PROVE a * (w + 1) + m < b * (w + 1) + n
  <2>1. PICK d \in Nat : b = a + 1 + d
    <3>1. b - a - 1 \in Nat /\ b = a + 1 + (b - a - 1)
      BY <1>1
    <3>. QED BY <3>1
  <2>2. b * (w + 1) = a * (w + 1) + (w + 1) + d * (w + 1) /\ d * (w + 1) \in Nat /\ a * (w + 1) \in Nat
    BY <2>1
  <2>. QED BY <2>2
<1>2. a = b => (a * (w + 1) + m < b * (w + 1) + n <=> m < n)
  <2>1. a * (w + 1) \in Nat
    OBVIOUS
  <2>. QED BY <2>1
<1>. QED BY <1>1, <1>2

LEMMA RankOrders ==
    ASSUME NEW e \in Events, NEW f \in Events
    PROVE  /\ Rank(e) \in Nat /\ Rank(f) \in Nat
           /\ Before(e, f) <=> Rank(e) < Rank(f)
           /\ Rank(e) = Rank(f) => e = f
<1>. USE Scd2DimensionAssumption
<1>1. /\ Major(e) \in Nat /\ Major(f) \in Nat
      /\ e.change \in 1..MaxChanges /\ f.change \in 1..MaxChanges
      /\ e.time \in Nat /\ f.time \in Nat /\ e.channel \in Channels /\ f.channel \in Channels
  BY EventFields
<1>2. /\ Major(e) < Major(f) <=> \/ e.time < f.time
                                 \/ e.time = f.time /\ e.channel = "batch" /\ f.channel = "cdc"
      /\ Major(e) = Major(f) <=> e.time = f.time /\ e.channel = f.channel
  <2>1. /\ Major(e) = 2 * e.time + (IF e.channel = "cdc" THEN 1 ELSE 0)
        /\ Major(f) = 2 * f.time + (IF f.channel = "cdc" THEN 1 ELSE 0)
    BY DEF Major
  <2>2. e.channel = "batch" \/ e.channel = "cdc"
    BY <1>1 DEF Channels
  <2>3. f.channel = "batch" \/ f.channel = "cdc"
    BY <1>1 DEF Channels
  <2>. QED BY <1>1, <2>1, <2>2, <2>3
<1>3. /\ Major(e) < Major(f) => Rank(e) < Rank(f)
      /\ Major(f) < Major(e) => Rank(f) < Rank(e)
      /\ Major(e) = Major(f) => (Rank(e) < Rank(f) <=> e.change < f.change)
      /\ Major(e) = Major(f) => (Rank(f) < Rank(e) <=> f.change < e.change)
  <2>. DEFINE w == MaxChanges
  <2>1. Rank(e) = Major(e) * (w + 1) + e.change /\ Rank(f) = Major(f) * (w + 1) + f.change
    BY DEF Rank
  <2>2. w \in Nat /\ e.change \in 1..w /\ f.change \in 1..w
    BY <1>1
  <2>. HIDE DEF w
  <2>3. /\ Major(e) < Major(f) =>
             Major(e) * (w + 1) + e.change < Major(f) * (w + 1) + f.change
        /\ Major(e) = Major(f) =>
             (Major(e) * (w + 1) + e.change < Major(f) * (w + 1) + f.change
                <=> e.change < f.change)
    BY <1>1, <2>2, TwoDigits
  <2>4. /\ Major(f) < Major(e) =>
             Major(f) * (w + 1) + f.change < Major(e) * (w + 1) + e.change
        /\ Major(f) = Major(e) =>
             (Major(f) * (w + 1) + f.change < Major(e) * (w + 1) + e.change
                <=> f.change < e.change)
    BY <1>1, <2>2, TwoDigits
  <2>5. Major(e) < Major(f) => Rank(e) < Rank(f)
    BY <2>1, <2>3
  <2>6. Major(f) < Major(e) => Rank(f) < Rank(e)
    BY <2>1, <2>4
  <2>7. Major(e) = Major(f) => (Rank(e) < Rank(f) <=> e.change < f.change)
    BY <2>1, <2>3
  <2>8. Major(e) = Major(f) => (Rank(f) < Rank(e) <=> f.change < e.change)
    BY <2>1, <2>4
  <2>. QED BY <2>5, <2>6, <2>7, <2>8
<1>4. Rank(e) \in Nat /\ Rank(f) \in Nat
  BY <1>1 DEF Rank
<1>5. Before(e, f) <=> Major(e) < Major(f) \/ (Major(e) = Major(f) /\ e.change < f.change)
  BY <1>1, <1>2 DEF Before
<1>6. Before(e, f) <=> Rank(e) < Rank(f)
  BY <1>1, <1>3, <1>4, <1>5
<1>7. Rank(e) = Rank(f) => Major(e) = Major(f) /\ e.change = f.change
  BY <1>1, <1>3, <1>4
<1>8. Rank(e) = Rank(f) => e = f
  BY <1>2, <1>7, SameFields
<1>. QED BY <1>4, <1>6, <1>8

LEMMA RankIsBounded == \A e \in Events : HighestRank - Rank(e) \in Nat
<1>. SUFFICES ASSUME NEW e \in Events PROVE HighestRank - Rank(e) \in Nat
  OBVIOUS
<1>. USE Scd2DimensionAssumption
<1>1. /\ Major(e) \in Nat /\ Major(e) <= 2 * MaxTime + 1
      /\ e.change \in Nat /\ e.change <= MaxChanges
  BY EventFields
<1>2. PICK d \in Nat : 2 * MaxTime + 1 = Major(e) + d
  <2>1. 2 * MaxTime + 1 - Major(e) \in Nat
    BY <1>1
  <2>. QED BY <1>1, <2>1
<1>3. HighestRank = Major(e) * (MaxChanges + 1) + d * (MaxChanges + 1) + MaxChanges
  <2>1. \A a, b, w \in Nat : (a + b) * (w + 1) = a * (w + 1) + b * (w + 1)
    OBVIOUS
  <2>2. (Major(e) + d) * (MaxChanges + 1) = Major(e) * (MaxChanges + 1) + d * (MaxChanges + 1)
    BY <1>1, <1>2, <2>1
  <2>. QED BY <1>2, <2>2 DEF HighestRank
<1>4. d * (MaxChanges + 1) \in Nat /\ Major(e) * (MaxChanges + 1) \in Nat
  BY <1>1, <1>2
<1>. QED BY <1>1, <1>3, <1>4 DEF Rank

(* _event_order_columns order the events of a history strictly and totally. *)
LEMMA BeforeIsOrder ==
    ASSUME NEW e \in Events, NEW f \in Events, NEW g \in Events
    PROVE  /\ ~Before(e, e)
           /\ Before(e, f) => ~Before(f, e) /\ e # f /\ e.time <= f.time
           /\ e = f \/ Before(e, f) \/ Before(f, e)
           /\ Before(e, f) /\ Before(f, g) => Before(e, g)
           /\ e.time < f.time => Before(e, f)
<1>1. /\ Rank(e) \in Nat /\ Rank(f) \in Nat /\ Rank(g) \in Nat
      /\ Before(e, e) <=> Rank(e) < Rank(e)
      /\ Before(e, f) <=> Rank(e) < Rank(f)
      /\ Before(f, e) <=> Rank(f) < Rank(e)
      /\ Before(f, g) <=> Rank(f) < Rank(g)
      /\ Before(e, g) <=> Rank(e) < Rank(g)
      /\ Rank(e) = Rank(f) => e = f
  BY RankOrders
<1>2. /\ e.time < f.time => Before(e, f)
      /\ Before(e, f) => e.time <= f.time
  BY EventFields DEF Before
<1>. QED BY <1>1, <1>2

(* A proof may go up the history. *)
LEMMA EventInduct ==
    ASSUME NEW E, E \subseteq Events, NEW G,
           \A e \in E : (\A f \in E : Before(f, e) => f \in G) => e \in G
    PROVE  \A e \in E : e \in G
<1>. SUFFICES ASSUME NEW x \in E, x \notin G PROVE FALSE
  OBVIOUS
<1>. DEFINE ranks == {Rank(e) : e \in E \ G}
<1>1. ranks \in SUBSET Nat /\ ranks # {}
  BY RankOrders
<1>2. PICK n \in ranks : \A m \in ranks : n <= m
  <2>. HIDE DEF ranks
  <2>. QED BY <1>1, NatMin
<1>3. PICK e \in E \ G : n = Rank(e)
  BY <1>2
<1>4. ASSUME NEW f \in E, Before(f, e) PROVE f \in G
  <2>1. Rank(f) < Rank(e) /\ Rank(e) \in Nat /\ Rank(f) \in Nat
    BY <1>3, <1>4, RankOrders
  <2>2. f \notin G => Rank(f) \in ranks
    OBVIOUS
  <2>. HIDE DEF ranks
  <2>. QED BY <1>2, <1>3, <2>1, <2>2
<1>. QED BY <1>3, <1>4

SomeEvents(E) == E \subseteq Events /\ E # {}
IsFirst(e, events) == e \in events /\ \A f \in events \ {e} : Before(e, f)
IsLast(e, events) == e \in events /\ \A f \in events \ {e} : Before(f, e)

LEMMA FirstIsFirst ==
    ASSUME NEW E, SomeEvents(E)
    PROVE  IsFirst(First(E), E) /\ \A e : IsFirst(e, E) => e = First(E)
<1>. DEFINE ranks == {Rank(e) : e \in E}
<1>1. ranks \in SUBSET Nat /\ ranks # {}
  BY RankOrders DEF SomeEvents
<1>2. PICK n \in ranks : \A m \in ranks : n <= m
  <2>. HIDE DEF ranks
  <2>. QED BY <1>1, NatMin
<1>3. PICK e \in E : n = Rank(e)
  BY <1>2
<1>4. IsFirst(e, E)
  <2>. SUFFICES ASSUME NEW f \in E \ {e} PROVE Before(e, f)
    BY DEF IsFirst
  <2>1. Rank(e) <= Rank(f)
    <3>1. Rank(f) \in ranks
      OBVIOUS
    <3>. HIDE DEF ranks
    <3>. QED BY <1>2, <1>3, <3>1
  <2>2. /\ Rank(e) \in Nat /\ Rank(f) \in Nat /\ Rank(e) # Rank(f)
        /\ Before(e, f) <=> Rank(e) < Rank(f)
    BY RankOrders DEF SomeEvents
  <2>. QED BY <2>1, <2>2
<1>5. IsFirst(First(E), E)
  BY <1>4 DEF IsFirst, First
<1>6. ASSUME NEW g, IsFirst(g, E) PROVE g = First(E)
  BY <1>5, <1>6, BeforeIsOrder DEF IsFirst, SomeEvents
<1>. QED BY <1>5, <1>6

LEMMA LastIsLast ==
    ASSUME NEW E, SomeEvents(E)
    PROVE  IsLast(Last(E), E) /\ \A e : IsLast(e, E) => e = Last(E)
<1>. DEFINE depths == {HighestRank - Rank(e) : e \in E}
<1>1. depths \in SUBSET Nat /\ depths # {}
  BY RankIsBounded DEF SomeEvents
<1>2. PICK n \in depths : \A m \in depths : n <= m
  <2>. HIDE DEF depths
  <2>. QED BY <1>1, NatMin
<1>3. PICK e \in E : n = HighestRank - Rank(e)
  BY <1>2
<1>4. IsLast(e, E)
  <2>. SUFFICES ASSUME NEW f \in E \ {e} PROVE Before(f, e)
    BY DEF IsLast
  <2>1. HighestRank - Rank(e) <= HighestRank - Rank(f)
    <3>1. HighestRank - Rank(f) \in depths
      OBVIOUS
    <3>. HIDE DEF depths
    <3>. QED BY <1>2, <1>3, <3>1
  <2>2. /\ Rank(e) \in Nat /\ Rank(f) \in Nat /\ Rank(e) # Rank(f)
        /\ Before(f, e) <=> Rank(f) < Rank(e)
    BY RankOrders DEF SomeEvents
  <2>3. HighestRank \in Nat
    BY Scd2DimensionAssumption DEF HighestRank
  <2>. QED BY <2>1, <2>2, <2>3
<1>5. IsLast(Last(E), E)
  BY <1>4 DEF IsLast, Last
<1>6. ASSUME NEW g, IsLast(g, E) PROVE g = Last(E)
  BY <1>5, <1>6, BeforeIsOrder DEF IsLast, SomeEvents
<1>. QED BY <1>5, <1>6

--------------------------------------------------------------------------------
(* The versions that the replay makes of a set of events.                   *)

Bounds(E) == Type2Starts(E) \cup Deletes(E)
Later(e, E) == {b \in Bounds(E) : Before(e, b)}
VersionIn(e, E) == VersionOf(e, e = First(Type2Starts(E)), Later(e, E))
Dim(E) == {VersionIn(e, E) : e \in Type2Starts(E)}

LEMMA ReplayIsDim == \A h : Replay(h) = Dim(History(h))
  BY DEF Replay, Dim, VersionIn, Later, Bounds

(* e shows what s began: nothing begins or ends between them. *)
Shows(s, e, E) ==
    /\ s = e \/ Before(s, e)
    /\ Attr(s) = Attr(e)
    /\ \A b \in Bounds(E) : Before(s, b) => b # e /\ ~Before(b, e)

LEMMA BoundsAreEvents ==
    ASSUME NEW E, E \subseteq Events
    PROVE  /\ Bounds(E) \subseteq E /\ Type2Starts(E) \subseteq Bounds(E)
           /\ \A e \in Type2Starts(E) : Op(e) # "DELETE"
           /\ \A e \in Bounds(E) : Op(e) = "DELETE" \/ e \in Type2Starts(E)
           /\ \A e \in E : Op(e) = "DELETE" => e \in Bounds(E)
  BY DEF Bounds, Type2Starts, Deletes

(* Every event that is no DELETE shows what some Type 2 event began: going  *)
(* up the history, one that begins nothing follows an event with its        *)
(* attributes.                                                              *)
LEMMA StartBelow ==
    ASSUME NEW E, E \subseteq Events
    PROVE  \A e \in E : Op(e) # "DELETE" => \E s \in Type2Starts(E) : Shows(s, e, E)
<1>. DEFINE G == {e \in E : Op(e) # "DELETE" => \E s \in Type2Starts(E) : Shows(s, e, E)}
<1>1. ASSUME NEW e \in E, \A f \in E : Before(f, e) => f \in G
      PROVE  e \in G
  <2>. SUFFICES ASSUME Op(e) # "DELETE" PROVE \E s \in Type2Starts(E) : Shows(s, e, E)
    OBVIOUS
  <2>1. CASE e \in Type2Starts(E)
    <3>1. \A b \in Bounds(E) : Before(e, b) => b # e /\ ~Before(b, e)
      BY BeforeIsOrder, BoundsAreEvents
    <3>2. Shows(e, e, E)
      BY <3>1 DEF Shows
    <3>. QED BY <2>1, <3>2
  <2>2. CASE e \notin Type2Starts(E)
    <3>. DEFINE earlier == {f \in E : Before(f, e)}
                alive == {f \in earlier : Op(f) # "DELETE"}
    <3>1. alive # {} /\ Attr(e) = Attr(Last(alive)) /\ Op(Last(earlier)) # "DELETE"
      BY <2>2 DEF Type2Starts
    <3>2. SomeEvents(earlier) /\ SomeEvents(alive)
      BY <3>1 DEF SomeEvents
    <3>3. IsLast(Last(earlier), earlier)
      <4>. HIDE DEF earlier
      <4>. QED BY <3>2, LastIsLast
    <3>4. Last(earlier) \in alive
      BY <3>1, <3>3 DEF IsLast
    <3>5. IsLast(Last(earlier), alive)
      BY <3>3, <3>4 DEF IsLast
    <3>6. Last(earlier) = Last(alive)
      <4>. HIDE DEF earlier, alive
      <4>. QED BY <3>2, <3>5, LastIsLast
    <3>7. PICK l \in E : /\ l = Last(earlier) /\ Before(l, e) /\ Attr(l) = Attr(e) /\ Op(l) # "DELETE"
                         /\ \A f \in E : Before(f, e) => f = l \/ Before(f, l)
      BY <3>1, <3>3, <3>6 DEF IsLast
    <3>8. PICK s \in Type2Starts(E) : Shows(s, l, E)
      BY <1>1, <3>7
    <3>9. Before(s, e)
      BY <3>7, <3>8, BeforeIsOrder, BoundsAreEvents DEF Shows
    <3>10. ASSUME NEW b \in Bounds(E), Before(s, b) PROVE b # e /\ ~Before(b, e)
      <4>1. b # e
        BY <2>2, BoundsAreEvents
      <4>2. b # l /\ ~Before(b, l)
        BY <3>8, <3>10 DEF Shows
      <4>. QED BY <3>7, <4>1, <4>2, BoundsAreEvents
    <3>11. Shows(s, e, E)
      BY <3>7, <3>8, <3>9, <3>10 DEF Shows
    <3>. QED BY <3>11
  <2>. QED BY <2>1, <2>2
<1>2. \A e \in E : e \in G
  <2>. HIDE DEF G
  <2>. QED BY <1>1, EventInduct
<1>. QED BY <1>2

(* The customer of the history is created before anything else happens.     *)
Opens(E) == SomeEvents(E) /\ Op(First(E)) # "DELETE"

(* The first event, which is no DELETE, begins the first version.           *)
LEMMA FirstStart ==
    ASSUME NEW E, Opens(E)
    PROVE  First(E) \in Type2Starts(E) /\ First(E) = First(Type2Starts(E))
<1>1. IsFirst(First(E), E) /\ E \subseteq Events /\ SomeEvents(E)
  BY FirstIsFirst DEF Opens, SomeEvents
<1>2. {f \in E : Before(f, First(E))} = {}
  BY <1>1, BeforeIsOrder DEF IsFirst
<1>3. First(E) \in Type2Starts(E)
  BY <1>1, <1>2 DEF Type2Starts, Opens, IsFirst
<1>4. IsFirst(First(E), Type2Starts(E)) /\ SomeEvents(Type2Starts(E))
  BY <1>1, <1>3 DEF IsFirst, Type2Starts, SomeEvents
<1>5. First(E) = First(Type2Starts(E))
  BY <1>4, FirstIsFirst
<1>. QED BY <1>3, <1>5

(* What a version says, in terms of the event that began it. *)
LEMMA VersionFacts ==
    ASSUME NEW E, E \subseteq Events, NEW e \in Type2Starts(E)
    PROVE  /\ VersionIn(e, E).attr = Attr(e)
           /\ VersionIn(e, E).from =
                IF e = First(Type2Starts(E)) /\ CreatedAt < e.time THEN CreatedAt ELSE e.time
           /\ \A t \in 1..MaxTime :
                t < VersionIn(e, E).to <=> \A b \in Bounds(E) : Before(e, b) => t < b.time
           /\ VersionIn(e, E).current <=> \A b \in Bounds(E) : ~Before(e, b)
           /\ VersionIn(e, E).deleted <=> Later(e, E) # {} /\ Op(First(Later(e, E))) = "DELETE"
           /\ VersionIn(e, E).to = IF Later(e, E) = {} THEN Open ELSE First(Later(e, E)).time
<1>1. /\ VersionIn(e, E).attr = Attr(e)
      /\ VersionIn(e, E).from =
           IF e = First(Type2Starts(E)) /\ CreatedAt < e.time THEN CreatedAt ELSE e.time
      /\ VersionIn(e, E).to = IF Later(e, E) = {} THEN Open ELSE First(Later(e, E)).time
      /\ VersionIn(e, E).current = (Later(e, E) = {})
      /\ VersionIn(e, E).deleted = (Later(e, E) # {} /\ Op(First(Later(e, E))) = "DELETE")
  BY DEF VersionIn, VersionOf
<1>2. VersionIn(e, E).current <=> \A b \in Bounds(E) : ~Before(e, b)
  BY <1>1 DEF Later
<1>3. ASSUME NEW t \in 1..MaxTime
      PROVE  t < VersionIn(e, E).to <=> \A b \in Bounds(E) : Before(e, b) => t < b.time
  <2>1. CASE Later(e, E) = {}
    BY <1>1, <2>1, Scd2DimensionAssumption DEF Open, Later
  <2>2. CASE Later(e, E) # {}
    <3>1. SomeEvents(Later(e, E))
      BY <2>2, BoundsAreEvents DEF Later, SomeEvents
    <3>2. IsFirst(First(Later(e, E)), Later(e, E))
      BY <3>1, FirstIsFirst
    <3>3. PICK n \in Later(e, E) : /\ n = First(Later(e, E)) /\ n \in Events
                                   /\ \A b \in Later(e, E) : b = n \/ Before(n, b)
      BY <3>1, <3>2 DEF IsFirst, SomeEvents
    <3>4. \A b \in Later(e, E) : n.time <= b.time
      BY <3>1, <3>3, BeforeIsOrder, EventFields DEF SomeEvents
    <3>5. VersionIn(e, E).to = n.time
      BY <1>1, <2>2, <3>3
    <3>6. \A b \in Later(e, E) : b.time \in Nat
      BY <3>1, EventFields DEF SomeEvents
    <3>7. t < n.time <=> \A b \in Later(e, E) : t < b.time
      BY <3>3, <3>4, <3>6
    <3>. QED BY <3>5, <3>7 DEF Later
  <2>. QED BY <2>1, <2>2
<1>. QED BY <1>1, <1>2, <1>3

(* Of the starts up to e only the one that e shows lasts until e. *)
LEMMA ShownIsLast ==
    ASSUME NEW E, E \subseteq Events, NEW e \in E, NEW s \in Type2Starts(E), Shows(s, e, E),
           NEW f \in Type2Starts(E), f = e \/ Before(f, e),
           \A b \in Bounds(E) : Before(f, b) => b # e /\ ~Before(b, e)
    PROVE  f = s
<1>1. s \in Events /\ f \in Events /\ s \in Bounds(E) /\ f \in Bounds(E)
  BY BoundsAreEvents
<1>2. ~Before(f, s)
  BY <1>1 DEF Shows
<1>3. ~Before(s, f)
  BY <1>1 DEF Shows
<1>. QED BY <1>1, <1>2, <1>3, BeforeIsOrder

(* For each time the dimension says what the last event up to then says.    *)
LEMMA DimSays ==
    ASSUME NEW E, Opens(E), CreatedAt = 1, NEW t \in 1..MaxTime
    PROVE  {v.attr : v \in AsOf(Dim(E), t)} = AttrsOfHistory(E, t)
<1>. DEFINE past == {e \in E : e.time <= t}
            said == {v.attr : v \in AsOf(Dim(E), t)}
<1>1. SomeEvents(E) /\ E \subseteq Events
  BY DEF Opens, SomeEvents
<1>2. PICK f \in Type2Starts(E) : /\ f = First(E) /\ f = First(Type2Starts(E)) /\ Op(f) # "DELETE"
                                  /\ f \in E /\ \A e \in E : e = f \/ Before(f, e)
  BY <1>1, FirstStart, FirstIsFirst DEF Opens, IsFirst
<1>3. \A e \in E : f.time <= e.time /\ e.time \in 1..MaxTime /\ f.time \in 1..MaxTime
  <2>. SUFFICES ASSUME NEW e \in E PROVE f.time <= e.time /\ e.time \in 1..MaxTime /\ f.time \in 1..MaxTime
    OBVIOUS
  <2>1. f \in Events /\ e \in Events
    BY <1>1, <1>2
  <2>. QED BY <1>2, <2>1, BeforeIsOrder, EventFields
<1>4. \A e \in Type2Starts(E) :
         VersionIn(e, E) \in AsOf(Dim(E), t) <=>
            /\ e = f \/ e.time <= t
            /\ \A b \in Bounds(E) : Before(e, b) => t < b.time
  <2>. SUFFICES ASSUME NEW e \in Type2Starts(E)
                PROVE VersionIn(e, E) \in AsOf(Dim(E), t) <=>
                        /\ e = f \/ e.time <= t
                        /\ \A b \in Bounds(E) : Before(e, b) => t < b.time
    OBVIOUS
  <2>1. VersionIn(e, E) \in Dim(E)
    BY DEF Dim
  <2>2. e \in E
    BY <1>1, BoundsAreEvents
  <2>3. /\ VersionIn(e, E).from = IF e = f /\ 1 < e.time THEN 1 ELSE e.time
        /\ t < VersionIn(e, E).to <=> \A b \in Bounds(E) : Before(e, b) => t < b.time
    BY <1>1, <1>2, VersionFacts
  <2>4. VersionIn(e, E).from <= t <=> e = f \/ e.time <= t
    BY <1>3, <2>2, <2>3
  <2>. QED BY <2>1, <2>3, <2>4 DEF AsOf
<1>5. \A a : a \in said <=> \E e \in Type2Starts(E) : VersionIn(e, E) \in AsOf(Dim(E), t) /\ a = Attr(e)
  <2>1. \A v \in AsOf(Dim(E), t) : \E e \in Type2Starts(E) : v = VersionIn(e, E)
    BY DEF AsOf, Dim
  <2>2. \A e \in Type2Starts(E) : VersionIn(e, E).attr = Attr(e)
    BY <1>1, VersionFacts
  <2>. QED BY <2>1, <2>2
<1>6. CASE past = {}
  <2>1. AttrsOfHistory(E, t) = {Attr(f)}
    BY <1>2, <1>6 DEF AttrsOfHistory
  <2>2. VersionIn(f, E) \in AsOf(Dim(E), t)
    <3>1. \A b \in Bounds(E) : t < b.time
      BY <1>1, <1>3, <1>6, BoundsAreEvents
    <3>. QED BY <1>4, <3>1
  <2>3. \A e \in Type2Starts(E) : VersionIn(e, E) \in AsOf(Dim(E), t) => e = f
    BY <1>1, <1>4, <1>6, BoundsAreEvents
  <2>. HIDE DEF said, past
  <2>4. \A a : a \in said <=> a = Attr(f)
    BY <1>5, <2>2, <2>3
  <2>5. said = {Attr(f)}
    BY <2>4
  <2>. QED BY <2>1, <2>5 DEF said
<1>7. CASE past # {}
  <2>1. SomeEvents(past)
    BY <1>1, <1>7 DEF SomeEvents
  <2>2. IsLast(Last(past), past)
    <3>. HIDE DEF past
    <3>. QED BY <2>1, LastIsLast
  <2>3. PICK l \in E : /\ l = Last(past) /\ l.time <= t
                       /\ \A e \in E : e.time <= t => e = l \/ Before(e, l)
    BY <2>2 DEF IsLast
  <2>4. AttrsOfHistory(E, t) = IF Op(l) = "DELETE" THEN {} ELSE {Attr(l)}
    BY <1>7, <2>3 DEF AttrsOfHistory
  <2>5. \A e \in Type2Starts(E) :
           VersionIn(e, E) \in AsOf(Dim(E), t) <=>
              /\ e = l \/ Before(e, l)
              /\ \A b \in Bounds(E) : Before(e, b) => b # l /\ ~Before(b, l)
    <3>. SUFFICES ASSUME NEW e \in Type2Starts(E)
                  PROVE VersionIn(e, E) \in AsOf(Dim(E), t) <=>
                          /\ e = l \/ Before(e, l)
                          /\ \A b \in Bounds(E) : Before(e, b) => b # l /\ ~Before(b, l)
      OBVIOUS
    <3>1. e \in E /\ e \in Events /\ l \in Events
      BY <1>1, BoundsAreEvents
    <3>2. (e = f \/ e.time <= t) <=> e = l \/ Before(e, l)
      <4>1. e = l \/ Before(e, l) => e.time <= l.time
        BY <3>1, BeforeIsOrder, EventFields
      <4>2. f.time <= t
        BY <1>3, <2>3
      <4>3. e.time \in Nat /\ l.time \in Nat /\ t \in Nat
        BY <3>1, EventFields
      <4>4. e = l \/ Before(e, l) => e.time <= t
        BY <2>3, <4>1, <4>3
      <4>. QED BY <1>2, <2>3, <3>1, <4>2, <4>4
    <3>3. \A b \in Bounds(E) : t < b.time <=> b # l /\ ~Before(b, l)
      <4>. SUFFICES ASSUME NEW b \in Bounds(E) PROVE t < b.time <=> b # l /\ ~Before(b, l)
        OBVIOUS
      <4>1. b \in E /\ b \in Events /\ b.time \in Nat /\ l.time \in Nat /\ t \in Nat
        BY <1>1, <3>1, BoundsAreEvents, EventFields
      <4>2. b = l \/ Before(b, l) => b.time <= l.time
        BY <3>1, <4>1, BeforeIsOrder
      <4>. QED BY <2>3, <4>1, <4>2
    <3>4. VersionIn(e, E) \in AsOf(Dim(E), t) <=>
            /\ e = f \/ e.time <= t
            /\ \A b \in Bounds(E) : Before(e, b) => t < b.time
      BY <1>4
    <3>. QED BY <3>2, <3>3, <3>4
  <2>6. CASE Op(l) = "DELETE"
    <3>1. l \in Bounds(E) /\ \A e \in Type2Starts(E) : e # l
      BY <1>1, <2>6, BoundsAreEvents
    <3>2. \A e \in Type2Starts(E) : VersionIn(e, E) \notin AsOf(Dim(E), t)
      BY <2>5, <3>1
    <3>. HIDE DEF said, past
    <3>3. said = {}
      BY <1>5, <3>2
    <3>. QED BY <2>4, <2>6, <3>3 DEF said
  <2>7. CASE Op(l) # "DELETE"
    <3>1. PICK s \in Type2Starts(E) : Shows(s, l, E)
      BY <1>1, <2>7, StartBelow
    <3>2. VersionIn(s, E) \in AsOf(Dim(E), t) /\ Attr(s) = Attr(l)
      BY <2>5, <3>1 DEF Shows
    <3>3. \A e \in Type2Starts(E) : VersionIn(e, E) \in AsOf(Dim(E), t) => e = s
      BY <1>1, <2>5, <3>1, ShownIsLast
    <3>. HIDE DEF said, past
    <3>4. \A a : a \in said <=> a = Attr(l)
      BY <1>5, <3>2, <3>3
    <3>5. said = {Attr(l)}
      BY <3>4
    <3>. QED BY <2>4, <2>7, <3>5 DEF said
  <2>. QED BY <2>6, <2>7
<1>. QED BY <1>6, <1>7

(* The current version says what the last event says. *)
LEMMA DimShows ==
    ASSUME NEW E, SomeEvents(E)
    PROVE  {v.attr : v \in {w \in Dim(E) : w.current}} =
             IF Op(Last(E)) = "DELETE" THEN {} ELSE {Attr(Last(E))}
<1>. DEFINE said == {v.attr : v \in {w \in Dim(E) : w.current}}
<1>1. E \subseteq Events
  BY DEF SomeEvents
<1>2. PICK l \in E : l = Last(E) /\ \A e \in E : e = l \/ Before(e, l)
  BY LastIsLast DEF IsLast
<1>3. \A e \in Type2Starts(E) :
         VersionIn(e, E).current <=> \A b \in Bounds(E) : Before(e, b) => b # l /\ ~Before(b, l)
  <2>1. \A b \in Bounds(E) : b = l \/ Before(b, l)
    BY <1>1, <1>2, BoundsAreEvents
  <2>. QED BY <1>1, <2>1, VersionFacts
<1>4. \A a : a \in said <=> \E e \in Type2Starts(E) : VersionIn(e, E).current /\ a = Attr(e)
  <2>1. \A v \in Dim(E) : \E e \in Type2Starts(E) : v = VersionIn(e, E)
    BY DEF Dim
  <2>2. \A e \in Type2Starts(E) : VersionIn(e, E) \in Dim(E) /\ VersionIn(e, E).attr = Attr(e)
    BY <1>1, VersionFacts DEF Dim
  <2>. QED BY <2>1, <2>2
<1>5. \A e \in Type2Starts(E) : e = l \/ Before(e, l)
  BY <1>1, <1>2, BoundsAreEvents
<1>6. CASE Op(l) = "DELETE"
  <2>1. \A e \in Type2Starts(E) : ~VersionIn(e, E).current
    BY <1>1, <1>3, <1>5, <1>6, BoundsAreEvents
  <2>. HIDE DEF said
  <2>2. said = {}
    BY <1>4, <2>1
  <2>. QED BY <1>2, <1>6, <2>2 DEF said
<1>7. CASE Op(l) # "DELETE"
  <2>1. PICK s \in Type2Starts(E) : Shows(s, l, E)
    BY <1>1, <1>7, StartBelow
  <2>2. VersionIn(s, E).current /\ Attr(s) = Attr(l)
    BY <1>3, <2>1 DEF Shows
  <2>3. \A e \in Type2Starts(E) : VersionIn(e, E).current => e = s
    BY <1>1, <1>3, <1>5, <2>1, ShownIsLast
  <2>. HIDE DEF said
  <2>4. \A a : a \in said <=> a = Attr(l)
    BY <1>4, <2>2, <2>3
  <2>5. said = {Attr(l)}
    BY <2>4
  <2>. QED BY <1>2, <1>7, <2>5 DEF said
<1>. QED BY <1>6, <1>7

NoTies(E) == \A e, f \in Bounds(E) : e # f => e.time # f.time

(* Without two boundaries at one time the gate accepts the replay.          *)
LEMMA DimValid ==
    ASSUME NEW E, SomeEvents(E), NoTies(E), CreatedAt = 1
    PROVE  ValidScd2(Dim(E))
<1>. DEFINE S == Type2Starts(E)
            current == {v \in Dim(E) : v.current}
<1>1. E \subseteq Events /\ S \subseteq Bounds(E) /\ Bounds(E) \subseteq E /\ Bounds(E) \subseteq Events
  BY BoundsAreEvents DEF SomeEvents
<1>2. \A e \in Bounds(E) : e.time \in 1..MaxTime /\ e.time \in Nat /\ e.time < Open
  BY <1>1, EventFields, Scd2DimensionAssumption DEF Open
<1>3. \A v \in Dim(E) : \E e \in S : v = VersionIn(e, E)
  BY DEF Dim
<1>4. \A e \in S : VersionIn(e, E) \in Dim(E) /\ VersionIn(e, E).from <= e.time /\ VersionIn(e, E).from \in Nat
  <2>. SUFFICES ASSUME NEW e \in S
                PROVE VersionIn(e, E) \in Dim(E) /\ VersionIn(e, E).from <= e.time /\ VersionIn(e, E).from \in Nat
    OBVIOUS
  <2>1. e.time \in Nat
    BY <1>1, <1>2
  <2>2. VersionIn(e, E).from = IF e = First(Type2Starts(E)) /\ 1 < e.time THEN 1 ELSE e.time
    BY <1>1, VersionFacts
  <2>. QED BY <2>1, <2>2 DEF Dim
<1>5. \A e \in S : Later(e, E) # {} =>
         \E n \in Bounds(E) : /\ n = First(Later(e, E)) /\ Before(e, n) /\ VersionIn(e, E).to = n.time
                              /\ \A b \in Bounds(E) : Before(e, b) => b = n \/ Before(n, b)
  <2>. SUFFICES ASSUME NEW e \in S, Later(e, E) # {}
                PROVE \E n \in Bounds(E) : /\ n = First(Later(e, E)) /\ Before(e, n) /\ VersionIn(e, E).to = n.time
                                           /\ \A b \in Bounds(E) : Before(e, b) => b = n \/ Before(n, b)
    OBVIOUS
  <2>1. SomeEvents(Later(e, E))
    BY <1>1 DEF SomeEvents, Later
  <2>2. IsFirst(First(Later(e, E)), Later(e, E))
    BY <2>1, FirstIsFirst
  <2>3. VersionIn(e, E).to = First(Later(e, E)).time
    BY <1>1, VersionFacts
  <2>. QED BY <2>2, <2>3 DEF IsFirst, Later
<1>6. Cardinality(current) <= 1
  <2>1. \A v, w \in current : v = w
    <3>. SUFFICES ASSUME NEW v \in current, NEW w \in current PROVE v = w
      OBVIOUS
    <3>1. PICK e \in S : v = VersionIn(e, E)
      BY <1>3
    <3>2. PICK f \in S : w = VersionIn(f, E)
      BY <1>3
    <3>3. ~Before(e, f) /\ ~Before(f, e)
      BY <1>1, <3>1, <3>2, VersionFacts
    <3>4. e = f
      BY <1>1, <3>3, BeforeIsOrder
    <3>. QED BY <3>1, <3>2, <3>4
  <2>2. CASE current = {}
    BY <2>2, FS_EmptySet
  <2>3. CASE current # {}
    <3>1. PICK v \in current : TRUE
      BY <2>3
    <3>. HIDE DEF current
    <3>2. current = {v}
      BY <2>1, <3>1
    <3>3. Cardinality(current) = 1
      BY <3>2, FS_Singleton
    <3>. QED BY <3>3
  <2>. QED BY <2>2, <2>3
<1>7. Dim(E) # {} /\ current = {} => \E v \in Dim(E) : v.deleted
  <2>. SUFFICES ASSUME Dim(E) # {}, current = {} PROVE \E v \in Dim(E) : v.deleted
    OBVIOUS
  <2>1. SomeEvents(S)
    BY <1>1, <1>3 DEF SomeEvents
  <2>2. PICK s \in S : \A e \in S : e = s \/ Before(e, s)
    <3>1. IsLast(Last(S), S)
      BY <2>1, LastIsLast
    <3>. QED BY <3>1 DEF IsLast
  <2>3. VersionIn(s, E) \in Dim(E) /\ ~VersionIn(s, E).current
    BY <1>4
  <2>4. Later(s, E) # {}
    BY <1>1, <2>3, VersionFacts DEF Later
  <2>5. PICK n \in Bounds(E) : n = First(Later(s, E)) /\ Before(s, n)
    BY <1>5, <2>4
  <2>6. n \notin S
    BY <1>1, <2>2, <2>5, BeforeIsOrder
  <2>7. Op(n) = "DELETE"
    BY <1>1, <2>6, BoundsAreEvents
  <2>8. VersionIn(s, E).deleted
    BY <1>1, <2>4, <2>5, <2>7, VersionFacts
  <2>. QED BY <2>3, <2>8
<1>8. \A v \in Dim(E) : v.from < v.to
  <2>. SUFFICES ASSUME NEW e \in S PROVE VersionIn(e, E).from < VersionIn(e, E).to
    BY <1>3
  <2>2. CASE Later(e, E) = {}
    <3>1. VersionIn(e, E).to = Open
      BY <1>1, <2>2, VersionFacts
    <3>2. Open \in Nat
      BY Scd2DimensionAssumption DEF Open
    <3>. QED BY <1>1, <1>2, <1>4, <3>1, <3>2
  <2>3. CASE Later(e, E) # {}
    <3>1. PICK n \in Bounds(E) : Before(e, n) /\ VersionIn(e, E).to = n.time
      BY <1>5, <2>3
    <3>2. e \in Events /\ n \in Events /\ e # n /\ e.time <= n.time
      BY <1>1, <3>1, BeforeIsOrder
    <3>3. e.time # n.time /\ e.time \in Nat /\ n.time \in Nat
      BY <1>1, <1>2, <3>2 DEF NoTies
    <3>. QED BY <1>4, <3>1, <3>2, <3>3
  <2>. QED BY <2>2, <2>3
<1>9. \A v, w \in Dim(E) : v # w /\ v.from <= w.from => v.to <= w.from
  <2>. SUFFICES ASSUME NEW e \in S, NEW f \in S, VersionIn(e, E) # VersionIn(f, E),
                       VersionIn(e, E).from <= VersionIn(f, E).from
                PROVE  VersionIn(e, E).to <= VersionIn(f, E).from
    BY <1>3
  <2>1. e # f /\ e \in Events /\ f \in Events /\ e \in Bounds(E) /\ f \in Bounds(E) /\ SomeEvents(S)
    BY <1>1 DEF SomeEvents
  <2>2. /\ e.time \in Nat /\ f.time \in Nat /\ e.time # f.time
        /\ VersionIn(e, E).from \in Nat /\ VersionIn(f, E).from \in Nat
        /\ VersionIn(e, E).from <= e.time /\ VersionIn(f, E).from <= f.time
    BY <1>2, <1>4, <2>1 DEF NoTies
  <2>3. \A g \in S : g = First(S) \/ Before(First(S), g)
    BY <2>1, FirstIsFirst DEF IsFirst
  <2>4. First(S) \in Events
    BY <1>1, <2>1, FirstIsFirst DEF IsFirst
  <2>5. \A g \in S : g # First(S) => VersionIn(g, E).from = g.time
    BY <1>1, VersionFacts
  <2>6. CASE Before(e, f)
    <3>1. f # First(S)
      BY <2>1, <2>3, <2>4, <2>6, BeforeIsOrder
    <3>2. Later(e, E) # {}
      BY <2>1, <2>6 DEF Later
    <3>3. PICK n \in Bounds(E) : /\ VersionIn(e, E).to = n.time
                                 /\ \A b \in Bounds(E) : Before(e, b) => b = n \/ Before(n, b)
      BY <1>5, <3>2
    <3>4. n.time <= f.time
      BY <1>1, <1>2, <2>1, <2>6, <3>3, BeforeIsOrder
    <3>. QED BY <2>5, <3>1, <3>3, <3>4
  <2>7. CASE Before(f, e)
    <3>1. e # First(S)
      BY <2>1, <2>3, <2>4, <2>7, BeforeIsOrder
    <3>2. f.time <= e.time
      BY <2>1, <2>7, BeforeIsOrder
    <3>. QED BY <2>2, <2>5, <3>1, <3>2
  <2>. QED BY <2>1, <2>6, <2>7, BeforeIsOrder
<1>. QED BY <1>6, <1>7, <1>8, <1>9 DEF ValidScd2

--------------------------------------------------------------------------------
(* The inductive invariant. *)

Histories == [batch : Nat, cdc : Nat]
NotEmpty(h) == h.batch > 0 \/ h.cdc > 0
AtMost(g, h) == g.batch <= h.batch /\ g.cdc <= h.cdc
Available == [batch |-> Len(source), cdc |-> Len(captured)]

(* The customer is inserted at time 1, and deleted last if at all; the      *)
(* clock does not go back, and a change is captured after it is made.       *)
SourceInv ==
    /\ Len(source) <= MaxChanges
    /\ source # <<>> => source[1].op = "INSERT" /\ source[1].time = 1
    /\ \A i \in 1..Len(source) : source[i].op = "DELETE" => i = Len(source)
    /\ \A i, j \in 1..Len(source) : i <= j => source[i].time <= source[j].time
    /\ \A i, j \in 1..Len(captured) : i <= j => captured[i] <= captured[j]
    /\ \A i \in 1..Len(captured) : source[i].time <= captured[i]

(* Nobody deletes a customer with orders, and facts have real keys.         *)
OrdersInv ==
    /\ \A o \in Orders : orders[o] # 0 => Exists
    /\ pending.orders \subseteq InSilver
    /\ gold.facts \in [Orders -> Keys \cup {NoFact}]

(* A replay between the checkpoint and what is loaded. *)
Replayed(dim) ==
    \E h \in [batch : 0..loaded.batch, cdc : 0..loaded.cdc] :
        /\ NotEmpty(h) /\ dim = Replay(h)
        /\ replayed # NoCheckpoint => AtMost(replayed, h)

(* The candidate dimension is the replay of a part of the history; a build  *)
(* that has updated it goes on with the replay of all that is loaded.       *)
CandidateInv ==
    /\ replayed # NoCheckpoint => NotEmpty(replayed)
    /\ release # NoRelease \/ pending.customer \/ build.phase # "idle" => NotEmpty(loaded)
    /\ \/ gold.dim = {} /\ replayed = NoCheckpoint /\ release = NoRelease
       \/ Replayed(gold.dim)
    /\ \/ build.phase \in {"checkpoint", "gate", "fact"}
       \/ build.phase = "publish" /\ pending.customer
       => gold.dim = Replay(loaded)
    /\ build.phase \in {"gate", "fact"} => replayed = loaded
    /\ build.phase = "fact" => build.full
    /\ build.phase \in {"checkpoint", "gate"} /\ ~build.full => pending.customer
    /\ build.phase # "idle" /\ ~build.full => release # NoRelease
    /\ build.phase = "publish" => ~build.full

(* Only a DELETE that left no tombstone makes Silver's row older than an    *)
(* event of the history, and then the stream has nothing more to deliver.   *)
RowInv ==
    /\ row # NoRow => row \in History(loaded)
    /\ \A e \in History(loaded) : row = NoRow \/ Before(row, e) =>
           /\ e.channel = "cdc"
           /\ loaded.cdc = Len(captured) /\ Len(captured) = Len(source)
           /\ source[Len(source)].op = "DELETE"

Behind == \E e \in History(loaded) : Before(row, e)

(* Without a substantive change since the release, the release shows what   *)
(* Silver's row says, or that row is behind; and without the stream the     *)
(* candidate is the replay of everything.                                   *)
PublishedInv ==
    release # NoRelease /\ ~pending.customer =>
        /\ row # NoRow =>
             \/ Behind
             \/ {v.attr : v \in {w \in release.dim : w.current}} =
                  IF Op(row) = "DELETE" THEN {} ELSE {Attr(row)}
        /\ loaded.cdc = 0 => gold.dim = Replay(loaded)

Inv == TypeOK /\ SourceInv /\ OrdersInv /\ CandidateInv /\ RowInv /\ PublishedInv

Sound == TypeOK /\ SourceInv
Within(h) == h \in Histories /\ AtMost(h, Available)

LEMMA LengthsAreNat == Sound => Len(source) \in Nat /\ Len(captured) \in Nat /\ Len(captured) <= Len(source)
  BY DEF Sound, TypeOK

LEMMA SeqElements ==
    ASSUME NEW S, NEW s \in Seq(S)
    PROVE  \A i \in 1..Len(s) : s[i] \in S
  OBVIOUS

LEMMA SourceTyped ==
    Sound => /\ \A i \in 1..Len(source) : /\ source[i].time \in 1..MaxTime
                                          /\ source[i].op \in Ops /\ source[i].attr \in Attrs
             /\ \A i \in 1..Len(captured) : captured[i] \in 1..MaxTime
<1>. SUFFICES ASSUME Sound
              PROVE  /\ \A i \in 1..Len(source) : /\ source[i].time \in 1..MaxTime
                                                   /\ source[i].op \in Ops /\ source[i].attr \in Attrs
                     /\ \A i \in 1..Len(captured) : captured[i] \in 1..MaxTime
  OBVIOUS
<1>1. source \in Seq([time : 1..MaxTime, op : Ops, attr : Attrs]) /\ captured \in Seq(1..MaxTime)
  BY DEF Sound, TypeOK
<1>2. \A i \in 1..Len(source) : source[i] \in [time : 1..MaxTime, op : Ops, attr : Attrs]
  BY <1>1, SeqElements
<1>3. \A i \in 1..Len(captured) : captured[i] \in 1..MaxTime
  BY <1>1, SeqElements
<1>. QED BY <1>2, <1>3

LEMMA LoadedIsWithin == Sound => Within(loaded)
  BY DEF Sound, TypeOK, Within, AtMost, Available, Histories

LEMMA EarlierIsWithin ==
    ASSUME Sound, NEW h \in [batch : 0..loaded.batch, cdc : 0..loaded.cdc]
    PROVE  Within(h)
<1>1. Within(loaded)
  BY LoadedIsWithin
<1>. QED BY <1>1, LengthsAreNat DEF Within, AtMost, Available, Histories

(* The events of a part of the history. *)
LEMMA HistoryEvents ==
    ASSUME Sound, NEW h, Within(h)
    PROVE  /\ \A i \in 1..h.batch : /\ i \in 1..Len(source) /\ BatchEvent(i) \in Events
                                    /\ BatchEvent(i).time = source[i].time
                                    /\ BatchEvent(i).channel = "batch" /\ BatchEvent(i).change = i
           /\ \A i \in 1..h.cdc : /\ i \in 1..Len(source) /\ i \in 1..Len(captured) /\ CdcEvent(i) \in Events
                                  /\ CdcEvent(i).time = captured[i]
                                  /\ CdcEvent(i).channel = "cdc" /\ CdcEvent(i).change = i
           /\ History(h) \subseteq Events
           /\ \A e \in History(h) : /\ e.change \in 1..Len(source) /\ Op(e) \in Ops /\ Attr(e) \in Attrs
                                    /\ \/ e.change \in 1..h.batch /\ e = BatchEvent(e.change)
                                       \/ e.change \in 1..h.cdc /\ e = CdcEvent(e.change)
<1>1. /\ h.batch \in Nat /\ h.cdc \in Nat /\ h.batch <= Len(source) /\ h.cdc <= Len(captured)
      /\ Len(captured) <= Len(source) /\ Len(source) \in Nat /\ Len(captured) \in Nat
      /\ Len(source) <= MaxChanges /\ MaxChanges \in Nat
  BY LengthsAreNat, Scd2DimensionAssumption DEF Within, AtMost, Available, Histories, Sound, SourceInv
<1>2. \A i \in 1..h.batch : /\ i \in 1..Len(source) /\ BatchEvent(i) \in Events
                            /\ BatchEvent(i).time = source[i].time
                            /\ BatchEvent(i).channel = "batch" /\ BatchEvent(i).change = i
  <2>. SUFFICES ASSUME NEW i \in 1..h.batch
                PROVE  /\ i \in 1..Len(source) /\ BatchEvent(i) \in Events
                       /\ BatchEvent(i).time = source[i].time
                       /\ BatchEvent(i).channel = "batch" /\ BatchEvent(i).change = i
    OBVIOUS
  <2>1. i \in 1..Len(source) /\ i \in 1..MaxChanges
    BY <1>1
  <2>2. source[i].time \in 1..MaxTime
    BY <2>1, SourceTyped
  <2>. QED BY <2>1, <2>2 DEF BatchEvent, Events, Channels
<1>3. \A i \in 1..h.cdc : /\ i \in 1..Len(source) /\ i \in 1..Len(captured) /\ CdcEvent(i) \in Events
                          /\ CdcEvent(i).time = captured[i]
                          /\ CdcEvent(i).channel = "cdc" /\ CdcEvent(i).change = i
  <2>. SUFFICES ASSUME NEW i \in 1..h.cdc
                PROVE  /\ i \in 1..Len(source) /\ i \in 1..Len(captured) /\ CdcEvent(i) \in Events
                       /\ CdcEvent(i).time = captured[i]
                       /\ CdcEvent(i).channel = "cdc" /\ CdcEvent(i).change = i
    OBVIOUS
  <2>1. i \in 1..Len(source) /\ i \in 1..MaxChanges /\ i \in 1..Len(captured)
    BY <1>1
  <2>2. captured[i] \in 1..MaxTime
    BY <2>1, SourceTyped
  <2>. QED BY <2>1, <2>2 DEF CdcEvent, Events, Channels
<1>4. \A e \in History(h) : \/ e.change \in 1..h.batch /\ e = BatchEvent(e.change)
                            \/ e.change \in 1..h.cdc /\ e = CdcEvent(e.change)
  <2>. SUFFICES ASSUME NEW e \in History(h)
                PROVE  \/ e.change \in 1..h.batch /\ e = BatchEvent(e.change)
                       \/ e.change \in 1..h.cdc /\ e = CdcEvent(e.change)
    OBVIOUS
  <2>1. CASE \E i \in 1..h.batch : e = BatchEvent(i)
    BY <1>2, <2>1
  <2>2. CASE \E i \in 1..h.cdc : e = CdcEvent(i)
    BY <1>3, <2>2
  <2>. QED BY <2>1, <2>2 DEF History
<1>5. \A e \in History(h) : e \in Events /\ e.change \in 1..Len(source)
  BY <1>2, <1>3, <1>4
<1>6. \A e \in History(h) : Op(e) \in Ops /\ Attr(e) \in Attrs
  BY <1>5, SourceTyped DEF Op, Attr
<1>. QED BY <1>2, <1>3, <1>4, <1>5, <1>6

LEMMA InHistory ==
    ASSUME NEW h
    PROVE  /\ \A i \in 1..h.batch : BatchEvent(i) \in History(h)
           /\ \A i \in 1..h.cdc : CdcEvent(i) \in History(h)
  BY DEF History

(* Events of one channel are ordered as the changes are, and of one change  *)
(* the batch event is the earlier.                                          *)
LEMMA EventsInOrder ==
    ASSUME Sound, NEW h, Within(h)
    PROVE  /\ \A i, j \in 1..h.batch : i < j => Before(BatchEvent(i), BatchEvent(j))
           /\ \A i, j \in 1..h.cdc : i < j => Before(CdcEvent(i), CdcEvent(j))
           /\ \A i \in 1..h.batch : \A j \in 1..h.cdc : i <= j => Before(BatchEvent(i), CdcEvent(j))
<1>1. /\ \A i, j \in 1..Len(source) : i <= j => source[i].time <= source[j].time
      /\ \A i, j \in 1..Len(captured) : i <= j => captured[i] <= captured[j]
      /\ \A i \in 1..Len(captured) : source[i].time <= captured[i]
  BY DEF Sound, SourceInv
<1>2. /\ \A i \in 1..Len(source) : source[i].time \in Nat
      /\ \A i \in 1..Len(captured) : captured[i] \in Nat
  BY SourceTyped
<1>3. ASSUME NEW i \in 1..h.batch, NEW j \in 1..h.batch, i < j PROVE Before(BatchEvent(i), BatchEvent(j))
  <2>1. source[i].time <= source[j].time /\ source[i].time \in Nat /\ source[j].time \in Nat
    BY <1>1, <1>2, <1>3, HistoryEvents
  <2>. QED BY <1>3, <2>1, HistoryEvents DEF Before
<1>4. ASSUME NEW i \in 1..h.cdc, NEW j \in 1..h.cdc, i < j PROVE Before(CdcEvent(i), CdcEvent(j))
  <2>1. captured[i] <= captured[j] /\ captured[i] \in Nat /\ captured[j] \in Nat
    BY <1>1, <1>2, <1>4, HistoryEvents
  <2>. QED BY <1>4, <2>1, HistoryEvents DEF Before
<1>5. ASSUME NEW i \in 1..h.batch, NEW j \in 1..h.cdc, i <= j PROVE Before(BatchEvent(i), CdcEvent(j))
  <2>1. i \in 1..Len(source) /\ j \in 1..Len(source) /\ j \in 1..Len(captured)
    BY HistoryEvents
  <2>2. source[i].time <= source[j].time /\ source[j].time <= captured[j]
    BY <1>1, <1>5, <2>1
  <2>3. source[i].time <= captured[j]
    BY <1>2, <2>1, <2>2
  <2>. QED BY <1>2, <2>1, <2>3, HistoryEvents DEF Before
<1>. QED BY <1>3, <1>4, <1>5

(* A history opens with the INSERT of the customer. *)
LEMMA HistoryOpens ==
    ASSUME Sound, NEW h, Within(h), NotEmpty(h)
    PROVE  /\ Opens(History(h)) /\ CreatedAt = 1
           /\ First(History(h)).change = 1
           /\ 1 <= h.batch => First(History(h)) = BatchEvent(1)
           /\ BatchEvent(1).time = 1
<1>1. h.batch \in Nat /\ h.cdc \in Nat /\ History(h) \subseteq Events
  BY HistoryEvents DEF Within, Histories
<1>2. source # <<>>
  BY <1>1, LengthsAreNat DEF NotEmpty, Within, AtMost, Available, Sound
<1>3. source[1].op = "INSERT" /\ source[1].time = 1
  BY <1>2 DEF Sound, SourceInv
<1>4. CreatedAt = 1 /\ BatchEvent(1).time = 1
  BY <1>3 DEF CreatedAt, BatchEvent
<1>5. CASE 1 <= h.batch
  <2>1. 1 \in 1..h.batch
    BY <1>1, <1>5
  <2>2. BatchEvent(1) \in History(h)
    BY <2>1, InHistory
  <2>3. \A e \in History(h) \ {BatchEvent(1)} : Before(BatchEvent(1), e)
    <3>. SUFFICES ASSUME NEW e \in History(h), e # BatchEvent(1) PROVE Before(BatchEvent(1), e)
      OBVIOUS
    <3>1. CASE e.change \in 1..h.batch /\ e = BatchEvent(e.change)
      BY <1>1, <2>1, <3>1, EventsInOrder
    <3>2. CASE e.change \in 1..h.cdc /\ e = CdcEvent(e.change)
      BY <1>1, <2>1, <3>2, EventsInOrder
    <3>. QED BY <3>1, <3>2, HistoryEvents
  <2>4. IsFirst(BatchEvent(1), History(h)) /\ SomeEvents(History(h))
    BY <1>1, <2>2, <2>3 DEF IsFirst, SomeEvents
  <2>5. First(History(h)) = BatchEvent(1)
    BY <2>4, FirstIsFirst
  <2>6. First(History(h)).change = 1
    BY <2>1, <2>5, HistoryEvents
  <2>. QED BY <1>3, <1>4, <2>4, <2>5, <2>6 DEF Opens, Op
<1>6. CASE ~(1 <= h.batch)
  <2>1. 1 \in 1..h.cdc /\ 1..h.batch = {}
    BY <1>1, <1>6 DEF NotEmpty
  <2>2. CdcEvent(1) \in History(h)
    BY <2>1, InHistory
  <2>3. \A e \in History(h) \ {CdcEvent(1)} : Before(CdcEvent(1), e)
    <3>. SUFFICES ASSUME NEW e \in History(h), e # CdcEvent(1) PROVE Before(CdcEvent(1), e)
      OBVIOUS
    <3>1. e.change \in 1..h.cdc /\ e = CdcEvent(e.change)
      BY <2>1, HistoryEvents
    <3>. QED BY <1>1, <2>1, <3>1, EventsInOrder
  <2>4. IsFirst(CdcEvent(1), History(h)) /\ SomeEvents(History(h))
    BY <1>1, <2>2, <2>3 DEF IsFirst, SomeEvents
  <2>5. First(History(h)) = CdcEvent(1)
    BY <2>4, FirstIsFirst
  <2>6. First(History(h)).change = 1
    BY <2>1, <2>5, HistoryEvents
  <2>. QED BY <1>3, <1>4, <1>6, <2>4, <2>6 DEF Opens, Op
<1>. QED BY <1>5, <1>6

(* The replay makes versions of the table's type. *)
LEMMA ReplayTyped ==
    ASSUME Sound, NEW h, Within(h), NotEmpty(h)
    PROVE  Replay(h) \in SUBSET Versions /\ Replay(h) # {}
<1>. DEFINE E == History(h)
<1>1. Opens(E) /\ E \subseteq Events /\ CreatedAt = 1
  BY HistoryOpens, HistoryEvents
<1>2. ASSUME NEW e \in Type2Starts(E) PROVE VersionIn(e, E) \in Versions
  <2>1. e \in E /\ e \in Events /\ Attr(e) \in Attrs /\ e.time \in 1..MaxTime
    BY <1>1, BoundsAreEvents, HistoryEvents, EventFields
  <2>2. 1 \in 1..MaxTime /\ MaxTime \in Nat
    BY Scd2DimensionAssumption
  <2>3. Later(e, E) # {} => First(Later(e, E)).time \in 1..MaxTime
    <3>. SUFFICES ASSUME Later(e, E) # {} PROVE First(Later(e, E)).time \in 1..MaxTime
      OBVIOUS
    <3>1. SomeEvents(Later(e, E))
      BY <1>1, BoundsAreEvents DEF SomeEvents, Later
    <3>2. First(Later(e, E)) \in Events
      BY <3>1, FirstIsFirst DEF IsFirst, SomeEvents
    <3>. QED BY <3>2, EventFields
  <2>4. Later(e, E) # {} => First(Later(e, E)).time \in 1..Open
    BY <2>2, <2>3 DEF Open
  <2>5. Open \in 1..Open
    BY <2>2 DEF Open
  <2>6. (IF e = First(Type2Starts(E)) /\ CreatedAt < e.time THEN CreatedAt ELSE e.time) \in 1..MaxTime
    BY <1>1, <2>1, <2>2
  <2>7. (IF Later(e, E) = {} THEN Open ELSE First(Later(e, E)).time) \in 1..Open
    BY <2>4, <2>5
  <2>. QED BY <2>1, <2>6, <2>7 DEF VersionIn, VersionOf, Versions
<1>3. First(E) \in Type2Starts(E)
  BY <1>1, FirstStart
<1>4. Replay(h) = Dim(E)
  BY ReplayIsDim
<1>. QED BY <1>2, <1>3, <1>4 DEF Dim

(* The MERGE leaves the replay and nothing else. *)
LEMMA UpsertReplaces == \A dim, versions : Upsert(dim, versions) = versions
  BY DEF Upsert, StaleKeys, KeysIn

--------------------------------------------------------------------------------
(* The source and Debezium only append.                                     *)
Extends ==
    /\ \A i \in 1..Len(source) : source'[i] = source[i]
    /\ \A i \in 1..Len(captured) : captured'[i] = captured[i]

LEMMA SameDim ==
    ASSUME NEW E, E \subseteq Events, CreatedAt' = CreatedAt,
           \A e \in E : Op(e)' = Op(e) /\ Attr(e)' = Attr(e)
    PROVE  Dim(E)' = Dim(E)
<1>1. ASSUME NEW e \in E PROVE e \in Type2Starts(E)' <=> e \in Type2Starts(E)
  <2>. DEFINE earlier == {f \in E : Before(f, e)}
              alive == {f \in earlier : Op(f) # "DELETE"}
  <2>1. alive' = alive
    OBVIOUS
  <2>2. e \in Type2Starts(E) <=>
          /\ Op(e) # "DELETE"
          /\ alive = {} \/ Attr(e) # Attr(Last(alive)) \/ Op(Last(earlier)) = "DELETE"
    BY DEF Type2Starts
  <2>3. e \in Type2Starts(E)' <=>
          /\ Op(e)' # "DELETE"
          /\ alive' = {} \/ Attr(e)' # Attr(Last(alive))' \/ Op(Last(earlier))' = "DELETE"
    BY DEF Type2Starts
  <2>4. CASE alive = {}
    BY <2>1, <2>2, <2>3, <2>4
  <2>5. CASE alive # {}
    <3>1. SomeEvents(earlier) /\ SomeEvents(alive)
      BY <2>5 DEF SomeEvents
    <3>2. Last(earlier) \in earlier
      <4>. HIDE DEF earlier
      <4>. QED BY <3>1, LastIsLast DEF IsLast
    <3>3. Last(alive) \in alive
      <4>. HIDE DEF alive
      <4>. QED BY <3>1, LastIsLast DEF IsLast
    <3>4. PICK l \in E, m \in E : l = Last(earlier) /\ m = Last(alive)
      BY <3>2, <3>3
    <3>5. Last(alive)' = m /\ Last(earlier)' = l
      <4>. HIDE DEF earlier, alive
      <4>1. earlier' = earlier
        BY DEF earlier
      <4>. QED BY <2>1, <3>4, <4>1
    <3>6. Attr(Last(alive))' = Attr(m)' /\ Op(Last(earlier))' = Op(l)'
      BY <3>5 DEF Attr, Op
    <3>7. Attr(Last(alive))' = Attr(Last(alive)) /\ Op(Last(earlier))' = Op(Last(earlier))
      BY <3>4, <3>6
    <3>. QED BY <2>1, <2>2, <2>3, <3>7
  <2>. QED BY <2>4, <2>5
<1>2. Type2Starts(E)' = Type2Starts(E)
  BY <1>1 DEF Type2Starts
<1>3. Bounds(E)' = Bounds(E)
  BY <1>2 DEF Bounds, Deletes
<1>4. \A e \in Type2Starts(E) : VersionIn(e, E)' = VersionIn(e, E)
  <2>. SUFFICES ASSUME NEW e \in Type2Starts(E) PROVE VersionIn(e, E)' = VersionIn(e, E)
    OBVIOUS
  <2>1. Later(e, E)' = Later(e, E) /\ \A b \in Later(e, E) : Op(b)' = Op(b)
    BY <1>3, BoundsAreEvents DEF Later
  <2>2. Attr(e)' = Attr(e)
    BY BoundsAreEvents
  <2>3. Later(e, E) # {} => Op(First(Later(e, E)))' = Op(First(Later(e, E)))
    <3>. SUFFICES ASSUME Later(e, E) # {} PROVE Op(First(Later(e, E)))' = Op(First(Later(e, E)))
      OBVIOUS
    <3>1. SomeEvents(Later(e, E))
      BY BoundsAreEvents DEF Later, SomeEvents
    <3>2. First(Later(e, E)) \in Later(e, E)
      BY <3>1, FirstIsFirst DEF IsFirst
    <3>3. PICK n \in Later(e, E) : n = First(Later(e, E))
      BY <3>2
    <3>4. Op(n)' = Op(n) /\ First(Later(e, E))' = n
      BY <2>1, <3>3
    <3>. QED BY <3>3, <3>4 DEF Op
  <2>. QED BY <1>2, <2>1, <2>2, <2>3 DEF VersionIn, VersionOf
<1>. QED BY <1>2, <1>4 DEF Dim

(* What is appended changes no replay of what was there. *)
LEMMA FrameReplay ==
    ASSUME Sound, Extends, NEW h, Within(h)
    PROVE  /\ History(h)' = History(h)
           /\ \A e \in History(h) : Op(e)' = Op(e) /\ Attr(e)' = Attr(e)
           /\ NotEmpty(h) => Replay(h)' = Replay(h)
<1>1. /\ \A i \in 1..h.batch : i \in 1..Len(source)
      /\ \A i \in 1..h.cdc : i \in 1..Len(captured)
      /\ \A e \in History(h) : e.change \in 1..Len(source)
      /\ History(h) \subseteq Events
  BY HistoryEvents
<1>2. History(h)' = History(h)
  <2>1. \A i \in 1..h.batch : BatchEvent(i)' = BatchEvent(i)
    BY <1>1 DEF BatchEvent, Extends
  <2>2. \A i \in 1..h.cdc : CdcEvent(i)' = CdcEvent(i)
    BY <1>1 DEF CdcEvent, Extends
  <2>. QED BY <2>1, <2>2 DEF History
<1>3. \A e \in History(h) : Op(e)' = Op(e) /\ Attr(e)' = Attr(e)
  BY <1>1 DEF Op, Attr, Extends
<1>4. ASSUME NotEmpty(h) PROVE Replay(h)' = Replay(h)
  <2>1. \E E : E = History(h)
    OBVIOUS
  <2>2. PICK E : E = History(h)
    BY <2>1
  <2>3. E = History(h)'
    BY <1>2, <2>2
  <2>4. 1 \in 1..Len(source)
    BY <1>4, LengthsAreNat DEF NotEmpty, Within, Histories, AtMost, Available
  <2>5. CreatedAt' = CreatedAt
    BY <2>4 DEF CreatedAt, Extends
  <2>6. \A e \in E : Op(e)' = Op(e) /\ Attr(e)' = Attr(e)
    BY <1>3, <2>2
  <2>7. E \subseteq Events
    BY <1>1, <2>2
  <2>8. Dim(E)' = Dim(E)
    BY <2>5, <2>6, <2>7, SameDim
  <2>9. Replay(h) = Dim(E)
    BY <2>2, ReplayIsDim
  <2>10. Replay(h)' = Dim(E)'
    BY <2>3 DEF Replay, Dim, VersionIn, Later, Bounds
  <2>. QED BY <2>8, <2>9, <2>10
<1>. QED BY <1>2, <1>3, <1>4

LEMMA SourceUnchanged == UNCHANGED sourceVars => Extends
  BY DEF sourceVars, Extends

LEMMA LastIndex == Sound /\ source # <<>> => Len(source) \in 1..Len(source)
  BY LengthsAreNat DEF Sound, TypeOK

(* The change of the source. *)
LEMMA SourceChangeSound ==
    ASSUME Inv, NEW op \in Ops, NEW attr \in Attrs, NEW t \in Now, SourceChange(op, attr, t)
    PROVE  Sound' /\ Extends
<1>1. Sound
  BY DEF Inv, Sound
<1>2. /\ Len(source) \in Nat /\ Len(captured) \in Nat /\ Len(captured) <= Len(source)
      /\ Len(source) < MaxChanges /\ t \in 1..MaxTime
      /\ source \in Seq([time : 1..MaxTime, op : Ops, attr : Attrs])
  BY <1>1, LengthsAreNat DEF SourceChange, Now, Sound, TypeOK
<1>. DEFINE x == [time |-> t, op |-> op, attr |-> attr]
<1>3. x \in [time : 1..MaxTime, op : Ops, attr : Attrs] /\ x.time = t /\ x.op = op /\ x.attr = attr
  BY <1>2
<1>4. source' = Append(source, x)
  BY DEF SourceChange
<1>. HIDE DEF x
<1>5. /\ source' \in Seq([time : 1..MaxTime, op : Ops, attr : Attrs])
      /\ Len(source') = Len(source) + 1
      /\ \A i \in 1..Len(source) : source'[i] = source[i]
      /\ source'[Len(source) + 1] = x
  BY <1>2, <1>3, <1>4
<1>6. UNCHANGED <<captured, silverVars, pending, replayed, gold, release, build>>
  BY DEF SourceChange
<1>7. Extends
  BY <1>5, <1>6 DEF Extends
<1>8. \A i \in 1..Len(source) : source[i].time \in Nat /\ source[i].time <= t
  <2>1. \A i \in 1..Len(source) : source[i].time \in Given
    BY DEF Given
  <2>. QED BY <1>1, <2>1, SourceTyped DEF Now
<1>9. TypeOK'
  <2>1. /\ captured' \in Seq(1..MaxTime) /\ Len(captured') <= Len(source')
        /\ loaded' \in [batch : 0..Len(source'), cdc : 0..Len(captured')]
    <3>1. loaded \in [batch : 0..Len(source), cdc : 0..Len(captured)] /\ captured \in Seq(1..MaxTime)
      BY DEF Inv, TypeOK
    <3>2. 0..Len(source) \subseteq 0..Len(source')
      BY <1>2, <1>5
    <3>. QED BY <1>2, <1>5, <1>6, <3>1, <3>2 DEF silverVars
  <2>2. /\ row' \in Events \cup {NoRow} /\ orders' \in [Orders -> 0..MaxTime]
        /\ pending' \in [customer : BOOLEAN, orders : SUBSET Orders]
        /\ replayed' = NoCheckpoint \/ replayed' \in [batch : 0..loaded'.batch, cdc : 0..loaded'.cdc]
        /\ gold' \in [dim : SUBSET Versions, facts : [Orders -> Keys \cup {NoFact, UnknownKey}]]
        /\ release' = NoRelease \/
           release' \in [dim : SUBSET Versions, facts : [Orders -> Keys \cup {NoFact}] \cup {Misplaced}]
        /\ build' \in [phase : Phases, full : BOOLEAN]
    BY <1>6 DEF Inv, TypeOK, silverVars
  <2>. QED BY <1>5, <2>1, <2>2 DEF TypeOK
<1>10. SourceInv'
  <2>1. Len(source') <= MaxChanges
    BY <1>2, <1>5, Scd2DimensionAssumption
  <2>2. source'[1].op = "INSERT" /\ source'[1].time = 1
    <3>1. CASE source = <<>>
      BY <1>3, <1>5, <3>1 DEF SourceChange, Exists
    <3>2. CASE source # <<>>
      <4>1. 1 \in 1..Len(source)
        BY <1>1, <1>2, <3>2, LastIndex
      <4>2. source[1].op = "INSERT" /\ source[1].time = 1
        BY <3>2 DEF Inv, SourceInv
      <4>. QED BY <1>5, <4>1, <4>2
    <3>. QED BY <3>1, <3>2
  <2>3. \A i \in 1..Len(source) : source[i].op # "DELETE"
    <3>. SUFFICES ASSUME NEW i \in 1..Len(source), source[i].op = "DELETE" PROVE FALSE
      OBVIOUS
    <3>1. i = Len(source) /\ source # <<>>
      BY <1>2 DEF Inv, SourceInv
    <3>. QED BY <3>1 DEF SourceChange, Exists
  <2>4. \A i \in 1..Len(source') : source'[i].op = "DELETE" => i = Len(source')
    <3>1. \A i \in 1..Len(source') : i \in 1..Len(source) \/ i = Len(source')
      BY <1>2, <1>5
    <3>2. \A i \in 1..Len(source) : source'[i].op # "DELETE"
      BY <1>5, <2>3
    <3>. QED BY <3>1, <3>2
  <2>5. \A i, j \in 1..Len(source') : i <= j => source'[i].time <= source'[j].time
    <3>. SUFFICES ASSUME NEW i \in 1..Len(source'), NEW j \in 1..Len(source'), i <= j
                  PROVE source'[i].time <= source'[j].time
      OBVIOUS
    <3>1. CASE j \in 1..Len(source)
      <4>1. i \in 1..Len(source)
        BY <1>2, <3>1
      <4>2. source[i].time <= source[j].time
        BY <3>1, <4>1 DEF Inv, SourceInv
      <4>. QED BY <1>5, <3>1, <4>1, <4>2
    <3>2. CASE j = Len(source) + 1
      <4>1. source'[j].time = t /\ t \in Nat
        BY <1>2, <1>3, <1>5, <3>2
      <4>2. i \in 1..Len(source) \/ i = Len(source) + 1
        BY <1>2, <1>5
      <4>. QED BY <1>3, <1>5, <1>8, <4>1, <4>2
    <3>. QED BY <1>2, <1>5, <3>1, <3>2
  <2>6. \A i \in 1..Len(captured) : source'[i].time <= captured[i]
    <3>1. \A i \in 1..Len(captured) : i \in 1..Len(source)
      BY <1>2
    <3>. QED BY <1>5, <3>1 DEF Inv, SourceInv
  <2>7. captured' = captured /\ \A i, j \in 1..Len(captured) : i <= j => captured[i] <= captured[j]
    BY <1>6 DEF Inv, SourceInv
  <2>. QED BY <2>1, <2>2, <2>4, <2>5, <2>6, <2>7 DEF SourceInv
<1>. QED BY <1>7, <1>9, <1>10 DEF Sound

LEMMA CaptureSound ==
    ASSUME Inv, NEW t \in Now, Capture(t)
    PROVE  Sound' /\ Extends
<1>1. Sound
  BY DEF Inv, Sound
<1>2. /\ Len(source) \in Nat /\ Len(captured) \in Nat /\ Len(captured) < Len(source)
      /\ t \in 1..MaxTime /\ captured \in Seq(1..MaxTime)
  BY <1>1, LengthsAreNat DEF Capture, Now, Sound, TypeOK
<1>3. captured' = Append(captured, t)
  BY DEF Capture
<1>4. /\ captured' \in Seq(1..MaxTime)
      /\ Len(captured') = Len(captured) + 1
      /\ \A i \in 1..Len(captured) : captured'[i] = captured[i]
      /\ captured'[Len(captured) + 1] = t
  BY <1>2, <1>3
<1>5. UNCHANGED <<source, silverVars, pending, replayed, gold, release, build>>
  BY DEF Capture
<1>6. Extends
  BY <1>4, <1>5 DEF Extends
<1>7. /\ \A i \in 1..Len(source) : source[i].time \in Nat /\ source[i].time <= t
      /\ \A i \in 1..Len(captured) : captured[i] \in Nat /\ captured[i] <= t
  <2>1. /\ \A i \in 1..Len(source) : source[i].time \in Given
        /\ \A i \in 1..Len(captured) : captured[i] \in Given
    BY DEF Given
  <2>. QED BY <1>1, <2>1, SourceTyped DEF Now
<1>8. TypeOK'
  <2>1. loaded' \in [batch : 0..Len(source'), cdc : 0..Len(captured')] /\ Len(captured') <= Len(source')
    <3>1. loaded \in [batch : 0..Len(source), cdc : 0..Len(captured)]
      BY DEF Inv, TypeOK
    <3>2. 0..Len(captured) \subseteq 0..Len(captured')
      BY <1>2, <1>4
    <3>. QED BY <1>2, <1>4, <1>5, <3>1, <3>2 DEF silverVars
  <2>2. /\ source' \in Seq([time : 1..MaxTime, op : Ops, attr : Attrs])
        /\ row' \in Events \cup {NoRow} /\ orders' \in [Orders -> 0..MaxTime]
        /\ pending' \in [customer : BOOLEAN, orders : SUBSET Orders]
        /\ replayed' = NoCheckpoint \/ replayed' \in [batch : 0..loaded'.batch, cdc : 0..loaded'.cdc]
        /\ gold' \in [dim : SUBSET Versions, facts : [Orders -> Keys \cup {NoFact, UnknownKey}]]
        /\ release' = NoRelease \/
           release' \in [dim : SUBSET Versions, facts : [Orders -> Keys \cup {NoFact}] \cup {Misplaced}]
        /\ build' \in [phase : Phases, full : BOOLEAN]
    BY <1>5 DEF Inv, TypeOK, silverVars
  <2>. QED BY <1>4, <2>1, <2>2 DEF TypeOK
<1>9. SourceInv'
  <2>1. \A i, j \in 1..Len(captured') : i <= j => captured'[i] <= captured'[j]
    <3>. SUFFICES ASSUME NEW i \in 1..Len(captured'), NEW j \in 1..Len(captured'), i <= j
                  PROVE captured'[i] <= captured'[j]
      OBVIOUS
    <3>1. CASE j \in 1..Len(captured)
      <4>1. i \in 1..Len(captured)
        BY <1>2, <3>1
      <4>2. captured[i] <= captured[j]
        BY <3>1, <4>1 DEF Inv, SourceInv
      <4>. QED BY <1>4, <3>1, <4>1, <4>2
    <3>2. CASE j = Len(captured) + 1
      <4>1. captured'[j] = t /\ t \in Nat
        BY <1>2, <1>4, <3>2
      <4>2. i \in 1..Len(captured) \/ i = Len(captured) + 1
        BY <1>2, <1>4
      <4>. QED BY <1>4, <1>7, <4>1, <4>2
    <3>. QED BY <1>2, <1>4, <3>1, <3>2
  <2>2. \A i \in 1..Len(captured') : source[i].time <= captured'[i]
    <3>1. \A i \in 1..Len(captured') : i \in 1..Len(captured) \/ (i = Len(captured) + 1 /\ i \in 1..Len(source))
      BY <1>2, <1>4
    <3>2. \A i \in 1..Len(captured) : source[i].time <= captured[i]
      BY DEF Inv, SourceInv
    <3>. QED BY <1>4, <1>7, <3>1, <3>2
  <2>3. source' = source
    BY <1>5
  <2>. QED BY <2>1, <2>2, <2>3 DEF Inv, SourceInv
<1>. QED BY <1>6, <1>8, <1>9 DEF Sound

(* What the pipeline knows does not depend on what is appended.             *)
LEMMA AppendKeeps ==
    ASSUME Inv, Extends, Sound', UNCHANGED <<silverVars, pending, replayed, gold, release, build>>,
           \A o \in Orders : orders[o] # 0 => Exists',
           \A e \in History(loaded) : row # NoRow /\ ~Before(row, e)
    PROVE  Inv'
<1>1. Sound /\ Within(loaded)
  BY LoadedIsWithin DEF Inv, Sound
<1>2. /\ loaded' = loaded /\ row' = row /\ orders' = orders /\ pending' = pending
      /\ replayed' = replayed /\ gold' = gold /\ release' = release /\ build' = build
  BY DEF silverVars
<1>3. History(loaded)' = History(loaded)
  <2>1. PICK h : h = loaded
    OBVIOUS
  <2>2. h = loaded'
    BY <1>2, <2>1
  <2>3. History(h)' = History(h)
    BY <1>1, <2>1, FrameReplay
  <2>4. History(loaded)' = History(h)'
    BY <2>2 DEF History
  <2>. QED BY <2>1, <2>3, <2>4
<1>4. \A e \in History(loaded) : Op(e)' = Op(e) /\ Attr(e)' = Attr(e)
  BY <1>1, FrameReplay
<1>5. \A h \in [batch : 0..loaded.batch, cdc : 0..loaded.cdc] : NotEmpty(h) => Replay(h)' = Replay(h)
  BY <1>1, EarlierIsWithin, FrameReplay
<1>6. NotEmpty(loaded) => Replay(loaded)' = Replay(loaded)
  <2>1. PICK h : h = loaded
    OBVIOUS
  <2>2. h = loaded'
    BY <1>2, <2>1
  <2>3. NotEmpty(h) => Replay(h)' = Replay(h)
    BY <1>1, <2>1, FrameReplay
  <2>4. Replay(loaded)' = Replay(h)'
    BY <2>2 DEF Replay, History, BatchEvent, CdcEvent
  <2>. QED BY <2>1, <2>3, <2>4
<1>7. OrdersInv'
  BY <1>2 DEF Inv, OrdersInv, InSilver
<1>8. Replayed(gold.dim) => Replayed(gold.dim)'
  BY <1>2, <1>5 DEF Replayed, NotEmpty, AtMost
<1>9. CandidateInv'
  BY <1>2, <1>6, <1>8 DEF Inv, CandidateInv, NotEmpty
<1>10. RowInv'
  BY <1>2, <1>3 DEF Inv, RowInv
<1>11. PublishedInv'
  <2>1. release # NoRelease => NotEmpty(loaded)
    BY DEF Inv, CandidateInv
  <2>3. row # NoRow => (IF Op(row) = "DELETE" THEN {} ELSE {Attr(row)})' =
                       IF Op(row) = "DELETE" THEN {} ELSE {Attr(row)}
    <3>1. PICK e : e = row /\ e = row'
      BY <1>2
    <3>2. row # NoRow => Op(e)' = Op(e) /\ Attr(e)' = Attr(e)
      BY <1>4, <3>1 DEF Inv, RowInv
    <3>3. Op(row)' = Op(e)' /\ Attr(row)' = Attr(e)'
      BY <3>1 DEF Op, Attr
    <3>. QED BY <3>1, <3>2, <3>3
  <2>4. Behind' <=> Behind
    BY <1>2, <1>3 DEF Behind
  <2>. QED BY <1>2, <1>6, <2>1, <2>3, <2>4 DEF Inv, PublishedInv
<1>. QED BY <1>7, <1>9, <1>10, <1>11 DEF Inv, Sound

LEMMA SourceChangeKeeps ==
    ASSUME Inv, NEW op \in Ops, NEW attr \in Attrs, NEW t \in Now, SourceChange(op, attr, t)
    PROVE  Inv'
<1>1. Sound /\ Sound' /\ Extends
  BY SourceChangeSound DEF Inv, Sound
<1>2. UNCHANGED <<silverVars, pending, replayed, gold, release, build>>
  BY DEF SourceChange
<1>3. \A o \in Orders : orders[o] # 0 => Exists'
  <2>. SUFFICES ASSUME NEW o \in Orders, orders[o] # 0 PROVE Exists'
    OBVIOUS
  <2>1. op # "DELETE"
    BY DEF SourceChange
  <2>. DEFINE x == [time |-> t, op |-> op, attr |-> attr]
  <2>2. x \in [time : 1..MaxTime, op : Ops, attr : Attrs] /\ x.op = op
    BY DEF Now
  <2>3. source' = Append(source, x) /\ source \in Seq([time : 1..MaxTime, op : Ops, attr : Attrs])
    BY <1>1 DEF SourceChange, Sound, TypeOK
  <2>. HIDE DEF x
  <2>4. source' # <<>> /\ source'[Len(source')] = x
    BY <2>2, <2>3
  <2>. QED BY <2>1, <2>2, <2>4 DEF Exists
<1>4. \A e \in History(loaded) : row # NoRow /\ ~Before(row, e)
  <2>. SUFFICES ASSUME NEW e \in History(loaded), row = NoRow \/ Before(row, e) PROVE FALSE
    OBVIOUS
  <2>1. e.change \in 1..Len(source) /\ Len(source) \in Nat
    BY <1>1, LoadedIsWithin, HistoryEvents, LengthsAreNat
  <2>2. source # <<>>
    BY <2>1
  <2>3. source[Len(source)].op = "DELETE"
    BY DEF Inv, RowInv
  <2>. QED BY <2>2, <2>3 DEF SourceChange, Exists
<1>. QED BY <1>1, <1>2, <1>3, <1>4, AppendKeeps

LEMMA CaptureKeeps ==
    ASSUME Inv, NEW t \in Now, Capture(t)
    PROVE  Inv'
<1>1. Sound /\ Sound' /\ Extends
  BY CaptureSound DEF Inv, Sound
<1>2. source' = source /\ UNCHANGED <<silverVars, pending, replayed, gold, release, build>>
  BY DEF Capture
<1>3. \A o \in Orders : orders[o] # 0 => Exists'
  BY <1>2 DEF Exists, Inv, OrdersInv
<1>4. Len(captured) < Len(source) /\ Len(source) \in Nat /\ Len(captured) \in Nat
  BY <1>1, LengthsAreNat DEF Capture
<1>5. \A e \in History(loaded) : row # NoRow /\ ~Before(row, e)
  BY <1>4 DEF Inv, RowInv
<1>. QED BY <1>1, <1>2, <1>3, <1>5, AppendKeeps

(* While the source stands still, histories and replays do.                 *)
LEMMA Still ==
    ASSUME UNCHANGED sourceVars
    PROVE  /\ \A h : History(h)' = History(h) /\ Replay(h)' = Replay(h)
           /\ \A e : Op(e)' = Op(e) /\ Attr(e)' = Attr(e)
           /\ Exists' <=> Exists
           /\ SourceInv => SourceInv'
<1>1. source' = source /\ captured' = captured
  BY DEF sourceVars
<1>2. \A h : History(h)' = History(h)
  BY <1>1 DEF History, BatchEvent, CdcEvent
<1>3. \A e : Op(e)' = Op(e) /\ Attr(e)' = Attr(e)
  BY <1>1 DEF Op, Attr
<1>4. ASSUME NEW h PROVE Replay(h)' = Replay(h)
  BY <1>1 DEF Replay, History, BatchEvent, CdcEvent, Type2Starts, Deletes, VersionOf, CreatedAt, Op, Attr
<1>5. Exists' <=> Exists
  BY <1>1 DEF Exists
<1>6. SourceInv => SourceInv'
  BY <1>1 DEF SourceInv
<1>. QED BY <1>2, <1>3, <1>4, <1>5, <1>6

LEMMA HistoryGrows ==
    ASSUME NEW g, NEW h, g \in Histories, h \in Histories, AtMost(g, h)
    PROVE  History(g) \subseteq History(h)
<1>1. 1..g.batch \subseteq 1..h.batch /\ 1..g.cdc \subseteq 1..h.cdc
  BY DEF Histories, AtMost
<1>. QED BY <1>1 DEF History

(* What a load delivers: the newest of what it appends, which was not there *)
(* before; a CDC DELETE is the last thing that the stream ever delivers.    *)
Delivers(newest, upTo) ==
    /\ upTo \in [batch : 0..Len(source), cdc : 0..Len(captured)]
    /\ AtMost(loaded, upTo) /\ NotEmpty(upTo)
    /\ newest \in History(upTo) \ History(loaded)
    /\ \A e \in History(upTo) \ History(loaded) : e = newest \/ Before(e, newest)
    /\ newest.channel = "batch" => upTo.cdc = loaded.cdc
    /\ newest.channel = "cdc" =>
         /\ loaded.cdc < Len(captured)
         /\ \A e \in History(upTo) \ History(loaded) : e.channel = "cdc"
         /\ Op(newest) = "DELETE" => /\ upTo.cdc = Len(captured) /\ Len(captured) = Len(source)
                                     /\ source[Len(source)].op = "DELETE"

LEMMA BatchDelivers ==
    ASSUME Inv, NEW n \in (loaded.batch + 1)..Len(source)
    PROVE  Delivers(BatchEvent(n), [loaded EXCEPT !.batch = n])
<1>. DEFINE upTo == [loaded EXCEPT !.batch = n]
<1>1. Sound /\ Within(loaded)
  BY LoadedIsWithin DEF Inv, Sound
<1>2. /\ Len(source) \in Nat /\ Len(captured) \in Nat
      /\ loaded \in [batch : 0..Len(source), cdc : 0..Len(captured)]
  BY <1>1, LengthsAreNat DEF Inv, TypeOK
<1>3. /\ upTo \in [batch : 0..Len(source), cdc : 0..Len(captured)]
      /\ upTo.batch = n /\ upTo.cdc = loaded.cdc
      /\ n \in 1..upTo.batch /\ loaded.batch < n
  BY <1>2
<1>. HIDE DEF upTo
<1>4. Within(upTo) /\ AtMost(loaded, upTo) /\ NotEmpty(upTo)
  BY <1>2, <1>3 DEF Within, Histories, AtMost, Available, NotEmpty
<1>5. BatchEvent(n) \in History(upTo)
  BY <1>3, InHistory
<1>6. BatchEvent(n).channel = "batch" /\ BatchEvent(n).change = n
  BY <1>1, <1>3, <1>4, HistoryEvents
<1>7. BatchEvent(n) \notin History(loaded)
  <2>1. n \notin 1..loaded.batch
    BY <1>2, <1>3
  <2>2. \A i \in 1..loaded.cdc : CdcEvent(i).channel = "cdc"
    BY <1>1, HistoryEvents
  <2>3. ASSUME BatchEvent(n) \in History(loaded) PROVE FALSE
    <3>1. \/ n \in 1..loaded.batch
          \/ n \in 1..loaded.cdc /\ BatchEvent(n) = CdcEvent(n)
      BY <1>1, <1>6, <2>3, HistoryEvents
    <3>. QED BY <1>6, <2>1, <2>2, <3>1
  <2>. QED BY <2>3
<1>8. \A e \in History(upTo) \ History(loaded) : e = BatchEvent(n) \/ Before(e, BatchEvent(n))
  <2>. SUFFICES ASSUME NEW e \in History(upTo) \ History(loaded), e # BatchEvent(n) PROVE Before(e, BatchEvent(n))
    OBVIOUS
  <2>1. e.change \in 1..upTo.batch /\ e = BatchEvent(e.change)
    <3>1. CASE e.change \in 1..upTo.cdc /\ e = CdcEvent(e.change)
      BY <1>3, <3>1, InHistory
    <3>. QED BY <1>4, <1>1, <3>1, HistoryEvents
  <2>2. e.change < n
    BY <1>3, <2>1
  <2>. QED BY <1>1, <1>3, <1>4, <2>1, <2>2, EventsInOrder
<1>. QED BY <1>3, <1>4, <1>5, <1>6, <1>7, <1>8 DEF Delivers, upTo

LEMMA CdcDelivers ==
    ASSUME Inv, NEW n \in (loaded.cdc + 1)..Len(captured)
    PROVE  Delivers(CdcEvent(n), [loaded EXCEPT !.cdc = n])
<1>. DEFINE upTo == [loaded EXCEPT !.cdc = n]
<1>1. Sound /\ Within(loaded)
  BY LoadedIsWithin DEF Inv, Sound
<1>2. /\ Len(source) \in Nat /\ Len(captured) \in Nat /\ Len(captured) <= Len(source)
      /\ loaded \in [batch : 0..Len(source), cdc : 0..Len(captured)]
  BY <1>1, LengthsAreNat DEF Inv, TypeOK
<1>3. /\ upTo \in [batch : 0..Len(source), cdc : 0..Len(captured)]
      /\ upTo.cdc = n /\ upTo.batch = loaded.batch
      /\ n \in 1..upTo.cdc /\ loaded.cdc < n /\ loaded.cdc < Len(captured)
      /\ n \in 1..Len(source) /\ n <= Len(captured) /\ n \in Nat
  BY <1>2
<1>. HIDE DEF upTo
<1>4. Within(upTo) /\ AtMost(loaded, upTo) /\ NotEmpty(upTo)
  BY <1>2, <1>3 DEF Within, Histories, AtMost, Available, NotEmpty
<1>5. CdcEvent(n) \in History(upTo)
  BY <1>3, InHistory
<1>6. CdcEvent(n).channel = "cdc" /\ CdcEvent(n).change = n
  BY <1>1, <1>3, <1>4, HistoryEvents
<1>7. CdcEvent(n) \notin History(loaded)
  <2>1. n \notin 1..loaded.cdc
    BY <1>2, <1>3
  <2>2. \A i \in 1..loaded.batch : BatchEvent(i).channel = "batch"
    BY <1>1, HistoryEvents
  <2>3. ASSUME CdcEvent(n) \in History(loaded) PROVE FALSE
    <3>1. \/ n \in 1..loaded.cdc
          \/ n \in 1..loaded.batch /\ CdcEvent(n) = BatchEvent(n)
      BY <1>1, <1>6, <2>3, HistoryEvents
    <3>. QED BY <1>6, <2>1, <2>2, <3>1
  <2>. QED BY <2>3
<1>8. \A e \in History(upTo) \ History(loaded) : e.change \in 1..upTo.cdc /\ e = CdcEvent(e.change)
  <2>. SUFFICES ASSUME NEW e \in History(upTo) \ History(loaded)
                PROVE e.change \in 1..upTo.cdc /\ e = CdcEvent(e.change)
    OBVIOUS
  <2>1. CASE e.change \in 1..upTo.batch /\ e = BatchEvent(e.change)
    BY <1>3, <2>1, InHistory
  <2>. QED BY <1>1, <1>4, <2>1, HistoryEvents
<1>9. \A e \in History(upTo) \ History(loaded) : e = CdcEvent(n) \/ Before(e, CdcEvent(n))
  <2>. SUFFICES ASSUME NEW e \in History(upTo) \ History(loaded), e # CdcEvent(n) PROVE Before(e, CdcEvent(n))
    OBVIOUS
  <2>1. e.change \in 1..upTo.cdc /\ e = CdcEvent(e.change)
    BY <1>8
  <2>2. e.change < n
    BY <1>3, <2>1
  <2>. QED BY <1>1, <1>3, <1>4, <2>1, <2>2, EventsInOrder
<1>10. \A e \in History(upTo) \ History(loaded) : e.channel = "cdc"
  BY <1>1, <1>4, <1>8, HistoryEvents
<1>11. ASSUME Op(CdcEvent(n)) = "DELETE"
       PROVE  /\ upTo.cdc = Len(captured) /\ Len(captured) = Len(source)
              /\ source[Len(source)].op = "DELETE"
  <2>1. source[n].op = "DELETE"
    BY <1>6, <1>11 DEF Op
  <2>2. n = Len(source)
    BY <1>3, <2>1 DEF Inv, SourceInv
  <2>. QED BY <1>2, <1>3, <2>1, <2>2
<1>. QED BY <1>3, <1>4, <1>5, <1>6, <1>7, <1>9, <1>10, <1>11 DEF Delivers, upTo

LEMMA LoadKeeps ==
    ASSUME Inv, NEW newest, NEW upTo, Delivers(newest, upTo), Load(newest, upTo)
    PROVE  Inv'
<1>1. Sound /\ Within(loaded) /\ UNCHANGED sourceVars
  BY LoadedIsWithin DEF Inv, Sound, Load
<1>2. /\ Len(source) \in Nat /\ Len(captured) \in Nat
      /\ loaded \in [batch : 0..Len(source), cdc : 0..Len(captured)]
      /\ loaded.batch \in Nat /\ loaded.cdc \in Nat /\ loaded.cdc <= Len(captured)
  BY <1>1, LengthsAreNat DEF Inv, TypeOK
<1>3. /\ upTo \in [batch : 0..Len(source), cdc : 0..Len(captured)]
      /\ upTo.batch \in Nat /\ upTo.cdc \in Nat /\ upTo.cdc <= Len(captured)
      /\ AtMost(loaded, upTo) /\ NotEmpty(upTo) /\ Within(upTo)
      /\ loaded.batch <= upTo.batch /\ loaded.cdc <= upTo.cdc
  BY <1>2 DEF Delivers, Within, AtMost, Available, Histories
<1>4. /\ loaded' = upTo /\ UNCHANGED <<orders, replayed, gold, release, build>>
      /\ pending' = [pending EXCEPT !.customer = @ \/ Substantive(row, row')]
      /\ build.phase = "idle" /\ build'.phase = "idle"
  BY DEF Load
<1>5. /\ History(loaded)' = History(upTo) /\ History(loaded) \subseteq History(upTo)
      /\ History(upTo) \subseteq Events /\ newest \in Events
      /\ newest \in History(upTo) /\ newest \notin History(loaded)
      /\ \A e : Op(e)' = Op(e) /\ Attr(e)' = Attr(e)
  <2>1. History(loaded) \subseteq History(upTo) /\ History(upTo) \subseteq Events
    BY <1>1, <1>3, HistoryGrows, HistoryEvents DEF Within
  <2>2. PICK h : h = upTo
    OBVIOUS
  <2>3. History(h)' = History(h)
    BY <1>1, Still
  <2>4. History(loaded)' = History(h)'
    BY <1>4, <2>2 DEF History
  <2>. QED BY <1>1, <2>1, <2>2, <2>3, <2>4, Still DEF Delivers
<1>6. \A h \in [batch : 0..loaded.batch, cdc : 0..loaded.cdc] :
         h \in [batch : 0..upTo.batch, cdc : 0..upTo.cdc]
  BY <1>2, <1>3
<1>7. \A e \in History(upTo) : e \in History(loaded) \/ e = newest \/ Before(e, newest)
  BY DEF Delivers
<1>8. newest # NoRow /\ NoRow \notin Events
  BY <1>5, Scd2DimensionAssumption
<1>9. row' = IF row = NoRow
             THEN IF newest.channel = "cdc" /\ Op(newest) = "DELETE" THEN NoRow ELSE newest
             ELSE IF Before(row, newest) THEN newest ELSE row
  BY DEF Load
<1>10. \A e \in History(loaded) : row = NoRow \/ Before(row, e) =>
           /\ e.channel = "cdc"
           /\ loaded.cdc = Len(captured) /\ Len(captured) = Len(source)
           /\ source[Len(source)].op = "DELETE"
  BY DEF Inv, RowInv
<1>11. row # NoRow => row \in History(loaded) /\ row \in Events
  BY <1>5 DEF Inv, RowInv
<1>12. TypeOK'
  <2>1. /\ source' \in Seq([time : 1..MaxTime, op : Ops, attr : Attrs])
        /\ captured' \in Seq(1..MaxTime) /\ Len(captured') <= Len(source')
        /\ loaded' \in [batch : 0..Len(source'), cdc : 0..Len(captured')]
    BY <1>1, <1>3, <1>4 DEF sourceVars, Inv, TypeOK
  <2>2. row' \in Events \cup {NoRow}
    BY <1>5, <1>9, <1>11
  <2>3. pending' \in [customer : BOOLEAN, orders : SUBSET Orders]
    <3>1. pending \in [customer : BOOLEAN, orders : SUBSET Orders]
      BY DEF Inv, TypeOK
    <3>2. (pending.customer \/ Substantive(row, row')) \in BOOLEAN
      OBVIOUS
    <3>. QED BY <1>4, <3>1, <3>2
  <2>4. replayed' = NoCheckpoint \/ replayed' \in [batch : 0..loaded'.batch, cdc : 0..loaded'.cdc]
    BY <1>4, <1>6 DEF Inv, TypeOK
  <2>5. /\ orders' \in [Orders -> 0..MaxTime]
        /\ gold' \in [dim : SUBSET Versions, facts : [Orders -> Keys \cup {NoFact, UnknownKey}]]
        /\ release' = NoRelease \/
           release' \in [dim : SUBSET Versions, facts : [Orders -> Keys \cup {NoFact}] \cup {Misplaced}]
        /\ build' \in [phase : Phases, full : BOOLEAN]
    BY <1>4 DEF Inv, TypeOK
  <2>. QED BY <2>1, <2>2, <2>3, <2>4, <2>5 DEF TypeOK
<1>13. SourceInv'
  BY <1>1, Still DEF Inv
<1>14. pending'.orders = pending.orders /\ pending'.customer = (pending.customer \/ Substantive(row, row'))
  BY <1>4 DEF Inv, TypeOK
<1>15. OrdersInv'
  BY <1>1, <1>4, <1>14, Still DEF Inv, OrdersInv, InSilver
<1>16. CandidateInv'
  <2>1. Replayed(gold.dim) => Replayed(gold.dim)'
    <3>1. \A h : Replay(h)' = Replay(h)
      BY <1>1, Still
    <3>. QED BY <1>4, <1>6, <3>1 DEF Replayed, NotEmpty, AtMost
  <2>2. NotEmpty(loaded)'
    BY <1>3, <1>4 DEF NotEmpty
  <2>3. (replayed # NoCheckpoint => NotEmpty(replayed))'
    BY <1>4 DEF Inv, CandidateInv, NotEmpty
  <2>. QED BY <1>4, <2>1, <2>2, <2>3 DEF Inv, CandidateInv
<1>17. RowInv'
  <2>1. row' # NoRow => row' \in History(upTo)
    BY <1>5, <1>9, <1>11
  <2>2. ASSUME NEW e \in History(upTo), row' = NoRow \/ Before(row', e)
        PROVE  /\ e.channel = "cdc"
               /\ upTo.cdc = Len(captured) /\ Len(captured) = Len(source)
               /\ source[Len(source)].op = "DELETE"
    <3>1. e \in Events
      BY <1>5
    <3>2. e \in History(loaded) /\ (row = NoRow \/ Before(row, e)) =>
             /\ e.channel = "cdc"
             /\ upTo.cdc = Len(captured) /\ Len(captured) = Len(source)
             /\ source[Len(source)].op = "DELETE"
      BY <1>2, <1>3, <1>10
    <3>3. CASE row = NoRow /\ newest.channel = "cdc" /\ Op(newest) = "DELETE"
      <4>1. e \notin History(loaded)
        BY <1>2, <1>10, <3>3 DEF Delivers
      <4>. QED BY <3>3, <4>1 DEF Delivers
    <3>4. CASE row = NoRow /\ ~(newest.channel = "cdc" /\ Op(newest) = "DELETE")
      <4>1. Before(newest, e)
        BY <1>8, <1>9, <2>2, <3>4
      <4>2. e \in History(loaded)
        BY <1>5, <1>7, <3>1, <4>1, BeforeIsOrder
      <4>. QED BY <3>2, <3>4, <4>2
    <3>5. CASE row # NoRow /\ Before(row, newest)
      <4>1. Before(newest, e)
        BY <1>8, <1>9, <2>2, <3>5
      <4>2. e \in History(loaded)
        BY <1>5, <1>7, <3>1, <4>1, BeforeIsOrder
      <4>3. Before(row, e)
        BY <1>5, <1>11, <3>1, <3>5, <4>1, BeforeIsOrder
      <4>. QED BY <3>2, <4>2, <4>3
    <3>6. CASE row # NoRow /\ ~Before(row, newest)
      <4>1. Before(row, e)
        BY <1>9, <2>2, <3>6
      <4>2. newest = row \/ Before(newest, row)
        BY <1>5, <1>11, <3>6, BeforeIsOrder
      <4>3. Before(newest, e)
        BY <1>5, <1>11, <3>1, <3>6, <4>1, <4>2, BeforeIsOrder
      <4>4. e \in History(loaded)
        BY <1>5, <1>7, <3>1, <4>3, BeforeIsOrder
      <4>. QED BY <3>2, <4>1, <4>4
    <3>. QED BY <3>3, <3>4, <3>5, <3>6
  <2>3. source' = source /\ captured' = captured
    BY <1>1 DEF sourceVars
  <2>. QED BY <1>4, <1>5, <2>1, <2>2, <2>3 DEF RowInv
<1>18. PublishedInv'
  <2>. SUFFICES ASSUME release # NoRelease, ~pending.customer, ~Substantive(row, row')
                PROVE  /\ row' # NoRow =>
                            \/ Behind'
                            \/ {v.attr : v \in {w \in release.dim : w.current}} =
                                 (IF Op(row) = "DELETE" THEN {} ELSE {Attr(row)})'
                       /\ loaded'.cdc # 0
    BY <1>4, <1>14 DEF PublishedInv
  <2>1. row # NoRow => \/ Behind
                       \/ {v.attr : v \in {w \in release.dim : w.current}} =
                            IF Op(row) = "DELETE" THEN {} ELSE {Attr(row)}
    BY DEF Inv, PublishedInv
  <2>2. row' # NoRow => row # NoRow /\ row'.change = row.change
    BY DEF Substantive
  <2>3. ASSUME row' # NoRow, Behind PROVE Behind'
    <3>1. PICK e \in History(loaded) : Before(row, e)
      BY <2>3 DEF Behind
    <3>2. CASE row' = row
      BY <1>5, <3>1, <3>2 DEF Behind
    <3>3. CASE row' = newest /\ Before(row, newest)
      <4>1. newest.channel # "cdc"
        BY <1>2, <1>10, <3>1 DEF Delivers
      <4>2. newest.change = row.change /\ row \in History(loaded) /\ row \in History(upTo)
        BY <1>5, <1>11, <2>2, <2>3, <3>3
      <4>3. newest.change \in 1..upTo.batch /\ newest = BatchEvent(newest.change)
        BY <1>1, <1>3, <1>5, <4>1, HistoryEvents
      <4>4. row # BatchEvent(newest.change)
        BY <1>5, <4>2, <4>3
      <4>5. row.change \in 1..upTo.cdc /\ row = CdcEvent(row.change)
        BY <1>1, <1>3, <4>2, <4>4, HistoryEvents
      <4>6. Before(newest, row)
        BY <1>1, <1>3, <4>2, <4>3, <4>5, EventsInOrder
      <4>. QED BY <1>5, <1>11, <2>2, <2>3, <3>3, <4>6, BeforeIsOrder
    <3>. QED BY <1>9, <2>2, <2>3, <3>2, <3>3
  <2>4. row' # NoRow => (IF Op(row) = "DELETE" THEN {} ELSE {Attr(row)})' =
                        IF Op(row) = "DELETE" THEN {} ELSE {Attr(row)}
    BY <1>1, <2>2 DEF Op, Attr, sourceVars
  <2>5. ASSUME loaded'.cdc = 0 PROVE FALSE
    <3>1. upTo.cdc = 0 /\ loaded.cdc = 0 /\ 1..upTo.cdc = {}
      BY <1>2, <1>3, <1>4, <2>5
    <3>2. newest.change \in 1..upTo.batch /\ newest = BatchEvent(newest.change)
      BY <1>1, <1>3, <1>5, <3>1, HistoryEvents
    <3>3. newest.channel = "batch"
      BY <1>1, <1>3, <3>2, HistoryEvents
    <3>4. row # NoRow
      BY <1>8, <1>9, <2>2, <3>3
    <3>5. row.change \in 1..loaded.batch /\ row = BatchEvent(row.change)
      <4>1. row \in History(loaded)
        BY <1>11, <3>4
      <4>2. 1..loaded.cdc = {}
        BY <3>1
      <4>. QED BY <1>1, <4>1, <4>2, HistoryEvents
    <3>6. newest.change \notin 1..loaded.batch
      BY <1>5, <3>2, InHistory
    <3>7. row.change \in 1..upTo.batch /\ row.change < newest.change
      BY <1>2, <1>3, <3>2, <3>5, <3>6
    <3>8. Before(row, newest)
      BY <1>1, <1>3, <3>2, <3>5, <3>7, EventsInOrder
    <3>9. row' = newest
      BY <1>9, <3>4, <3>8
    <3>. QED BY <1>8, <2>2, <3>2, <3>7, <3>9
  <2>. QED BY <2>1, <2>2, <2>3, <2>4, <2>5
<1>. QED BY <1>12, <1>13, <1>15, <1>16, <1>17, <1>18 DEF Inv

LEMMA LoadOrderKeeps ==
    ASSUME Inv, NEW o \in Orders, NEW t \in 1..MaxTime, LoadOrder(o, t)
    PROVE  Inv'
<1>1. /\ UNCHANGED <<sourceVars, loaded, row, replayed, gold, release, build>>
      /\ orders' = [orders EXCEPT ![o] = t] /\ pending' = [pending EXCEPT !.orders = @ \cup {o}]
      /\ build.phase = "idle"
      /\ orders[o] = 0 => Exists
  BY DEF LoadOrder
<1>2. /\ orders \in [Orders -> 0..MaxTime] /\ pending \in [customer : BOOLEAN, orders : SUBSET Orders]
      /\ t \in Nat /\ t # 0 /\ t \in 0..MaxTime
  BY Scd2DimensionAssumption DEF Inv, TypeOK
<1>3. /\ orders' \in [Orders -> 0..MaxTime] /\ orders'[o] = t
      /\ \A p \in Orders : p # o => orders'[p] = orders[p]
      /\ pending' \in [customer : BOOLEAN, orders : SUBSET Orders]
      /\ pending'.orders = pending.orders \cup {o} /\ pending'.customer = pending.customer
  BY <1>1, <1>2
<1>4. TypeOK'
  BY <1>1, <1>3 DEF Inv, TypeOK, sourceVars
<1>5. SourceInv'
  BY <1>1, Still DEF Inv
<1>6. Exists' /\ (Exists' <=> Exists)
  <2>1. Exists
    BY <1>1 DEF Inv, OrdersInv
  <2>. QED BY <1>1, <2>1, Still
<1>7. OrdersInv'
  <2>1. pending'.orders \subseteq InSilver'
    BY <1>2, <1>3 DEF Inv, OrdersInv, InSilver
  <2>. QED BY <1>1, <1>6, <2>1 DEF Inv, OrdersInv
<1>8. /\ \A h : History(h)' = History(h) /\ Replay(h)' = Replay(h)
      /\ \A e : Op(e)' = Op(e) /\ Attr(e)' = Attr(e)
  BY <1>1, Still
<1>9. PICK h : h = loaded /\ h = loaded'
  BY <1>1
<1>10. History(loaded)' = History(loaded) /\ Replay(loaded)' = Replay(loaded)
  <2>1. History(loaded)' = History(h)' /\ Replay(loaded)' = Replay(h)'
    BY <1>9 DEF History, Replay
  <2>. QED BY <1>8, <1>9, <2>1
<1>11. CandidateInv'
  <2>1. Replayed(gold.dim) => Replayed(gold.dim)'
    BY <1>1, <1>8 DEF Replayed, NotEmpty, AtMost
  <2>. QED BY <1>1, <1>3, <1>10, <2>1 DEF Inv, CandidateInv, NotEmpty
<1>12. RowInv'
  BY <1>1, <1>10 DEF Inv, RowInv, sourceVars
<1>13. PublishedInv'
  <2>1. (IF Op(row) = "DELETE" THEN {} ELSE {Attr(row)})' = IF Op(row) = "DELETE" THEN {} ELSE {Attr(row)}
    BY <1>1 DEF Op, Attr, sourceVars
  <2>2. Behind' <=> Behind
    BY <1>1, <1>10 DEF Behind
  <2>. QED BY <1>1, <1>3, <1>10, <2>1, <2>2 DEF Inv, PublishedInv
<1>. QED BY <1>4, <1>5, <1>7, <1>11, <1>12, <1>13 DEF Inv

--------------------------------------------------------------------------------
(* The builder.  Silver stands still while it works.                        *)
LEMMA StillSilver ==
    ASSUME Inv, UNCHANGED <<sourceVars, silverVars>>
    PROVE  /\ SourceInv' /\ RowInv'
           /\ \A h : Replay(h)' = Replay(h)
           /\ Replay(loaded)' = Replay(loaded) /\ loaded' = loaded /\ row' = row /\ orders' = orders
           /\ Behind' <=> Behind
           /\ (IF Op(row) = "DELETE" THEN {} ELSE {Attr(row)})' = IF Op(row) = "DELETE" THEN {} ELSE {Attr(row)}
           /\ Exists' <=> Exists
           /\ InSilver' = InSilver
<1>1. /\ source' = source /\ captured' = captured
      /\ loaded' = loaded /\ row' = row /\ orders' = orders /\ UNCHANGED sourceVars
  BY DEF sourceVars, silverVars
<1>2. /\ \A h : History(h)' = History(h) /\ Replay(h)' = Replay(h)
      /\ SourceInv' /\ (Exists' <=> Exists)
  BY <1>1, Still DEF Inv
<1>3. PICK h : h = loaded /\ h = loaded'
  BY <1>1
<1>4. History(loaded)' = History(loaded) /\ Replay(loaded)' = Replay(loaded)
  <2>1. History(loaded)' = History(h)' /\ Replay(loaded)' = Replay(h)'
    BY <1>3 DEF History, Replay
  <2>. QED BY <1>2, <1>3, <2>1
<1>5. RowInv'
  BY <1>1, <1>4 DEF Inv, RowInv
<1>6. (IF Op(row) = "DELETE" THEN {} ELSE {Attr(row)})' = IF Op(row) = "DELETE" THEN {} ELSE {Attr(row)}
  BY <1>1 DEF Op, Attr
<1>7. (Behind' <=> Behind) /\ InSilver' = InSilver
  BY <1>1, <1>4 DEF Behind, InSilver
<1>. QED BY <1>1, <1>2, <1>4, <1>5, <1>6, <1>7

(* The candidate is the replay of everything whenever the checkpoint covers *)
(* everything.                                                              *)
LEMMA CheckpointCovers ==
    ASSUME Inv
    PROVE  /\ loaded \in Histories /\ loaded # NoCheckpoint
           /\ replayed = loaded => NotEmpty(loaded) /\ gold.dim = Replay(loaded)
           /\ NotEmpty(loaded) => /\ loaded \in [batch : 0..loaded.batch, cdc : 0..loaded.cdc]
                                  /\ replayed # NoCheckpoint => AtMost(replayed, loaded)
                                  /\ Replay(loaded) \in SUBSET Versions /\ Replay(loaded) # {}
<1>1. Sound /\ Within(loaded)
  BY LoadedIsWithin DEF Inv, Sound
<1>2. loaded \in Histories /\ loaded.batch \in Nat /\ loaded.cdc \in Nat
  BY <1>1 DEF Within, Histories
<1>3. loaded # NoCheckpoint
  BY <1>2, Scd2DimensionAssumption DEF Histories
<1>4. loaded \in [batch : 0..loaded.batch, cdc : 0..loaded.cdc]
  BY <1>2 DEF Histories
<1>5. replayed # NoCheckpoint => AtMost(replayed, loaded)
  BY <1>2 DEF Inv, TypeOK, AtMost
<1>6. ASSUME replayed = loaded PROVE NotEmpty(loaded) /\ gold.dim = Replay(loaded)
  <2>1. Replayed(gold.dim) /\ NotEmpty(loaded)
    BY <1>3, <1>6 DEF Inv, CandidateInv
  <2>2. PICK h \in [batch : 0..loaded.batch, cdc : 0..loaded.cdc] :
           gold.dim = Replay(h) /\ AtMost(loaded, h)
    BY <1>3, <1>6, <2>1 DEF Replayed
  <2>3. h = loaded
    BY <1>2, <2>2 DEF AtMost, Histories
  <2>. QED BY <2>1, <2>2, <2>3
<1>. QED BY <1>1, <1>2, <1>3, <1>4, <1>5, <1>6, ReplayTyped

LEMMA AfterReplay ==
    ASSUME Inv, UNCHANGED <<sourceVars, silverVars, pending, replayed, release>>, NotEmpty(loaded),
           gold' = [gold EXCEPT !.dim = Replay(loaded)],
           build' \in [phase : {"checkpoint"}, full : BOOLEAN],
           ~build'.full => pending.customer /\ release # NoRelease
    PROVE  Inv'
<1>1. /\ SourceInv' /\ RowInv' /\ \A h : Replay(h)' = Replay(h)
      /\ Replay(loaded)' = Replay(loaded) /\ loaded' = loaded /\ row' = row /\ orders' = orders
      /\ (Behind' <=> Behind) /\ (Exists' <=> Exists) /\ InSilver' = InSilver
      /\ (IF Op(row) = "DELETE" THEN {} ELSE {Attr(row)})' = IF Op(row) = "DELETE" THEN {} ELSE {Attr(row)}
  BY StillSilver
<1>2. /\ loaded \in [batch : 0..loaded.batch, cdc : 0..loaded.cdc]
      /\ replayed # NoCheckpoint => AtMost(replayed, loaded)
      /\ Replay(loaded) \in SUBSET Versions
  BY CheckpointCovers
<1>3. /\ gold \in [dim : SUBSET Versions, facts : [Orders -> Keys \cup {NoFact, UnknownKey}]]
      /\ gold.facts \in [Orders -> Keys \cup {NoFact}]
  BY DEF Inv, TypeOK, OrdersInv
<1>4. /\ gold' \in [dim : SUBSET Versions, facts : [Orders -> Keys \cup {NoFact, UnknownKey}]]
      /\ gold'.dim = Replay(loaded) /\ gold'.facts = gold.facts
  BY <1>2, <1>3
<1>5. build'.phase = "checkpoint" /\ build' \in [phase : Phases, full : BOOLEAN]
  BY DEF Phases
<1>6. TypeOK'
  BY <1>4, <1>5 DEF Inv, TypeOK, sourceVars, silverVars
<1>7. OrdersInv'
  BY <1>1, <1>3, <1>4 DEF Inv, OrdersInv
<1>8. CandidateInv'
  <2>1. Replayed(gold.dim)'
    BY <1>1, <1>2, <1>4 DEF Replayed, NotEmpty, AtMost
  <2>. QED BY <1>1, <1>4, <1>5, <2>1 DEF Inv, CandidateInv, NotEmpty
<1>9. PublishedInv'
  BY <1>1, <1>4 DEF Inv, PublishedInv
<1>. QED BY <1>1, <1>6, <1>7, <1>8, <1>9 DEF Inv

LEMMA RebuildKeeps == Inv /\ RebuildDimension => Inv'
<1>. SUFFICES ASSUME Inv, RebuildDimension PROVE Inv'
  OBVIOUS
<1>1. NotEmpty(loaded)
  BY CheckpointCovers DEF RebuildDimension, NotEmpty, Histories
<1>2. build' \in [phase : {"checkpoint"}, full : BOOLEAN] /\ build'.full
  BY DEF RebuildDimension
<1>. QED BY <1>1, <1>2, AfterReplay DEF RebuildDimension

LEMMA UpdateKeeps == Inv /\ UpdateDimension => Inv'
<1>. SUFFICES ASSUME Inv, UpdateDimension PROVE Inv'
  OBVIOUS
<1>1. NotEmpty(loaded)
  BY DEF UpdateDimension, Inv, CandidateInv
<1>2. build' \in [phase : {"checkpoint"}, full : BOOLEAN]
  BY DEF UpdateDimension
<1>3. gold' = [gold EXCEPT !.dim = Replay(loaded)]
  BY UpsertReplaces DEF UpdateDimension
<1>. QED BY <1>1, <1>2, <1>3, AfterReplay DEF UpdateDimension

(* The steps that leave the candidate tables and the release alone.         *)
LEMMA AfterLook ==
    ASSUME Inv, UNCHANGED <<sourceVars, silverVars, pending, gold, release>>,
           build' \in [phase : Phases, full : BOOLEAN],
           replayed' = replayed \/ (replayed' = loaded /\ gold.dim = Replay(loaded) /\ NotEmpty(loaded)),
           build'.phase # "idle" => NotEmpty(loaded) /\ gold.dim = Replay(loaded),
           build'.phase \in {"idle", "gate", "fact"},
           build'.phase # "idle" => replayed' = loaded,
           build'.phase = "fact" => build'.full,
           build'.phase # "idle" /\ ~build'.full => pending.customer /\ release # NoRelease
    PROVE  Inv'
<1>1. /\ SourceInv' /\ RowInv' /\ \A h : Replay(h)' = Replay(h)
      /\ Replay(loaded)' = Replay(loaded) /\ loaded' = loaded /\ row' = row /\ orders' = orders
      /\ (Behind' <=> Behind) /\ (Exists' <=> Exists) /\ InSilver' = InSilver
      /\ (IF Op(row) = "DELETE" THEN {} ELSE {Attr(row)})' = IF Op(row) = "DELETE" THEN {} ELSE {Attr(row)}
  BY StillSilver
<1>2. /\ loaded \in Histories /\ loaded # NoCheckpoint
      /\ NotEmpty(loaded) => loaded \in [batch : 0..loaded.batch, cdc : 0..loaded.cdc]
  BY CheckpointCovers
<1>3. TypeOK'
  <2>1. replayed' = NoCheckpoint \/ replayed' \in [batch : 0..loaded.batch, cdc : 0..loaded.cdc]
    BY <1>2 DEF Inv, TypeOK
  <2>. QED BY <2>1 DEF Inv, TypeOK, sourceVars, silverVars
<1>4. OrdersInv'
  BY <1>1 DEF Inv, OrdersInv
<1>5. CandidateInv'
  <2>1. CASE replayed' = replayed
    <3>1. Replayed(gold.dim) => Replayed(gold.dim)'
      BY <1>1, <2>1 DEF Replayed, NotEmpty, AtMost
    <3>. QED BY <1>1, <2>1, <3>1 DEF Inv, CandidateInv, NotEmpty
  <2>2. CASE replayed' = loaded /\ gold.dim = Replay(loaded) /\ NotEmpty(loaded)
    <3>1. AtMost(loaded, loaded)
      BY <1>2 DEF AtMost, Histories
    <3>2. Replayed(gold.dim)'
      BY <1>1, <1>2, <2>2, <3>1 DEF Replayed, NotEmpty, AtMost
    <3>. QED BY <1>1, <2>2, <3>2 DEF Inv, CandidateInv, NotEmpty
  <2>. QED BY <2>1, <2>2
<1>6. PublishedInv'
  BY <1>1 DEF Inv, PublishedInv
<1>. QED BY <1>1, <1>3, <1>4, <1>5, <1>6 DEF Inv

LEMMA SkipKeeps == Inv /\ SkipDimension => Inv'
<1>. SUFFICES ASSUME Inv, SkipDimension PROVE Inv'
  OBVIOUS
<1>1. build' \in [phase : Phases, full : BOOLEAN] /\ build'.phase = "gate" /\ ~build'.full
  BY DEF SkipDimension, Phases
<1>. QED BY <1>1, CheckpointCovers, AfterLook DEF SkipDimension

LEMMA CheckpointKeeps == Inv /\ WriteCheckpoint => Inv'
<1>. SUFFICES ASSUME Inv, WriteCheckpoint PROVE Inv'
  OBVIOUS
<1>1. build \in [phase : Phases, full : BOOLEAN] /\ build.phase = "checkpoint"
  BY DEF WriteCheckpoint, Inv, TypeOK
<1>2. /\ build' \in [phase : Phases, full : BOOLEAN]
      /\ build'.phase = (IF build.full THEN "fact" ELSE "gate") /\ build'.full = build.full
  BY <1>1 DEF WriteCheckpoint, GoTo, Phases
<1>3. gold.dim = Replay(loaded) /\ NotEmpty(loaded)
  BY <1>1 DEF Inv, CandidateInv
<1>4. ~build.full => pending.customer /\ release # NoRelease
  BY <1>1 DEF Inv, CandidateInv
<1>5. replayed' = loaded /\ UNCHANGED <<sourceVars, silverVars, pending, gold, release>>
  BY DEF WriteCheckpoint
<1>. QED BY <1>2, <1>3, <1>4, <1>5, AfterLook

LEMMA FailKeeps == Inv /\ Fail => Inv'
<1>. SUFFICES ASSUME Inv, Fail PROVE Inv'
  OBVIOUS
<1>1. build' \in [phase : Phases, full : BOOLEAN] /\ build'.phase = "idle"
  BY DEF Fail, Phases, Idle
<1>. QED BY <1>1, AfterLook DEF Fail

(* The event that the history shows at a time. *)
LEMMA ShownIsThere ==
    ASSUME NEW E, SomeEvents(E), NEW t
    PROVE  LET past == {e \in E : e.time <= t}
           IN  (IF past # {} THEN Last(past) ELSE First(E)) \in E
<1>. DEFINE past == {e \in E : e.time <= t}
<1>1. CASE past # {}
  <2>1. SomeEvents(past)
    BY <1>1 DEF SomeEvents
  <2>2. Last(past) \in past
    <3>. HIDE DEF past
    <3>. QED BY <2>1, LastIsLast DEF IsLast
  <2>. QED BY <1>1, <2>2
<1>2. CASE past = {}
  BY <1>2, FirstIsFirst DEF IsFirst
<1>. QED BY <1>1, <1>2

(* A customer with orders is not deleted, so that an order finds a version, *)
(* with the attributes that the history shows then.                         *)
LEMMA FactSays ==
    ASSUME Inv, NotEmpty(loaded), NEW o \in Orders, orders[o] # 0
    PROVE  /\ orders[o] \in 1..MaxTime
           /\ FactKey(Replay(loaded), orders[o]) \in Keys
           /\ AttrsOfHistory(History(loaded), orders[o]) = {FactKey(Replay(loaded), orders[o]).attr}
<1>. DEFINE E == History(loaded)
            t == orders[o]
            dim == Replay(loaded)
            past == {e \in E : e.time <= t}
            shown == IF past # {} THEN Last(past) ELSE First(E)
<1>1. Sound /\ Within(loaded)
  BY LoadedIsWithin DEF Inv, Sound
<1>2. t \in 1..MaxTime /\ 1 <= t
  BY Scd2DimensionAssumption DEF Inv, TypeOK
<1>3. Opens(E) /\ SomeEvents(E) /\ CreatedAt = 1
  BY <1>1, HistoryOpens DEF Opens
<1>4. shown \in E
  <2>. HIDE DEF E, t
  <2>. QED BY <1>3, ShownIsThere
<1>5. Op(shown) # "DELETE"
  <2>1. shown.change \in 1..Len(source)
    BY <1>1, <1>4, HistoryEvents
  <2>2. Exists
    BY DEF Inv, OrdersInv
  <2>. HIDE DEF shown
  <2>. QED BY <2>1, <2>2 DEF Op, Exists, Inv, SourceInv
<1>6. AttrsOfHistory(E, t) = {Attr(shown)}
  <2>1. ~(t < CreatedAt)
    BY <1>2, <1>3
  <2>. QED BY <1>5, <2>1 DEF AttrsOfHistory
<1>7. {v.attr : v \in AsOf(dim, t)} = {Attr(shown)}
  <2>1. dim = Dim(E)
    BY ReplayIsDim
  <2>2. {v.attr : v \in AsOf(Dim(E), t)} = AttrsOfHistory(E, t)
    <3>. HIDE DEF E, t
    <3>. QED BY <1>2, <1>3, DimSays
  <2>. QED BY <1>6, <2>1, <2>2
<1>8. dim \in SUBSET Versions
  BY <1>1, ReplayTyped
<1>. HIDE DEF shown, dim, t
<1>9. PICK v \in AsOf(dim, t) : v = CHOOSE w \in AsOf(dim, t) : TRUE
  BY <1>7
<1>10. v \in Versions /\ v.attr = Attr(shown)
  BY <1>7, <1>8, <1>9 DEF AsOf
<1>11. FactKey(dim, t) = KeyOf(v)
  BY <1>9 DEF FactKey
<1>12. KeyOf(v) \in Keys /\ KeyOf(v).attr = Attr(shown)
  BY <1>10 DEF KeyOf, Keys, Versions
<1>. QED BY <1>2, <1>6, <1>11, <1>12 DEF t, dim

(* The steps that write the facts. *)
LEMMA AfterFacts ==
    ASSUME Inv, UNCHANGED <<sourceVars, silverVars, pending, replayed, release>>,
           NEW facts \in [Orders -> Keys \cup {NoFact}], gold' = [gold EXCEPT !.facts = facts],
           \/ build'.phase = "gate" /\ build'.full /\ replayed = loaded
           \/ build'.phase = "publish" /\ ~build'.full /\ release # NoRelease,
           build' \in [phase : Phases, full : BOOLEAN],
           build'.phase = "gate" \/ pending.customer => gold.dim = Replay(loaded)
    PROVE  Inv'
<1>1. /\ SourceInv' /\ RowInv' /\ \A h : Replay(h)' = Replay(h)
      /\ Replay(loaded)' = Replay(loaded) /\ loaded' = loaded /\ row' = row /\ orders' = orders
      /\ (Behind' <=> Behind) /\ (Exists' <=> Exists) /\ InSilver' = InSilver
      /\ (IF Op(row) = "DELETE" THEN {} ELSE {Attr(row)})' = IF Op(row) = "DELETE" THEN {} ELSE {Attr(row)}
  BY StillSilver
<1>2. gold \in [dim : SUBSET Versions, facts : [Orders -> Keys \cup {NoFact, UnknownKey}]]
  BY DEF Inv, TypeOK
<1>3. /\ gold' \in [dim : SUBSET Versions, facts : [Orders -> Keys \cup {NoFact, UnknownKey}]]
      /\ gold'.dim = gold.dim /\ gold'.facts = facts
  <2>1. facts \in [Orders -> Keys \cup {NoFact, UnknownKey}]
    OBVIOUS
  <2>. QED BY <1>2, <2>1
<1>4. TypeOK'
  BY <1>3 DEF Inv, TypeOK, sourceVars, silverVars
<1>5. OrdersInv'
  BY <1>1, <1>3 DEF Inv, OrdersInv
<1>6. CandidateInv'
  <2>1. Replayed(gold.dim) => Replayed(gold.dim)'
    BY <1>1, <1>3 DEF Replayed, NotEmpty, AtMost
  <2>2. NotEmpty(loaded)
    BY CheckpointCovers DEF Inv, CandidateInv
  <2>. QED BY <1>1, <1>3, <2>1, <2>2 DEF Inv, CandidateInv, NotEmpty
<1>7. PublishedInv'
  BY <1>1, <1>3 DEF Inv, PublishedInv
<1>. QED BY <1>1, <1>4, <1>5, <1>6, <1>7 DEF Inv

LEMMA FactsTyped ==
    ASSUME Inv, NEW dim, NEW scope, \A o \in scope \cap Orders : FactKey(dim, orders[o]) \in Keys
    PROVE  Facts(dim, scope) \in [Orders -> Keys \cup {NoFact}]
<1>1. gold.facts \in [Orders -> Keys \cup {NoFact}]
  BY DEF Inv, OrdersInv
<1>2. \A o \in Orders : (IF o \in scope THEN FactKey(dim, orders[o]) ELSE gold.facts[o]) \in Keys \cup {NoFact}
  BY <1>1
<1>. QED BY <1>2 DEF Facts

LEMMA MergeFactsKeeps == Inv /\ MergeFacts => Inv'
<1>. SUFFICES ASSUME Inv, MergeFacts PROVE Inv'
  OBVIOUS
<1>. DEFINE facts == Facts(gold.dim, pending.orders)
<1>1. /\ ~build.full /\ release # NoRelease
      /\ IF pending.customer THEN build.phase = "gate" ELSE build.phase = "idle"
      /\ FactsPass(gold.dim, facts, pending.orders)
      /\ gold' = [gold EXCEPT !.facts = facts] /\ build' = [build EXCEPT !.phase = "publish"]
      /\ UNCHANGED <<sourceVars, silverVars, pending, replayed, release>>
  BY DEF MergeFacts, GoTo
<1>2. \A o \in pending.orders \cap Orders : FactKey(gold.dim, orders[o]) \in Keys
  <2>1. KeysIn(gold.dim) \subseteq Keys
    BY DEF Inv, TypeOK, KeysIn, KeyOf, Keys, Versions
  <2>2. \A o \in pending.orders \cap Orders : facts[o] = FactKey(gold.dim, orders[o])
    BY DEF Facts
  <2>. QED BY <1>1, <2>1, <2>2 DEF FactsPass
<1>3. facts \in [Orders -> Keys \cup {NoFact}]
  BY <1>2, FactsTyped
<1>4. build' \in [phase : Phases, full : BOOLEAN] /\ build'.phase = "publish" /\ ~build'.full
  <2>1. build \in [phase : Phases, full : BOOLEAN]
    BY DEF Inv, TypeOK
  <2>. QED BY <1>1, <2>1 DEF Phases
<1>5. pending.customer => gold.dim = Replay(loaded)
  BY <1>1 DEF Inv, CandidateInv
<1>. HIDE DEF facts
<1>. QED BY <1>1, <1>3, <1>4, <1>5, AfterFacts

LEMMA WriteFullFactsKeeps == Inv /\ WriteFullFacts => Inv'
<1>. SUFFICES ASSUME Inv, WriteFullFacts PROVE Inv'
  OBVIOUS
<1>. DEFINE facts == Facts(gold.dim, InSilver)
<1>1. /\ build.phase = "fact" /\ build.full
      /\ gold' = [gold EXCEPT !.facts = facts] /\ build' = [build EXCEPT !.phase = "gate"]
      /\ UNCHANGED <<sourceVars, silverVars, pending, replayed, release>>
  BY DEF WriteFullFacts, GoTo
<1>2. gold.dim = Replay(loaded) /\ replayed = loaded /\ NotEmpty(loaded)
  BY <1>1 DEF Inv, CandidateInv
<1>3. \A o \in InSilver \cap Orders : FactKey(gold.dim, orders[o]) \in Keys
  BY <1>2, FactSays DEF InSilver
<1>4. facts \in [Orders -> Keys \cup {NoFact}]
  BY <1>3, FactsTyped
<1>5. build' \in [phase : Phases, full : BOOLEAN] /\ build'.phase = "gate" /\ build'.full
  <2>1. build \in [phase : Phases, full : BOOLEAN]
    BY DEF Inv, TypeOK
  <2>. QED BY <1>1, <2>1 DEF Phases
<1>. HIDE DEF facts
<1>. QED BY <1>1, <1>2, <1>4, <1>5, AfterFacts

LEMMA PublishKeeps == Inv /\ Publish => Inv'
<1>. SUFFICES ASSUME Inv, Publish PROVE Inv'
  OBVIOUS
<1>1. /\ release' = Pinned /\ pending' = NothingPending /\ build' = Idle
      /\ UNCHANGED <<sourceVars, silverVars, replayed, gold>>
      /\ build.phase \in {"publish", "gate"}
  BY DEF Publish
<1>2. /\ SourceInv' /\ RowInv' /\ \A h : Replay(h)' = Replay(h)
      /\ Replay(loaded)' = Replay(loaded) /\ loaded' = loaded /\ row' = row /\ orders' = orders
      /\ (Behind' <=> Behind) /\ (Exists' <=> Exists) /\ InSilver' = InSilver
      /\ (IF Op(row) = "DELETE" THEN {} ELSE {Attr(row)})' = IF Op(row) = "DELETE" THEN {} ELSE {Attr(row)}
  BY <1>1, StillSilver
<1>3. /\ NotEmpty(loaded)
      /\ build.full \/ pending.customer => gold.dim = Replay(loaded)
      /\ ~build.full => release # NoRelease
      /\ ~build.full /\ ~pending.customer => build.phase = "publish"
  BY <1>1 DEF Inv, CandidateInv
<1>4. /\ gold.dim \in SUBSET Versions /\ gold.facts \in [Orders -> Keys \cup {NoFact}]
      /\ release # NoRelease =>
           release \in [dim : SUBSET Versions, facts : [Orders -> Keys \cup {NoFact}] \cup {Misplaced}]
  BY DEF Inv, TypeOK, OrdersInv
<1>5. /\ release' \in [dim : SUBSET Versions, facts : [Orders -> Keys \cup {NoFact}] \cup {Misplaced}]
      /\ release'.dim = IF build.full \/ pending.customer THEN gold.dim ELSE release.dim
  <2>1. (IF build.full \/ pending.customer THEN gold.dim ELSE release.dim) \in SUBSET Versions
    BY <1>3, <1>4
  <2>2. (IF build.full \/ pending.orders # {} THEN gold.facts
         ELSE IF release.facts = gold.facts THEN release.facts ELSE Misplaced)
          \in [Orders -> Keys \cup {NoFact}] \cup {Misplaced}
    BY <1>4
  <2>. QED BY <1>1, <2>1, <2>2 DEF Pinned
<1>6. /\ pending'.customer = FALSE /\ pending'.orders = {}
      /\ pending' \in [customer : BOOLEAN, orders : SUBSET Orders]
      /\ build' \in [phase : Phases, full : BOOLEAN] /\ build'.phase = "idle"
  BY <1>1 DEF NothingPending, Idle, Phases
<1>7. TypeOK'
  BY <1>1, <1>5, <1>6 DEF Inv, TypeOK, sourceVars, silverVars
<1>8. OrdersInv'
  BY <1>1, <1>2, <1>6 DEF Inv, OrdersInv
<1>9. CandidateInv'
  <2>1. Replayed(gold.dim)
    <3>1. Replay(loaded) # {}
      BY <1>3, CheckpointCovers
    <3>. QED BY <1>3, <3>1 DEF Inv, CandidateInv
  <2>2. Replayed(gold.dim)'
    BY <1>1, <1>2, <2>1 DEF Replayed, NotEmpty, AtMost
  <2>. QED BY <1>1, <1>2, <1>3, <1>6, <2>2 DEF Inv, CandidateInv, NotEmpty
<1>10. PublishedInv'
  <2>1. CASE build.full \/ pending.customer
    <3>1. release'.dim = Replay(loaded) /\ gold'.dim = Replay(loaded)
      BY <1>1, <1>3, <1>5, <2>1
    <3>. DEFINE E == History(loaded)
    <3>2. SomeEvents(E)
      BY <1>3, LoadedIsWithin, HistoryOpens DEF Inv, Sound, Opens
    <3>3. {v.attr : v \in {w \in Dim(E) : w.current}} = IF Op(Last(E)) = "DELETE" THEN {} ELSE {Attr(Last(E))}
      <4>. HIDE DEF E
      <4>. QED BY <3>2, DimShows
    <3>4. Dim(E) = Replay(loaded)
      BY ReplayIsDim
    <3>5. IsLast(Last(E), E)
      <4>. HIDE DEF E
      <4>. QED BY <3>2, LastIsLast
    <3>6. row # NoRow => row = Last(E) \/ Behind
      BY <3>5 DEF Inv, RowInv, IsLast, Behind
    <3>7. row # NoRow => \/ Behind
                         \/ {v.attr : v \in {w \in Replay(loaded) : w.current}} =
                              IF Op(row) = "DELETE" THEN {} ELSE {Attr(row)}
      <4>. HIDE DEF E
      <4>. QED BY <3>3, <3>4, <3>6
    <3>. QED BY <1>2, <3>1, <3>7 DEF PublishedInv
  <2>2. CASE ~(build.full \/ pending.customer)
    <3>1. release'.dim = release.dim /\ release # NoRelease /\ ~pending.customer /\ gold'.dim = gold.dim
      BY <1>1, <1>3, <1>5, <2>2
    <3>. QED BY <1>2, <3>1 DEF Inv, PublishedInv
  <2>. QED BY <2>1, <2>2
<1>. QED BY <1>2, <1>7, <1>8, <1>9, <1>10 DEF Inv

LEMMA StutterKeeps == Inv /\ UNCHANGED vars => Inv'
<1>. SUFFICES ASSUME Inv, UNCHANGED vars PROVE Inv'
  OBVIOUS
<1>1. /\ UNCHANGED <<sourceVars, silverVars>>
      /\ pending' = pending /\ replayed' = replayed /\ gold' = gold /\ release' = release /\ build' = build
  BY DEF vars, silverVars
<1>2. /\ SourceInv' /\ RowInv' /\ \A h : Replay(h)' = Replay(h)
      /\ Replay(loaded)' = Replay(loaded) /\ loaded' = loaded /\ row' = row /\ orders' = orders
      /\ (Behind' <=> Behind) /\ (Exists' <=> Exists) /\ InSilver' = InSilver
      /\ (IF Op(row) = "DELETE" THEN {} ELSE {Attr(row)})' = IF Op(row) = "DELETE" THEN {} ELSE {Attr(row)}
  BY <1>1, StillSilver
<1>3. TypeOK'
  BY <1>1 DEF Inv, TypeOK, sourceVars, silverVars
<1>4. OrdersInv'
  BY <1>1, <1>2 DEF Inv, OrdersInv
<1>5. CandidateInv'
  <2>1. Replayed(gold.dim) => Replayed(gold.dim)'
    BY <1>1, <1>2 DEF Replayed, NotEmpty, AtMost
  <2>. QED BY <1>1, <1>2, <2>1 DEF Inv, CandidateInv, NotEmpty
<1>6. PublishedInv'
  BY <1>1, <1>2 DEF Inv, PublishedInv
<1>. QED BY <1>2, <1>3, <1>4, <1>5, <1>6 DEF Inv

LEMMA InvInit == Init => Inv
<1>. SUFFICES ASSUME Init PROVE Inv
  OBVIOUS
<1>1. /\ source = <<>> /\ captured = <<>> /\ Len(source) = 0 /\ Len(captured) = 0
      /\ loaded = [batch |-> 0, cdc |-> 0] /\ row = NoRow /\ orders = [o \in Orders |-> 0]
      /\ pending = NothingPending /\ replayed = NoCheckpoint
      /\ gold = [dim |-> {}, facts |-> [o \in Orders |-> NoFact]]
      /\ release = NoRelease /\ build = Idle
  BY DEF Init
<1>. USE Scd2DimensionAssumption
<1>2. TypeOK
  <2>1. source \in Seq([time : 1..MaxTime, op : Ops, attr : Attrs]) /\ captured \in Seq(1..MaxTime)
    BY <1>1
  <2>2. loaded \in [batch : 0..Len(source), cdc : 0..Len(captured)]
    BY <1>1
  <2>3. orders \in [Orders -> 0..MaxTime]
    BY <1>1
  <2>4. pending \in [customer : BOOLEAN, orders : SUBSET Orders]
    BY <1>1 DEF NothingPending
  <2>5. gold \in [dim : SUBSET Versions, facts : [Orders -> Keys \cup {NoFact, UnknownKey}]]
    BY <1>1
  <2>6. build \in [phase : Phases, full : BOOLEAN]
    BY <1>1 DEF Idle, Phases
  <2>. QED BY <1>1, <2>1, <2>2, <2>3, <2>4, <2>5, <2>6 DEF TypeOK
<1>3. SourceInv
  BY <1>1 DEF SourceInv
<1>4. OrdersInv
  BY <1>1 DEF OrdersInv, NothingPending, InSilver
<1>5. CandidateInv
  BY <1>1 DEF CandidateInv, NothingPending, Idle
<1>6. RowInv
  <2>1. History(loaded) = {}
    BY <1>1 DEF History
  <2>. QED BY <1>1, <2>1 DEF RowInv
<1>7. PublishedInv
  BY <1>1 DEF PublishedInv
<1>. QED BY <1>2, <1>3, <1>4, <1>5, <1>6, <1>7 DEF Inv

LEMMA InvNext == Inv /\ [Next]_vars => Inv'
<1>. SUFFICES ASSUME Inv, [Next]_vars PROVE Inv'
  OBVIOUS
<1>1. CASE \E op \in Ops, attr \in Attrs, t \in Now : SourceChange(op, attr, t)
  BY <1>1, SourceChangeKeeps
<1>2. CASE \E t \in Now : Capture(t)
  BY <1>2, CaptureKeeps
<1>3. CASE SilverStep
  <2>1. CASE LoadBatch
    BY <2>1, BatchDelivers, LoadKeeps DEF LoadBatch
  <2>2. CASE LoadCdc
    BY <2>2, CdcDelivers, LoadKeeps DEF LoadCdc
  <2>3. CASE \E o \in Orders, t \in 1..MaxTime : LoadOrder(o, t)
    BY <2>3, LoadOrderKeeps
  <2>. QED BY <1>3, <2>1, <2>2, <2>3 DEF SilverStep
<1>4. CASE BuildStep
  BY <1>4, RebuildKeeps, UpdateKeeps, SkipKeeps, CheckpointKeeps, MergeFactsKeeps, WriteFullFactsKeeps,
     PublishKeeps, FailKeeps DEF BuildStep
<1>5. CASE UNCHANGED vars
  BY <1>5, StutterKeeps
<1>. QED BY <1>1, <1>2, <1>3, <1>4, <1>5 DEF Next

THEOREM InvAlways == Spec => []Inv
<1>. QED BY InvInit, InvNext, PTL DEF Spec

--------------------------------------------------------------------------------
(* The results. *)

(* Types, and that nothing runs ahead of what it reads; no fact in the      *)
(* candidate or a release has the unknown key.                              *)
(* (models the state of build_gold.py:GoldBuilder)                          *)
THEOREM TypeCorrect == Spec => []TypeOK
<1>1. Inv => TypeOK
  BY DEF Inv
<1>. QED BY <1>1, InvAlways, PTL

(* Whenever the checkpoint covers the whole history, the dimension says for *)
(* each time what the last event up to then says, whatever the order in     *)
(* which the channels delivered and whichever builds failed.                *)
(* (scd2.py:_replay_single_entity_scd2, build_gold.py:_upsert_replayed_scd2) *)
THEOREM DimensionAlwaysFollows == Spec => []DimensionFollowsHistory
<1>1. Inv => DimensionFollowsHistory
  <2>. SUFFICES ASSUME Inv, replayed = loaded, NEW t \in 1..MaxTime
                PROVE  {v.attr : v \in AsOf(gold.dim, t)} = AttrsOfHistory(History(loaded), t)
    BY DEF DimensionFollowsHistory
  <2>1. NotEmpty(loaded) /\ gold.dim = Replay(loaded)
    BY CheckpointCovers
  <2>2. Sound /\ Within(loaded)
    BY LoadedIsWithin DEF Inv, Sound
  <2>3. Opens(History(loaded)) /\ CreatedAt = 1
    BY <2>1, <2>2, HistoryOpens
  <2>4. {v.attr : v \in AsOf(Dim(History(loaded)), t)} = AttrsOfHistory(History(loaded), t)
    BY <2>3, DimSays
  <2>. QED BY <2>1, <2>4, ReplayIsDim
<1>. QED BY <1>1, InvAlways, PTL

(* The SCD2 gate refuses only a dimension whose history has two boundaries  *)
(* at one time.                                                             *)
(* (quality.py:_scd2_violations)                                            *)
THEOREM GateRefusesOnlyTies == Spec => []OnlyTiesAreRefused
<1>1. Inv => OnlyTiesAreRefused
  <2>. SUFFICES ASSUME Inv, build.phase = "gate", NoTies(History(loaded)) PROVE ValidScd2(gold.dim)
    BY DEF OnlyTiesAreRefused, NoTies, Bounds
  <2>1. NotEmpty(loaded) /\ gold.dim = Replay(loaded)
    BY DEF Inv, CandidateInv
  <2>2. Sound /\ Within(loaded)
    BY LoadedIsWithin DEF Inv, Sound
  <2>3. SomeEvents(History(loaded)) /\ CreatedAt = 1
    BY <2>1, <2>2, HistoryOpens DEF Opens
  <2>4. ValidScd2(Dim(History(loaded)))
    BY <2>3, DimValid
  <2>. QED BY <2>1, <2>4, ReplayIsDim
<1>. QED BY <1>1, InvAlways, PTL

(* A release shows the customer as Silver current does, although commits of *)
(* metadata only start no replay.                                           *)
(* (build_gold.py:_substantive_changes)                                     *)
THEOREM ReleaseIsCurrent == Spec => []ReleaseShowsCurrentCustomer
<1>1. Inv => ReleaseShowsCurrentCustomer
  <2>. SUFFICES ASSUME Inv, release # NoRelease, ~pending.customer, row # NoRow, row = Last(History(loaded)), Behind
                PROVE  FALSE
    BY DEF ReleaseShowsCurrentCustomer, Inv, PublishedInv
  <2>1. Within(loaded) /\ Sound
    BY LoadedIsWithin DEF Inv, Sound
  <2>2. SomeEvents(History(loaded)) /\ History(loaded) \subseteq Events
    BY <2>1, HistoryEvents DEF SomeEvents, Behind
  <2>3. IsLast(row, History(loaded))
    BY <2>2, LastIsLast
  <2>. QED BY <2>2, <2>3, BeforeIsOrder DEF IsLast, Behind
<1>. QED BY <1>1, InvAlways, PTL

(* A larger history takes a key away only if an event sorts before the one  *)
(* that began its version.                                                  *)
LEMMA LostKey ==
    ASSUME Sound, NEW g, NEW h, Within(g), Within(h), NotEmpty(g), AtMost(g, h),
           NEW k \in KeysIn(Replay(g)) \ KeysIn(Replay(h))
    PROVE  \E late \in History(h) \ History(g), e \in History(h) :
              Before(late, e) /\ late.time <= k.from
<1>. DEFINE E == History(g)
            F == History(h)
<1>1. NotEmpty(h) /\ g \in Histories /\ h \in Histories
  BY DEF NotEmpty, AtMost, Within, Histories
<1>2. E \subseteq F /\ F \subseteq Events /\ E \subseteq Events
  BY <1>1, HistoryGrows, HistoryEvents
<1>3. Opens(E) /\ Opens(F) /\ CreatedAt = 1 /\ SomeEvents(E) /\ SomeEvents(F)
  BY <1>1, HistoryOpens DEF Opens
<1>4. PICK e \in Type2Starts(E) : k = KeyOf(VersionIn(e, E))
  BY ReplayIsDim DEF Dim, KeysIn
<1>5. e \in E /\ e \in F /\ e \in Events /\ e.time \in Nat /\ e.time \in 1..MaxTime
  BY <1>2, <1>4, BoundsAreEvents, EventFields
<1>. DEFINE earlier == {f \in E : Before(f, e)}
            since == {f \in F : Before(f, e)}
<1>6. PICK late \in F \ E : Before(late, e)
  <2>. SUFFICES ASSUME \A f \in F \ E : ~Before(f, e) PROVE FALSE
    OBVIOUS
  <2>1. since = earlier
    BY <1>2
  <2>2. e \in Type2Starts(F)
    <3>1. /\ Op(e) # "DELETE"
          /\ \/ {f \in earlier : Op(f) # "DELETE"} = {}
             \/ Attr(e) # Attr(Last({f \in earlier : Op(f) # "DELETE"}))
             \/ Op(Last(earlier)) = "DELETE"
      BY <1>4 DEF Type2Starts
    <3>. HIDE DEF earlier
    <3>. QED BY <1>5, <2>1, <3>1 DEF Type2Starts
  <2>3. (e = First(Type2Starts(F))) <=> (e = First(Type2Starts(E)))
    <3>1. First(E) = First(Type2Starts(E)) /\ First(F) = First(Type2Starts(F))
      BY <1>3, FirstStart
    <3>2. (e = First(E)) <=> earlier = {}
      <4>1. IsFirst(First(E), E)
        BY <1>3, FirstIsFirst
      <4>2. e = First(E) => earlier = {}
        BY <1>2, <4>1, BeforeIsOrder DEF IsFirst
      <4>3. e # First(E) => First(E) \in earlier
        BY <1>5, <4>1 DEF IsFirst
      <4>. QED BY <4>2, <4>3
    <3>3. (e = First(F)) <=> since = {}
      <4>1. IsFirst(First(F), F)
        BY <1>3, FirstIsFirst
      <4>2. e = First(F) => since = {}
        BY <1>2, <4>1, BeforeIsOrder DEF IsFirst
      <4>3. e # First(F) => First(F) \in since
        BY <1>5, <4>1 DEF IsFirst
      <4>. QED BY <4>2, <4>3
    <3>. QED BY <2>1, <3>1, <3>2, <3>3
  <2>4. KeyOf(VersionIn(e, F)) = k
    BY <1>4, <2>3 DEF KeyOf, VersionIn, VersionOf
  <2>5. KeyOf(VersionIn(e, F)) \in KeysIn(Replay(h))
    BY <2>2, ReplayIsDim DEF Dim, KeysIn
  <2>. QED BY <2>4, <2>5
<1>7. late \in Events /\ late.time <= e.time /\ late.time \in Nat
  BY <1>2, <1>5, <1>6, BeforeIsOrder, EventFields
<1>8. k.from = IF e = First(Type2Starts(E)) /\ 1 < e.time THEN 1 ELSE e.time
  BY <1>2, <1>3, <1>4, VersionFacts DEF KeyOf
<1>9. CASE k.from = e.time
  BY <1>5, <1>6, <1>7, <1>9
<1>10. CASE k.from # e.time
  <2>1. k.from = 1 /\ e = First(E) /\ 1 < e.time
    BY <1>3, <1>8, <1>10, FirstStart
  <2>2. BatchEvent(1).time = 1 /\ ~(1 <= g.batch)
    BY <1>5, <2>1, HistoryOpens
  <2>3. 1..g.batch = {} /\ g.batch = 0
    BY <1>1, <2>2 DEF Histories
  <2>4. e.change = 1 /\ e.change \in 1..g.cdc /\ e = CdcEvent(e.change)
    BY <1>5, <2>1, <2>3, HistoryOpens, HistoryEvents
  <2>5. late.change \in 1..h.batch /\ late = BatchEvent(late.change)
    <3>1. CASE late.change \in 1..h.cdc /\ late = CdcEvent(late.change)
      <4>1. 1 \in 1..h.cdc /\ late.change # 1 /\ 1 < late.change
        BY <1>1, <1>5, <1>6, <2>4, <3>1 DEF Histories
      <4>2. Before(e, late)
        BY <2>4, <3>1, <4>1, EventsInOrder
      <4>. QED BY <1>5, <1>6, <1>7, <4>2, BeforeIsOrder
    <3>. QED BY <1>6, <3>1, HistoryEvents
  <2>6. 1 \in 1..h.batch
    BY <1>1, <2>5 DEF Histories
  <2>7. BatchEvent(1) \in F /\ BatchEvent(1) \in Events
    BY <2>6, HistoryEvents, InHistory
  <2>8. BatchEvent(1) \notin E
    <3>1. BatchEvent(1).channel = "batch"
      BY <2>6, HistoryEvents
    <3>2. \A f \in E : f.channel = "cdc"
      BY <2>3, HistoryEvents
    <3>. QED BY <3>1, <3>2
  <2>9. Before(BatchEvent(1), e)
    BY <1>5, <2>1, <2>2, <2>7, BeforeIsOrder
  <2>. QED BY <1>5, <2>1, <2>2, <2>7, <2>8, <2>9
<1>. QED BY <1>9, <1>10

(* Only the replays of the dimension change it. *)
LEMMA OnlyReplaysChange == Next /\ gold'.dim # gold.dim => RebuildDimension \/ UpdateDimension
<1>. SUFFICES ASSUME Next, gold'.dim # gold.dim, ~RebuildDimension, ~UpdateDimension PROVE FALSE
  OBVIOUS
<1>1. MergeFacts \/ WriteFullFacts
  BY DEF Next, SourceChange, Capture, SilverStep, LoadBatch, LoadCdc, Load, LoadOrder, BuildStep,
         SkipDimension, WriteCheckpoint, Publish, Fail
<1>2. \A facts : [gold EXCEPT !.facts = facts].dim = gold.dim
  OBVIOUS
<1>. QED BY <1>1, <1>2 DEF MergeFacts, WriteFullFacts

(* A version's key is taken from the dimension only by a replay that finds  *)
(* an event that sorts before one of the history, and begins no later than  *)
(* the key: facts that no order change rebuilds keep their key.             *)
(* (build_gold.py:_affected_order_ids, _upsert_replayed_scd2)               *)
THEOREM OnlyLateEventsTakeKeys == Spec => KeysLostOnlyToLateEvents
<1>. DEFINE Kept == \A k \in KeysIn(gold.dim) \ KeysIn(gold'.dim) :
                       \E late \in History(loaded) \ Covered, e \in History(loaded) :
                           Before(late, e) /\ late.time <= k.from
<1>1. Inv /\ [Next]_vars => [Kept]_vars
  <2>. SUFFICES ASSUME Inv, Next, NEW k \in KeysIn(gold.dim) \ KeysIn(gold'.dim)
                PROVE  \E late \in History(loaded) \ Covered, e \in History(loaded) :
                           Before(late, e) /\ late.time <= k.from
    OBVIOUS
  <2>1. RebuildDimension \/ UpdateDimension
    BY OnlyReplaysChange
  <2>2. gold'.dim = Replay(loaded)
    <3>1. gold' = [gold EXCEPT !.dim = Replay(loaded)]
      BY <2>1, UpsertReplaces DEF RebuildDimension, UpdateDimension
    <3>2. gold \in [dim : SUBSET Versions, facts : [Orders -> Keys \cup {NoFact, UnknownKey}]]
      BY DEF Inv, TypeOK
    <3>. QED BY <3>1, <3>2
  <2>3. Sound /\ Within(loaded)
    BY LoadedIsWithin DEF Inv, Sound
  <2>4. gold.dim # {}
    BY DEF KeysIn
  <2>5. PICK h \in [batch : 0..loaded.batch, cdc : 0..loaded.cdc] :
           /\ NotEmpty(h) /\ gold.dim = Replay(h)
           /\ replayed # NoCheckpoint => AtMost(replayed, h)
    BY <2>4 DEF Inv, CandidateInv, Replayed
  <2>6. Within(h) /\ AtMost(h, loaded)
    <3>1. loaded.batch \in Nat /\ loaded.cdc \in Nat
      BY <2>3 DEF Within, Histories
    <3>. QED BY <2>3, <2>5, <3>1, EarlierIsWithin DEF AtMost
  <2>7. Covered \subseteq History(h)
    <3>1. CASE replayed = NoCheckpoint
      BY <3>1 DEF Covered
    <3>2. CASE replayed # NoCheckpoint
      <4>1. AtMost(replayed, h) /\ h \in Histories
        BY <2>5, <2>6, <3>2 DEF Within
      <4>2. replayed \in Histories
        <5>1. replayed \in [batch : 0..loaded.batch, cdc : 0..loaded.cdc]
          BY <3>2 DEF Inv, TypeOK
        <5>. QED BY <2>3, <5>1, EarlierIsWithin DEF Within
      <4>. QED BY <3>2, <4>1, <4>2, HistoryGrows DEF Covered
    <3>. QED BY <3>1, <3>2
  <2>8. k \in KeysIn(Replay(h)) \ KeysIn(Replay(loaded))
    BY <2>2, <2>5
  <2>9. PICK late \in History(loaded) \ History(h), e \in History(loaded) :
           Before(late, e) /\ late.time <= k.from
    BY <2>3, <2>5, <2>6, <2>8, LostKey
  <2>. QED BY <2>7, <2>9
<1>. QED BY <1>1, InvAlways, PTL DEF Spec, KeysLostOnlyToLateEvents

(* Without the stream, the history shows at a time what the source had,     *)
(* once the changes up to then are loaded.                                  *)
LEMMA BatchHistoryIsSource ==
    ASSUME Inv, NotEmpty(loaded), loaded.cdc = 0, NEW t \in 1..MaxTime, NEW a,
           \A i \in (loaded.batch + 1)..Len(source) : source[i].time > t,
           AttrsOfHistory(History(loaded), t) = {a}
    PROVE  a = SourceAttr(t)
<1>. DEFINE E == History(loaded)
            past == {e \in E : e.time <= t}
            known == {i \in 1..Len(source) : source[i].time <= t}
<1>1. /\ Sound /\ Within(loaded) /\ loaded.batch \in Nat /\ Len(source) \in Nat /\ loaded.batch <= Len(source)
      /\ t \in Nat /\ 1 <= t /\ 1 <= loaded.batch
  BY LoadedIsWithin, LengthsAreNat, Scd2DimensionAssumption
     DEF Inv, Sound, Within, AtMost, Available, Histories, NotEmpty
<1>2. 1 \in 1..loaded.batch /\ BatchEvent(1) \in E /\ BatchEvent(1).time = 1
  BY <1>1, InHistory, HistoryOpens
<1>3. past # {} /\ SomeEvents(past)
  <2>1. BatchEvent(1) \in past
    BY <1>1, <1>2
  <2>. QED BY <1>1, <2>1, HistoryEvents DEF SomeEvents
<1>4. PICK l \in past : /\ l = Last(past) /\ \A e \in past : e = l \/ Before(e, l)
  <2>1. IsLast(Last(past), past)
    <3>. HIDE DEF past
    <3>. QED BY <1>3, LastIsLast
  <2>. QED BY <2>1 DEF IsLast
<1>5. a = Attr(l)
  <2>1. AttrsOfHistory(E, t) = IF Op(l) = "DELETE" \/ t < CreatedAt THEN {} ELSE {Attr(l)}
    BY <1>3, <1>4 DEF AttrsOfHistory
  <2>. QED BY <2>1
<1>. DEFINE n == l.change
<1>6. n \in 1..loaded.batch /\ l = BatchEvent(n) /\ l \in E /\ source[n].time = l.time /\ l.time <= t
  <2>1. 1..loaded.cdc = {}
    OBVIOUS
  <2>2. n \in 1..loaded.batch /\ l = BatchEvent(n)
    BY <1>1, <1>4, <2>1, HistoryEvents
  <2>. QED BY <1>1, <1>4, <2>2, HistoryEvents
<1>7. n \in known
  BY <1>1, <1>6
<1>8. \A j \in known : j <= n
  <2>. SUFFICES ASSUME NEW j \in known, n < j PROVE FALSE
    BY <1>1, <1>6
  <2>1. source[j].time \in Nat
    BY <1>1, SourceTyped
  <2>2. j \in 1..loaded.batch
    BY <1>1, <2>1
  <2>3. BatchEvent(j) \in past /\ BatchEvent(j).change = j /\ BatchEvent(j) \in Events
    BY <1>1, <2>2, InHistory, HistoryEvents
  <2>4. Before(l, BatchEvent(j))
    BY <1>1, <1>6, <2>2, EventsInOrder
  <2>5. l \in Events
    BY <1>1, <1>6, HistoryEvents
  <2>. QED BY <1>4, <1>6, <2>3, <2>4, <2>5, BeforeIsOrder
<1>9. (CHOOSE i \in known : \A j \in known : j <= i) = n
  <2>1. \A i \in known : (\A j \in known : j <= i) => i = n
    BY <1>1, <1>6, <1>7, <1>8
  <2>. HIDE DEF known, n
  <2>. QED BY <1>7, <1>8, <2>1
<1>10. SourceAttr(t) = source[n].attr
  BY <1>9 DEF SourceAttr
<1>. QED BY <1>5, <1>10 DEF Attr

(* Only the facts' writers change a fact, and from what they change it.     *)
LEMMA ChangedFact ==
    ASSUME Inv, Next, NEW o \in Orders, gold'.facts[o] # gold.facts[o]
    PROVE  /\ orders[o] # 0 /\ gold'.facts[o] = FactKey(gold.dim, orders[o])
           /\ NotEmpty(loaded)
           /\ loaded.cdc = 0 => gold.dim = Replay(loaded)
<1>1. MergeFacts \/ WriteFullFacts
  <2>1. \A dim : [gold EXCEPT !.dim = dim].facts = gold.facts
    OBVIOUS
  <2>. QED BY <2>1 DEF Next, SourceChange, Capture, SilverStep, LoadBatch, LoadCdc, Load, LoadOrder, BuildStep,
         RebuildDimension, UpdateDimension, SkipDimension, WriteCheckpoint, Publish, Fail
<1>2. gold \in [dim : SUBSET Versions, facts : [Orders -> Keys \cup {NoFact, UnknownKey}]]
  BY DEF Inv, TypeOK
<1>3. \A facts : [gold EXCEPT !.facts = facts].facts = facts
  BY <1>2
<1>4. \A scope : Facts(gold.dim, scope)[o] = IF o \in scope THEN FactKey(gold.dim, orders[o]) ELSE gold.facts[o]
  BY DEF Facts
<1>5. CASE MergeFacts
  <2>1. /\ release # NoRelease /\ ~build.full
        /\ IF pending.customer THEN build.phase = "gate" ELSE build.phase = "idle"
        /\ gold' = [gold EXCEPT !.facts = Facts(gold.dim, pending.orders)]
    BY <1>5 DEF MergeFacts
  <2>2. o \in pending.orders /\ gold'.facts[o] = FactKey(gold.dim, orders[o])
    BY <1>3, <1>4, <2>1
  <2>3. orders[o] # 0
    BY <2>2 DEF Inv, OrdersInv, InSilver
  <2>4. NotEmpty(loaded) /\ (pending.customer => gold.dim = Replay(loaded))
    BY <2>1 DEF Inv, CandidateInv
  <2>5. ~pending.customer /\ loaded.cdc = 0 => gold.dim = Replay(loaded)
    BY <2>1 DEF Inv, PublishedInv
  <2>. QED BY <2>2, <2>3, <2>4, <2>5
<1>6. CASE WriteFullFacts
  <2>1. build.phase = "fact" /\ gold' = [gold EXCEPT !.facts = Facts(gold.dim, InSilver)]
    BY <1>6 DEF WriteFullFacts
  <2>2. o \in InSilver /\ gold'.facts[o] = FactKey(gold.dim, orders[o])
    BY <1>3, <1>4, <2>1
  <2>3. NotEmpty(loaded) /\ gold.dim = Replay(loaded)
    BY <2>1 DEF Inv, CandidateInv
  <2>. QED BY <2>2, <2>3 DEF InSilver
<1>. QED BY <1>1, <1>5, <1>6

(* Without the stream, a fact gets the attributes that the source had when  *)
(* its order was created, once the changes up to then are loaded.           *)
(* (fact_sales.py:build_fact_sales)                                         *)
THEOREM BatchFactsAlwaysExact == Spec => BatchFactsAreExact
<1>. DEFINE Exact == \A o \in Orders :
                        /\ gold'.facts[o] # gold.facts[o] /\ gold'.facts[o] \in Keys
                        /\ loaded.cdc = 0 /\ \A i \in (loaded.batch + 1)..Len(source) : source[i].time > orders[o]
                        => gold'.facts[o].attr = SourceAttr(orders[o])
<1>1. Inv /\ [Next]_vars => [Exact]_vars
  <2>. SUFFICES ASSUME Inv, Next, NEW o \in Orders, gold'.facts[o] # gold.facts[o], loaded.cdc = 0,
                       \A i \in (loaded.batch + 1)..Len(source) : source[i].time > orders[o]
                PROVE  gold'.facts[o].attr = SourceAttr(orders[o])
    OBVIOUS
  <2>1. /\ orders[o] # 0 /\ NotEmpty(loaded) /\ gold.dim = Replay(loaded)
        /\ gold'.facts[o] = FactKey(Replay(loaded), orders[o])
    BY ChangedFact
  <2>2. orders[o] \in 1..MaxTime /\ AttrsOfHistory(History(loaded), orders[o]) = {gold'.facts[o].attr}
    BY <2>1, FactSays
  <2>3. PICK t \in 1..MaxTime : t = orders[o]
    BY <2>2
  <2>4. PICK a : a = gold'.facts[o].attr
    OBVIOUS
  <2>5. a = SourceAttr(t)
    BY <2>1, <2>2, <2>3, <2>4, BatchHistoryIsSource
  <2>. QED BY <2>3, <2>4, <2>5
<1>. QED BY <1>1, InvAlways, PTL DEF Spec, BatchFactsAreExact

================================================================================

----------------------------- MODULE FactSalesProofs -----------------------------
(***************************************************************************)
(* The money of an order is split to the cent, for any number of lines and *)
(* any amounts.  The first part derives the laws of Total from its         *)
(* definition as a fold: the fold's function exists, and it does not       *)
(* depend on the order in which the lines are taken.  The second part      *)
(* bounds the rounding of one share and of their sum, and the third        *)
(* carries the theorems over the steps of the specification: facts stay    *)
(* what the build made of the lines that were there.                       *)
(***************************************************************************)
EXTENDS FactSales, FiniteSetTheorems, TLAPS

--------------------------------------------------------------------------------
(* Induction, over numbers and over the subsets of a finite set, for a set  *)
(* of the cases that are settled.                                           *)

LEMMA NatMin ==
    ASSUME NEW T \in SUBSET Nat, T # {}
    PROVE  \E n \in T : \A m \in T : n <= m
<1>. DEFINE R == {ss \in Nat \X Nat : ss[1] < ss[2]}
<1>1. OpToRel(<, Nat) = R
  BY DEF OpToRel
<1>2. IsWellFoundedOn(R, Nat)
  BY <1>1, NatLessThanWellFounded
<1>3. \A m, n \in Nat : m < n => <<m, n>> \in R
  OBVIOUS
<1>. HIDE DEF R
<1>4. PICK n \in T : \A m \in T : <<m, n>> \notin R
  BY <1>2, WFMin
<1>5. ASSUME NEW m \in T PROVE n <= m
  <2>1. m \in Nat /\ n \in Nat /\ <<m, n>> \notin R
    BY <1>4
  <2>2. ~(m < n)
    BY <1>3, <2>1
  <2>. QED BY <2>1, <2>2
<1>. QED BY <1>5

LEMMA NatInduct ==
    ASSUME NEW G, 0 \in G, \A n \in Nat : n \in G => n + 1 \in G
    PROVE  Nat \subseteq G
<1>. SUFFICES ASSUME Nat \ G # {} PROVE FALSE
  OBVIOUS
<1>1. PICK n \in Nat \ G : \A m \in Nat \ G : n <= m
  BY NatMin
<1>2. n - 1 \in Nat /\ n = (n - 1) + 1
  BY <1>1
<1>. QED BY <1>1, <1>2

LEMMA SubsetInduct ==
    ASSUME NEW S, IsFiniteSet(S), NEW G,
           \A T \in SUBSET S : (\A x \in T : T \ {x} \in G) => T \in G
    PROVE  \A T \in SUBSET S : T \in G
<1>. SUFFICES ASSUME (SUBSET S) \ G # {} PROVE FALSE
  OBVIOUS
<1>1. IsWellFoundedOn(StrictSubsetOrdering(S), SUBSET S)
  <2>1. FiniteSubsetsOf(S) = SUBSET S
    BY FS_FiniteSubsetsOfFinite
  <2>2. IsWellFoundedOn(StrictSubsetOrdering(S), FiniteSubsetsOf(S))
    BY FS_StrictSubsetOrderingWellFounded
  <2>. QED BY <2>1, <2>2
<1>2. PICK T \in (SUBSET S) \ G :
         \A U \in (SUBSET S) \ G : ~(<<U, T>> \in StrictSubsetOrdering(S))
  BY <1>1, WFMin
<1>3. ASSUME NEW x \in T PROVE T \ {x} \in G
  <2>1. T \ {x} \in SUBSET S /\ <<T \ {x}, T>> \in StrictSubsetOrdering(S)
    BY <1>2 DEF StrictSubsetOrdering
  <2>. QED BY <1>2, <2>1
<1>. QED BY <1>2, <1>3

--------------------------------------------------------------------------------
(* The laws of Total.                                                       *)

Taken(s) == CHOOSE x \in s : TRUE

(* g is the function of the fold, on a family of sets. *)
Sums(g, f, family) ==
    g = [s \in family |-> IF s = {} THEN 0 ELSE f[Taken(s)] + g[s \ {Taken(s)}]]

SumsUpTo(g, f, S) == IsFiniteSet(S) /\ Sums(g, f, SUBSET S)

LEMMA TakenIsIn == \A s : s # {} => Taken(s) \in s
  BY DEF Taken

(* The function is built up by the size of the sets. *)
LEMMA SumsExist ==
    ASSUME NEW f, NEW S, IsFiniteSet(S)
    PROVE  \E g : Sums(g, f, SUBSET S)
<1>. DEFINE Small(n) == {s \in SUBSET S : Cardinality(s) <= n}
            G == {n \in Nat : \E g : Sums(g, f, Small(n))}
<1>1. \A s \in SUBSET S : IsFiniteSet(s) /\ Cardinality(s) \in Nat /\ Cardinality(s) <= Cardinality(S)
  BY FS_Subset, FS_CardinalityType
<1>2. Cardinality(S) \in Nat
  BY FS_CardinalityType
<1>3. \A n \in Nat : \A s \in Small(n + 1) : s # {} => s \ {Taken(s)} \in Small(n)
  <2>. SUFFICES ASSUME NEW n \in Nat, NEW s \in Small(n + 1), s # {}
                PROVE  s \ {Taken(s)} \in Small(n)
    OBVIOUS
  <2>1. Cardinality(s \ {Taken(s)}) = Cardinality(s) - 1
    BY <1>1, FS_RemoveElement, TakenIsIn
  <2>. QED BY <1>1, <2>1
<1>4. 0 \in G
  <2>1. Small(0) = {{}}
    BY <1>1, FS_EmptySet
  <2>2. Sums([s \in {{}} |-> 0], f, Small(0))
    BY <2>1 DEF Sums
  <2>. QED BY <2>2
<1>5. \A n \in Nat : n \in G => n + 1 \in G
  <2>. SUFFICES ASSUME NEW n \in Nat, n \in G PROVE n + 1 \in G
    OBVIOUS
  <2>1. PICK g : Sums(g, f, Small(n))
    OBVIOUS
  <2>. DEFINE h == [s \in Small(n + 1) |-> IF s = {} THEN 0 ELSE f[Taken(s)] + g[s \ {Taken(s)}]]
  <2>2. \A s \in Small(n) : s \in Small(n + 1) /\ h[s] = g[s]
    <3>1. \A s \in Small(n) : s \in Small(n + 1)
      BY <1>1
    <3>. HIDE DEF Small
    <3>. QED BY <2>1, <3>1 DEF Sums
  <2>3. \A s \in Small(n + 1) : s # {} => h[s \ {Taken(s)}] = g[s \ {Taken(s)}]
    <3>. HIDE DEF Small, h
    <3>. QED BY <1>3, <2>2
  <2>4. Sums(h, f, Small(n + 1))
    <3>. DEFINE k == [s \in Small(n + 1) |-> IF s = {} THEN 0 ELSE f[Taken(s)] + h[s \ {Taken(s)}]]
    <3>1. \A s \in Small(n + 1) : h[s] = k[s]
      BY <2>3
    <3>2. h = k
      <4>. HIDE DEF Small
      <4>. QED BY <3>1
    <3>. QED BY <3>2 DEF Sums
  <2>5. \E w : Sums(w, f, Small(n + 1))
    <3>. HIDE DEF h, Small
    <3>. QED BY <2>4
  <2>6. n + 1 \in Nat
    OBVIOUS
  <2>. HIDE DEF Small
  <2>. QED BY <2>5, <2>6
<1>6. Cardinality(S) \in G
  <2>. HIDE DEF G
  <2>. QED BY <1>2, <1>4, <1>5, NatInduct
<1>7. Small(Cardinality(S)) = SUBSET S
  BY <1>1
<1>. QED BY <1>6, <1>7

LEMMA TotalIsSum ==
    ASSUME NEW f, NEW S, IsFiniteSet(S)
    PROVE  \E g : SumsUpTo(g, f, S) /\ Total(f, S) = g[S]
<1>. DEFINE g == CHOOSE g : Sums(g, f, SUBSET S)
<1>1. Sums(g, f, SUBSET S)
  BY SumsExist
<1>2. Total(f, S) = g[S]
  BY DEF Total, FoldFunctionOnSet, MapThenFoldSet, Sums, Taken
<1>. QED BY <1>1, <1>2 DEF SumsUpTo

LEMMA SumsType ==
    ASSUME NEW S, NEW f, \A x \in S : f[x] \in Int,
           NEW g, SumsUpTo(g, f, S)
    PROVE  \A T \in SUBSET S : g[T] \in Int
<1>. DEFINE G == {T \in SUBSET S : g[T] \in Int}
<1>1. ASSUME NEW T \in SUBSET S, \A x \in T : T \ {x} \in G PROVE T \in G
  <2>1. g[T] = IF T = {} THEN 0 ELSE f[Taken(T)] + g[T \ {Taken(T)}]
    BY DEF SumsUpTo, Sums
  <2>2. CASE T # {}
    <3>1. Taken(T) \in T
      BY <2>2, TakenIsIn
    <3>2. g[T \ {Taken(T)}] \in Int /\ f[Taken(T)] \in Int
      BY <1>1, <3>1
    <3>3. g[T] \in Int
      BY <2>1, <2>2, <3>2
    <3>. QED BY <3>3
  <2>. QED BY <2>1, <2>2
<1>2. \A T \in SUBSET S : T \in G
  <2>. HIDE DEF G
  <2>. QED BY <1>1, SubsetInduct DEF SumsUpTo
<1>. QED BY <1>2

(* Any element may be taken out first. *)
LEMMA SumsPoint ==
    ASSUME NEW S, NEW f, \A x \in S : f[x] \in Int,
           NEW g, SumsUpTo(g, f, S), NEW i \in S
    PROVE  g[S] = f[i] + g[S \ {i}]
<1>. DEFINE G == {T \in SUBSET S : \A x \in T : g[T] = f[x] + g[T \ {x}]}
<1>1. ASSUME NEW T \in SUBSET S, \A x \in T : T \ {x} \in G, NEW x \in T
      PROVE  g[T] = f[x] + g[T \ {x}]
  <2>. DEFINE c == Taken(T)
  <2>1. c \in T /\ g[T] = f[c] + g[T \ {c}]
    BY TakenIsIn DEF SumsUpTo, Sums
  <2>. HIDE DEF c
  <2>2. CASE x = c
    BY <2>1, <2>2
  <2>3. CASE x # c
    <3>1. g[T \ {c}] = f[x] + g[(T \ {c}) \ {x}]
      BY <1>1, <2>1, <2>3
    <3>2. g[T \ {x}] = f[c] + g[(T \ {x}) \ {c}]
      BY <1>1, <2>1, <2>3
    <3>3. (T \ {c}) \ {x} = (T \ {x}) \ {c}
      OBVIOUS
    <3>4. f[x] \in Int /\ f[c] \in Int /\ g[(T \ {c}) \ {x}] \in Int
      BY <2>1, SumsType
    <3>5. g[T] = f[c] + (f[x] + g[(T \ {c}) \ {x}])
      BY <2>1, <3>1
    <3>6. f[x] + g[T \ {x}] = f[x] + (f[c] + g[(T \ {c}) \ {x}])
      BY <3>2, <3>3
    <3>. QED BY <3>4, <3>5, <3>6
  <2>. QED BY <2>2, <2>3
<1>2. \A T \in SUBSET S : (\A x \in T : T \ {x} \in G) => T \in G
  BY <1>1
<1>3. S \in SUBSET S
  OBVIOUS
<1>4. S \in G
  <2>. HIDE DEF G
  <2>. QED BY <1>2, <1>3, SubsetInduct DEF SumsUpTo
<1>. QED BY <1>4

(* The function is the same on a smaller set, and for equal values. *)
LEMMA SumsAgree ==
    ASSUME NEW S, NEW f, NEW g, SumsUpTo(g, f, S),
           NEW P, P \subseteq S, NEW e, NEW h, SumsUpTo(h, e, P),
           \A x \in P : e[x] = f[x]
    PROVE  h[P] = g[P]
<1>. DEFINE G == {T \in SUBSET P : h[T] = g[T]}
<1>1. ASSUME NEW T \in SUBSET P, \A x \in T : T \ {x} \in G PROVE T \in G
  <2>1. /\ h[T] = IF T = {} THEN 0 ELSE e[Taken(T)] + h[T \ {Taken(T)}]
        /\ g[T] = IF T = {} THEN 0 ELSE f[Taken(T)] + g[T \ {Taken(T)}]
    BY DEF SumsUpTo, Sums
  <2>2. CASE T # {}
    <3>1. Taken(T) \in T
      BY <2>2, TakenIsIn
    <3>. QED BY <1>1, <2>1, <2>2, <3>1
  <2>. QED BY <2>1, <2>2
<1>2. IsFiniteSet(P)
  BY DEF SumsUpTo
<1>3. P \in SUBSET P
  OBVIOUS
<1>4. P \in G
  <2>. HIDE DEF G
  <2>. QED BY <1>1, <1>2, <1>3, SubsetInduct DEF SumsUpTo
<1>. QED BY <1>4

LEMMA TotalExt ==
    ASSUME NEW S, IsFiniteSet(S), NEW f, NEW e, \A x \in S : e[x] = f[x]
    PROVE  Total(e, S) = Total(f, S)
<1>1. PICK g : SumsUpTo(g, f, S) /\ Total(f, S) = g[S]
  BY TotalIsSum
<1>2. PICK h : SumsUpTo(h, e, S) /\ Total(e, S) = h[S]
  BY TotalIsSum
<1>3. SumsUpTo(g, f, S) /\ SumsUpTo(h, e, S) /\ S \subseteq S
  BY <1>1, <1>2
<1>4. h[S] = g[S]
  BY <1>3, SumsAgree
<1>. QED BY <1>1, <1>2, <1>4

LEMMA TotalEmpty == \A f : Total(f, {}) = 0
<1>. TAKE f
<1>1. PICK g : SumsUpTo(g, f, {}) /\ Total(f, {}) = g[{}]
  BY TotalIsSum, FS_EmptySet
<1>. QED BY <1>1 DEF SumsUpTo, Sums

LEMMA TotalType ==
    ASSUME NEW S, IsFiniteSet(S), NEW f, \A x \in S : f[x] \in Int
    PROVE  Total(f, S) \in Int
<1>1. PICK g : SumsUpTo(g, f, S) /\ Total(f, S) = g[S]
  BY TotalIsSum
<1>. QED BY <1>1, SumsType

LEMMA TotalPoint ==
    ASSUME NEW S, IsFiniteSet(S), NEW f, \A x \in S : f[x] \in Int, NEW i \in S
    PROVE  Total(f, S) = f[i] + Total(f, S \ {i})
<1>1. PICK g : SumsUpTo(g, f, S) /\ Total(f, S) = g[S]
  BY TotalIsSum
<1>. DEFINE P == S \ {i}
<1>2. IsFiniteSet(P) /\ P \subseteq S
  BY FS_RemoveElement
<1>3. g[S] = f[i] + g[P]
  BY <1>1, SumsPoint
<1>. HIDE DEF P
<1>4. PICK h : SumsUpTo(h, f, P) /\ Total(f, P) = h[P]
  BY <1>2, TotalIsSum
<1>5. h[P] = g[P]
  BY <1>1, <1>2, <1>4, SumsAgree
<1>6. Total(f, S) = f[i] + Total(f, P)
  BY <1>1, <1>3, <1>4, <1>5
<1>. QED BY <1>6 DEF P

(* Totals are proved about by taking elements out one by one. *)
LEMMA TotalsOfSubsets ==
    ASSUME NEW S, IsFiniteSet(S), NEW f, \A x \in S : f[x] \in Int
    PROVE  \A T \in SUBSET S : /\ IsFiniteSet(T) /\ Total(f, T) \in Int
                               /\ \A x \in T : Total(f, T) = f[x] + Total(f, T \ {x})
<1>. SUFFICES ASSUME NEW T \in SUBSET S
              PROVE  /\ IsFiniteSet(T) /\ Total(f, T) \in Int
                     /\ \A x \in T : Total(f, T) = f[x] + Total(f, T \ {x})
  OBVIOUS
<1>1. IsFiniteSet(T)
  BY FS_Subset
<1>. QED BY <1>1, TotalType, TotalPoint

LEMMA TotalNat ==
    ASSUME NEW S, IsFiniteSet(S), NEW f, \A x \in S : f[x] \in Nat
    PROVE  Total(f, S) \in Nat
<1>. DEFINE G == {T \in SUBSET S : Total(f, T) \in Nat}
<1>1. ASSUME NEW T \in SUBSET S, \A x \in T : T \ {x} \in G PROVE T \in G
  <2>1. CASE T = {}
    BY <2>1, TotalEmpty
  <2>2. CASE T # {}
    <3>1. PICK x : x \in T
      BY <2>2
    <3>2. \A y \in S : f[y] \in Int
      OBVIOUS
    <3>3. Total(f, T) = f[x] + Total(f, T \ {x})
      BY <3>1, <3>2, TotalsOfSubsets
    <3>4. Total(f, T \ {x}) \in Nat /\ f[x] \in Nat
      BY <1>1, <3>1
    <3>5. Total(f, T) \in Nat
      BY <3>3, <3>4
    <3>. QED BY <3>5
  <2>. QED BY <2>1, <2>2
<1>2. \A T \in SUBSET S : T \in G
  <2>. HIDE DEF G
  <2>. QED BY <1>1, SubsetInduct
<1>. QED BY <1>2

LEMMA TotalPlus ==
    ASSUME NEW S, IsFiniteSet(S), NEW f, NEW e, NEW h,
           \A x \in S : f[x] \in Int /\ e[x] \in Int /\ h[x] = f[x] + e[x]
    PROVE  Total(h, S) = Total(f, S) + Total(e, S)
<1>. DEFINE G == {T \in SUBSET S : Total(h, T) = Total(f, T) + Total(e, T)}
<1>1. ASSUME NEW T \in SUBSET S, \A x \in T : T \ {x} \in G PROVE T \in G
  <2>1. CASE T = {}
    BY <2>1, TotalEmpty
  <2>2. CASE T # {}
    <3>1. PICK x : x \in T
      BY <2>2
    <3>2. \A y \in S : h[y] \in Int
      OBVIOUS
    <3>3. /\ Total(f, T) = f[x] + Total(f, T \ {x}) /\ Total(f, T \ {x}) \in Int
          /\ Total(e, T) = e[x] + Total(e, T \ {x}) /\ Total(e, T \ {x}) \in Int
          /\ Total(h, T) = h[x] + Total(h, T \ {x})
      BY <3>1, <3>2, TotalsOfSubsets
    <3>4. Total(h, T \ {x}) = Total(f, T \ {x}) + Total(e, T \ {x})
      BY <1>1, <3>1
    <3>5. f[x] \in Int /\ e[x] \in Int /\ h[x] = f[x] + e[x]
      BY <3>1
    <3>6. Total(h, T) = Total(f, T) + Total(e, T)
      BY <3>3, <3>4, <3>5
    <3>. QED BY <3>6
  <2>. QED BY <2>1, <2>2
<1>2. \A T \in SUBSET S : T \in G
  <2>. HIDE DEF G
  <2>. QED BY <1>1, SubsetInduct
<1>. QED BY <1>2

LEMMA Distribute == \A a, b, c \in Int : a * (b + c) = a * b + a * c /\ (b + c) * a = b * a + c * a
  OBVIOUS

LEMMA TotalZero ==
    ASSUME NEW S, IsFiniteSet(S), NEW f, \A x \in S : f[x] = 0
    PROVE  Total(f, S) = 0
<1>1. \A x \in S : f[x] \in Int /\ f[x] = f[x] + f[x]
  OBVIOUS
<1>2. Total(f, S) \in Int
  BY <1>1, TotalType
<1>3. Total(f, S) = Total(f, S) + Total(f, S)
  BY <1>1, TotalPlus
<1>4. \A t \in Int : t = t + t => t = 0
  OBVIOUS
<1>. QED BY <1>2, <1>3, <1>4

(* When the terms of two sums are within w of each other, their totals are  *)
(* within w for each term.                                                  *)
LEMMA TotalWithin ==
    ASSUME NEW S, IsFiniteSet(S), NEW f, NEW e, NEW a \in Int, NEW b \in Int, NEW w \in Nat,
           \A x \in S : f[x] \in Int /\ e[x] \in Int /\ Within(a * f[x], b * e[x], w)
    PROVE  Within(a * Total(f, S), b * Total(e, S), Cardinality(S) * w)
<1>. DEFINE G == {T \in SUBSET S : Within(a * Total(f, T), b * Total(e, T), Cardinality(T) * w)}
<1>1. ASSUME NEW T \in SUBSET S, \A x \in T : T \ {x} \in G PROVE T \in G
  <2>1. CASE T = {}
    <3>1. Total(f, T) = 0 /\ Total(e, T) = 0 /\ Cardinality(T) = 0
      BY <2>1, TotalEmpty, FS_EmptySet
    <3>2. Within(a * Total(f, T), b * Total(e, T), Cardinality(T) * w)
      BY <3>1 DEF Within
    <3>. QED BY <3>2
  <2>2. CASE T # {}
    <3>1. PICK x : x \in T
      BY <2>2
    <3>. DEFINE P == T \ {x}
    <3>2. /\ Total(f, T) = f[x] + Total(f, P) /\ Total(f, P) \in Int
          /\ Total(e, T) = e[x] + Total(e, P) /\ Total(e, P) \in Int
      BY <3>1, TotalsOfSubsets
    <3>3. Within(a * Total(f, P), b * Total(e, P), Cardinality(P) * w)
      BY <1>1, <3>1
    <3>4. Cardinality(P) \in Nat /\ Cardinality(T) = Cardinality(P) + 1
      <4>1. IsFiniteSet(T)
        BY FS_Subset
      <4>2. IsFiniteSet(P) /\ Cardinality(P) = Cardinality(T) - 1
        BY <4>1, <3>1, FS_RemoveElement
      <4>3. Cardinality(T) \in Nat /\ Cardinality(P) \in Nat
        BY <4>1, <4>2, FS_CardinalityType
      <4>. QED BY <4>2, <4>3
    <3>5. f[x] \in Int /\ e[x] \in Int /\ Within(a * f[x], b * e[x], w)
      BY <3>1
    <3>. HIDE DEF P, G
    <3>6. /\ a * Total(f, T) = a * f[x] + a * Total(f, P)
          /\ b * Total(e, T) = b * e[x] + b * Total(e, P)
          /\ Cardinality(T) * w = Cardinality(P) * w + w
      <4>1. a * Total(f, T) = a * f[x] + a * Total(f, P)
        BY <3>2, <3>5, Distribute
      <4>2. b * Total(e, T) = b * e[x] + b * Total(e, P)
        BY <3>2, <3>5, Distribute
      <4>3. Cardinality(T) * w = Cardinality(P) * w + w
        BY <3>4
      <4>. QED BY <4>1, <4>2, <4>3
    <3>7. /\ a * f[x] \in Int /\ a * Total(f, P) \in Int /\ b * e[x] \in Int /\ b * Total(e, P) \in Int
          /\ Cardinality(P) * w \in Int
      BY <3>2, <3>4, <3>5
    <3>8. Within(a * Total(f, T), b * Total(e, T), Cardinality(T) * w)
      BY <3>3, <3>5, <3>6, <3>7 DEF Within
    <3>. QED BY <3>8 DEF G
  <2>. QED BY <2>1, <2>2
<1>2. \A T \in SUBSET S : T \in G
  <2>. HIDE DEF G
  <2>. QED BY <1>1, SubsetInduct
<1>. QED BY <1>2

--------------------------------------------------------------------------------
(* Rounding, and the allocation of an amount over some lines.               *)

LEMMA BRoundIsNear ==
    ASSUME NEW n \in Nat, NEW d \in Nat \ {0}
    PROVE  /\ BRound(n, d) \in Nat
           /\ Within(2 * d * BRound(n, d), 2 * n, d)
           /\ n = 0 => BRound(n, d) = 0
<1>. DEFINE q == n \div d
            r == n % d
<1>1. q \in Nat /\ r \in Nat /\ r < d /\ n = d * q + r
  OBVIOUS
<1>2. BRound(n, d) = IF 2 * r < d \/ (2 * r = d /\ q % 2 = 0) THEN q ELSE q + 1
  BY DEF BRound
<1>3. n = 0 => q = 0 /\ r = 0
  OBVIOUS
<1>. HIDE DEF q, r
<1>4. CASE BRound(n, d) = q /\ 2 * r <= d
  <2>1. d * q \in Int /\ 2 * d * q = 2 * (d * q)
    BY <1>1
  <2>. QED BY <1>1, <1>3, <1>4, <2>1 DEF Within
<1>5. CASE BRound(n, d) = q + 1 /\ 2 * r >= d
  <2>1. d * q \in Int /\ 2 * d * (q + 1) = 2 * (d * q) + 2 * d
    BY <1>1
  <2>2. n # 0
    BY <1>1, <1>3, <1>5
  <2>. QED BY <1>1, <1>5, <2>1, <2>2 DEF Within
<1>. QED BY <1>1, <1>2, <1>4, <1>5

LEMMA LastLineIsLast ==
    ASSUME NEW n \in Nat, NEW ids, ids \subseteq 1..n, ids # {}
    PROVE  LastLine(ids) \in ids /\ \A j \in ids : j <= LastLine(ids)
<1>. DEFINE bounds == {b \in Nat : \A j \in ids : j <= b}
<1>1. n \in bounds /\ bounds \in SUBSET Nat
  OBVIOUS
<1>2. PICK b \in bounds : \A m \in bounds : b <= m
  BY <1>1, NatMin
<1>3. b \in ids
  <2>1. SUFFICES ASSUME b \notin ids PROVE FALSE
    OBVIOUS
  <2>2. \A j \in ids : j \in Int /\ 1 <= j /\ j <= b - 1
    BY <2>1
  <2>3. b - 1 \in Nat
    <3>1. PICK j \in ids : TRUE
      OBVIOUS
    <3>. QED BY <2>2, <3>1
  <2>4. b - 1 \in bounds
    BY <2>2, <2>3
  <2>5. b <= b - 1
    <3>. HIDE DEF bounds
    <3>. QED BY <1>2, <2>4
  <2>6. b \in Int
    BY <1>2
  <2>. QED BY <2>5, <2>6
<1>4. \E i \in ids : \A j \in ids : j <= i
  BY <1>3
<1>. QED BY <1>4 DEF LastLine

(* The lines of an order in the source. *)
LinesTyped == lines \in Seq(Lines)

LEMMA LineAmountsAreNat ==
    ASSUME LinesTyped
    PROVE  /\ Len(lines) \in Nat
           /\ \A i \in 1..Len(lines) : /\ Gross[i] \in Nat /\ Tax[i] \in Nat /\ LineDiscount[i] \in Nat
                                       /\ Gross[i] = lines[i].gross /\ Tax[i] = lines[i].tax
<1>1. \A i \in 1..Len(lines) : lines[i] \in LineAmounts
  BY FactSalesAssumption DEF LinesTyped
<1>. QED BY <1>1 DEF LinesTyped, LineAmounts, Gross, Tax, LineDiscount

(* The lines that a build finds. *)
SomeLines(ids) == LinesTyped /\ ids \subseteq 1..Len(lines) /\ ids # {}

LEMMA SomeLinesFacts ==
    ASSUME NEW ids, SomeLines(ids)
    PROVE  /\ IsFiniteSet(ids) /\ Cardinality(ids) \in Nat
           /\ \A i \in ids : Gross[i] \in Nat /\ Tax[i] \in Nat /\ LineDiscount[i] \in Nat
           /\ LastLine(ids) \in ids
           /\ Total(Gross, ids) \in Nat /\ Total(Tax, ids) \in Nat /\ Total(LineDiscount, ids) \in Nat
<1>1. Len(lines) \in Nat /\ IsFiniteSet(1..Len(lines))
  BY LineAmountsAreNat, FS_Interval DEF SomeLines
<1>2. IsFiniteSet(ids)
  BY <1>1, FS_Subset DEF SomeLines
<1>3. Cardinality(ids) \in Nat
  BY <1>2, FS_CardinalityType
<1>4. \A i \in ids : Gross[i] \in Nat /\ Tax[i] \in Nat /\ LineDiscount[i] \in Nat
  BY LineAmountsAreNat DEF SomeLines
<1>5. LastLine(ids) \in ids
  BY <1>1, LastLineIsLast DEF SomeLines
<1>6. Total(Gross, ids) \in Nat /\ Total(Tax, ids) \in Nat /\ Total(LineDiscount, ids) \in Nat
  BY <1>2, <1>4, TotalNat
<1>. QED BY <1>2, <1>3, <1>4, <1>5, <1>6

LEMMA RawShareIsNear ==
    ASSUME NEW total \in Nat, NEW weight \in Nat, NEW weightTotal \in Nat
    PROVE  /\ RawShare(total, weight, weightTotal) \in Nat
           /\ weightTotal > 0 => Within(2 * weightTotal * RawShare(total, weight, weightTotal),
                                        2 * total * weight, weightTotal)
           /\ total = 0 => RawShare(total, weight, weightTotal) = 0
<1>1. total * weight \in Nat /\ 2 * total * weight = 2 * (total * weight)
  OBVIOUS
<1>2. total = 0 => total * weight = 0
  OBVIOUS
<1>3. CASE weightTotal = 0
  BY <1>3 DEF RawShare
<1>4. CASE weightTotal \in Nat \ {0}
  BY <1>1, <1>2, <1>4, BRoundIsNear DEF RawShare
<1>. QED BY <1>3, <1>4

RawShares(total, ids) == [i \in ids |-> RawShare(total, Gross[i], Total(Gross, ids))]

(* What the last line gets is the residual. *)
LEMMA LastLineTakesResidual ==
    ASSUME NEW total \in Nat, NEW ids, SomeLines(ids),
           NEW last, last = LastLine(ids), NEW rest, rest = ids \ {last},
           NEW raw, raw = RawShares(total, ids),
           NEW share, share = ResidualAllocation(total, ids)
    PROVE  /\ \A i \in ids : raw[i] \in Nat
           /\ \A i \in rest : share[i] = raw[i]
           /\ share[last] = total - Total(raw, rest)
           /\ Total(raw, rest) \in Int
           /\ last \in ids /\ IsFiniteSet(ids) /\ IsFiniteSet(rest)
<1>1. /\ IsFiniteSet(ids) /\ last \in ids /\ \A i \in ids : raw[i] \in Nat
  BY SomeLinesFacts, RawShareIsNear DEF RawShares
<1>2. share = [i \in ids |-> IF i = last THEN total - (Total(raw, ids) - raw[i]) ELSE raw[i]]
  BY DEF ResidualAllocation, RawShares
<1>3. \A i \in ids : raw[i] \in Int
  BY <1>1
<1>4. Total(raw, ids) = raw[last] + Total(raw, rest) /\ Total(raw, rest) \in Int /\ IsFiniteSet(rest)
  BY <1>1, <1>3, TotalsOfSubsets
<1>5. share[last] = total - (Total(raw, ids) - raw[last])
  BY <1>1, <1>2
<1>6. raw[last] \in Int
  BY <1>1, <1>3
<1>7. share[last] = total - Total(raw, rest)
  BY <1>4, <1>5, <1>6
<1>8. \A i \in rest : share[i] = raw[i]
  BY <1>2
<1>. QED BY <1>1, <1>4, <1>7, <1>8

(* The residual makes the shares add up. *)
LEMMA SharesSum ==
    ASSUME NEW total \in Nat, NEW ids, SomeLines(ids)
    PROVE  /\ \A i \in ids : ResidualAllocation(total, ids)[i] \in Int
           /\ Total(ResidualAllocation(total, ids), ids) = total
<1>. DEFINE last == LastLine(ids)
            rest == ids \ {last}
            raw == RawShares(total, ids)
            share == ResidualAllocation(total, ids)
<1>1. /\ \A i \in ids : raw[i] \in Nat
      /\ \A i \in rest : share[i] = raw[i]
      /\ share[last] = total - Total(raw, rest)
      /\ Total(raw, rest) \in Int
      /\ last \in ids /\ IsFiniteSet(ids) /\ IsFiniteSet(rest)
  BY LastLineTakesResidual
<1>. HIDE DEF raw, share
<1>2. \A i \in ids : share[i] \in Int
  BY <1>1
<1>3. Total(share, rest) = Total(raw, rest)
  <2>. HIDE DEF rest
  <2>. QED BY <1>1, TotalExt
<1>4. Total(share, ids) = share[last] + Total(share, rest)
  BY <1>1, <1>2, TotalPoint
<1>5. Total(share, ids) = total
  <2>. HIDE DEF rest, last
  <2>. QED BY <1>1, <1>3, <1>4
<1>. QED BY <1>2, <1>5 DEF share

(* A share is proportional to half a cent, the residual to half a cent for  *)
(* each line before the last; of nothing every share is nothing.            *)
LEMMA SharesAreNear ==
    ASSUME NEW total \in Nat, NEW ids, SomeLines(ids),
           NEW weight, weight = Total(Gross, ids), weight > 0,
           NEW share, share = ResidualAllocation(total, ids)
    PROVE  /\ \A i \in ids \ {LastLine(ids)} :
                 share[i] \in Nat /\ Within(2 * weight * share[i], 2 * total * Gross[i], weight)
           /\ Within(2 * weight * share[LastLine(ids)], 2 * total * Gross[LastLine(ids)],
                     (Cardinality(ids) - 1) * weight)
           /\ total = 0 => \A i \in ids : share[i] = 0
<1>. DEFINE last == LastLine(ids)
            rest == ids \ {last}
            raw == RawShares(total, ids)
<1>1. /\ \A i \in ids : raw[i] \in Nat
      /\ \A i \in rest : share[i] = raw[i]
      /\ share[last] = total - Total(raw, rest)
      /\ Total(raw, rest) \in Int
      /\ last \in ids /\ IsFiniteSet(ids) /\ IsFiniteSet(rest)
  BY LastLineTakesResidual
<1>2. weight \in Nat /\ \A i \in ids : Gross[i] \in Nat
  BY SomeLinesFacts
<1>3. \A i \in ids : /\ Within(2 * weight * raw[i], 2 * total * Gross[i], weight)
                     /\ total = 0 => raw[i] = 0
  BY <1>2, RawShareIsNear DEF RawShares
<1>. HIDE DEF raw
<1>4. ASSUME total = 0 PROVE \A i \in ids : share[i] = 0
  <2>1. \A i \in rest : raw[i] = 0
    BY <1>3, <1>4
  <2>2. Total(raw, rest) = 0
    <3>. HIDE DEF rest
    <3>. QED BY <1>1, <2>1, TotalZero
  <2>3. \A i \in ids : share[i] = 0
    BY <1>1, <1>4, <2>1, <2>2
  <2>. QED BY <2>3
<1>5. Within(2 * weight * share[last], 2 * total * Gross[last], (Cardinality(ids) - 1) * weight)
  <2>1. weight = Gross[last] + Total(Gross, rest) /\ Total(Gross, rest) \in Int /\ Gross[last] \in Int
    <3>1. \A i \in ids : Gross[i] \in Int
      BY <1>2
    <3>. QED BY <1>1, <3>1, TotalsOfSubsets
  <2>2. Cardinality(rest) = Cardinality(ids) - 1
    BY <1>1, FS_RemoveElement
  <2>3. 2 * weight \in Int /\ 2 * total \in Int
    BY <1>2
  <2>4. \A i \in rest : raw[i] \in Int /\ Gross[i] \in Int /\ Within(2 * weight * raw[i], 2 * total * Gross[i], weight)
    BY <1>1, <1>2, <1>3
  <2>. HIDE DEF rest, last
  <2>5. Within(2 * weight * Total(raw, rest), 2 * total * Total(Gross, rest), Cardinality(rest) * weight)
    BY <1>1, <1>2, <2>3, <2>4, TotalWithin
  <2>6. 2 * weight * share[last] = 2 * weight * total - 2 * weight * Total(raw, rest)
    BY <1>1, <1>2
  <2>7. 2 * total * Gross[last] = 2 * weight * total - 2 * total * Total(Gross, rest)
    BY <1>2, <2>1
  <2>8. /\ 2 * weight * total \in Int /\ 2 * weight * Total(raw, rest) \in Int
        /\ 2 * total * Total(Gross, rest) \in Int /\ Cardinality(rest) * weight \in Int
    <3>1. Cardinality(rest) \in Nat
      BY <1>1, FS_CardinalityType
    <3>. QED BY <1>1, <1>2, <2>1, <3>1
  <2>. QED BY <2>2, <2>5, <2>6, <2>7, <2>8 DEF Within
<1>6. \A i \in rest : share[i] \in Nat /\ Within(2 * weight * share[i], 2 * total * Gross[i], weight)
  BY <1>1, <1>3
<1>7. total = 0 => \A i \in ids : share[i] = 0
  BY <1>4
<1>. QED BY <1>5, <1>6, <1>7

--------------------------------------------------------------------------------
(* The facts of some lines (build_fact_sales).                              *)

(* What the lines themselves say of the discount, if it counts, and what is *)
(* left to split.                                                           *)
LinesCount(ids) == Total(LineDiscount, ids) <= header.discount
OwnDiscount(ids) == [i \in ids |-> IF LinesCount(ids) THEN LineDiscount[i] ELSE 0]
SplitDiscount(ids) ==
    IF LinesCount(ids) THEN header.discount - Total(LineDiscount, ids) ELSE header.discount

LEMMA FactRows ==
    ASSUME NEW ids, SomeLines(ids), header \in HeaderAmounts,
           NEW table, table = FactSales(ids),
           NEW ship, ship = ResidualAllocation(header.shipping, ids),
           NEW split, split = ResidualAllocation(SplitDiscount(ids), ids)
    PROVE  /\ DOMAIN table = ids
           /\ SplitDiscount(ids) \in Nat /\ header.shipping \in Nat /\ header.discount \in Nat
           /\ \A i \in ids :
                 /\ ship[i] \in Int /\ split[i] \in Int /\ OwnDiscount(ids)[i] \in Nat
                 /\ table[i].shipping = ship[i]
                 /\ table[i].orderDiscount = IF LinesCount(ids) THEN split[i]
                                             ELSE ResidualAllocation(0, ids)[i]
                 /\ table[i].totalDiscount = OwnDiscount(ids)[i] + split[i]
                 /\ table[i].net = Gross[i] + Tax[i] + ship[i] - table[i].totalDiscount
<1>1. header.shipping \in Nat /\ header.discount \in Nat
  BY DEF HeaderAmounts
<1>2. /\ \A i \in ids : LineDiscount[i] \in Nat
      /\ Total(LineDiscount, ids) \in Nat
  BY SomeLinesFacts
<1>3. SplitDiscount(ids) \in Nat
  BY <1>1, <1>2 DEF SplitDiscount, LinesCount
<1>4. \A i \in ids : ship[i] \in Int /\ split[i] \in Int
  BY <1>1, <1>3, SharesSum
<1>5. \A i \in ids : OwnDiscount(ids)[i] \in Nat
  BY <1>2 DEF OwnDiscount
<1>6. /\ DOMAIN table = ids
      /\ \A i \in ids :
            /\ table[i].shipping = ship[i]
            /\ table[i].orderDiscount = Discounted(ids).order[i]
            /\ table[i].totalDiscount = Discounted(ids).total[i]
            /\ table[i].net = Gross[i] + Tax[i] + ship[i] - Discounted(ids).total[i]
  BY DEF FactSales
<1>7. CASE LinesCount(ids)
  <2>1. SplitDiscount(ids) = header.discount - Total(LineDiscount, ids)
    BY <1>7 DEF SplitDiscount
  <2>2. /\ Discounted(ids).order = split
        /\ Discounted(ids).total = [i \in ids |-> LineDiscount[i] + split[i]]
    BY <1>7, <2>1 DEF Discounted, LinesCount
  <2>3. \A i \in ids : OwnDiscount(ids)[i] = LineDiscount[i]
    BY <1>7 DEF OwnDiscount
  <2>. QED BY <1>1, <1>3, <1>4, <1>5, <1>6, <1>7, <2>2, <2>3
<1>8. CASE ~LinesCount(ids)
  <2>1. SplitDiscount(ids) = header.discount
    BY <1>8 DEF SplitDiscount
  <2>2. /\ Discounted(ids).order = ResidualAllocation(0, ids)
        /\ Discounted(ids).total = split
    BY <1>8, <2>1 DEF Discounted, LinesCount
  <2>3. \A i \in ids : OwnDiscount(ids)[i] = 0
    BY <1>8 DEF OwnDiscount
  <2>4. \A i \in ids : split[i] = OwnDiscount(ids)[i] + split[i]
    BY <1>4, <2>3
  <2>. QED BY <1>1, <1>3, <1>4, <1>5, <1>6, <1>8, <2>2, <2>4
<1>. QED BY <1>7, <1>8

LEMMA FactTypes ==
    ASSUME NEW ids, SomeLines(ids), header \in HeaderAmounts
    PROVE  FactSales(ids) \in [ids -> Facts]
<1>1. DOMAIN FactSales(ids) = ids
  BY FactRows
<1>2. \A i \in ids : /\ Gross[i] \in Int /\ Tax[i] \in Int /\ ResidualAllocation(0, ids)[i] \in Int
  <2>1. \A i \in ids : Gross[i] \in Nat /\ Tax[i] \in Nat
    BY SomeLinesFacts
  <2>2. 0 \in Nat
    OBVIOUS
  <2>3. \A i \in ids : ResidualAllocation(0, ids)[i] \in Int
    BY <2>2, SharesSum
  <2>. QED BY <2>1, <2>3
<1>3. \A i \in ids : /\ FactSales(ids)[i].shipping \in Int /\ FactSales(ids)[i].orderDiscount \in Int
                     /\ FactSales(ids)[i].totalDiscount \in Int /\ FactSales(ids)[i].net \in Int
  <2>. SUFFICES ASSUME NEW i \in ids
                PROVE  /\ FactSales(ids)[i].shipping \in Int /\ FactSales(ids)[i].orderDiscount \in Int
                       /\ FactSales(ids)[i].totalDiscount \in Int /\ FactSales(ids)[i].net \in Int
    OBVIOUS
  <2>. DEFINE row == FactSales(ids)[i]
              ship == ResidualAllocation(header.shipping, ids)[i]
              split == ResidualAllocation(SplitDiscount(ids), ids)[i]
  <2>1. /\ ship \in Int /\ split \in Int /\ OwnDiscount(ids)[i] \in Nat
        /\ row.shipping = ship
        /\ row.orderDiscount = IF LinesCount(ids) THEN split ELSE ResidualAllocation(0, ids)[i]
        /\ row.totalDiscount = OwnDiscount(ids)[i] + split
        /\ row.net = Gross[i] + Tax[i] + ship - row.totalDiscount
    BY FactRows
  <2>. HIDE DEF row, ship, split
  <2>2. row.totalDiscount \in Int
    BY <2>1
  <2>3. row.shipping \in Int /\ row.orderDiscount \in Int /\ row.net \in Int
    BY <1>2, <2>1, <2>2
  <2>. QED BY <2>2, <2>3 DEF row
<1>4. \A i \in ids : FactSales(ids)[i] \in Facts
  <2>. SUFFICES ASSUME NEW i \in ids PROVE FactSales(ids)[i] \in Facts
    OBVIOUS
  <2>1. FactSales(ids)[i] = [shipping |-> FactSales(ids)[i].shipping,
                             orderDiscount |-> FactSales(ids)[i].orderDiscount,
                             totalDiscount |-> FactSales(ids)[i].totalDiscount,
                             net |-> FactSales(ids)[i].net]
    BY DEF FactSales
  <2>. QED BY <1>3, <2>1 DEF Facts
<1>5. FactSales(ids) = [i \in ids |-> FactSales(ids)[i]]
  BY DEF FactSales
<1>. QED BY <1>4, <1>5

(* The columns add up to the header's amounts.                              *)
LEMMA ColumnsAddUp ==
    ASSUME NEW ids, SomeLines(ids), header \in HeaderAmounts,
           NEW table, table = FactSales(ids)
    PROVE  /\ DOMAIN table = ids
           /\ Total(Column(table, "shipping"), ids) = header.shipping
           /\ Total(Column(table, "totalDiscount"), ids) = header.discount
           /\ Total(Column(table, "net"), ids)
                = Total(Gross, ids) + Total(Tax, ids) + header.shipping - header.discount
<1>. DEFINE ship == ResidualAllocation(header.shipping, ids)
            split == ResidualAllocation(SplitDiscount(ids), ids)
            own == OwnDiscount(ids)
            shipping == Column(table, "shipping")
            discount == Column(table, "totalDiscount")
            net == Column(table, "net")
<1>1. /\ DOMAIN table = ids
      /\ SplitDiscount(ids) \in Nat /\ header.shipping \in Nat /\ header.discount \in Nat
      /\ \A i \in ids : /\ ship[i] \in Int /\ split[i] \in Int /\ own[i] \in Nat
                        /\ table[i].shipping = ship[i]
                        /\ table[i].totalDiscount = own[i] + split[i]
                        /\ table[i].net = Gross[i] + Tax[i] + ship[i] - table[i].totalDiscount
  BY FactRows
<1>2. \A i \in ids : /\ shipping[i] = table[i].shipping /\ discount[i] = table[i].totalDiscount
                     /\ net[i] = table[i].net
  BY <1>1 DEF Column
<1>3. /\ Total(ship, ids) = header.shipping /\ Total(split, ids) = SplitDiscount(ids)
      /\ IsFiniteSet(ids) /\ Total(LineDiscount, ids) \in Nat
      /\ Total(Gross, ids) \in Nat /\ Total(Tax, ids) \in Nat
      /\ \A i \in ids : Gross[i] \in Nat /\ Tax[i] \in Nat /\ LineDiscount[i] \in Nat
  BY <1>1, SomeLinesFacts, SharesSum
<1>4. Total(own, ids) = IF LinesCount(ids) THEN Total(LineDiscount, ids) ELSE 0
  <2>1. CASE LinesCount(ids)
    <3>1. \A i \in ids : own[i] = LineDiscount[i]
      BY <2>1 DEF OwnDiscount
    <3>. HIDE DEF own
    <3>. QED BY <1>3, <2>1, <3>1, TotalExt
  <2>2. CASE ~LinesCount(ids)
    <3>1. \A i \in ids : own[i] = 0
      BY <2>2 DEF OwnDiscount
    <3>. HIDE DEF own
    <3>. QED BY <1>3, <2>2, <3>1, TotalZero
  <2>. QED BY <2>1, <2>2
<1>. HIDE DEF ship, split, own, shipping, discount, net
<1>5. Total(shipping, ids) = header.shipping
  <2>1. \A i \in ids : shipping[i] = ship[i]
    BY <1>1, <1>2
  <2>. QED BY <1>3, <2>1, TotalExt
<1>6. Total(discount, ids) = header.discount
  <2>1. \A i \in ids : own[i] \in Int /\ split[i] \in Int /\ discount[i] = own[i] + split[i]
    BY <1>1, <1>2
  <2>2. Total(discount, ids) = Total(own, ids) + Total(split, ids)
    BY <1>3, <2>1, TotalPlus
  <2>. QED BY <1>1, <1>3, <1>4, <2>2 DEF SplitDiscount
<1>7. Total(net, ids) = Total(Gross, ids) + Total(Tax, ids) + header.shipping - header.discount
  <2>. DEFINE goods == [i \in ids |-> Gross[i] + Tax[i]]
              due == [i \in ids |-> goods[i] + shipping[i]]
  <2>1. \A i \in ids : /\ Gross[i] \in Int /\ Tax[i] \in Int /\ goods[i] = Gross[i] + Tax[i]
                       /\ goods[i] \in Int /\ shipping[i] \in Int /\ due[i] = goods[i] + shipping[i]
    BY <1>1, <1>2, <1>3
  <2>2. \A i \in ids : discount[i] \in Int /\ net[i] = Gross[i] + Tax[i] + shipping[i] - discount[i]
    BY <1>1, <1>2
  <2>. HIDE DEF goods, due
  <2>3. \A i \in ids : net[i] \in Int /\ due[i] = net[i] + discount[i]
    BY <2>1, <2>2
  <2>4. Total(goods, ids) = Total(Gross, ids) + Total(Tax, ids)
    BY <1>3, <2>1, TotalPlus
  <2>5. Total(due, ids) = Total(goods, ids) + Total(shipping, ids)
    BY <1>3, <2>1, TotalPlus
  <2>6. Total(due, ids) = Total(net, ids) + Total(discount, ids)
    BY <1>3, <2>2, <2>3, TotalPlus
  <2>7. Total(net, ids) \in Int
    BY <1>3, <2>3, TotalType
  <2>. QED BY <1>1, <1>3, <1>5, <1>6, <2>4, <2>5, <2>6, <2>7
<1>. QED BY <1>1, <1>5, <1>6, <1>7 DEF shipping, discount, net

--------------------------------------------------------------------------------
(* Who can bear the shares has no negative amount.                          *)

LEMMA CancelFactor ==
    ASSUME NEW w \in Nat, w > 0, NEW x \in Int, NEW y \in Int, 2 * w * x <= 2 * w * y
    PROVE  x <= y
<1>. SUFFICES ASSUME y + 1 <= x PROVE FALSE
  OBVIOUS
<1>1. 2 * w * x = 2 * w * y + 2 * w * (x - y)
  OBVIOUS
<1>2. PICK d \in Nat : d = x - y - 1
  OBVIOUS
<1>3. 2 * w * (x - y) = 2 * w * d + 2 * w /\ 2 * w * d \in Nat
  BY <1>2
<1>. QED BY <1>1, <1>3

LEMMA BearableShares ==
    ASSUME NEW total \in Nat, NEW ids, SomeLines(ids),
           NEW weight, weight = Total(Gross, ids), weight > 0,
           NEW residual, residual = (Cardinality(ids) - 1) * weight,
           total = 0 \/ 2 * total * Gross[LastLine(ids)] >= residual
    PROVE  \A i \in ids : /\ ResidualAllocation(total, ids)[i] \in Nat
                          /\ 2 * weight * ResidualAllocation(total, ids)[i]
                                 <= 2 * total * Gross[i] + residual + weight
<1>. DEFINE share == ResidualAllocation(total, ids)
            last == LastLine(ids)
<1>1. /\ \A i \in ids \ {last} :
           share[i] \in Nat /\ Within(2 * weight * share[i], 2 * total * Gross[i], weight)
      /\ Within(2 * weight * share[last], 2 * total * Gross[last], residual)
      /\ total = 0 => \A i \in ids : share[i] = 0
  BY SharesAreNear
<1>2. /\ weight \in Nat /\ last \in ids /\ IsFiniteSet(ids) /\ Cardinality(ids) \in Nat
      /\ \A i \in ids : Gross[i] \in Nat
  BY SomeLinesFacts
<1>3. \A i \in ids : share[i] \in Int
  BY SharesSum
<1>. HIDE DEF share, last
<1>4. residual \in Nat
  <2>1. Cardinality(ids) # 0
    BY <1>2, FS_EmptySet
  <2>2. Cardinality(ids) - 1 \in Nat
    BY <1>2, <2>1
  <2>. QED BY <1>2, <2>2
<1>5. share[last] \in Nat
  <2>1. CASE total = 0
    BY <1>1, <1>2, <2>1
  <2>2. CASE 2 * total * Gross[last] >= residual
    <3>1. 2 * weight * share[last] >= 2 * total * Gross[last] - residual
      <4>1. 2 * weight * share[last] \in Int /\ 2 * total * Gross[last] \in Int
        BY <1>2, <1>3
      <4>. QED BY <1>1, <1>4, <4>1 DEF Within
    <3>2. 2 * weight * 0 <= 2 * weight * share[last]
      <4>1. 2 * weight * share[last] \in Int /\ 2 * total * Gross[last] \in Int /\ 2 * weight * 0 = 0
        BY <1>2, <1>3
      <4>. QED BY <1>4, <2>2, <3>1, <4>1
    <3>3. 0 <= share[last]
      BY <1>2, <1>3, <3>2, CancelFactor
    <3>. QED BY <1>2, <1>3, <3>3
  <2>. QED BY <2>1, <2>2 DEF last
<1>6. ASSUME NEW i \in ids
      PROVE  share[i] \in Nat /\ 2 * weight * share[i] <= 2 * total * Gross[i] + residual + weight
  <2>1. share[i] \in Nat
    BY <1>1, <1>5
  <2>2. 2 * weight * share[i] \in Int /\ 2 * total * Gross[i] \in Int
    BY <1>2, <1>3
  <2>3. Within(2 * weight * share[i], 2 * total * Gross[i], IF i = last THEN residual ELSE weight)
    BY <1>1
  <2>. QED BY <1>2, <1>4, <2>1, <2>2, <2>3 DEF Within
<1>. QED BY <1>6 DEF share

LEMMA BearableIsNotNegative ==
    ASSUME NEW ids, SomeLines(ids), header \in HeaderAmounts,
           NEW table, table = FactSales(ids), Bearable(ids)
    PROVE  ~HasNegative(table)
<1>. DEFINE weight == Total(Gross, ids)
            residual == (Cardinality(ids) - 1) * weight
            ship == ResidualAllocation(header.shipping, ids)
            split == ResidualAllocation(SplitDiscount(ids), ids)
            own == OwnDiscount(ids)
            taken == SplitDiscount(ids)
<1>1. /\ weight > 0
      /\ \A amount \in {header.shipping, taken} : amount = 0 \/ 2 * amount * Gross[LastLine(ids)] >= residual
      /\ \A i \in ids : 2 * weight * (Gross[i] + Tax[i] - own[i]) >= 2 * taken * Gross[i] + residual + weight
  BY DEF Bearable, SplitDiscount, OwnDiscount, LinesCount
<1>2. /\ DOMAIN table = ids
      /\ taken \in Nat /\ header.shipping \in Nat
      /\ \A i \in ids : /\ own[i] \in Nat
                        /\ table[i].shipping = ship[i]
                        /\ table[i].orderDiscount = IF LinesCount(ids) THEN split[i]
                                                    ELSE ResidualAllocation(0, ids)[i]
                        /\ table[i].totalDiscount = own[i] + split[i]
                        /\ table[i].net = Gross[i] + Tax[i] + ship[i] - table[i].totalDiscount
  BY FactRows
<1>3. weight \in Nat /\ Cardinality(ids) \in Nat /\ \A i \in ids : Gross[i] \in Nat /\ Tax[i] \in Nat
  BY SomeLinesFacts
<1>4. \A i \in ids : ship[i] \in Nat
  BY <1>1, <1>2, BearableShares
<1>5. \A i \in ids : split[i] \in Nat /\ 2 * weight * split[i] <= 2 * taken * Gross[i] + residual + weight
  BY <1>1, <1>2, BearableShares
<1>6. \A i \in ids : ResidualAllocation(0, ids)[i] \in Nat
  <2>1. 0 \in Nat /\ 0 = 0
    OBVIOUS
  <2>. QED BY <1>1, <2>1, BearableShares
<1>. HIDE DEF weight, residual, ship, split, own, taken
<1>7. ASSUME NEW i \in ids PROVE split[i] <= Gross[i] + Tax[i] - own[i]
  <2>1. split[i] \in Int /\ Gross[i] + Tax[i] - own[i] \in Int
    BY <1>2, <1>3, <1>5
  <2>2. /\ 2 * weight * split[i] \in Int /\ 2 * taken * Gross[i] \in Int /\ residual \in Int
        /\ 2 * weight * (Gross[i] + Tax[i] - own[i]) \in Int
    BY <1>2, <1>3, <2>1 DEF residual
  <2>3. 2 * weight * split[i] <= 2 * weight * (Gross[i] + Tax[i] - own[i])
    BY <1>1, <1>3, <1>5, <2>2
  <2>. QED BY <1>1, <1>3, <2>1, <2>3, CancelFactor
<1>8. ASSUME NEW i \in ids
      PROVE  /\ table[i].shipping \in Nat /\ table[i].orderDiscount \in Nat
             /\ table[i].totalDiscount \in Nat /\ table[i].net \in Nat
  <2>1. /\ table[i].shipping = ship[i] /\ ship[i] \in Nat
        /\ split[i] \in Nat /\ own[i] \in Nat /\ Gross[i] \in Nat /\ Tax[i] \in Nat
        /\ table[i].orderDiscount = split[i] \/ table[i].orderDiscount = ResidualAllocation(0, ids)[i]
        /\ table[i].totalDiscount = own[i] + split[i]
        /\ table[i].net = Gross[i] + Tax[i] + ship[i] - table[i].totalDiscount
    BY <1>2, <1>3, <1>4, <1>5
  <2>2. split[i] <= Gross[i] + Tax[i] - own[i]
    BY <1>7
  <2>3. table[i].totalDiscount \in Nat /\ table[i].net \in Nat
    BY <2>1, <2>2
  <2>. QED BY <1>6, <2>1, <2>3
<1>9. \A i \in ids : /\ ~(table[i].shipping < 0) /\ ~(table[i].orderDiscount < 0)
                     /\ ~(table[i].totalDiscount < 0) /\ ~(table[i].net < 0)
  BY <1>8
<1>10. /\ \A i \in ids : /\ table[i]["shipping"] = table[i].shipping
                         /\ table[i]["orderDiscount"] = table[i].orderDiscount
                         /\ table[i]["totalDiscount"] = table[i].totalDiscount
                         /\ table[i]["net"] = table[i].net
  OBVIOUS
<1>. QED BY <1>2, <1>9, <1>10 DEF HasNegative

--------------------------------------------------------------------------------
(* The steps of the specification: a fact table is what the build made of   *)
(* lines that are in Silver, and the header has the sums of the lines.      *)

BuiltFrom(table, ids) == ids # {} /\ ids \subseteq silver.lines /\ table = FactSales(ids)
Built(table) == header # NoOrder /\ \E ids : BuiltFrom(table, ids)

HeaderAddsUp ==
    /\ header \in HeaderAmounts
    /\ header.subtotal = Total(Gross, 1..Len(lines))
    /\ header.tax = Total(Tax, 1..Len(lines))

MoneyInv ==
    /\ LinesTyped /\ Len(lines) <= MaxLines
    /\ silver \in [header : BOOLEAN, lines : SUBSET (1..Len(lines))]
    /\ phase \in {"idle", "built"}
    /\ header = NoOrder => lines = <<>> /\ ~silver.header
    /\ header # NoOrder => HeaderAddsUp
    /\ fact = NoFact \/ Built(fact)
    /\ release = NoFact \/ Built(release)
    /\ phase = "built" => Built(fact)

LEMMA MoneyInvInit == Init => MoneyInv
<1>. SUFFICES ASSUME Init PROVE MoneyInv
  OBVIOUS
<1>1. lines = <<>> /\ lines \in Seq(Lines) /\ Len(lines) = 0
  BY DEF Init
<1>. QED BY <1>1, FactSalesAssumption DEF Init, MoneyInv, LinesTyped

LEMMA PlaceOrderKeepsInv ==
    ASSUME MoneyInv, NEW n \in 1..MaxLines, NEW ordered \in [1..n -> Lines],
           NEW shipping \in Shippings, NEW discount \in Discounts, PlaceOrder(ordered, shipping, discount)
    PROVE  MoneyInv'
<1>. USE FactSalesAssumption
<1>1. /\ header = NoOrder /\ lines = <<>> /\ lines' = ordered
      /\ UNCHANGED <<silver, fact, phase, release>>
  BY DEF PlaceOrder, MoneyInv
<1>2. fact = NoFact /\ release = NoFact /\ phase = "idle" /\ silver.lines = {} /\ silver.header \in BOOLEAN
  BY <1>1 DEF MoneyInv, Built
<1>3. ordered \in Seq(Lines) /\ Len(ordered) = n /\ DOMAIN ordered = 1..n /\ n \in Nat /\ n <= MaxLines
  OBVIOUS
<1>4. Len(lines') = n
  BY <1>1, <1>3
<1>. DEFINE gross == [i \in 1..n |-> ordered[i].gross]
            tax == [i \in 1..n |-> ordered[i].tax]
<1>5. Gross' = gross /\ Tax' = tax
  BY <1>1, <1>4 DEF Gross, Tax
<1>6. header' = [subtotal |-> Total(gross, 1..n), shipping |-> shipping, tax |-> Total(tax, 1..n),
                 discount |-> discount]
  BY <1>3 DEF PlaceOrder
<1>7. Total(gross, 1..n) \in Nat /\ Total(tax, 1..n) \in Nat
  <2>1. \A i \in 1..n : ordered[i] \in LineAmounts
    OBVIOUS
  <2>2. \A i \in 1..n : gross[i] \in Nat /\ tax[i] \in Nat
    BY <2>1 DEF LineAmounts
  <2>3. IsFiniteSet(1..n)
    BY <1>3, FS_Interval
  <2>. HIDE DEF gross, tax
  <2>. QED BY <2>2, <2>3, TotalNat
<1>. HIDE DEF gross, tax
<1>8. header' \in HeaderAmounts
  BY <1>6, <1>7 DEF HeaderAmounts
<1>9. HeaderAddsUp'
  BY <1>4, <1>5, <1>6, <1>8 DEF HeaderAddsUp
<1>10. header' # NoOrder
  BY <1>8
<1>11. silver' \in [header : BOOLEAN, lines : SUBSET (1..Len(lines'))]
  BY <1>1, <1>2 DEF MoneyInv
<1>. QED BY <1>1, <1>2, <1>3, <1>4, <1>9, <1>10, <1>11 DEF MoneyInv, LinesTyped

(* Facts are of the header and of the lines, whatever arrives later.        *)
LEMMA BuiltStays ==
    ASSUME UNCHANGED <<lines, header>>, silver.lines \subseteq silver'.lines, header # NoOrder
    PROVE  \A table : (\E ids : BuiltFrom(table, ids)) =>
              \E ids : ids # {} /\ ids \subseteq silver'.lines /\ table = FactSales(ids)'
<1>1. Gross' = Gross /\ Tax' = Tax /\ LineDiscount' = LineDiscount
  BY DEF Gross, Tax, LineDiscount
<1>2. \A ids : FactSales(ids)' = FactSales(ids)
  BY <1>1 DEF FactSales, Discounted, ResidualAllocation
<1>. QED BY <1>2 DEF BuiltFrom

LEMMA ArriveKeepsInv ==
    ASSUME MoneyInv, ArriveHeader \/ \E i \in 1..MaxLines : ArriveLine(i)
    PROVE  MoneyInv'
<1>1. UNCHANGED <<lines, header, fact, phase, release>>
  BY DEF ArriveHeader, ArriveLine
<1>2. /\ silver' \in [header : BOOLEAN, lines : SUBSET (1..Len(lines))]
      /\ silver.lines \subseteq silver'.lines
      /\ silver'.header => silver.header \/ header # NoOrder
  <2>1. silver \in [header : BOOLEAN, lines : SUBSET (1..Len(lines))]
    BY DEF MoneyInv
  <2>2. CASE ArriveHeader
    BY <2>1, <2>2 DEF ArriveHeader
  <2>3. ASSUME NEW i \in 1..MaxLines, ArriveLine(i)
        PROVE  /\ silver' \in [header : BOOLEAN, lines : SUBSET (1..Len(lines))]
               /\ silver.lines \subseteq silver'.lines /\ silver'.header = silver.header
    BY <2>1, <2>3 DEF ArriveLine
  <2>. QED BY <2>2, <2>3
<1>3. Gross' = Gross /\ Tax' = Tax
  BY <1>1 DEF Gross, Tax
<1>4. (Built(fact) => Built(fact)') /\ (Built(release) => Built(release)')
  <2>1. ASSUME header # NoOrder
        PROVE  /\ (\E ids : BuiltFrom(fact, ids)) => Built(fact)'
               /\ (\E ids : BuiltFrom(release, ids)) => Built(release)'
    BY <1>1, <1>2, <2>1, BuiltStays DEF Built, BuiltFrom
  <2>. QED BY <2>1 DEF Built
<1>. QED BY <1>1, <1>2, <1>3, <1>4 DEF MoneyInv, LinesTyped, HeaderAddsUp

LEMMA BuildKeepsInv == MoneyInv /\ (Build \/ Publish \/ Refuse) => MoneyInv'
<1>. SUFFICES ASSUME MoneyInv, Build \/ Publish \/ Refuse PROVE MoneyInv'
  OBVIOUS
<1>1. /\ UNCHANGED <<lines, header, silver>>
      /\ phase' \in {"idle", "built"}
      /\ \/ fact' = fact /\ phase' = "idle"
         \/ fact' = FactSales(silver.lines) /\ silver.header /\ silver.lines # {}
      /\ release' = release \/ (phase = "built" /\ release' = fact)
  BY DEF Build, Publish, Refuse, Ready
<1>2. Gross' = Gross /\ Tax' = Tax
  BY <1>1 DEF Gross, Tax
<1>3. header # NoOrder =>
        \A table : (\E ids : BuiltFrom(table, ids)) =>
           \E ids : ids # {} /\ ids \subseteq silver'.lines /\ table = FactSales(ids)'
  BY <1>1, BuiltStays
<1>4. (fact' = fact /\ phase' = "idle") \/ Built(fact)'
  <2>. SUFFICES ASSUME fact' = FactSales(silver.lines), silver.header, silver.lines # {} PROVE Built(fact)'
    BY <1>1
  <2>1. header # NoOrder
    BY DEF MoneyInv
  <2>2. BuiltFrom(fact', silver.lines)
    BY DEF BuiltFrom
  <2>3. \E ids : ids # {} /\ ids \subseteq silver'.lines /\ fact' = FactSales(ids)'
    BY <1>3, <2>1, <2>2
  <2>. QED BY <1>1, <2>1, <2>3 DEF Built, BuiltFrom
<1>5. (Built(fact) => fact' # fact \/ Built(fact)') /\ (Built(release) => release' # release \/ Built(release)')
  BY <1>1, <1>3 DEF Built, BuiltFrom
<1>6. phase = "built" /\ release' = fact => Built(release)'
  <2>. SUFFICES ASSUME phase = "built", release' = fact PROVE Built(release)'
    OBVIOUS
  <2>1. Built(fact)
    BY DEF MoneyInv
  <2>. QED BY <1>1, <1>3, <2>1 DEF Built, BuiltFrom
<1>7. HeaderAddsUp => HeaderAddsUp'
  BY <1>1, <1>2 DEF HeaderAddsUp
<1>. QED BY <1>1, <1>4, <1>5, <1>6, <1>7 DEF MoneyInv, LinesTyped

LEMMA MoneyInvStep == MoneyInv /\ [Next]_vars => MoneyInv'
<1>. SUFFICES ASSUME MoneyInv, [Next]_vars PROVE MoneyInv'
  OBVIOUS
<1>1. ASSUME NEW n \in 1..MaxLines, NEW ordered \in [1..n -> Lines],
             NEW shipping \in Shippings, NEW discount \in Discounts, PlaceOrder(ordered, shipping, discount)
      PROVE  MoneyInv'
  BY <1>1, PlaceOrderKeepsInv
<1>2. CASE ArriveHeader \/ \E i \in 1..MaxLines : ArriveLine(i)
  BY <1>2, ArriveKeepsInv
<1>3. CASE Build \/ Publish \/ Refuse
  BY <1>3, BuildKeepsInv
<1>4. CASE UNCHANGED vars
  <2>1. UNCHANGED <<lines, header, silver, fact, phase, release>>
    BY <1>4 DEF vars
  <2>2. Gross' = Gross /\ Tax' = Tax
    BY <2>1 DEF Gross, Tax
  <2>3. header # NoOrder =>
          \A table : (\E ids : BuiltFrom(table, ids)) =>
             \E ids : ids # {} /\ ids \subseteq silver'.lines /\ table = FactSales(ids)'
    BY <2>1, BuiltStays
  <2>4. (Built(fact) => Built(fact)') /\ (Built(release) => Built(release)')
    BY <2>1, <2>3 DEF Built, BuiltFrom
  <2>. QED BY <2>1, <2>2, <2>4 DEF MoneyInv, LinesTyped, HeaderAddsUp
<1>. QED BY <1>1, <1>2, <1>3, <1>4 DEF Next

LEMMA MoneyInvAlways == Spec => []MoneyInv
<1>. QED BY MoneyInvInit, MoneyInvStep, PTL DEF Spec

LEMMA BuiltLines ==
    ASSUME MoneyInv, NEW table, Built(table)
    PROVE  /\ header \in HeaderAmounts
           /\ \E ids : SomeLines(ids) /\ ids \subseteq silver.lines /\ table = FactSales(ids) /\ DOMAIN table = ids
<1>1. PICK ids : BuiltFrom(table, ids)
  BY DEF Built
<1>2. header \in HeaderAmounts
  BY DEF MoneyInv, Built, HeaderAddsUp
<1>3. SomeLines(ids)
  BY <1>1 DEF MoneyInv, BuiltFrom, SomeLines
<1>4. table = FactSales(ids)
  BY <1>1 DEF BuiltFrom
<1>5. DOMAIN table = ids
  BY <1>2, <1>3, <1>4, FactRows
<1>. QED BY <1>1, <1>2, <1>3, <1>4, <1>5 DEF BuiltFrom

--------------------------------------------------------------------------------
(* Every amount of a fact is a whole number of cents, and the facts are of  *)
(* lines that Silver has (build_fact_sales, Build).                         *)
THEOREM TypeCorrect == Spec => []TypeOK
<1>1. MoneyInv => TypeOK
  <2>. SUFFICES ASSUME MoneyInv PROVE TypeOK
    OBVIOUS
  <2>1. ASSUME NEW table, Built(table) PROVE IsFactTable(table)
    <3>1. PICK ids : /\ SomeLines(ids) /\ ids \subseteq silver.lines
                     /\ table = FactSales(ids) /\ DOMAIN table = ids
      BY <2>1, BuiltLines
    <3>2. header \in HeaderAmounts
      BY <2>1, BuiltLines
    <3>. QED BY <3>1, <3>2, FactTypes DEF IsFactTable
  <2>2. (fact = NoFact \/ IsFactTable(fact)) /\ (release = NoFact \/ IsFactTable(release))
    BY <2>1 DEF MoneyInv
  <2>. QED BY <2>2 DEF MoneyInv, LinesTyped, HeaderAddsUp, TypeOK
<1>. QED BY <1>1, MoneyInvAlways, PTL

(* The shares of shipping and discount add up to the header's amounts to    *)
(* the cent, for any number of lines, any amounts and whichever lines are   *)
(* there (_residual_allocation).                                            *)
THEOREM SharesAlwaysAddUp == Spec => []SharesAddUp
<1>1. MoneyInv => SharesAddUp
  <2>. SUFFICES ASSUME MoneyInv, fact # NoFact
                PROVE  /\ Total(Column(fact, "shipping"), DOMAIN fact) = header.shipping
                       /\ Total(Column(fact, "totalDiscount"), DOMAIN fact) = header.discount
    BY DEF SharesAddUp
  <2>1. Built(fact)
    BY DEF MoneyInv
  <2>2. PICK ids : SomeLines(ids) /\ fact = FactSales(ids) /\ DOMAIN fact = ids
    BY <2>1, BuiltLines
  <2>3. header \in HeaderAmounts
    BY <2>1, BuiltLines
  <2>. QED BY <2>2, <2>3, ColumnsAddUp
<1>. QED BY <1>1, MoneyInvAlways, PTL

(* A line is charged its proportion of the shipping to half a cent, the     *)
(* last line to half a cent for each line before it: the residual that it   *)
(* takes cannot run away (_residual_allocation).                            *)
THEOREM ShippingStaysProportional == Spec => []ShippingIsProportional
<1>1. MoneyInv => ShippingIsProportional
  <2>. SUFFICES ASSUME MoneyInv, fact # NoFact, Total(Gross, DOMAIN fact) > 0, NEW i \in DOMAIN fact
                PROVE  Within(2 * Total(Gross, DOMAIN fact) * fact[i].shipping,
                              2 * header.shipping * Gross[i],
                              IF i = LastLine(DOMAIN fact)
                              THEN (Cardinality(DOMAIN fact) - 1) * Total(Gross, DOMAIN fact)
                              ELSE Total(Gross, DOMAIN fact))
    BY DEF ShippingIsProportional
  <2>1. Built(fact)
    BY DEF MoneyInv
  <2>2. PICK ids : SomeLines(ids) /\ fact = FactSales(ids) /\ DOMAIN fact = ids
    BY <2>1, BuiltLines
  <2>3. header \in HeaderAmounts /\ header.shipping \in Nat
    BY <2>1, BuiltLines DEF HeaderAmounts
  <2>4. fact[i].shipping = ResidualAllocation(header.shipping, ids)[i]
    BY <2>2, <2>3, FactRows
  <2>. DEFINE weight == Total(Gross, ids)
              share == ResidualAllocation(header.shipping, ids)
  <2>5. weight > 0
    BY <2>2
  <2>6. /\ \A j \in ids \ {LastLine(ids)} :
              Within(2 * weight * share[j], 2 * header.shipping * Gross[j], weight)
        /\ Within(2 * weight * share[LastLine(ids)], 2 * header.shipping * Gross[LastLine(ids)],
                  (Cardinality(ids) - 1) * weight)
    BY <2>2, <2>3, <2>5, SharesAreNear
  <2>. HIDE DEF weight, share
  <2>7. Within(2 * weight * share[i], 2 * header.shipping * Gross[i],
               IF i = LastLine(ids) THEN (Cardinality(ids) - 1) * weight ELSE weight)
    BY <2>2, <2>6
  <2>. QED BY <2>2, <2>4, <2>7 DEF weight, share
<1>. QED BY <1>1, MoneyInvAlways, PTL

(* The gate never refuses a whole order for its sums, nor an order whose    *)
(* lines can bear their shares (_assert_reconciliation, MONETARY_COLUMNS).  *)
THEOREM BearableOrdersAlwaysPass == Spec => []BearableOrdersPass
<1>1. MoneyInv => BearableOrdersPass
  <2>. SUFFICES ASSUME MoneyInv, phase = "built", DOMAIN fact = 1..Len(lines)
                PROVE  GatePasses(fact) \/ (HasNegative(fact) /\ ~Bearable(DOMAIN fact))
    BY DEF BearableOrdersPass
  <2>. DEFINE ids == DOMAIN fact
  <2>1. Built(fact) /\ header # NoOrder
    BY DEF MoneyInv, Built
  <2>2. SomeLines(ids) /\ fact = FactSales(ids)
    BY <2>1, BuiltLines
  <2>3. header \in HeaderAmounts /\ header.subtotal = Total(Gross, ids) /\ header.tax = Total(Tax, ids)
    BY <2>1 DEF MoneyInv, HeaderAddsUp
  <2>4. /\ header.subtotal \in Nat /\ header.tax \in Nat
        /\ header.shipping \in Nat /\ header.discount \in Nat
    BY <2>3 DEF HeaderAmounts
  <2>5. \A n \in Int : Within(n, n, 1)
    BY DEF Within
  <2>6. Reconciled(fact)
    <3>1. /\ Total(Column(fact, "shipping"), ids) = header.shipping
          /\ Total(Column(fact, "totalDiscount"), ids) = header.discount
          /\ Total(Column(fact, "net"), ids)
               = Total(Gross, ids) + Total(Tax, ids) + header.shipping - header.discount
      BY <2>2, <2>3, ColumnsAddUp
    <3>2. /\ header.subtotal + header.shipping + header.tax - header.discount \in Int
          /\ Total(Column(fact, "net"), ids)
               = header.subtotal + header.shipping + header.tax - header.discount
      BY <2>3, <2>4, <3>1
    <3>3. /\ Within(header.subtotal, Total(Gross, ids), 1)
          /\ Within(header.discount, Total(Column(fact, "totalDiscount"), ids), 1)
          /\ Within(header.tax, Total(Tax, ids), 1)
          /\ Within(header.shipping, Total(Column(fact, "shipping"), ids), 1)
          /\ Within(header.subtotal + header.shipping + header.tax - header.discount,
                    Total(Column(fact, "net"), ids), 1)
      BY <2>3, <2>4, <2>5, <3>1, <3>2
    <3>. QED BY <3>3 DEF Reconciled
  <2>7. HasNegative(fact) => ~Bearable(ids)
    BY <2>2, <2>3, BearableIsNotNegative
  <2>. QED BY <2>6, <2>7 DEF GatePasses
<1>. QED BY <1>1, MoneyInvAlways, PTL

================================================================================

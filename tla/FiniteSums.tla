----------------------------- MODULE FiniteSums -----------------------------
(***************************************************************************)
(* What MapThenSumSet of the community modules computes for every finite   *)
(* set: the lemmas about sums on which the proofs about the arrears of the *)
(* year-end closing, the payments' ledger and the dashboard rest.          *)
(***************************************************************************)
EXTENDS Integers, FiniteSets, FiniteSetsExt, FiniteSetTheorems, TLAPS

SumOver(f, S) == MapThenSumSet(LAMBDA x : f[x], S)

PickOf(s) == CHOOSE x \in s : TRUE

(* g maps every subset of S to its sum. *)
Sums(g, f, S) ==
    g = [s \in SUBSET S |-> IF s = {} THEN 0 ELSE f[PickOf(s)] + g[s \ {PickOf(s)}]]

-----------------------------------------------------------------------------
(* Induction over the subsets of a finite set, for a set P of subsets.     *)
LEMMA SubsetInduction ==
    ASSUME NEW S, IsFiniteSet(S), NEW P,
           \A s \in SUBSET S : (\A t \in SUBSET s : t # s => t \in P) => s \in P
    PROVE  \A s \in SUBSET S : s \in P
<1> SUFFICES ASSUME {s \in SUBSET S : s \notin P} # {}
             PROVE  FALSE
  OBVIOUS
<1> DEFINE Left == {s \in SUBSET S : s \notin P}
<1>1. IsWellFoundedOn(StrictSubsetOrdering(S), SUBSET S)
  <2>1. IsWellFoundedOn(StrictSubsetOrdering(S), FiniteSubsetsOf(S))
    BY FS_StrictSubsetOrderingWellFounded
  <2>2. FiniteSubsetsOf(S) = SUBSET S
    BY FS_FiniteSubsetsOfFinite
  <2> QED
    BY <2>1, <2>2
<1>2. PICK s \in Left : \A t \in Left : <<t, s>> \notin StrictSubsetOrdering(S)
  <2> HIDE DEF Left
  <2>1. Left \subseteq SUBSET S /\ Left # {}
    BY DEF Left
  <2> QED
    BY <1>1, <2>1, WFMin
<1>3. ASSUME NEW t \in SUBSET s, t # s
      PROVE  t \in P
  <2>1. <<t, s>> \in StrictSubsetOrdering(S)
    BY <1>3 DEF StrictSubsetOrdering
  <2> QED
    BY <1>2, <2>1
<1> QED
  BY <1>3

(* The sums of two functions that agree on a set are the same, whatever    *)
(* larger sets they were computed for.                                     *)
LEMMA SumsAgree ==
    ASSUME NEW S, NEW T, NEW f, NEW h, NEW g, NEW k, Sums(g, f, S), Sums(k, h, T),
           NEW U, U \subseteq S, U \subseteq T, IsFiniteSet(U), \A x \in U : f[x] = h[x]
    PROVE  g[U] = k[U]
<1> DEFINE P == {s \in SUBSET U : g[s] = k[s]}
<1>1. ASSUME NEW s \in SUBSET U, \A t \in SUBSET s : t # s => t \in P
      PROVE  s \in P
  <2>1. CASE s = {}
    BY <2>1 DEF Sums
  <2>2. CASE s # {}
    <3>1. PickOf(s) \in s
      BY <2>2 DEF PickOf
    <3>2. g[s \ {PickOf(s)}] = k[s \ {PickOf(s)}]
      BY <1>1, <3>1
    <3>3. g[s] = f[PickOf(s)] + g[s \ {PickOf(s)}] /\ k[s] = h[PickOf(s)] + k[s \ {PickOf(s)}]
      <4>1. s \in SUBSET S /\ s \in SUBSET T
        OBVIOUS
      <4> QED
        BY <2>2, <4>1 DEF Sums
    <3> QED
      BY <3>1, <3>2, <3>3
  <2> QED
    BY <2>1, <2>2
<1> HIDE DEF P
<1>2. U \in P
  BY <1>1, SubsetInduction
<1> QED
  BY <1>2 DEF P

(* There are sums over every finite set. *)
LEMMA SumsExist ==
    ASSUME NEW S, IsFiniteSet(S), NEW f
    PROVE  \E g : Sums(g, f, S)
<1> DEFINE P == {s \in SUBSET S : \E g : Sums(g, f, s)}
           G(s) == CHOOSE g : Sums(g, f, s)
<1>1. ASSUME NEW s \in SUBSET S, \A t \in SUBSET s : t # s => t \in P
      PROVE  s \in P
  <2> DEFINE g == [t \in SUBSET s |-> IF t = {} THEN 0
                                      ELSE f[PickOf(t)] + G(t \ {PickOf(t)})[t \ {PickOf(t)}]]
  <2>1. ASSUME NEW t \in SUBSET s, t # s
        PROVE  Sums(G(t), f, t)
    BY <1>1, <2>1
  <2>2. ASSUME NEW t \in SUBSET s, t # {}
        PROVE  G(t \ {PickOf(t)})[t \ {PickOf(t)}] = g[t \ {PickOf(t)}]
    <3> DEFINE u == t \ {PickOf(t)}
    <3>1. u \in SUBSET s /\ u # s
      BY <2>2 DEF PickOf
    <3>2. Sums(G(u), f, u)
      BY <2>1, <3>1
    <3>3. CASE u = {}
      <4>1. G(u)[u] = 0
        BY <3>2, <3>3 DEF Sums
      <4> QED
        BY <3>1, <3>3, <4>1
    <3>4. CASE u # {}
      <4> DEFINE v == u \ {PickOf(u)}
      <4>1. PickOf(u) \in u
        BY <3>4 DEF PickOf
      <4>2. G(u)[u] = f[PickOf(u)] + G(u)[v]
        BY <3>2, <3>4 DEF Sums
      <4>3. v \in SUBSET s /\ v # s
        BY <3>1
      <4>4. Sums(G(v), f, v)
        BY <2>1, <4>3
      <4>5. IsFiniteSet(v)
        BY FS_Subset, <4>3
      <4>6. G(u)[v] = G(v)[v]
        <5> HIDE DEF G, u
        <5>1. v \subseteq u /\ v \subseteq v
          OBVIOUS
        <5> HIDE DEF v
        <5> QED
          BY <3>2, <4>4, <4>5, <5>1, SumsAgree
      <4>7. g[u] = f[PickOf(u)] + G(v)[v]
        BY <3>1, <3>4
      <4> QED
        BY <4>2, <4>6, <4>7
    <3> QED
      BY <3>3, <3>4
  <2>3. g = [t \in SUBSET s |-> IF t = {} THEN 0 ELSE f[PickOf(t)] + g[t \ {PickOf(t)}]]
    <3> DEFINE k == [t \in SUBSET s |-> IF t = {} THEN 0 ELSE f[PickOf(t)] + g[t \ {PickOf(t)}]]
    <3>1. ASSUME NEW t \in SUBSET s
          PROVE  g[t] = k[t]
      <4>1. CASE t = {}
        BY <4>1
      <4>2. CASE t # {}
        <5>1. g[t] = f[PickOf(t)] + G(t \ {PickOf(t)})[t \ {PickOf(t)}]
          BY <4>2
        <5>2. k[t] = f[PickOf(t)] + g[t \ {PickOf(t)}]
          BY <4>2
        <5> HIDE DEF g, k, G
        <5> QED
          BY <2>2, <4>2, <5>1, <5>2
      <4> QED
        BY <4>1, <4>2
    <3> QED
      BY <3>1
  <2>4. Sums(g, f, s)
    BY <2>3 DEF Sums
  <2> QED
    BY <2>4
<1> HIDE DEF P
<1>2. S \in P
  BY <1>1, SubsetInduction
<1> QED
  BY <1>2 DEF P

(* SumOver is what such a function says of the whole set. *)
LEMMA SumIsThat ==
    ASSUME NEW S, IsFiniteSet(S), NEW f, NEW g, NEW T, Sums(g, f, T), S \subseteq T
    PROVE  SumOver(f, S) = g[S]
<1> DEFINE k == CHOOSE k : Sums(k, f, S)
<1>1. SumOver(f, S) = k[S]
  BY DEF SumOver, MapThenSumSet, MapThenFoldSet, Sums, PickOf
<1>2. Sums(k, f, S)
  BY SumsExist
<1> HIDE DEF k
<1>3. S \subseteq S
  OBVIOUS
<1> QED
  BY <1>1, <1>2, <1>3, SumsAgree

-----------------------------------------------------------------------------
(* What a sum is made of *)

LEMMA SumEmpty == ASSUME NEW f PROVE SumOver(f, {}) = 0
<1>1. PICK g : Sums(g, f, {})
  BY FS_EmptySet, SumsExist
<1>2. SumOver(f, {}) = g[{}]
  BY <1>1, FS_EmptySet, SumIsThat
<1> QED
  BY <1>1, <1>2 DEF Sums

LEMMA SumPick ==
    ASSUME NEW S, IsFiniteSet(S), S # {}, NEW f
    PROVE  SumOver(f, S) = f[PickOf(S)] + SumOver(f, S \ {PickOf(S)})
<1>1. PICK g : Sums(g, f, S)
  BY SumsExist
<1> DEFINE R == S \ {PickOf(S)}
<1>2. IsFiniteSet(R) /\ R \subseteq S
  BY FS_Subset
<1>3. SumOver(f, R) = g[R]
  <2> HIDE DEF R
  <2> QED
    BY <1>1, <1>2, SumIsThat
<1>4. SumOver(f, S) = g[S]
  BY <1>1, SumIsThat
<1>5. g[S] = f[PickOf(S)] + g[R]
  BY <1>1 DEF Sums
<1> QED
  BY <1>3, <1>4, <1>5

(* The sum depends on the values over the set only. *)
LEMMA SumCongruent ==
    ASSUME NEW S, IsFiniteSet(S), NEW f, NEW h, \A x \in S : f[x] = h[x]
    PROVE  SumOver(f, S) = SumOver(h, S)
<1>1. PICK g : Sums(g, f, S)
  BY SumsExist
<1>2. PICK k : Sums(k, h, S)
  BY SumsExist
<1>3. S \subseteq S
  OBVIOUS
<1>4. g[S] = k[S]
  BY <1>1, <1>2, <1>3, SumsAgree
<1> QED
  BY <1>1, <1>2, <1>3, <1>4, SumIsThat

(* A sum of integers is one, and a sum of naturals too. *)
LEMMA SumInt ==
    ASSUME NEW S, IsFiniteSet(S), NEW f, \A x \in S : f[x] \in Int
    PROVE  SumOver(f, S) \in Int
<1> DEFINE P == {s \in SUBSET S : SumOver(f, s) \in Int}
<1>1. ASSUME NEW s \in SUBSET S, \A t \in SUBSET s : t # s => t \in P
      PROVE  s \in P
  <2>1. CASE s = {}
    BY <2>1, SumEmpty
  <2>2. CASE s # {}
    <3>1. IsFiniteSet(s)
      BY FS_Subset
    <3>2. PickOf(s) \in s
      BY <2>2 DEF PickOf
    <3>3. SumOver(f, s \ {PickOf(s)}) \in Int
      BY <1>1, <3>2
    <3>4. SumOver(f, s) = f[PickOf(s)] + SumOver(f, s \ {PickOf(s)})
      BY <2>2, <3>1, SumPick
    <3> QED
      BY <3>2, <3>3, <3>4
  <2> QED
    BY <2>1, <2>2
<1> HIDE DEF P
<1>2. S \in P
  BY <1>1, SubsetInduction
<1> QED
  BY <1>2 DEF P

LEMMA SumNat ==
    ASSUME NEW S, IsFiniteSet(S), NEW f, \A x \in S : f[x] \in Nat
    PROVE  SumOver(f, S) \in Nat
<1> DEFINE P == {s \in SUBSET S : SumOver(f, s) \in Nat}
<1>1. ASSUME NEW s \in SUBSET S, \A t \in SUBSET s : t # s => t \in P
      PROVE  s \in P
  <2>1. CASE s = {}
    BY <2>1, SumEmpty
  <2>2. CASE s # {}
    <3>1. IsFiniteSet(s)
      BY FS_Subset
    <3>2. PickOf(s) \in s
      BY <2>2 DEF PickOf
    <3>3. SumOver(f, s \ {PickOf(s)}) \in Nat
      BY <1>1, <3>2
    <3>4. SumOver(f, s) = f[PickOf(s)] + SumOver(f, s \ {PickOf(s)})
      BY <2>2, <3>1, SumPick
    <3> QED
      BY <3>2, <3>3, <3>4
  <2> QED
    BY <2>1, <2>2
<1> HIDE DEF P
<1>2. S \in P
  BY <1>1, SubsetInduction
<1> QED
  BY <1>2 DEF P

(* Any element may be taken out first. *)
LEMMA SumRemove ==
    ASSUME NEW S, IsFiniteSet(S), NEW f, \A y \in S : f[y] \in Int, NEW x \in S
    PROVE  SumOver(f, S) = f[x] + SumOver(f, S \ {x})
<1> DEFINE P == {s \in SUBSET S : \A y \in s : SumOver(f, s) = f[y] + SumOver(f, s \ {y})}
<1>1. ASSUME NEW s \in SUBSET S, \A t \in SUBSET s : t # s => t \in P
      PROVE  s \in P
  <2> SUFFICES ASSUME NEW y \in s
               PROVE  SumOver(f, s) = f[y] + SumOver(f, s \ {y})
    OBVIOUS
  <2> DEFINE a == PickOf(s)
             R == s \ {a, y}
  <2>1. a \in s /\ IsFiniteSet(s)
    BY FS_Subset DEF PickOf
  <2>2. SumOver(f, s) = f[a] + SumOver(f, s \ {a})
    BY <2>1, SumPick
  <2>3. CASE a = y
    BY <2>2, <2>3
  <2>4. CASE a # y
    <3>1. s \ {a} \in P /\ s \ {y} \in P
      BY <1>1, <2>1
    <3>2. SumOver(f, s \ {a}) = f[y] + SumOver(f, (s \ {a}) \ {y})
      BY <2>4, <3>1
    <3>3. SumOver(f, s \ {y}) = f[a] + SumOver(f, (s \ {y}) \ {a})
      BY <2>1, <2>4, <3>1
    <3>4. (s \ {a}) \ {y} = R /\ (s \ {y}) \ {a} = R
      OBVIOUS
    <3>5. IsFiniteSet(R)
      BY FS_Subset
    <3>6. SumOver(f, R) \in Int
      BY <3>5, SumInt
    <3>7. f[a] \in Int /\ f[y] \in Int
      BY <2>1
    <3>8. SumOver(f, s \ {a}) = f[y] + SumOver(f, R)
      BY <3>2, <3>4
    <3>9. SumOver(f, s \ {y}) = f[a] + SumOver(f, R)
      BY <3>3, <3>4
    <3> HIDE DEF a, R, P
    <3> QED
      BY <2>2, <3>6, <3>7, <3>8, <3>9
  <2> QED
    BY <2>3, <2>4
<1> HIDE DEF P
<1>2. S \in P
  BY <1>1, SubsetInduction
<1> QED
  BY <1>2 DEF P

(* One value changed: the sum moves by the difference. *)
LEMMA SumUpdate ==
    ASSUME NEW S, IsFiniteSet(S), NEW x \in S, NEW f, NEW h,
           \A y \in S : f[y] \in Int /\ h[y] \in Int,
           \A y \in S : y # x => h[y] = f[y]
    PROVE  SumOver(h, S) = SumOver(f, S) + (h[x] - f[x])
<1> DEFINE R == S \ {x}
<1>1. IsFiniteSet(R)
  BY FS_Subset
<1>2. SumOver(f, R) = SumOver(h, R) /\ SumOver(f, R) \in Int
  <2>1. \A y \in R : f[y] = h[y] /\ f[y] \in Int
    OBVIOUS
  <2> HIDE DEF R
  <2> QED
    BY <1>1, <2>1, SumCongruent, SumInt
<1>3. SumOver(f, S) = f[x] + SumOver(f, R) /\ SumOver(h, S) = h[x] + SumOver(h, R)
  BY SumRemove
<1> HIDE DEF R
<1> QED
  BY <1>2, <1>3

(* Elements whose value is zero may be left out. *)
LEMMA SumRestrict ==
    ASSUME NEW S, IsFiniteSet(S), NEW f, \A x \in S : f[x] \in Int,
           NEW T, T \subseteq S, \A x \in S \ T : f[x] = 0
    PROVE  SumOver(f, S) = SumOver(f, T)
<1> DEFINE P == {s \in SUBSET S : SumOver(f, s) = SumOver(f, s \cap T)}
<1>1. ASSUME NEW s \in SUBSET S, \A t \in SUBSET s : t # s => t \in P
      PROVE  s \in P
  <2>1. CASE s = {}
    <3>1. s \cap T = s
      BY <2>1
    <3> QED
      BY <3>1
  <2>2. CASE s # {}
    <3> DEFINE a == PickOf(s)
               R == s \ {a}
               U == s \cap T
    <3>1. a \in s /\ IsFiniteSet(s) /\ IsFiniteSet(R) /\ IsFiniteSet(U)
      BY <2>2, FS_Subset DEF PickOf
    <3>2. SumOver(f, s) = f[a] + SumOver(f, R)
      BY <2>2, <3>1, SumPick
    <3>3. SumOver(f, R) = SumOver(f, R \cap T) /\ SumOver(f, R) \in Int
      BY <1>1, <3>1, SumInt
    <3>4. CASE a \in T
      <4>1. a \in U /\ U \ {a} = R \cap T /\ \A y \in U : f[y] \in Int
        BY <3>1, <3>4
      <4>2. SumOver(f, U) = f[a] + SumOver(f, U \ {a})
        <5> HIDE DEF U, a
        <5> QED
          BY <3>1, <4>1, SumRemove
      <4> QED
        BY <3>2, <3>3, <4>1, <4>2
    <3>5. CASE a \notin T
      <4>1. f[a] = 0 /\ R \cap T = U
        BY <3>1, <3>5
      <4>2. SumOver(f, s) = SumOver(f, R)
        BY <3>2, <3>3, <4>1
      <4>3. SumOver(f, R) = SumOver(f, U)
        BY <3>3, <4>1
      <4> QED
        BY <4>2, <4>3
    <3> QED
      BY <3>4, <3>5
  <2> QED
    BY <2>1, <2>2
<1> HIDE DEF P
<1>2. S \in P
  BY <1>1, SubsetInduction
<1>3. S \cap T = T
  OBVIOUS
<1> QED
  BY <1>2, <1>3 DEF P

(* A sum of zeros is zero. *)
LEMMA SumZero ==
    ASSUME NEW S, IsFiniteSet(S), NEW f, \A x \in S : f[x] = 0
    PROVE  SumOver(f, S) = 0
<1>1. SumOver(f, S) = SumOver(f, {})
  <2>1. {} \subseteq S /\ \A x \in S : f[x] \in Int
    OBVIOUS
  <2> QED
    BY <2>1, SumRestrict
<1> QED
  BY <1>1, SumEmpty

(* Sums keep an order that holds of every value. *)
LEMMA SumOrder ==
    ASSUME NEW S, IsFiniteSet(S), NEW f, NEW h,
           \A x \in S : f[x] \in Int /\ h[x] \in Int /\ f[x] <= h[x]
    PROVE  SumOver(f, S) <= SumOver(h, S)
<1> DEFINE P == {s \in SUBSET S : SumOver(f, s) <= SumOver(h, s)}
<1>1. ASSUME NEW s \in SUBSET S, \A t \in SUBSET s : t # s => t \in P
      PROVE  s \in P
  <2>1. CASE s = {}
    <3>1. SumOver(f, s) = 0 /\ SumOver(h, s) = 0
      BY <2>1, SumEmpty
    <3> QED
      BY <3>1
  <2>2. CASE s # {}
    <3> DEFINE a == PickOf(s)
               R == s \ {a}
    <3>1. a \in s /\ IsFiniteSet(s) /\ IsFiniteSet(R)
      BY <2>2, FS_Subset DEF PickOf
    <3>2. SumOver(f, s) = f[a] + SumOver(f, R) /\ SumOver(h, s) = h[a] + SumOver(h, R)
      BY <2>2, <3>1, SumPick
    <3>3. SumOver(f, R) <= SumOver(h, R)
      BY <1>1, <3>1
    <3>4. SumOver(f, R) \in Int /\ SumOver(h, R) \in Int
      <4>1. \A x \in R : f[x] \in Int /\ h[x] \in Int
        OBVIOUS
      <4> HIDE DEF R
      <4> QED
        BY <3>1, <4>1, SumInt
    <3>5. f[a] \in Int /\ h[a] \in Int /\ f[a] <= h[a]
      BY <3>1
    <3> HIDE DEF a, R
    <3> QED
      BY <3>2, <3>3, <3>4, <3>5
  <2> QED
    BY <2>1, <2>2
<1> HIDE DEF P
<1>2. S \in P
  BY <1>1, SubsetInduction
<1> QED
  BY <1>2 DEF P

(* Finite sets p[w], one for each w of a finite set, that share no element, *)
(* and the number of elements of each.                                     *)
Divided(p, n, W) ==
    /\ IsFiniteSet(W)
    /\ \A w \in W : IsFiniteSet(p[w]) /\ n[w] = Cardinality(p[w])
    /\ \A v, w \in W : v # w => p[v] \cap p[w] = {}

Together(p, W) == UNION {p[w] : w \in W}

(* Together they have as many elements as their union.                     *)
LEMMA CountByParts ==
    ASSUME NEW W, NEW p, NEW n, Divided(p, n, W)
    PROVE  IsFiniteSet(Together(p, W)) /\ SumOver(n, W) = Cardinality(Together(p, W))
<1> USE DEF Divided, Together
<1> DEFINE All(s) == UNION {p[w] : w \in s}
           P == {s \in SUBSET W : IsFiniteSet(All(s)) /\ SumOver(n, s) = Cardinality(All(s))}
<1>1. ASSUME NEW s \in SUBSET W, \A t \in SUBSET s : t # s => t \in P
      PROVE  s \in P
  <2>1. CASE s = {}
    <3>1. All(s) = {}
      BY <2>1
    <3> QED
      BY <2>1, <3>1, SumEmpty, FS_EmptySet
  <2>2. CASE s # {}
    <3> DEFINE a == PickOf(s)
               R == s \ {a}
    <3>1. a \in s /\ a \in W /\ IsFiniteSet(s)
      BY <2>2, FS_Subset DEF PickOf
    <3>2. SumOver(n, s) = n[a] + SumOver(n, R)
      BY <2>2, <3>1, SumPick
    <3>3. IsFiniteSet(All(R)) /\ SumOver(n, R) = Cardinality(All(R))
      BY <1>1, <3>1
    <3>4. All(s) = p[a] \cup All(R)
      BY <3>1
    <3>5. p[a] \cap All(R) = {}
      BY <3>1
    <3>6. IsFiniteSet(p[a]) /\ n[a] = Cardinality(p[a])
      BY <3>1
    <3> HIDE DEF a, R, All
    <3>7. /\ IsFiniteSet(All(s))
          /\ Cardinality(All(s)) = Cardinality(p[a]) + Cardinality(All(R))
                                     - Cardinality(p[a] \cap All(R))
      <4>1. /\ IsFiniteSet(p[a] \cup All(R))
            /\ Cardinality(p[a] \cup All(R)) = Cardinality(p[a]) + Cardinality(All(R))
                                                 - Cardinality(p[a] \cap All(R))
        BY <3>3, <3>6, FS_Union
      <4> QED
        BY <3>4, <4>1, Zenon
    <3>8. Cardinality(p[a] \cap All(R)) = 0
      BY <3>5, FS_EmptySet
    <3>9. Cardinality(p[a]) \in Nat /\ Cardinality(All(R)) \in Nat
      BY <3>3, <3>6, FS_CardinalityType
    <3>10. SumOver(n, s) = Cardinality(All(s))
      BY <3>2, <3>3, <3>6, <3>7, <3>8, <3>9
    <3> QED
      BY <3>7, <3>10
  <2> QED
    BY <2>1, <2>2
<1> HIDE DEF P
<1>2. W \in P
  BY <1>1, SubsetInduction
<1> QED
  BY <1>2 DEF P

(* A sum over one element. *)
LEMMA SumOfOne ==
    ASSUME NEW x, NEW f, f[x] \in Int
    PROVE  SumOver(f, {x}) = f[x]
<1>1. IsFiniteSet({x}) /\ \A y \in {x} : f[y] \in Int
  BY FS_Singleton
<1>2. SumOver(f, {x}) = f[x] + SumOver(f, {x} \ {x})
  BY <1>1, SumRemove
<1>3. {x} \ {x} = {}
  OBVIOUS
<1> QED
  BY <1>2, <1>3, SumEmpty

-----------------------------------------------------------------------------
(* Extremes, and sums over short lists and over images.                    *)

(* A finite set of integers has a least and a greatest element. *)
LEMMA Extremes ==
    ASSUME NEW S, IsFiniteSet(S), S \subseteq Int, S # {}
    PROVE  /\ \E x \in S : \A y \in S : x <= y
           /\ \E x \in S : \A y \in S : x >= y
<1> DEFINE P == {s \in SUBSET S : s # {} => /\ \E x \in s : \A y \in s : x <= y
                                            /\ \E x \in s : \A y \in s : x >= y}
<1>1. ASSUME NEW s \in SUBSET S, \A t \in SUBSET s : t # s => t \in P
      PROVE  s \in P
  <2>1. CASE s = {}
    BY <2>1
  <2>2. CASE s # {}
    <3>1. PICK a \in s : TRUE
      BY <2>2
    <3>2. CASE s = {a}
      BY <3>2
    <3>3. CASE s # {a}
      <4>1. s \ {a} # {} /\ s \ {a} \in SUBSET s /\ s \ {a} # s
        BY <3>1, <3>3
      <4>2. s \ {a} \in P
        <5> HIDE DEF P
        <5> QED
          BY <1>1, <4>1
      <4>3. PICK x \in s \ {a} : \A y \in s \ {a} : x <= y
        BY <4>1, <4>2
      <4>4. PICK z \in s \ {a} : \A y \in s \ {a} : z >= y
        BY <4>1, <4>2
      <4>5. a \in Int /\ x \in Int /\ z \in Int /\ s \subseteq Int
        OBVIOUS
      <4>6. \E u \in s : \A y \in s : u <= y
        <5>1. CASE a <= x
          <6>1. \A y \in s : a <= y
            BY <4>3, <4>5, <5>1
          <6> QED
            BY <6>1
        <5>2. CASE x <= a
          <6>1. \A y \in s : x <= y
            BY <4>3, <4>5, <5>2
          <6> QED
            BY <6>1
        <5> QED
          BY <4>5, <5>1, <5>2
      <4>7. \E u \in s : \A y \in s : u >= y
        <5>1. CASE a >= z
          <6>1. \A y \in s : a >= y
            BY <4>4, <4>5, <5>1
          <6> QED
            BY <6>1
        <5>2. CASE z >= a
          <6>1. \A y \in s : z >= y
            BY <4>4, <4>5, <5>2
          <6> QED
            BY <6>1
        <5> QED
          BY <4>5, <5>1, <5>2
      <4> QED
        BY <4>6, <4>7
    <3> QED
      BY <3>2, <3>3
  <2> QED
    BY <2>1, <2>2
<1> HIDE DEF P
<1>2. S \in P
  BY <1>1, SubsetInduction
<1> QED
  BY <1>2 DEF P

LEMMA Interval == \A a, b \in Int : IsFiniteSet(a..b)
BY FS_Interval, Zenon

LEMMA MinIs ==
    ASSUME NEW S, IsFiniteSet(S), S \subseteq Int, S # {}
    PROVE  Min(S) \in S
BY Extremes DEF Min

LEMMA MaxIs ==
    ASSUME NEW S, IsFiniteSet(S), S \subseteq Int, S # {}
    PROVE  Max(S) \in S
BY Extremes DEF Max

(* Sums over the places of a short list. *)
LEMMA SumOfFour ==
    ASSUME NEW f, \A i \in 1..4 : f[i] \in Int
    PROVE  SumOver(f, 1..4) = f[1] + f[2] + f[3] + f[4]
<1>1. IsFiniteSet(1..4) /\ IsFiniteSet({2, 3, 4}) /\ IsFiniteSet({3, 4}) /\ IsFiniteSet({4})
  <2>1. IsFiniteSet(1..4)
    <3>1. 1 \in Int /\ 4 \in Int
      OBVIOUS
    <3> QED
      BY <3>1, Interval, Zenon
  <2>2. {2, 3, 4} \subseteq 1..4 /\ {3, 4} \subseteq 1..4 /\ {4} \subseteq 1..4
    OBVIOUS
  <2> QED
    BY <2>1, <2>2, FS_Subset
<1>2. /\ (1..4) \ {1} = {2, 3, 4} /\ {2, 3, 4} \ {2} = {3, 4} /\ {3, 4} \ {3} = {4}
      /\ 1 \in 1..4 /\ 2 \in {2, 3, 4} /\ 3 \in {3, 4}
  OBVIOUS
<1>3. /\ \A i \in {2, 3, 4} : f[i] \in Int
      /\ \A i \in {3, 4} : f[i] \in Int
      /\ f[1] \in Int /\ f[2] \in Int /\ f[3] \in Int /\ f[4] \in Int
  OBVIOUS
<1>4. SumOver(f, 1..4) = f[1] + SumOver(f, {2, 3, 4})
  <2>1. SumOver(f, 1..4) = f[1] + SumOver(f, (1..4) \ {1})
    BY <1>1, <1>2, SumRemove
  <2> QED
    BY <1>2, <2>1
<1>5. SumOver(f, {2, 3, 4}) = f[2] + SumOver(f, {3, 4})
  <2>1. SumOver(f, {2, 3, 4}) = f[2] + SumOver(f, {2, 3, 4} \ {2})
    BY <1>1, <1>2, <1>3, SumRemove
  <2> QED
    BY <1>2, <2>1
<1>6. SumOver(f, {3, 4}) = f[3] + SumOver(f, {4})
  <2>1. SumOver(f, {3, 4}) = f[3] + SumOver(f, {3, 4} \ {3})
    BY <1>1, <1>2, <1>3, SumRemove
  <2> QED
    BY <1>2, <2>1
<1>7. SumOver(f, {4}) = f[4]
  BY <1>3, SumOfOne
<1> QED
  BY <1>3, <1>4, <1>5, <1>6, <1>7

LEMMA SumOfFive ==
    ASSUME NEW f, \A i \in 1..5 : f[i] \in Int
    PROVE  SumOver(f, 1..5) = f[1] + f[2] + f[3] + f[4] + f[5]
<1>1. IsFiniteSet(1..5) /\ (1..5) \ {5} = 1..4 /\ 5 \in 1..5
  <2>1. IsFiniteSet(1..5)
    <3>1. 1 \in Int /\ 5 \in Int
      OBVIOUS
    <3> QED
      BY <3>1, Interval, Zenon
  <2> QED
    BY <2>1
<1>2. SumOver(f, 1..5) = f[5] + SumOver(f, (1..5) \ {5})
  BY <1>1, SumRemove
<1>3. SumOver(f, 1..4) = f[1] + f[2] + f[3] + f[4]
  <2>1. \A i \in 1..4 : f[i] \in Int
    OBVIOUS
  <2> QED
    BY <2>1, SumOfFour
<1>4. f[1] \in Int /\ f[2] \in Int /\ f[3] \in Int /\ f[4] \in Int /\ f[5] \in Int
    OBVIOUS
<1> QED
  <2> DEFINE w == SumOver(f, 1..4)
  <2>1. SumOver(f, 1..5) = f[5] + w
    BY <1>1, <1>2
  <2>2. w = f[1] + f[2] + f[3] + f[4]
    BY <1>3
  <2> HIDE DEF w
  <2> QED
    BY <1>4, <2>1, <2>2

(* What falls between the steps of a staircase adds up to its rise. *)
LEMMA SumOfSteps ==
    ASSUME NEW n \in Nat, NEW f, NEW g, \A k \in 1..(n + 1) : g[k] \in Int,
           \A k \in 1..n : f[k] = g[k + 1] - g[k]
    PROVE  SumOver(f, 1..n) = g[n + 1] - g[1]
<1> DEFINE P == {s \in SUBSET (1..n) : \A k \in 0..n : s = 1..k => SumOver(f, s) = g[k + 1] - g[1]}
<1>1. ASSUME NEW s \in SUBSET (1..n), \A t \in SUBSET s : t # s => t \in P
      PROVE  s \in P
  <2> SUFFICES ASSUME NEW k \in 0..n, s = 1..k
               PROVE  SumOver(f, s) = g[k + 1] - g[1]
    OBVIOUS
  <2>1. CASE k = 0
    <3>1. s = {} /\ g[1] \in Int
      BY <2>1
    <3>2. SumOver(f, s) = 0
      BY <3>1, SumEmpty
    <3> QED
      BY <2>1, <3>1, <3>2
  <2>2. CASE k # 0
    <3> DEFINE j == k - 1
    <3>1. j \in 0..n /\ j + 1 = k /\ k \in s /\ s \ {k} = 1..j /\ k \in 1..n
      BY <2>2
    <3>2. IsFiniteSet(s) /\ \A i \in s : f[i] \in Int
      <4>1. IsFiniteSet(1..k)
        BY Interval
      <4>2. \A i \in 1..n : g[i] \in Int /\ g[i + 1] \in Int
        OBVIOUS
      <4> QED
        BY <4>1, <4>2
    <3>3. SumOver(f, s) = f[k] + SumOver(f, s \ {k})
      <4> HIDE DEF j
      <4> QED
        <5>1. IsFiniteSet(s) /\ k \in s /\ \A i \in s : f[i] \in Int
          BY <3>1, <3>2
        <5>2. \A T : IsFiniteSet(T) /\ k \in T /\ (\A i \in T : f[i] \in Int)
                       => SumOver(f, T) = f[k] + SumOver(f, T \ {k})
          BY SumRemove
        <5> QED
          BY <5>1, <5>2, Zenon
    <3>4. SumOver(f, s \ {k}) = g[k] - g[1]
      <4>1. s \ {k} \in P
        BY <1>1, <3>1
      <4> HIDE DEF j
      <4>2. SumOver(f, s \ {k}) = g[j + 1] - g[1]
        BY <3>1, <4>1
      <4> QED
        BY <3>1, <4>2
    <3>5. f[k] = g[k + 1] - g[k] /\ g[k + 1] \in Int /\ g[k] \in Int /\ g[1] \in Int
      BY <3>1
    <3> HIDE DEF j
    <3> QED
      BY <3>3, <3>4, <3>5
  <2> QED
    BY <2>1, <2>2
<1> HIDE DEF P
<1>2. 1..n \in P
  <2> DEFINE N == 1..n
  <2>1. IsFiniteSet(N) /\ N \in SUBSET N
    BY Interval
  <2>2. \A s \in SUBSET N : (\A t \in SUBSET s : t # s => t \in P) => s \in P
    BY <1>1
  <2> HIDE DEF N
  <2>3. N \in P
    BY <2>1, <2>2, SubsetInduction
  <2> QED
    BY <2>3 DEF N
<1>3. n \in 0..n
  OBVIOUS
<1> QED
  BY <1>2, <1>3 DEF P

(* The values of a function, each from one place, add up to the same. *)
LEMMA SumOverImage ==
    ASSUME NEW S, IsFiniteSet(S), NEW at, NEW f, NEW h, NEW T,
           T = {at[x] : x \in S}, \A x, y \in S : at[x] = at[y] => x = y,
           \A x \in S : h[at[x]] = f[x] /\ f[x] \in Int
    PROVE  SumOver(h, T) = SumOver(f, S)
<1> DEFINE Image(s) == {at[x] : x \in s}
           P == {s \in SUBSET S : IsFiniteSet(Image(s)) /\ SumOver(h, Image(s)) = SumOver(f, s)}
<1>1. ASSUME NEW s \in SUBSET S, \A t \in SUBSET s : t # s => t \in P
      PROVE  s \in P
  <2>1. CASE s = {}
    <3>1. Image(s) = {}
      BY <2>1
    <3> QED
      BY <2>1, <3>1, SumEmpty, FS_EmptySet
  <2>2. CASE s # {}
    <3> DEFINE a == PickOf(s)
               R == s \ {a}
    <3>1. a \in s /\ IsFiniteSet(s)
      BY <2>2, FS_Subset DEF PickOf
    <3>2. SumOver(f, s) = f[a] + SumOver(f, R)
      BY <2>2, <3>1, SumPick
    <3>3. IsFiniteSet(Image(R)) /\ SumOver(h, Image(R)) = SumOver(f, R)
      BY <1>1, <3>1
    <3>4. Image(s) = Image(R) \cup {at[a]} /\ at[a] \notin Image(R)
      BY <3>1
    <3>5. Image(s) \ {at[a]} = Image(R) /\ at[a] \in Image(s)
      BY <3>4
    <3>6. \A y \in Image(s) : h[y] \in Int
      OBVIOUS
    <3>7. h[at[a]] = f[a]
      BY <3>1
    <3>8. IsFiniteSet(Image(s))
      <4> HIDE DEF Image, R, a
      <4>1. IsFiniteSet(Image(R) \cup {at[a]})
        BY <3>3, FS_AddElement
      <4> QED
        BY <3>4, <4>1
    <3>9. SumOver(h, Image(s)) = h[at[a]] + SumOver(h, Image(R))
      <4> HIDE DEF Image, R, a
      <4>1. SumOver(h, Image(s)) = h[at[a]] + SumOver(h, Image(s) \ {at[a]})
        BY <3>5, <3>6, <3>8, SumRemove
      <4> QED
        BY <3>5, <4>1
    <3> HIDE DEF Image, R, a
    <3>10. SumOver(h, Image(s)) = SumOver(f, s)
      BY <3>2, <3>3, <3>7, <3>9
    <3> QED
      BY <3>8, <3>10
  <2> QED
    BY <2>1, <2>2
<1> HIDE DEF P
<1>2. S \in P
  BY <1>1, SubsetInduction
<1> QED
  BY <1>2 DEF P

(* A set of numbers has a least one. *)
LEMMA LeastNat ==
    ASSUME NEW T \in SUBSET Nat, T # {}
    PROVE  \E n \in T : \A m \in T : n <= m
<1> DEFINE R == {p \in Nat \X Nat : p[1] < p[2]}
<1>1. IsWellFoundedOn(R, Nat)
  BY NatLessThanWellFounded DEF OpToRel
<1>2. PICK n \in T : \A m \in T : <<m, n>> \notin R
  <2> HIDE DEF R
  <2> QED
    BY <1>1, WFMin
<1>3. ASSUME NEW m \in T
      PROVE  n <= m
  <2>1. <<m, n>> \in Nat \X Nat /\ <<m, n>> \notin R
    BY <1>2
  <2>2. ~(m < n)
    BY <2>1, Zenon
  <2> QED
    BY <2>2
<1> QED
  BY <1>3
=============================================================================

-------------------------- MODULE ConsensusProofs --------------------------
(***************************************************************************)
(* What the cap on clusters is for, of Consensus and ShardConsensus, and   *)
(* what the union-find computes, for every number of proposals,            *)
(* coordinates, weights and shards:                                        *)
(*                                                                         *)
(* - the scale is a product that every weight of a cluster divides, so the *)
(*   capped weights are the exact multiples of those of the code;          *)
(* - the union-find ends with a partition, as closeness is symmetric;      *)
(* - a cluster that the cap restrains has less than half of the capped     *)
(*   weight (CapBalance), and what has less than half neither moves the    *)
(*   median beyond the others (MedianBetween) nor outvotes their state     *)
(*   root (RootUnanimous);                                                 *)
(* - a consensus of digests repeats this for shards (AnchorAmong);         *)
(* - the loops of the union-find, in the detectors of AttackDetection, end *)
(*   with a forest whose trees are the connected groups (UnionFindExact).  *)
(***************************************************************************)
EXTENDS ShardConsensus, AttackDetection, RecursionProofs

-----------------------------------------------------------------------------
(* Products of positive numbers *)

Positive == Nat \ {0}

(* g multiplies up f over every subset of S, element by element. *)
Products(g, f, S) ==
  g = [s \in SUBSET S |->
         IF s = {} THEN 1
         ELSE f[CHOOSE x \in s : TRUE] * g[s \ {CHOOSE x \in s : TRUE}]]

LEMMA ProductOfPositives ==
  ASSUME NEW a \in Positive, NEW b \in Positive
  PROVE  a * b \in Positive /\ a * b = b * a
  BY DEF Positive

LEMMA ProductsExist ==
  ASSUME NEW S, IsFiniteSet(S), NEW f, \A x \in S : f[x] \in Positive
  PROVE  \E g : Products(g, f, S)
<1> DEFINE c(s) == CHOOSE x \in s : TRUE
           Upto(n) == {s \in SUBSET S : Cardinality(s) <= n}
           Good(n, g) == \A s \in Upto(n) :
                           g[s] = IF s = {} THEN 1 ELSE f[c(s)] * g[s \ {c(s)}]
           N == {n \in Nat : \E g \in [Upto(n) -> Positive] : Good(n, g)}
<1>1. \A s \in SUBSET S : /\ IsFiniteSet(s) /\ Cardinality(s) \in Nat
                          /\ Cardinality(s) = 0 <=> s = {}
  BY FS_Subset, FS_CardinalityType, FS_EmptySet
<1>2. \A s \in SUBSET S : s # {} =>
        c(s) \in s /\ Cardinality(s \ {c(s)}) = Cardinality(s) - 1
  BY <1>1, FS_RemoveElement
<1>3. N \subseteq Nat /\ 0 \in N
  <2> DEFINE g == [s \in Upto(0) |-> 1]
  <2>1. \A s \in Upto(0) : s = {}
    BY <1>1
  <2>2. g \in [Upto(0) -> Positive] /\ Good(0, g)
    BY <2>1 DEF Positive
  <2> HIDE DEF g, Good, Upto
  <2> QED BY <2>2
<1>4. ASSUME NEW n \in N PROVE n + 1 \in N
  <2>1. PICK h \in [Upto(n) -> Positive] : Good(n, h)
    OBVIOUS
  <2> DEFINE g == [s \in Upto(n + 1) |-> IF s = {} THEN 1
                                        ELSE f[c(s)] * h[s \ {c(s)}]]
  <2>2. n \in Nat
    OBVIOUS
  <2>3. ASSUME NEW s \in Upto(n + 1), s # {}
        PROVE  s \ {c(s)} \in Upto(n) /\ f[c(s)] \in Positive
    <3> HIDE DEF c
    <3> QED BY <1>1, <1>2, <2>2, <2>3
  <2>4. g \in [Upto(n + 1) -> Positive]
    <3>1. \A s \in Upto(n + 1) : s # {} => f[c(s)] * h[s \ {c(s)}] \in Positive
      <4> HIDE DEF c, Upto
      <4> QED BY <2>1, <2>3, ProductOfPositives
    <3>2. 1 \in Positive
      BY DEF Positive
    <3> HIDE DEF c, Upto
    <3> QED BY <3>1, <3>2
  <2>5. \A s \in Upto(n) : g[s] = h[s]
    <3>1. \A s \in Upto(n) : s \in Upto(n + 1)
      BY <1>1, <2>2
    <3> HIDE DEF c, Upto
    <3> QED BY <2>1, <3>1
  <2>6. Good(n + 1, g)
    <3> HIDE DEF c, Upto
    <3> QED BY <2>3, <2>5
  <2> HIDE DEF g, Good, Upto
  <2> QED BY <2>2, <2>4, <2>6
<1>5. Cardinality(S) \in N
  <2>1. N = Nat
    <3> HIDE DEF N
    <3> QED BY <1>3, <1>4, SetInduction
  <2> QED BY <1>1, <2>1
<1>6. PICK g \in [Upto(Cardinality(S)) -> Positive] : Good(Cardinality(S), g)
  BY <1>5
<1>7. Upto(Cardinality(S)) = SUBSET S
  BY FS_Subset
<1>8. g \in [SUBSET S -> Positive]
  BY <1>7
<1>9. \A s \in SUBSET S : g[s] = IF s = {} THEN 1 ELSE f[c(s)] * g[s \ {c(s)}]
  BY <1>6, <1>7
<1>10. Products(g, f, S)
  BY <1>8, <1>9 DEF Products
<1> QED BY <1>10

(* The product is positive, and every factor divides it. *)
LEMMA ProductDivides ==
  ASSUME NEW S, IsFiniteSet(S), NEW f, \A x \in S : f[x] \in Positive
  PROVE  /\ Product(f, S) \in Positive
         /\ \A x \in S : \E m \in Positive : Product(f, S) = f[x] * m
<1> DEFINE g == CHOOSE h : Products(h, f, S)
           c(s) == CHOOSE x \in s : TRUE
           Good(s) == /\ g[s] \in Positive
                      /\ \A x \in s : \E m \in Positive : g[s] = f[x] * m
           N == {n \in Nat : \A s \in SUBSET S : Cardinality(s) = n => Good(s)}
<1>1. Product(f, S) = g[S]
  BY DEF Product, FoldFunctionOnSet, MapThenFoldSet, Products
<1>2. Products(g, f, S)
  BY ProductsExist
<1> HIDE DEF g
<1>3. \A s \in SUBSET S : /\ IsFiniteSet(s) /\ Cardinality(s) \in Nat
                          /\ Cardinality(s) = 0 <=> s = {}
  BY FS_Subset, FS_CardinalityType, FS_EmptySet
<1>4. N \subseteq Nat /\ 0 \in N
  <2>1. g[{}] = 1
    BY <1>2 DEF Products
  <2>2. Good({})
    BY <2>1 DEF Positive
  <2> HIDE DEF Good
  <2> QED BY <1>3, <2>2
<1>5. ASSUME NEW n \in N PROVE n + 1 \in N
  <2>1. ASSUME NEW s \in SUBSET S, Cardinality(s) = n + 1
        PROVE  Good(s)
    <3> DEFINE y == c(s)
               t == s \ {y}
    <3>1. n \in Nat /\ s # {}
      BY <1>3, <2>1
    <3>2. y \in s /\ g[s] = f[y] * g[t]
      BY <1>2, <3>1 DEF Products
    <3> HIDE DEF y
    <3>3. Cardinality(t) = n
      <4>1. Cardinality(t) = Cardinality(s) - 1
        BY <1>3, <3>2, FS_RemoveElement
      <4> QED BY <2>1, <3>1, <4>1
    <3>4. Good(t)
      BY <3>3
    <3>5. f[y] \in Positive /\ g[s] \in Positive
      BY <3>2, <3>4, ProductOfPositives
    <3>6. ASSUME NEW x \in s
          PROVE  \E m \in Positive : g[s] = f[x] * m
      <4>1. CASE x = y
        BY <3>2, <3>4, <4>1
      <4>2. CASE x # y
        <5>1. PICK m \in Positive : g[t] = f[x] * m
          BY <3>4, <4>2
        <5>2. f[x] \in Positive /\ m \in Positive
          OBVIOUS
        <5>3. ASSUME NEW i \in Positive, NEW j \in Positive, NEW k \in Positive
              PROVE  i * (j * k) = j * (i * k)
          BY DEF Positive
        <5>4. f[y] * m \in Positive
          BY <3>5, <5>2, ProductOfPositives
        <5>5. g[s] = f[y] * (f[x] * m)
          BY <3>2, <5>1
        <5>6. f[y] * (f[x] * m) = f[x] * (f[y] * m)
          BY <3>5, <5>2, <5>3
        <5> QED BY <5>4, <5>5, <5>6
      <4> QED BY <4>1, <4>2
    <3> QED BY <3>5, <3>6
  <2> HIDE DEF Good
  <2> QED BY <2>1
<1>6. N = Nat
  <2> HIDE DEF N
  <2> QED BY <1>4, <1>5, SetInduction
<1>7. Good(S)
  BY <1>3, <1>6
<1> QED BY <1>1, <1>7

-----------------------------------------------------------------------------
(* Finite sets of integers *)

LEMMA ExtremesExist ==
  ASSUME NEW S, IsFiniteSet(S), S # {}, S \subseteq Int
  PROVE  /\ \E x \in S : \A y \in S : x <= y
         /\ \E x \in S : \A y \in S : y <= x
<1> DEFINE Good(s) == /\ \E x \in s : \A y \in s : x <= y
                      /\ \E x \in s : \A y \in s : y <= x
           G == {s \in SUBSET S : s # {} => Good(s)}
<1>1. {} \in G
  OBVIOUS
<1>2. ASSUME NEW s \in G, NEW z \in S \ s PROVE s \cup {z} \in G
  <2>1. z \in Int /\ s \subseteq Int
    OBVIOUS
  <2>2. CASE s = {}
    <3>1. s \cup {z} = {z} /\ z <= z
      BY <2>1, <2>2
    <3>2. Good({z})
      BY <3>1
    <3> HIDE DEF Good
    <3> QED BY <3>1, <3>2
  <2>3. CASE s # {}
    <3>1. PICK l \in s : \A y \in s : l <= y
      BY <2>3
    <3>2. PICK h \in s : \A y \in s : y <= h
      BY <2>3
    <3>3. \E x \in s \cup {z} : \A y \in s \cup {z} : x <= y
      <4>1. CASE l <= z
        BY <2>1, <3>1, <4>1
      <4>2. CASE z <= l
        <5>1. \A y \in s : z <= y
          BY <2>1, <3>1, <4>2
        <5> QED BY <2>1, <5>1
      <4> QED BY <2>1, <4>1, <4>2
    <3>4. \E x \in s \cup {z} : \A y \in s \cup {z} : y <= x
      <4>1. CASE z <= h
        BY <2>1, <3>2, <4>1
      <4>2. CASE h <= z
        <5>1. \A y \in s : y <= z
          BY <2>1, <3>2, <4>2
        <5> QED BY <2>1, <5>1
      <4> QED BY <2>1, <4>1, <4>2
    <3> QED BY <3>3, <3>4
  <2> QED BY <2>2, <2>3
<1>3. G = SUBSET S
  <2>1. G \in SUBSET (SUBSET S)
    OBVIOUS
  <2> HIDE DEF G
  <2> QED BY <2>1, <1>1, <1>2, SubsetInduction
<1>4. S \in G
  BY <1>3
<1> QED BY <1>4

LEMMA ExtremesChosen ==
  ASSUME NEW S, IsFiniteSet(S), S # {}, S \subseteq Int
  PROVE  /\ Min(S) \in S /\ \A y \in S : Min(S) <= y
         /\ Max(S) \in S /\ \A y \in S : y <= Max(S)
<1>1. \E x \in S : \A y \in S : x <= y
  BY ExtremesExist
<1>2. \E x \in S : \A y \in S : x >= y
  BY ExtremesExist
<1> QED BY <1>1, <1>2 DEF Min, Max

(* A part of a set weighs at most as much as the set. *)
LEMMA PartWeighsLess ==
  ASSUME NEW S, IsFiniteSet(S), NEW f, \A x \in S : f[x] \in Nat, NEW T \in SUBSET S
  PROVE  /\ Total(f, T) \in Nat /\ Total(f, S) \in Nat /\ Total(f, S \ T) \in Nat
         /\ Total(f, S) = Total(f, T) + Total(f, S \ T)
         /\ Total(f, T) <= Total(f, S)
<1>1. /\ IsFiniteSet(T) /\ IsFiniteSet(S \ T)
      /\ T \cup (S \ T) = S /\ T \cap (S \ T) = {}
      /\ \A x \in T \cup (S \ T) : f[x] \in Int
  BY FS_Subset
<1>2. Total(f, S) = Total(f, T) + Total(f, S \ T)
  <2>1. SumFunctionOnSet(f, T \cup (S \ T))
          = SumFunctionOnSet(f, T) + SumFunctionOnSet(f, S \ T)
    BY <1>1, SumUnion
  <2> QED BY <1>1, <2>1 DEF Total
<1>3. Total(f, T) \in Nat /\ Total(f, S) \in Nat /\ Total(f, S \ T) \in Nat
  BY <1>1, SumNat DEF Total
<1> QED BY <1>2, <1>3

-----------------------------------------------------------------------------
(* Proposals and their clusters *)

(* Proposals to which the arithmetic of the consensus applies *)
Sound(P) ==
  /\ IsFiniteSet(DOMAIN P) /\ DOMAIN P # {}
  /\ \A p \in DOMAIN P : /\ P[p].weight \in Positive
                         /\ \A d \in Dim : P[p].prediction[d] \in Int

(* c takes each element to its class of a partition of D. *)
Classes(c, D) ==
  /\ c \in [D -> SUBSET D]
  /\ \A p \in D : p \in c[p]
  /\ \A p \in D : \A q \in c[p] : c[q] = c[p]

LEMMA CloseSymmetric ==
  ASSUME NEW P, Sound(P), NEW p \in DOMAIN P, NEW q \in DOMAIN P
  PROVE  Close(P, p, q) <=> Close(P, q, p)
<1> DEFINE a == P[p].prediction
           b == P[q].prediction
<1>1. ASSUME NEW i \in Int, NEW j \in Int PROVE Square(i - j) = Square(j - i)
  BY DEF Square
<1>2. \A d \in Dim : a[d] \in Int /\ b[d] \in Int
  BY DEF Sound
<1> HIDE DEF a, b
<1>3. \A d \in Dim : Square(a[d] - b[d]) = Square(b[d] - a[d])
  BY <1>1, <1>2
<1>4. Apart(a, b) = Apart(b, a)
  <2>1. [d \in Dim |-> Square(a[d] - b[d])] = [d \in Dim |-> Square(b[d] - a[d])]
    BY <1>3
  <2> QED BY <2>1 DEF Apart
<1> QED BY <1>4 DEF Close, a, b

(* The union-find ends with a partition. *)
LEMMA ClustersAreClasses ==
  ASSUME NEW P, Sound(P)
  PROVE  Classes(Clusters(P), DOMAIN P)
<1> DEFINE D == DOMAIN P
           close == {e \in D \X D : Close(P, e[1], e[2])}
           closed == {S \in SUBSET D : \A e \in close : e[1] \in S => e[2] \in S}
           c == [p \in D |-> {q \in D : \A S \in closed : p \in S => q \in S}]
<1>1. c = Clusters(P)
  BY DEF Clusters
<1>2. c \in [D -> SUBSET D]
  OBVIOUS
<1>3. \A p \in D : p \in c[p]
  OBVIOUS
<1>4. ASSUME NEW S \in closed PROVE D \ S \in closed
  <2>1. ASSUME NEW e \in close, e[1] \in D \ S, e[2] \in S PROVE FALSE
    <3>1. e[1] \in D /\ e[2] \in D /\ Close(P, e[1], e[2])
      OBVIOUS
    <3>2. Close(P, e[2], e[1])
      BY <3>1, CloseSymmetric
    <3>3. <<e[2], e[1]>> \in close
      BY <3>1, <3>2
    <3>4. e[1] \in S
      BY <2>1, <3>3
    <3> QED BY <2>1, <3>4
  <2>2. \A e \in close : e[1] \in D /\ e[2] \in D
    OBVIOUS
  <2>3. \A e \in close : e[1] \in D \ S => e[2] \in D \ S
    <3> HIDE DEF close
    <3> QED BY <2>1, <2>2
  <2> HIDE DEF close
  <2> QED BY <2>3
<1> HIDE DEF closed
<1>5. ASSUME NEW p \in D, NEW q \in c[p] PROVE c[q] = c[p]
  <2>1. q \in D /\ \A S \in closed : p \in S => q \in S
    OBVIOUS
  <2>2. \A S \in closed : q \in S => p \in S
    BY <1>4, <2>1
  <2> QED BY <2>1, <2>2
<1> HIDE DEF c, D
<1>6. Classes(c, D)
  BY <1>2, <1>3, <1>5 DEF Classes
<1> QED BY <1>1, <1>6 DEF D

-----------------------------------------------------------------------------
(* The cap *)

Weights(P) == [p \in DOMAIN P |-> P[p].weight]

LEMMA WeightsPositive ==
  ASSUME NEW P, Sound(P)
  PROVE  /\ Weights(P) \in [DOMAIN P -> Positive]
         /\ \A S : WeightOf(P, S) = Total(Weights(P), S)
         /\ \A S \in SUBSET DOMAIN P : S # {} => WeightOf(P, S) \in Positive
         /\ WeightOf(P, {}) = 0
<1> DEFINE f == Weights(P)
<1>1. f \in [DOMAIN P -> Positive]
  BY DEF Sound, Weights
<1>2. \A S : WeightOf(P, S) = Total(f, S)
  BY DEF WeightOf, Weights
<1> HIDE DEF f
<1>3. ASSUME NEW S \in SUBSET DOMAIN P, S # {} PROVE Total(f, S) \in Positive
  <2>1. IsFiniteSet(S) /\ \A x \in S : f[x] \in Nat /\ f[x] > 0
    BY <1>1, FS_Subset DEF Sound, Positive
  <2>2. PICK x \in S : TRUE
    BY <1>3
  <2>3. Total(f, S) \in Nat /\ f[x] <= Total(f, S)
    BY <2>1, SumNat DEF Total
  <2>4. f[x] \in Nat /\ f[x] > 0
    BY <2>1
  <2> HIDE DEF f
  <2> QED BY <2>3, <2>4 DEF Positive
<1>4. Total(f, {}) = 0
  BY FS_EmptySet, SumUnfold DEF Total
<1> QED BY <1>1, <1>2, <1>3, <1>4 DEF f

(* The scale is a multiple of ten times the weight of each class. *)
LEMMA ScaleDivides ==
  ASSUME NEW P, Sound(P), NEW c, Classes(c, DOMAIN P)
  PROVE  /\ Scale(P, c) \in Positive
         /\ \A p \in DOMAIN P : \E m \in Positive :
              Scale(P, c) = 10 * (WeightOf(P, c[p]) * m)
<1> DEFINE f == [C \in Range(c) |-> WeightOf(P, C)]
<1>1. DOMAIN c = DOMAIN P /\ Range(c) = {c[p] : p \in DOMAIN P}
  BY DEF Classes, Range
<1>2. IsFiniteSet(Range(c))
  <2>1. IsFiniteSet(DOMAIN P)
    BY DEF Sound
  <2>2. c \in Surjection(DOMAIN P, Range(c))
    BY <1>1 DEF Surjection, Range, Classes
  <2> QED BY <2>1, <2>2, FS_Surjection
<1>3. \A C \in Range(c) : f[C] \in Positive
  <2>1. \A C \in Range(c) : C \in SUBSET DOMAIN P /\ C # {}
    BY <1>1 DEF Classes
  <2>2. \A C \in Range(c) : WeightOf(P, C) \in Positive
    BY <2>1, WeightsPositive
  <2> QED BY <2>2
<1>4. Scale(P, c) = 10 * Product(f, Range(c))
  BY DEF Scale
<1>5. \A p \in DOMAIN P : c[p] \in Range(c) /\ f[c[p]] = WeightOf(P, c[p])
  BY <1>1
<1> HIDE DEF f
<1>6. /\ Product(f, Range(c)) \in Positive
      /\ \A C \in Range(c) : \E m \in Positive : Product(f, Range(c)) = f[C] * m
  BY <1>2, <1>3, ProductDivides
<1>7. Scale(P, c) \in Positive
  BY <1>4, <1>6 DEF Positive
<1>8. ASSUME NEW p \in DOMAIN P
      PROVE  \E m \in Positive : Scale(P, c) = 10 * (WeightOf(P, c[p]) * m)
  <2>1. PICK m \in Positive : Product(f, Range(c)) = f[c[p]] * m
    BY <1>5, <1>6
  <2>2. Scale(P, c) = 10 * (WeightOf(P, c[p]) * m)
    BY <1>4, <1>5, <2>1
  <2> QED BY <2>2
<1> QED BY <1>7, <1>8

(* What the cap makes of a weight *)
LEMMA CapFacts ==
  ASSUME NEW own \in Positive, NEW all \in Positive, NEW w \in Positive,
         NEW m \in Positive, NEW scale, scale = 10 * (own * m)
  PROVE  /\ Cap(own, all, w, scale) \in Positive
         /\ 10 * own <= 3 * all => Cap(own, all, w, scale) = scale * w
         /\ 10 * own > 3 * all => Cap(own, all, w, scale) = (3 * (all * m)) * w
<1>1. scale \in Positive
  BY DEF Positive
<1>2. scale \div (10 * own) = m
  <2>1. ASSUME NEW a \in Positive, NEW b \in Positive PROVE (a * b) \div a = b
    BY DEF Positive
  <2>2. 10 * own \in Positive /\ scale = (10 * own) * m
    BY DEF Positive
  <2> QED BY <2>1, <2>2
<1>3. CASE 10 * own <= 3 * all
  <2>1. ~(10 * own > 3 * all)
    BY <1>3 DEF Positive
  <2>2. Cap(own, all, w, scale) = w * scale
    BY <2>1 DEF Cap
  <2> HIDE DEF Positive
  <2> QED BY <1>1, <1>3, <2>1, <2>2, ProductOfPositives
<1>4. CASE 10 * own > 3 * all
  <2>1. Cap(own, all, w, scale) = w * 3 * all * m
    BY <1>2, <1>4 DEF Cap
  <2>2. w * 3 * all * m = (3 * (all * m)) * w
    BY DEF Positive
  <2>3. (3 * (all * m)) * w \in Positive
    <3>1. 3 \in Positive
      BY DEF Positive
    <3> QED BY <3>1, ProductOfPositives
  <2>4. ~(10 * own <= 3 * all)
    BY <1>4 DEF Positive
  <2> QED BY <1>4, <2>1, <2>2, <2>3, <2>4
<1> QED BY <1>3, <1>4 DEF Positive

LEMMA CappedPositive ==
  ASSUME NEW P, Sound(P), NEW c, Classes(c, DOMAIN P)
  PROVE  Capped(P, c) \in [DOMAIN P -> Positive]
<1> DEFINE all == WeightOf(P, DOMAIN P)
           own(p) == WeightOf(P, c[p])
<1>1. \A p \in DOMAIN P : own(p) \in Positive /\ P[p].weight \in Positive
  <2>1. \A p \in DOMAIN P : c[p] \in SUBSET DOMAIN P /\ c[p] # {}
    BY DEF Classes
  <2> QED BY <2>1, WeightsPositive DEF Sound
<1>2. all \in Positive
  BY WeightsPositive DEF Sound
<1>3. Capped(P, c) = [p \in DOMAIN P |-> Cap(own(p), all, P[p].weight, Scale(P, c))]
  BY DEF Capped
<1> HIDE DEF all
<1>4. ASSUME NEW p \in DOMAIN P PROVE Cap(own(p), all, P[p].weight, Scale(P, c)) \in Positive
  <2>1. PICK m \in Positive : Scale(P, c) = 10 * (own(p) * m)
    BY ScaleDivides
  <2>2. own(p) \in Positive /\ P[p].weight \in Positive
    BY <1>1
  <2> HIDE DEF own
  <2> QED BY <1>2, <2>1, <2>2, CapFacts
<1> QED BY <1>3, <1>4

(* The arithmetic of the cap: of the weight of all, a class has x and the  *)
(* others y.                                                               *)
LEMMA CapBalanceCapped ==
  ASSUME NEW x \in Positive, NEW y \in Nat, NEW m \in Positive, 10 * x < 7 * (x + y)
  PROVE  (3 * ((x + y) * m)) * x < (10 * (x * m)) * y
<1> DEFINE k == x * m
<1>1. k \in Positive
  BY ProductOfPositives
<1>2. 3 * x < 7 * y /\ y \in Nat /\ x \in Nat
  BY DEF Positive
<1>3. (3 * ((x + y) * m)) * x = k * (3 * (x + y)) /\ (10 * (x * m)) * y = k * (10 * y)
  BY DEF Positive
<1>4. 3 * (x + y) < 10 * y
  BY <1>2
<1>5. ASSUME NEW a \in Positive, NEW i \in Nat, NEW j \in Nat, i < j PROVE a * i < a * j
  BY <1>5 DEF Positive
<1> HIDE DEF k
<1>6. 3 * (x + y) \in Nat /\ 10 * y \in Nat
  BY <1>2
<1>7. k * (3 * (x + y)) < k * (10 * y)
  BY <1>1, <1>4, <1>5, <1>6
<1> QED BY <1>3, <1>7

LEMMA CapBalanceUncapped ==
  ASSUME NEW x \in Positive, NEW y \in Nat, NEW s \in Positive, 10 * x <= 3 * (x + y)
  PROVE  s * x < s * y
<1>1. x < y /\ x \in Nat /\ y \in Nat
  BY DEF Positive
<1> HIDE DEF Positive
<1>2. ASSUME NEW a \in Positive, NEW i \in Nat, NEW j \in Nat, i < j PROVE a * i < a * j
  BY <1>2 DEF Positive
<1> QED BY <1>1, <1>2

(* A set of proposals that the cap holds down has less than half of the    *)
(* capped weight.                                                          *)
LEMMA CapBalance ==
  ASSUME NEW P, Sound(P), NEW c, Classes(c, DOMAIN P),
         NEW C, \/ C = {}
                \/ C \in Range(c) /\ Restrained(P, c, C)
  PROVE  /\ C \in SUBSET DOMAIN P
         /\ Total(Capped(P, c), C) < Total(Capped(P, c), DOMAIN P \ C)
<1> DEFINE w == Capped(P, c)
           D == DOMAIN P
<1>1. w \in [D -> Positive] /\ IsFiniteSet(D) /\ D # {}
  BY CappedPositive DEF Sound
<1>2. CASE C = {}
  <2>1. Total(w, {}) = 0
    BY FS_EmptySet, SumUnfold DEF Total
  <2>2. PICK p \in D : TRUE
    BY <1>1
  <2>3. \A x \in D : w[x] \in Nat /\ w[x] > 0
    BY <1>1 DEF Positive
  <2> HIDE DEF w, D
  <2>4. Total(w, D) \in Nat /\ w[p] <= Total(w, D)
    BY <1>1, <2>2, <2>3, SumNat DEF Total
  <2>5. w[p] \in Nat /\ w[p] > 0
    BY <2>2, <2>3
  <2>6. D \ C = D /\ C \in SUBSET D
    BY <1>2
  <2>7. 0 < Total(w, D)
    BY <2>4, <2>5
  <2> QED BY <1>2, <2>1, <2>6, <2>7 DEF w, D
<1>3. CASE C \in Range(c) /\ Restrained(P, c, C)
  <2>1. DOMAIN c = D /\ Range(c) = {c[p] : p \in D}
    BY DEF Classes, Range
  <2>2. PICK z \in D : C = c[z]
    BY <1>3, <2>1
  <2>3. C \in SUBSET D /\ z \in C /\ \A p \in C : c[p] = C
    BY <2>2 DEF Classes
  <2>4. \A p \in D \ C : c[p] # C /\ c[p] \in Range(c)
    BY <2>1 DEF Classes
  <2> DEFINE f == Weights(P)
             all == WeightOf(P, D)
             x == WeightOf(P, C)
             y == WeightOf(P, D \ C)
             s == Scale(P, c)
  <2>5. /\ f \in [D -> Positive]
        /\ \A S : WeightOf(P, S) = Total(f, S)
        /\ all \in Positive /\ x \in Positive
    BY <1>1, <2>3, WeightsPositive
  <2>6. \A p \in D : f[p] = P[p].weight
    BY DEF Weights
  <2>7. y \in Nat /\ all = x + y
    <3>1. \A p \in D : f[p] \in Nat
      BY <2>5 DEF Positive
    <3> HIDE DEF f, D
    <3>2. Total(f, D \ C) \in Nat /\ Total(f, D) = Total(f, C) + Total(f, D \ C)
      BY <1>1, <2>3, <3>1, PartWeighsLess
    <3> QED BY <2>5, <3>2
  <2>8. /\ 10 * x < 7 * all
        /\ \A p \in D \ C : 10 * WeightOf(P, c[p]) <= 3 * all
    BY <1>3, <2>4 DEF Restrained
  <2>9. PICK m \in Positive : s = 10 * (x * m)
    BY <2>2, ScaleDivides
  <2>10. s \in Positive
    BY ScaleDivides
  <2>11. \A p \in D : w[p] = Cap(WeightOf(P, c[p]), all, f[p], s)
    BY <2>6 DEF Capped
  <2>12. \A p \in D \ C : w[p] = s * f[p]
    <3> SUFFICES ASSUME NEW p \in D \ C PROVE w[p] = s * f[p]
      OBVIOUS
    <3>1. PICK n \in Positive : s = 10 * (WeightOf(P, c[p]) * n)
      BY ScaleDivides
    <3>2. WeightOf(P, c[p]) \in Positive
      <4>1. c[p] \in SUBSET D /\ c[p] # {}
        BY DEF Classes
      <4> QED BY <4>1, WeightsPositive
    <3>3. f[p] \in Positive
      BY <2>5
    <3>4. 10 * WeightOf(P, c[p]) <= 3 * all
      BY <2>8
    <3> HIDE DEF all, f, s
    <3>5. Cap(WeightOf(P, c[p]), all, f[p], s) = s * f[p]
      BY <2>5, <3>1, <3>2, <3>3, <3>4, CapFacts
    <3> QED BY <2>11, <3>5
  <2> HIDE DEF w, D, f, all, x, y, s
  <2>13. IsFiniteSet(C) /\ IsFiniteSet(D \ C) /\ \A p \in D : f[p] \in Int
    <3>1. Positive \subseteq Int
      BY DEF Positive
    <3> QED BY <1>1, <2>3, <2>5, <3>1, FS_Subset
  <2>14. Total(w, D \ C) = s * y
    <3>1. s \in Int
      BY <2>10 DEF Positive
    <3>2. \A p \in D \ C : f[p] \in Int /\ w[p] = s * f[p]
      BY <2>12, <2>13
    <3>3. Total(w, D \ C) = s * Total(f, D \ C)
      BY <2>13, <3>1, <3>2, SumScaled DEF Total
    <3> QED BY <2>5, <3>3 DEF y
  <2>15. ASSUME NEW k \in Int, \A p \in C : w[p] = k * f[p]
         PROVE  Total(w, C) = k * x
    <3>1. \A p \in C : f[p] \in Int /\ w[p] = k * f[p]
      BY <2>3, <2>13, <2>15
    <3>2. Total(w, C) = k * Total(f, C)
      BY <2>13, <3>1, SumScaled DEF Total
    <3> QED BY <2>5, <3>2 DEF x
  <2>16. \A p \in C : w[p] = Cap(x, all, f[p], s) /\ f[p] \in Positive
    BY <2>3, <2>5, <2>11 DEF x
  <2>17. ASSUME NEW v \in Positive
         PROVE  /\ 10 * x <= 3 * all => Cap(x, all, v, s) = s * v
                /\ 10 * x > 3 * all => Cap(x, all, v, s) = (3 * (all * m)) * v
    <3>1. x \in Positive /\ all \in Positive
      BY <2>5
    <3>2. s = 10 * (x * m)
      BY <2>9
    <3>3. 10 * x <= 3 * all => Cap(x, all, v, s) = s * v
      BY <3>1, <3>2, CapFacts
    <3>4. 10 * x > 3 * all => Cap(x, all, v, s) = (3 * (all * m)) * v
      BY <3>1, <3>2, CapFacts
    <3> QED BY <3>3, <3>4
  <2>18. CASE 10 * x > 3 * all
    <3>1. ASSUME NEW p \in C PROVE w[p] = (3 * (all * m)) * f[p]
      <4>1. w[p] = Cap(x, all, f[p], s) /\ f[p] \in Positive
        BY <2>16
      <4> QED BY <2>18, <2>17, <4>1
    <3>2. 3 * (all * m) \in Int
      BY <2>5 DEF Positive
    <3>3. Total(w, C) = (3 * (all * m)) * x
      BY <2>15, <3>1, <3>2
    <3>4. (3 * ((x + y) * m)) * x < (10 * (x * m)) * y
      BY <2>5, <2>7, <2>8, CapBalanceCapped
    <3> QED BY <2>3, <2>7, <2>9, <2>14, <3>3, <3>4 DEF w, D
  <2>19. CASE 10 * x <= 3 * all
    <3>1. ASSUME NEW p \in C PROVE w[p] = s * f[p]
      <4>1. w[p] = Cap(x, all, f[p], s) /\ f[p] \in Positive
        BY <2>16
      <4> QED BY <2>19, <2>17, <4>1
    <3>2. s \in Int
      BY <2>10 DEF Positive
    <3>3. Total(w, C) = s * x
      BY <2>15, <3>1, <3>2
    <3>4. s * x < s * y
      BY <2>5, <2>7, <2>10, <2>19, CapBalanceUncapped
    <3> QED BY <2>3, <2>14, <3>3, <3>4 DEF w, D
  <2>20. 10 * x > 3 * all \/ 10 * x <= 3 * all
    BY <2>5 DEF Positive
  <2> QED BY <2>18, <2>19, <2>20
<1> QED BY <1>2, <1>3

-----------------------------------------------------------------------------
(* The median and the state root that the capped weights choose *)

(* C has less than half of the weight w of the proposals P. *)
Outweighed(P, w, C) ==
  /\ w \in [DOMAIN P -> Positive]
  /\ C \in SUBSET DOMAIN P
  /\ Total(w, C) < Total(w, DOMAIN P \ C)

(* In each coordinate there are members of D on either side of m. *)
Among(P, D, m) ==
  \A d \in Dim : \E p, q \in D : /\ P[p].prediction[d] <= m[d]
                                 /\ m[d] <= P[q].prediction[d]

LEMMA MedianBetween ==
  ASSUME NEW P, Sound(P), NEW w, NEW C, Outweighed(P, w, C)
  PROVE  /\ WeightedMedian(P, w) \in [Dim -> Int]
         /\ Among(P, DOMAIN P \ C, WeightedMedian(P, w))
<1> DEFINE D == DOMAIN P
           below(d, v) == {p \in D : P[p].prediction[d] <= v}
           values(d) == {P[p].prediction[d] : p \in D}
           reached(d) == {v \in values(d) : 2 * Total(w, below(d, v)) >= Total(w, D)}
<1>1. WeightedMedian(P, w) = [d \in Dim |-> Min(reached(d))]
  BY DEF WeightedMedian
<1>2. IsFiniteSet(D) /\ C \in SUBSET D /\ \A p \in D : w[p] \in Nat
  BY DEF Sound, Outweighed, Positive
<1>3. ASSUME NEW T \in SUBSET D
      PROVE  /\ IsFiniteSet(T) /\ \A p \in T : w[p] \in Nat
             /\ Total(w, T) \in Nat
             /\ \A S \in SUBSET T : Total(w, S) <= Total(w, T)
  <2>1. IsFiniteSet(T) /\ \A p \in T : w[p] \in Nat
    BY <1>2, FS_Subset
  <2> HIDE DEF D
  <2> QED BY <2>1, SumNat, PartWeighsLess DEF Total
<1>4. Total(w, D) = Total(w, C) + Total(w, D \ C)
  <2> HIDE DEF D
  <2> QED BY <1>2, PartWeighsLess
<1>5. Total(w, C) < Total(w, D \ C)
  BY DEF Outweighed
<1>6. ASSUME NEW d \in Dim
      PROVE  /\ Min(reached(d)) \in Int
             /\ \E p, q \in D \ C : /\ P[p].prediction[d] <= Min(reached(d))
                                    /\ Min(reached(d)) <= P[q].prediction[d]
  <2> DEFINE x == [p \in D |-> P[p].prediction[d]]
             m == Min(reached(d))
  <2>1. \A p \in D : x[p] = P[p].prediction[d] /\ x[p] \in Int
    BY DEF Sound
  <2>2. /\ values(d) \subseteq Int
        /\ \A v : below(d, v) \in SUBSET D
        /\ \A p \in D, v \in Int : p \in below(d, v) <=> x[p] <= v
    BY <2>1
  <2>3. IsFiniteSet(values(d))
    <3>1. x \in Surjection(D, values(d))
      BY DEF Surjection
    <3> HIDE DEF x, values, D
    <3> QED BY <1>2, <3>1, FS_Surjection
  <2>4. reached(d) \subseteq values(d) /\ IsFiniteSet(reached(d))
    <3>1. reached(d) \subseteq values(d)
      OBVIOUS
    <3> HIDE DEF reached, values
    <3> QED BY <2>3, <3>1, FS_Subset
  <2>5. \A v \in values(d) :
          v \in reached(d) <=> 2 * Total(w, below(d, v)) >= Total(w, D)
    OBVIOUS
  <2>6. \A p \in D : x[p] \in values(d)
    OBVIOUS
  <2> HIDE DEF x, values, reached, below, D
  \* The others reach half of the weight at the greatest of their values.
  <2>7. PICK q \in D \ C : \A p \in D \ C : x[p] <= x[q]
    <3> DEFINE others == {x[p] : p \in D \ C}
    <3>1. others \subseteq values(d) /\ others \subseteq Int
      BY <2>1, <2>6
    <3>2. IsFiniteSet(others)
      <4> HIDE DEF others
      <4> QED BY <2>3, <3>1, FS_Subset
    <3>3. others # {}
      <4>1. D \ C # {}
        <5>1. SUFFICES ASSUME D \ C = {} PROVE FALSE
          OBVIOUS
        <5>2. Total(w, C) \in Nat /\ Total(w, D \ C) \in Nat
          BY <1>2, <1>3
        <5>3. Total(w, {}) = 0
          BY FS_EmptySet, SumUnfold DEF Total
        <5> QED BY <1>5, <5>1, <5>2, <5>3
      <4> QED BY <4>1
    <3>4. \E v \in others : \A u \in others : u <= v
      <4> HIDE DEF others
      <4> QED BY <3>1, <3>2, <3>3, ExtremesExist
    <3> QED BY <3>4
  <2>8. x[q] \in reached(d)
    <3>1. D \ C \in SUBSET below(d, x[q]) /\ D \ C \in SUBSET D
      BY <2>1, <2>2, <2>7
    <3>2. Total(w, D \ C) <= Total(w, below(d, x[q]))
      BY <1>3, <2>2, <3>1
    <3>3. /\ Total(w, D \ C) \in Nat /\ Total(w, C) \in Nat
          /\ Total(w, below(d, x[q])) \in Nat
      BY <1>2, <1>3, <2>2, <3>1
    <3>4. 2 * Total(w, below(d, x[q])) >= Total(w, D)
      BY <1>4, <1>5, <3>2, <3>3
    <3> QED BY <2>5, <2>6, <2>7, <3>4
  <2>9. m \in reached(d) /\ m \in Int /\ m <= x[q]
    <3>1. reached(d) \subseteq Int /\ reached(d) # {}
      BY <2>2, <2>4, <2>8
    <3> QED BY <2>4, <2>8, <3>1, ExtremesChosen
  <2> HIDE DEF m
  \* Below all of their values are only members of C.
  <2>10. \E p \in D \ C : x[p] <= m
    <3> SUFFICES ASSUME \A p \in D \ C : ~(x[p] <= m) PROVE FALSE
      OBVIOUS
    <3>1. below(d, m) \in SUBSET C
      BY <2>2, <2>9
    <3>2. Total(w, below(d, m)) <= Total(w, C)
      BY <1>2, <1>3, <3>1
    <3>3. /\ Total(w, D \ C) \in Nat /\ Total(w, C) \in Nat
          /\ Total(w, below(d, m)) \in Nat
      BY <1>2, <1>3, <2>2
    <3>4. 2 * Total(w, below(d, m)) >= Total(w, D)
      BY <2>4, <2>5, <2>9
    <3> QED BY <1>4, <1>5, <3>2, <3>3, <3>4
  <2>11. \A p \in D \ C : x[p] = P[p].prediction[d]
    BY <2>1
  <2> QED BY <2>7, <2>9, <2>10, <2>11 DEF m
<1> HIDE DEF D, reached
<1>7. WeightedMedian(P, w) \in [Dim -> Int]
  BY <1>1, <1>6
<1>8. \A d \in Dim : WeightedMedian(P, w)[d] = Min(reached(d))
  BY <1>1
<1>9. Among(P, D \ C, WeightedMedian(P, w))
  BY <1>6, <1>8 DEF Among
<1> QED BY <1>7, <1>9 DEF D

LEMMA RootUnanimous ==
  ASSUME NEW P, Sound(P), NEW w, NEW C, Outweighed(P, w, C),
         NEW r, \A p \in DOMAIN P \ C : P[p].root = r,
         NEW h \in HeaviestRoots(P, w)
  PROVE  h = r
<1> DEFINE D == DOMAIN P
           for(v) == {p \in D : P[p].root = v}
<1>1. IsFiniteSet(D) /\ C \in SUBSET D /\ \A p \in D : w[p] \in Nat
  BY DEF Sound, Outweighed, Positive
<1>2. Total(w, C) < Total(w, D \ C)
  BY DEF Outweighed
<1>3. ASSUME NEW T \in SUBSET D
      PROVE  /\ Total(w, T) \in Nat
             /\ \A S \in SUBSET T : Total(w, S) <= Total(w, T)
  <2>1. IsFiniteSet(T) /\ \A p \in T : w[p] \in Nat
    BY <1>1, FS_Subset
  <2> HIDE DEF D
  <2> QED BY <2>1, SumNat, PartWeighsLess DEF Total
<1>4. PICK p \in D \ C : TRUE
  <2>1. D \ C # {}
    <3>1. SUFFICES ASSUME D \ C = {} PROVE FALSE
      OBVIOUS
    <3>2. Total(w, C) \in Nat /\ Total(w, {}) = 0
      BY <1>1, <1>3, FS_EmptySet, SumUnfold DEF Total
    <3> QED BY <1>2, <3>1, <3>2
  <2> QED BY <2>1
<1>5. r \in {P[q].root : q \in D}
  BY <1>4
<1>6. RootVotes(P, w, h) >= RootVotes(P, w, r)
  BY <1>5 DEF HeaviestRoots
<1>7. SUFFICES ASSUME h # r PROVE FALSE
  OBVIOUS
<1>8. for(h) \in SUBSET C /\ D \ C \in SUBSET for(r) /\ for(r) \in SUBSET D
  BY <1>7
<1>9. RootVotes(P, w, h) = Total(w, for(h)) /\ RootVotes(P, w, r) = Total(w, for(r))
  BY DEF RootVotes
<1> HIDE DEF for, D
<1>10. Total(w, for(h)) <= Total(w, C) /\ Total(w, D \ C) <= Total(w, for(r))
  BY <1>1, <1>3, <1>8
<1>11. /\ Total(w, for(h)) \in Nat /\ Total(w, C) \in Nat
       /\ Total(w, D \ C) \in Nat /\ Total(w, for(r)) \in Nat
  <2>1. for(h) \in SUBSET D /\ D \ C \in SUBSET D
    BY <1>1, <1>8
  <2> QED BY <1>1, <1>3, <1>8, <2>1
<1> QED BY <1>2, <1>6, <1>9, <1>10, <1>11

-----------------------------------------------------------------------------
(* compute_consensus *)

(* Each phase works on what the phases before it computed. *)
ConsInv ==
  /\ proposal \in Input
  /\ cluster = None \/ cluster = Clusters(proposal)
  /\ capped = None \/ (cluster = Clusters(proposal) /\ capped = Capped(proposal, cluster))
  /\ result = None \/ /\ cluster = Clusters(proposal)
                      /\ capped = Capped(proposal, cluster)
                      /\ result \in Outcomes(proposal, capped)

LEMMA InputSound ==
  ASSUME NEW P \in Input
  PROVE  Sound(P) /\ DOMAIN P = Proposer /\ \A p \in Proposer : P[p].root \in Root
<1>1. P \in [Proposer -> Proposal]
  BY ConsensusAssumption
<1>2. \A p \in Proposer : /\ P[p].prediction \in [Dim -> Coordinate]
                          /\ P[p].weight \in RawWeight
                          /\ P[p].root \in Root
  BY <1>1 DEF Proposal
<1>3. \A p \in Proposer : /\ P[p].weight \in Positive
                          /\ \A d \in Dim : P[p].prediction[d] \in Int
  BY <1>2, ConsensusAssumption DEF Positive
<1> QED BY <1>1, <1>2, <1>3, ConsensusAssumption DEF Sound

LEMMA ConsInvariance ==
  ConsSpec => []ConsInv
<1>1. ConsInit => ConsInv
  BY DEF ConsInit, ConsInv
<1>2. ConsInv /\ [ConsNext]_consVars => ConsInv'
  <2> SUFFICES ASSUME ConsInv, [ConsNext]_consVars PROVE ConsInv'
    OBVIOUS
  <2> USE DEF ConsInv
  <2>1. CASE FindClusters
    BY <2>1 DEF FindClusters
  <2>2. CASE CapWeights
    BY <2>2 DEF CapWeights
  <2>3. CASE Decide
    BY <2>3 DEF Decide
  <2>4. CASE UNCHANGED consVars
    BY <2>4 DEF consVars
  <2> QED BY <2>1, <2>2, <2>3, <2>4 DEF ConsNext
<1> QED BY <1>1, <1>2, PTL DEF ConsSpec

(* A cluster that the cap restrains is outweighed. *)
LEMMA RestrainedOutweighed ==
  ASSUME NEW P, Sound(P), NEW C,
         \/ C = {}
         \/ C \in Range(Clusters(P)) /\ Restrained(P, Clusters(P), C)
  PROVE  Outweighed(P, Capped(P, Clusters(P)), C)
<1>1. Classes(Clusters(P), DOMAIN P)
  BY ClustersAreClasses
<1> QED BY <1>1, CappedPositive, CapBalance DEF Outweighed

(* However large the clusters are: predictions of one cluster do not move  *)
(* the median of compute_consensus beyond the range of the others, if the  *)
(* cap restrains that cluster and no other.                                *)
THEOREM ClusterCannotMoveMedianHolds ==
  ConsSpec => []ClusterCannotMoveMedian
<1>1. ConsInv => ClusterCannotMoveMedian
  <2> SUFFICES ASSUME ConsInv, result # None, NEW C \in Range(cluster),
                      Restrained(proposal, cluster, C), NEW d \in Dim
               PROVE  \E p, q \in Proposer \ C :
                        /\ proposal[p].prediction[d] <= result.median[d]
                        /\ result.median[d] <= proposal[q].prediction[d]
    BY DEF ClusterCannotMoveMedian
  <2>1. Sound(proposal) /\ DOMAIN proposal = Proposer
    BY InputSound DEF ConsInv
  <2>2. /\ cluster = Clusters(proposal) /\ capped = Capped(proposal, cluster)
        /\ result \in Outcomes(proposal, capped)
    BY DEF ConsInv
  <2>3. Outweighed(proposal, capped, C)
    BY <2>1, <2>2, RestrainedOutweighed
  <2>4. Among(proposal, Proposer \ C, WeightedMedian(proposal, capped))
    BY <2>1, <2>3, MedianBetween
  <2>5. result.median = WeightedMedian(proposal, capped)
    BY <2>2 DEF Outcomes
  <2> QED BY <2>4, <2>5 DEF Among
<1> QED BY <1>1, ConsInvariance, PTL

(* Nor does such a cluster choose the common state root, if the others     *)
(* report one root.                                                        *)
THEOREM ClusterCannotDecideRootHolds ==
  ConsSpec => []ClusterCannotDecideRoot
<1>1. ConsInv => ClusterCannotDecideRoot
  <2> SUFFICES ASSUME ConsInv, result # None, NEW C \in Range(cluster), NEW r \in Root,
                      \A p \in Proposer \ C : proposal[p].root = r,
                      Restrained(proposal, cluster, C)
               PROVE  result.root = r
    BY DEF ClusterCannotDecideRoot
  <2>1. Sound(proposal) /\ DOMAIN proposal = Proposer
    BY InputSound DEF ConsInv
  <2>2. /\ cluster = Clusters(proposal) /\ capped = Capped(proposal, cluster)
        /\ result \in Outcomes(proposal, capped)
    BY DEF ConsInv
  <2>3. Outweighed(proposal, capped, C)
    BY <2>1, <2>2, RestrainedOutweighed
  <2>4. result.root \in HeaviestRoots(proposal, capped)
    BY <2>2 DEF Outcomes
  <2> QED BY <2>1, <2>3, <2>4, RootUnanimous
<1> QED BY <1>1, ConsInvariance, PTL

-----------------------------------------------------------------------------
(* The two layers of shard consensus *)

(* A consensus stays within the range of the proposals outside a weak set. *)
LEMMA ConsensusAmong ==
  ASSUME NEW P, Sound(P), NEW o \in ConsensusOf(P)
  PROVE  /\ o.median \in [Dim -> Int]
         /\ \A C \in Weak(P) : /\ C \in SUBSET DOMAIN P
                               /\ Among(P, DOMAIN P \ C, o.median)
<1> DEFINE w == Capped(P, Clusters(P))
<1>1. o \in Outcomes(P, w)
  BY DEF ConsensusOf
<1>2. o.median = WeightedMedian(P, w)
  BY <1>1 DEF Outcomes
<1>3. ASSUME NEW C \in Weak(P) PROVE Outweighed(P, w, C)
  <2>1. \/ C = {}
        \/ C \in Range(Clusters(P)) /\ Restrained(P, Clusters(P), C)
    BY DEF Weak
  <2> QED BY <2>1, RestrainedOutweighed
<1>4. {} \in Weak(P)
  BY DEF Weak
<1> HIDE DEF w
<1>5. o.median \in [Dim -> Int]
  BY <1>2, <1>3, <1>4, MedianBetween
<1>6. ASSUME NEW C \in Weak(P)
      PROVE  C \in SUBSET DOMAIN P /\ Among(P, DOMAIN P \ C, o.median)
  BY <1>2, <1>3, MedianBetween DEF Outweighed
<1> QED BY <1>5, <1>6

(* The cap looks at predictions and weights only. *)
LEMMA WeakSame ==
  ASSUME NEW P, NEW Q, DOMAIN P = DOMAIN Q,
         \A p \in DOMAIN P : /\ P[p].prediction = Q[p].prediction
                             /\ P[p].weight = Q[p].weight
  PROVE  Weak(P) = Weak(Q)
<1> DEFINE D == DOMAIN P
           closeP == {e \in D \X D : Close(P, e[1], e[2])}
           closeQ == {e \in D \X D : Close(Q, e[1], e[2])}
           closedP == {S \in SUBSET D : \A e \in closeP : e[1] \in S => e[2] \in S}
           closedQ == {S \in SUBSET D : \A e \in closeQ : e[1] \in S => e[2] \in S}
<1>1. closeP = closeQ
  <2>1. \A p, q \in D : Close(P, p, q) <=> Close(Q, p, q)
    BY DEF Close
  <2> QED BY <2>1
<1>2. Clusters(P) = Clusters(Q)
  <2>1. closedP = closedQ
    <3> HIDE DEF closeP, closeQ
    <3> QED BY <1>1
  <2>2. /\ Clusters(P) = [p \in D |-> {q \in D : \A S \in closedP : p \in S => q \in S}]
        /\ Clusters(Q) = [p \in D |-> {q \in D : \A S \in closedQ : p \in S => q \in S}]
    BY DEF Clusters
  <2> HIDE DEF closedP, closedQ, D
  <2> QED BY <2>1, <2>2
<1>3. \A S : WeightOf(P, S) = WeightOf(Q, S)
  <2>1. [p \in DOMAIN P |-> P[p].weight] = [p \in DOMAIN Q |-> Q[p].weight]
    OBVIOUS
  <2> QED BY <2>1 DEF WeightOf
<1> HIDE DEF closeP, closeQ, closedP, closedQ, D
<1>4. \A C : Restrained(P, Clusters(P), C) <=> Restrained(Q, Clusters(Q), C)
  BY <1>2, <1>3 DEF Restrained
<1> QED BY <1>2, <1>4 DEF Weak

(* What layer 1 leaves, and the whole *)
Digested ==
  /\ DOMAIN digests = Shards
  /\ \A s \in Shards : digests[s] \in ConsensusOf(ProposalsOf(s))

ShardInv ==
  /\ submitted \in Submission
  /\ digests = None \/ Digested
  /\ anchor = None \/ (Digested /\ anchor \in ConsensusOf(DigestProposals))

LEMMA ShardInvariance ==
  ShardSpec => []ShardInv
<1>1. ShardInit => ShardInv
  BY DEF ShardInit, ShardInv
<1>2. ShardInv /\ [ShardNext]_shardVars => ShardInv'
  <2> SUFFICES ASSUME ShardInv, [ShardNext]_shardVars PROVE ShardInv'
    OBVIOUS
  <2>1. CASE ShardLayer
    <3>1. submitted' = submitted /\ anchor' = anchor /\ digests = None
      BY <2>1 DEF ShardLayer
    <3>2. anchor = None
      <4>1. Shards # {}
        BY ShardAssumption DEF ShardInv, Shards
      <4>2. DOMAIN None = {}
        BY DEF None
      <4> QED BY <3>1, <4>1, <4>2 DEF ShardInv, Digested
    <3>3. Shards' = Shards /\ \A s : ConsensusOf(ProposalsOf(s))' = ConsensusOf(ProposalsOf(s))
      BY <3>1 DEF Shards, ProposalsOf, MembersOf
    <3> DEFINE outcomes == [s \in Shards |-> ConsensusOf(ProposalsOf(s))]
    <3>4. digests' \in {f \in [Shards -> UNION Range(outcomes)] :
                          \A s \in Shards : f[s] \in outcomes[s]}
      BY <2>1 DEF ShardLayer
    <3>5. DOMAIN digests' = Shards
      <4> HIDE DEF outcomes
      <4> QED BY <3>4
    <3>6. \A s \in Shards : digests'[s] \in ConsensusOf(ProposalsOf(s))
      BY <3>4
    <3>7. Digested'
      BY <3>3, <3>5, <3>6 DEF Digested
    <3> QED BY <3>1, <3>2, <3>7 DEF ShardInv
  <2>2. CASE GlobalAnchor
    <3>1. submitted' = submitted /\ digests' = digests /\ digests # None
      BY <2>2 DEF GlobalAnchor
    <3>2. Digested
      BY <3>1 DEF ShardInv
    <3>3. Digested'
      BY <3>1, <3>2 DEF Digested, Shards, ProposalsOf, MembersOf
    <3>4. DigestProposals' = DigestProposals
      BY <3>1 DEF DigestProposals, ShardReputation, Mean, MeanScale, Shards, MembersOf
    <3>5. anchor' \in ConsensusOf(DigestProposals)
      BY <2>2 DEF GlobalAnchor
    <3>6. (anchor \in ConsensusOf(DigestProposals))'
      BY <3>4, <3>5
    <3> QED BY <3>1, <3>3, <3>6 DEF ShardInv
  <2>3. CASE UNCHANGED shardVars
    <3>1. submitted' = submitted /\ digests' = digests /\ anchor' = anchor
      BY <2>3 DEF shardVars
    <3>2. Digested' <=> Digested
      BY <3>1 DEF Digested, Shards, ProposalsOf, MembersOf
    <3>3. DigestProposals' = DigestProposals
      BY <3>1 DEF DigestProposals, ShardReputation, Mean, MeanScale, Shards, MembersOf
    <3>4. (anchor \in ConsensusOf(DigestProposals))' <=> anchor \in ConsensusOf(DigestProposals)
      BY <3>1, <3>3
    <3> QED BY <3>1, <3>2, <3>4 DEF ShardInv
  <2> QED BY <2>1, <2>2, <2>3 DEF ShardNext
<1> QED BY <1>1, <1>2, PTL DEF ShardSpec

(* The proposals of each shard, and their digests, are sound. *)
LEMMA SubmittedSound ==
  ASSUME submitted \in Submission
  PROVE  /\ IsFiniteSet(DOMAIN submitted) /\ IsFiniteSet(Shards)
         /\ Sound(submitted)
         /\ \A p \in DOMAIN submitted : ShardOf[p] \in Shards /\ p \in MembersOf(ShardOf[p])
         /\ \A s \in Shards : /\ MembersOf(s) \in SUBSET DOMAIN submitted
                              /\ MembersOf(s) # {}
                              /\ DOMAIN ProposalsOf(s) = MembersOf(s)
                              /\ \A p \in MembersOf(s) : ProposalsOf(s)[p] = submitted[p]
                              /\ Sound(ProposalsOf(s))
<1> DEFINE D == DOMAIN submitted
<1>1. D \subseteq Member /\ D # {} /\ submitted \in [D -> Proposal]
  BY ShardAssumption
<1>2. IsFiniteSet(D)
  BY <1>1, ShardAssumption, FS_Subset
<1>3. \A p \in D : /\ submitted[p].prediction \in [Dim -> Coordinate]
                   /\ submitted[p].weight \in RawWeight
  BY <1>1 DEF Proposal
<1>4. \A p \in D : /\ submitted[p].weight \in Positive
                   /\ \A d \in Dim : submitted[p].prediction[d] \in Int
  BY <1>3, ConsensusAssumption DEF Positive
<1>5. Sound(submitted)
  BY <1>1, <1>2, <1>4 DEF Sound
<1>6. IsFiniteSet(Shards)
  <2> DEFINE f == [p \in D |-> ShardOf[p]]
  <2>1. f \in Surjection(D, Shards)
    BY DEF Surjection, Shards
  <2> HIDE DEF f, D
  <2> QED BY <1>2, <2>1, FS_Surjection
<1>7. \A p \in D : ShardOf[p] \in Shards /\ p \in MembersOf(ShardOf[p])
  BY DEF Shards, MembersOf
<1>8. ASSUME NEW s \in Shards
      PROVE  /\ MembersOf(s) \in SUBSET D /\ MembersOf(s) # {}
             /\ DOMAIN ProposalsOf(s) = MembersOf(s)
             /\ \A p \in MembersOf(s) : ProposalsOf(s)[p] = submitted[p]
             /\ Sound(ProposalsOf(s))
  <2>1. MembersOf(s) \in SUBSET D /\ MembersOf(s) # {}
    BY DEF Shards, MembersOf
  <2>2. IsFiniteSet(MembersOf(s))
    BY <1>2, <2>1, FS_Subset
  <2>3. DOMAIN ProposalsOf(s) = MembersOf(s)
    BY DEF ProposalsOf, Restrict
  <2>4. \A p \in MembersOf(s) : ProposalsOf(s)[p] = submitted[p]
    BY DEF ProposalsOf, Restrict
  <2>5. Sound(ProposalsOf(s))
    BY <1>4, <2>1, <2>2, <2>3, <2>4 DEF Sound
  <2> QED BY <2>1, <2>3, <2>4, <2>5
<1> QED BY <1>2, <1>5, <1>6, <1>7, <1>8

LEMMA MeansPositive ==
  ASSUME submitted \in Submission, NEW s \in Shards
  PROVE  Mean(s) \in Positive
<1> DEFINE f == [t \in Shards |-> Cardinality(MembersOf(t))]
<1>1. \A t \in Shards : f[t] \in Positive
  <2>1. \A t \in Shards : IsFiniteSet(MembersOf(t)) /\ MembersOf(t) # {}
    BY SubmittedSound, FS_Subset
  <2>2. \A t \in Shards : Cardinality(MembersOf(t)) \in Nat /\ Cardinality(MembersOf(t)) # 0
    BY <2>1, FS_CardinalityType, FS_EmptySet
  <2> QED BY <2>2 DEF Positive
<1>2. MeanScale = Product(f, Shards) /\ f[s] = Cardinality(MembersOf(s)) /\ f[s] \in Positive
  BY <1>1 DEF MeanScale
<1> HIDE DEF f
<1>3. PICK m \in Positive : MeanScale = f[s] * m
  BY <1>1, <1>2, SubmittedSound, ProductDivides
<1>4. MeanScale \div Cardinality(MembersOf(s)) = m
  <2>1. ASSUME NEW a \in Positive, NEW b \in Positive PROVE (a * b) \div a = b
    BY DEF Positive
  <2> QED BY <1>2, <1>3, <2>1
<1>5. WeightOf(submitted, MembersOf(s)) \in Positive
  BY SubmittedSound, WeightsPositive
<1>6. Mean(s) = WeightOf(submitted, MembersOf(s)) * m
  BY <1>4 DEF Mean
<1> QED BY <1>5, <1>6, ProductOfPositives

LEMMA DigestsSound ==
  ASSUME submitted \in Submission, Digested
  PROVE  /\ Sound(DigestProposals) /\ DOMAIN DigestProposals = Shards
         /\ \A s \in Shards : DigestProposals[s].prediction = digests[s].median
         /\ WeakShards = Weak(DigestProposals)
<1>1. DOMAIN DigestProposals = Shards
  BY DEF DigestProposals
<1>2. \A s \in Shards : /\ DigestProposals[s].prediction = digests[s].median
                        /\ DigestProposals[s].weight = Mean(s)
  BY DEF DigestProposals, ShardReputation
<1>3. \A s \in Shards : digests[s].median \in [Dim -> Int]
  <2>1. \A s \in Shards : Sound(ProposalsOf(s)) /\ digests[s] \in ConsensusOf(ProposalsOf(s))
    BY SubmittedSound DEF Digested
  <2> QED BY <2>1, ConsensusAmong
<1>4. \A s \in Shards : Mean(s) \in Positive
  BY MeansPositive
<1>5. IsFiniteSet(Shards) /\ Shards # {}
  BY SubmittedSound, ShardAssumption DEF Shards
<1>6. Sound(DigestProposals)
  BY <1>1, <1>2, <1>3, <1>4, <1>5 DEF Sound
<1>7. WeakShards = Weak(DigestProposals)
  <2> DEFINE Q == [s \in Shards |-> [prediction |-> digests[s].median, weight |-> Mean(s)]]
  <2>1. /\ DOMAIN Q = DOMAIN DigestProposals
        /\ \A s \in DOMAIN Q : /\ Q[s].prediction = DigestProposals[s].prediction
                               /\ Q[s].weight = DigestProposals[s].weight
    BY <1>1, <1>2
  <2>2. WeakShards = Weak(Q)
    BY DEF WeakShards
  <2> HIDE DEF Q
  <2>3. Weak(Q) = Weak(DigestProposals)
    BY <2>1, WeakSame
  <2> QED BY <2>2, <2>3
<1> QED BY <1>1, <1>2, <1>6, <1>7

(* What attackers A who control the shards S leave to the others *)
LEMMA AttackersLeave ==
  ASSUME submitted \in Submission, NEW S, NEW A \in Attackers(S), NEW s \in Shards, s \notin S
  PROVE  /\ A \in SUBSET DOMAIN submitted
         /\ A \cap MembersOf(s) \in Weak(ProposalsOf(s))
         /\ MembersOf(s) \ (A \cap MembersOf(s)) \subseteq DOMAIN submitted \ A
<1> DEFINE W == [t \in Shards |-> Weak(ProposalsOf(t))]
<1>1. Attackers(S) = UNION {{B \in SUBSET DOMAIN submitted :
                             \A t \in Shards : IF t \in S THEN MembersOf(t) \subseteq B
                                               ELSE B \cap MembersOf(t) \in weak[t]} :
                            weak \in {W}}
  BY DEF Attackers
<1>2. W[s] = Weak(ProposalsOf(s))
  OBVIOUS
<1> HIDE DEF W
<1>3. A \in SUBSET DOMAIN submitted /\ A \cap MembersOf(s) \in W[s]
  BY <1>1
<1>4. MembersOf(s) \subseteq DOMAIN submitted
  BY SubmittedSound
<1> QED BY <1>2, <1>3, <1>4

(* The digest of a shard that the attackers do not control stays among the *)
(* predictions of the other members, and so does the anchor.               *)
LEMMA DigestAmong ==
  ASSUME submitted \in Submission, Digested,
         NEW S, NEW A \in Attackers(S), NEW s \in Shards, s \notin S
  PROVE  /\ digests[s].median \in [Dim -> Int]
         /\ Among(submitted, DOMAIN submitted \ A, digests[s].median)
<1> DEFINE P == ProposalsOf(s)
           C == A \cap MembersOf(s)
<1>1. /\ Sound(P) /\ DOMAIN P = MembersOf(s)
      /\ \A p \in MembersOf(s) : P[p] = submitted[p]
  BY SubmittedSound
<1>2. /\ C \in Weak(P)
      /\ MembersOf(s) \ C \subseteq DOMAIN submitted \ A
  BY AttackersLeave
<1>3. digests[s] \in ConsensusOf(P)
  BY DEF Digested
<1> HIDE DEF P, C
<1>4. digests[s].median \in [Dim -> Int] /\ Among(P, MembersOf(s) \ C, digests[s].median)
  BY <1>1, <1>2, <1>3, ConsensusAmong
<1>5. Among(submitted, DOMAIN submitted \ A, digests[s].median)
  BY <1>1, <1>2, <1>4 DEF Among
<1> QED BY <1>4, <1>5

LEMMA AnchorAmong ==
  ASSUME submitted \in Submission, Digested, anchor \in ConsensusOf(DigestProposals),
         NEW S \in WeakShards, NEW A \in Attackers(S)
  PROVE  /\ anchor.median \in [Dim -> Int]
         /\ Among(submitted, DOMAIN submitted \ A, anchor.median)
<1>1. /\ Sound(DigestProposals) /\ DOMAIN DigestProposals = Shards
      /\ \A s \in Shards : DigestProposals[s].prediction = digests[s].median
      /\ S \in Weak(DigestProposals)
  BY DigestsSound
<1>2. anchor.median \in [Dim -> Int] /\ Among(DigestProposals, Shards \ S, anchor.median)
  BY <1>1, ConsensusAmong
<1>3. ASSUME NEW d \in Dim
      PROVE  \E p, q \in DOMAIN submitted \ A :
               /\ submitted[p].prediction[d] <= anchor.median[d]
               /\ anchor.median[d] <= submitted[q].prediction[d]
  <2>1. PICK s \in Shards \ S, t \in Shards \ S :
               /\ digests[s].median[d] <= anchor.median[d]
               /\ anchor.median[d] <= digests[t].median[d]
    BY <1>1, <1>2 DEF Among
  <2>2. /\ digests[s].median \in [Dim -> Int] /\ digests[t].median \in [Dim -> Int]
        /\ Among(submitted, DOMAIN submitted \ A, digests[s].median)
        /\ Among(submitted, DOMAIN submitted \ A, digests[t].median)
    BY DigestAmong
  <2>3. PICK p \in DOMAIN submitted \ A : submitted[p].prediction[d] <= digests[s].median[d]
    BY <2>2 DEF Among
  <2>4. PICK q \in DOMAIN submitted \ A : digests[t].median[d] <= submitted[q].prediction[d]
    BY <2>2 DEF Among
  <2>5. /\ submitted[p].prediction[d] \in Int /\ submitted[q].prediction[d] \in Int
        /\ digests[s].median[d] \in Int /\ digests[t].median[d] \in Int
        /\ anchor.median[d] \in Int
    BY <1>2, <2>2, SubmittedSound DEF Sound
  <2>6. /\ submitted[p].prediction[d] <= anchor.median[d]
        /\ anchor.median[d] <= submitted[q].prediction[d]
    BY <2>1, <2>3, <2>4, <2>5
  <2> QED BY <2>6
<1> QED BY <1>2, <1>3 DEF Among

(* Whatever the shards and their sizes are: members who coordinate, weak   *)
(* in some shards and in control of others that are weak as shards, cannot *)
(* move the median of the anchor beyond what the other members predict.    *)
THEOREM AttackersCannotMoveAnchorHolds ==
  ShardSpec => []AttackersCannotMoveAnchor
<1>1. ShardInv => AttackersCannotMoveAnchor
  BY AnchorAmong DEF ShardInv, AttackersCannotMoveAnchor, Among
<1> QED BY <1>1, ShardInvariance, PTL

LEMMA SquaresGrow ==
  ASSUME NEW k \in Int, NEW n \in Nat, k <= n, -n <= k
  PROVE  Square(k) \in Int /\ Square(n) \in Int /\ Square(k) <= Square(n)
<1>1. ASSUME NEW i \in Nat, NEW j \in Nat, i <= j PROVE i * i <= j * j
  BY <1>1
<1>2. CASE k >= 0
  BY <1>1, <1>2 DEF Square
<1>3. CASE k < 0
  <2>1. -k \in Nat /\ -k <= n /\ (-k) * (-k) = k * k
    BY <1>3
  <2> HIDE DEF Square
  <2>2. (-k) * (-k) <= n * n
    BY <1>1, <2>1
  <2> QED BY <2>1, <2>2 DEF Square
<1> QED BY <1>2, <1>3

(* As long as the others are within the tolerance of each other, none of   *)
(* their shards is called compromised.                                     *)
THEOREM HonestShardsAreTrustedHolds ==
  ShardSpec => []HonestShardsAreTrusted
<1>1. ShardInv => HonestShardsAreTrusted
  <2> SUFFICES ASSUME ShardInv, anchor # None,
                      NEW S \in WeakShards, NEW A \in Attackers(S),
                      Total([d \in Dim |-> Square(Spread(A, d))], Dim) <= Square(Tolerance),
                      NEW s \in Shards \ S
               PROVE  ~Compromised(s)
    BY DEF HonestShardsAreTrusted
  <2> DEFINE D == DOMAIN submitted \ A
             a == digests[s].median
             b == anchor.median
             f == [d \in Dim |-> Square(a[d] - b[d])]
             g == [d \in Dim |-> Square(Spread(A, d))]
  <2>1. submitted \in Submission /\ Digested /\ anchor \in ConsensusOf(DigestProposals)
    BY DEF ShardInv
  <2>2. a \in [Dim -> Int] /\ Among(submitted, D, a)
    BY <2>1, DigestAmong
  <2>3. b \in [Dim -> Int] /\ Among(submitted, D, b)
    BY <2>1, AnchorAmong
  <2>4. IsFiniteSet(D) /\ \A p \in D, d \in Dim : submitted[p].prediction[d] \in Int
    BY <2>1, SubmittedSound, FS_Subset DEF Sound
  <2> HIDE DEF D, a, b
  <2>5. ASSUME NEW d \in Dim
        PROVE  f[d] \in Int /\ g[d] \in Int /\ f[d] <= g[d]
    <3> DEFINE honest == {submitted[p].prediction[d] : p \in D}
               low == Min(honest)
               high == Max(honest)
    <3>1. IsFiniteSet(honest)
      <4> DEFINE x == [p \in D |-> submitted[p].prediction[d]]
      <4>1. x \in Surjection(D, honest)
        BY DEF Surjection
      <4> HIDE DEF x, honest
      <4> QED BY <2>4, <4>1, FS_Surjection
    <3>2. honest \subseteq Int /\ honest # {}
      BY <2>2, <2>4 DEF Among
    <3>3. \A i \in honest : low <= i /\ i <= high
      <4> HIDE DEF honest
      <4> QED BY <3>1, <3>2, ExtremesChosen
    <3>4. low \in Int /\ high \in Int
      <4> HIDE DEF honest
      <4> QED BY <3>1, <3>2, ExtremesChosen
    <3>5. Spread(A, d) = high - low
      BY DEF Spread, D
    <3>6. a[d] \in Int /\ b[d] \in Int
      BY <2>2, <2>3
    <3>7. /\ \E i, j \in honest : i <= a[d] /\ a[d] <= j
          /\ \E i, j \in honest : i <= b[d] /\ b[d] <= j
      BY <2>2, <2>3 DEF Among
    <3> HIDE DEF honest, low, high
    <3>8. low <= a[d] /\ a[d] <= high /\ low <= b[d] /\ b[d] <= high
      <4>1. ASSUME NEW v \in Int, NEW i \in honest, NEW j \in honest, i <= v, v <= j
            PROVE  low <= v /\ v <= high
        <5>1. i \in Int /\ j \in Int /\ low <= i /\ j <= high
          BY <3>2, <3>3
        <5> QED BY <3>4, <4>1, <5>1
      <4> QED BY <3>6, <3>7, <4>1
    <3> DEFINE k == a[d] - b[d]
               n == high - low
    <3>9. k \in Int /\ n \in Nat /\ k <= n /\ -n <= k
      BY <3>4, <3>6, <3>8
    <3>10. f[d] = Square(k) /\ g[d] = Square(n)
      BY <3>5
    <3> HIDE DEF k, n
    <3> QED BY <3>9, <3>10, SquaresGrow
  <2> HIDE DEF f, g
  <2>6. Total(f, Dim) <= Total(g, Dim) /\ Total(f, Dim) \in Int /\ Total(g, Dim) \in Int
    <3>1. IsFiniteSet(Dim)
      BY ConsensusAssumption
    <3> QED BY <2>5, <3>1, SumMonotonic, SumUnfold DEF Total
  <2>7. Deviation(s) = Total(f, Dim)
    BY DEF Deviation, Apart, f, a, b
  <2>8. Total(g, Dim) <= Square(Tolerance) /\ Square(Tolerance) \in Int
    BY ShardAssumption DEF g, Square
  <2> QED BY <2>6, <2>7, <2>8 DEF Compromised
<1> QED BY <1>1, ShardInvariance, PTL

-----------------------------------------------------------------------------
(* The union-find of the coordination detector, which is that of           *)
(* compute_consensus as well                                               *)

(* Every step of the forest t leads to a smaller rank. *)
Ranked(t, D, r) ==
  /\ r \in [D -> Nat]
  /\ \A q \in D : t[q] # q => r[t[q]] < r[q]

IsForest(t, D) ==
  /\ IsFiniteSet(D)
  /\ t \in [D -> D]
  /\ \E r : Ranked(t, D, r)

(* g finds the roots. *)
Finds(g, t, D) == g = [q \in D |-> IF t[q] = q THEN q ELSE g[t[q]]]

LEMMA FindsUnique ==
  ASSUME NEW D, NEW t \in [D -> D], NEW r, Ranked(t, D, r),
         NEW g, Finds(g, t, D), NEW h, Finds(h, t, D)
  PROVE  g = h
<1> DEFINE S == {r[q] : q \in {x \in D : g[x] # h[x]}}
<1>1. CASE S = {}
  <2>1. \A q \in D : g[q] = h[q]
    BY <1>1
  <2> QED BY <2>1 DEF Finds
<1>2. CASE S # {}
  <2>1. S \in SUBSET Nat
    BY DEF Ranked
  <2>2. PICK i \in S : \A j \in S : i <= j
    <3> HIDE DEF S
    <3> QED BY <1>2, <2>1, LeastExists
  <2>3. PICK q \in D : g[q] # h[q] /\ i = r[q]
    BY <2>2
  <2>4. t[q] # q
    BY <2>3 DEF Finds
  <2>5. t[q] \in D /\ r[t[q]] < r[q] /\ r[t[q]] \in Nat /\ r[q] \in Nat
    BY <2>4 DEF Ranked
  <2>6. r[t[q]] \notin S
    <3> HIDE DEF S
    <3> QED BY <2>2, <2>3, <2>5
  <2>7. g[t[q]] = h[t[q]]
    BY <2>5, <2>6
  <2> QED BY <2>3, <2>4, <2>7 DEF Finds
<1> QED BY <1>1, <1>2

LEMMA FindsExists ==
  ASSUME NEW D, NEW t, IsForest(t, D)
  PROVE  \E g : Finds(g, t, D) /\ g \in [D -> D] /\ \A q \in D : t[g[q]] = g[q]
<1>1. PICK r : Ranked(t, D, r)
  BY DEF IsForest
<1> DEFINE Upto(n) == {q \in D : r[q] <= n}
           Good(n, g) == \A q \in Upto(n) : /\ g[q] = IF t[q] = q THEN q ELSE g[t[q]]
                                            /\ t[g[q]] = g[q]
           N == {n \in Nat : \E g \in [Upto(n) -> D] : Good(n, g)}
<1>2. /\ t \in [D -> D] /\ r \in [D -> Nat]
      /\ \A q \in D : t[q] # q => r[t[q]] < r[q]
  BY <1>1 DEF IsForest, Ranked
<1>3. ASSUME NEW n \in Nat, NEW q \in Upto(n), t[q] # q
      PROVE  n # 0 /\ t[q] \in Upto(n - 1)
  <2>1. r[t[q]] < r[q] /\ r[t[q]] \in Nat /\ r[q] \in Nat /\ r[q] <= n /\ t[q] \in D
    BY <1>2, <1>3
  <2> QED BY <2>1
<1>4. N \subseteq Nat /\ 0 \in N
  <2> DEFINE g == [q \in Upto(0) |-> q]
  <2>1. \A q \in Upto(0) : t[q] = q
    BY <1>3
  <2>2. g \in [Upto(0) -> D] /\ Good(0, g)
    BY <2>1
  <2> HIDE DEF g, Good, Upto
  <2> QED BY <2>2
<1>5. ASSUME NEW n \in N PROVE n + 1 \in N
  <2>1. PICK h \in [Upto(n) -> D] : Good(n, h)
    OBVIOUS
  <2> DEFINE g == [q \in Upto(n + 1) |-> IF t[q] = q THEN q ELSE h[t[q]]]
  <2>2. n \in Nat /\ n + 1 \in Nat /\ (n + 1) - 1 = n
    OBVIOUS
  <2>3. \A q \in Upto(n + 1) : q \in D /\ (t[q] # q => t[q] \in Upto(n))
    <3>1. ASSUME NEW q \in Upto(n + 1), t[q] # q PROVE t[q] \in Upto(n)
      <4>1. t[q] \in Upto((n + 1) - 1)
        BY <1>3, <2>2, <3>1
      <4> QED BY <2>2, <4>1
    <3> QED BY <3>1
  <2>4. \A q \in Upto(n) : q \in Upto(n + 1) /\ q \in D
    BY <1>2, <2>2
  <2> HIDE DEF Upto
  <2>5. g \in [Upto(n + 1) -> D]
    BY <2>1, <2>3
  <2>6. \A q \in Upto(n) : g[q] = h[q]
    BY <2>1, <2>4
  <2>7. Good(n + 1, g)
    <3>1. ASSUME NEW q \in Upto(n + 1), t[q] = q
          PROVE  g[q] = q /\ t[g[q]] = g[q]
      BY <3>1
    <3>2. ASSUME NEW q \in Upto(n + 1), t[q] # q
          PROVE  g[q] = g[t[q]] /\ t[g[q]] = g[q]
      <4>1. t[q] \in Upto(n)
        BY <2>3, <3>2
      <4>2. g[q] = h[t[q]] /\ g[t[q]] = h[t[q]] /\ t[h[t[q]]] = h[t[q]]
        BY <2>1, <2>6, <3>2, <4>1
      <4> QED BY <4>2
    <3> HIDE DEF g
    <3> QED BY <3>1, <3>2
  <2> HIDE DEF g, Good
  <2> QED BY <2>2, <2>5, <2>7
<1>6. N = Nat
  <2> HIDE DEF N
  <2> QED BY <1>4, <1>5, SetInduction
<1>7. PICK b \in Nat : \A q \in D : r[q] <= b
  BY <1>2, BoundExists DEF IsForest
<1>8. PICK g \in [Upto(b) -> D] : Good(b, g)
  BY <1>6
<1>9. Upto(b) = D
  BY <1>7
<1>10. g \in [D -> D] /\ \A q \in D : t[g[q]] = g[q]
  BY <1>8, <1>9
<1>11. \A q \in D : g[q] = IF t[q] = q THEN q ELSE g[t[q]]
  BY <1>8, <1>9
<1>12. Finds(g, t, D)
  BY <1>10, <1>11 DEF Finds
<1> QED BY <1>10, <1>12

(* The roots of a forest, and what a union does to them *)
Roots(t) == [p \in DOMAIN t |-> Find(t, p)]

LEMMA RootsFound ==
  ASSUME NEW D, NEW t, IsForest(t, D)
  PROVE  /\ DOMAIN t = D
         /\ Finds(Roots(t), t, D)
         /\ Roots(t) \in [D -> D]
         /\ \A q \in D : /\ t[Roots(t)[q]] = Roots(t)[q]
                         /\ Find(t, q) = Roots(t)[q]
<1> DEFINE up == CHOOSE u : Finds(u, t, D)
<1>1. DOMAIN t = D /\ t \in [D -> D]
  BY DEF IsForest
<1>2. PICK g : Finds(g, t, D) /\ g \in [D -> D] /\ \A q \in D : t[g[q]] = g[q]
  BY FindsExists
<1>3. Finds(up, t, D)
  BY <1>2
<1>4. up = g
  <2>1. PICK r : Ranked(t, D, r)
    BY DEF IsForest
  <2> HIDE DEF up
  <2> QED BY <1>1, <1>2, <1>3, <2>1, FindsUnique
<1>5. \A q \in D : Find(t, q) = up[q]
  BY <1>1 DEF Find, Finds
<1> HIDE DEF up
<1>6. Roots(t) = g
  BY <1>1, <1>2, <1>4, <1>5 DEF Roots
<1> QED BY <1>1, <1>2, <1>4, <1>5, <1>6

LEMMA UnionOfRoots ==
  ASSUME NEW D, NEW t, IsForest(t, D), NEW p \in D, NEW q \in D
  PROVE  /\ IsForest(United(t, p, q), D)
         /\ Roots(United(t, p, q)) =
              [x \in D |-> IF Roots(t)[x] = Roots(t)[p] THEN Roots(t)[q] ELSE Roots(t)[x]]
<1> DEFINE u == United(t, p, q)
           g == Roots(t)
           i == g[p]
           j == g[q]
           h == [x \in D |-> IF g[x] = i THEN j ELSE g[x]]
<1>1. /\ DOMAIN t = D /\ t \in [D -> D]
      /\ g \in [D -> D]
      /\ \A x \in D : t[g[x]] = g[x]
      /\ \A x \in D : g[x] = IF t[x] = x THEN x ELSE g[t[x]]
  BY RootsFound DEF IsForest, Finds
<1>2. i \in D /\ j \in D /\ t[i] = i /\ t[j] = j /\ g[i] = i /\ g[j] = j
  BY <1>1
<1>3. u = [t EXCEPT ![i] = j]
  <2>1. Find(t, p) = i /\ Find(t, q) = j
    BY RootsFound
  <2> QED BY <2>1 DEF United
<1>4. u \in [D -> D] /\ u[i] = j /\ \A x \in D \ {i} : u[x] = t[x]
  BY <1>1, <1>2, <1>3
<1> HIDE DEF u, g, i, j
<1>5. PICK r : Ranked(t, D, r)
  BY DEF IsForest
<1>6. \E s : Ranked(u, D, s)
  <2> DEFINE s == [x \in D |-> IF g[x] = i THEN r[x] + r[j] + 1 ELSE r[x]]
  <2>1. r \in [D -> Nat] /\ \A x \in D : t[x] # x => r[t[x]] < r[x]
    BY <1>5 DEF Ranked
  <2>2. CASE i = j
    <3>1. u = t
      BY <1>1, <1>2, <1>3, <2>2
    <3> QED BY <1>5, <3>1
  <2>3. CASE i # j
    <3>1. s \in [D -> Nat]
      BY <1>2, <2>1
    <3>2. ASSUME NEW x \in D, u[x] # x PROVE s[u[x]] < s[x]
      <4>1. CASE x = i
        <5>1. s[j] = r[j] /\ s[i] = r[i] + r[j] + 1 /\ r[i] \in Nat /\ r[j] \in Nat
          BY <1>2, <2>1, <2>3
        <5> HIDE DEF s
        <5> QED BY <1>4, <4>1, <5>1
      <4>2. CASE x # i
        <5>1. u[x] = t[x] /\ t[x] # x /\ t[x] \in D /\ g[x] = g[t[x]]
          BY <1>1, <1>4, <3>2, <4>2
        <5>2. r[t[x]] < r[x] /\ r[t[x]] \in Nat /\ r[x] \in Nat /\ r[j] \in Nat
          BY <1>2, <2>1, <5>1
        <5>3. \/ s[t[x]] = r[t[x]] + r[j] + 1 /\ s[x] = r[x] + r[j] + 1
              \/ s[t[x]] = r[t[x]] /\ s[x] = r[x]
          BY <5>1
        <5> HIDE DEF s
        <5> QED BY <5>1, <5>2, <5>3
      <4> QED BY <4>1, <4>2
    <3>3. Ranked(u, D, s)
      <4> HIDE DEF s
      <4> QED BY <3>1, <3>2 DEF Ranked
    <3> QED BY <3>3
  <2> QED BY <2>2, <2>3
<1>7. IsForest(u, D)
  BY <1>4, <1>6 DEF IsForest
<1>8. Finds(h, u, D)
  <2>1. ASSUME NEW x \in D PROVE h[x] = IF u[x] = x THEN x ELSE h[u[x]]
    <3>1. CASE x = i
      BY <1>2, <1>4, <3>1
    <3>2. CASE x # i
      <4>1. u[x] = t[x] /\ t[x] \in D
        BY <1>1, <1>4, <3>2
      <4>2. CASE t[x] = x
        <5>1. g[x] = x
          BY <1>1, <4>2
        <5> QED BY <3>2, <4>1, <4>2, <5>1
      <4>3. CASE t[x] # x
        <5>1. g[x] = g[t[x]]
          BY <1>1, <4>3
        <5> QED BY <4>1, <4>3, <5>1
      <4> QED BY <4>2, <4>3
    <3> QED BY <3>1, <3>2
  <2>2. h = [x \in D |-> h[x]]
    OBVIOUS
  <2> HIDE DEF h
  <2> QED BY <2>1, <2>2 DEF Finds
<1>9. Roots(u) = h
  <2>1. Finds(Roots(u), u, D)
    BY <1>7, RootsFound
  <2>2. PICK s : Ranked(u, D, s)
    BY <1>6
  <2> HIDE DEF h
  <2> QED BY <1>4, <1>8, <2>1, <2>2, FindsUnique
<1> QED BY <1>7, <1>9 DEF u, g, i, j

(* Connection is an equivalence. *)
LEMMA NearSymmetric ==
  ASSUME NEW f, NEW p, NEW q
  PROVE  Near(f, p, q) <=> Near(f, q, p)
  BY DEF Near

LEMMA ConnectedEquivalence ==
  ASSUME NEW f
  PROVE  /\ \A p \in DOMAIN f : Connected(f, p, p)
         /\ \A p, q \in DOMAIN f : Connected(f, p, q) => Connected(f, q, p)
         /\ \A p, q, x \in DOMAIN f :
              Connected(f, p, q) /\ Connected(f, q, x) => Connected(f, p, x)
         /\ \A p, q \in DOMAIN f : Near(f, p, q) => Connected(f, p, q)
<1> DEFINE D == DOMAIN f
           Closed(S) == \A a \in S, b \in D : Near(f, a, b) => b \in S
<1>1. \A p, q : Connected(f, p, q) <=> \A S \in SUBSET D : p \in S /\ Closed(S) => q \in S
  BY DEF Connected
<1>2. ASSUME NEW S \in SUBSET D, Closed(S) PROVE Closed(D \ S)
  <2>1. ASSUME NEW a \in D \ S, NEW b \in D, Near(f, a, b), b \in S PROVE FALSE
    <3>1. Near(f, b, a)
      BY <2>1, NearSymmetric
    <3> QED BY <1>2, <2>1, <3>1
  <2> QED BY <2>1
<1>3. ASSUME NEW p \in D, NEW q \in D, Near(f, p, q) PROVE Connected(f, p, q)
  BY <1>1, <1>3
<1> HIDE DEF Closed
<1>4. ASSUME NEW p \in D, NEW q \in D, Connected(f, p, q) PROVE Connected(f, q, p)
  <2>1. ASSUME NEW S \in SUBSET D, q \in S, Closed(S), p \notin S PROVE FALSE
    <3>1. Closed(D \ S) /\ p \in D \ S /\ D \ S \in SUBSET D
      BY <1>2, <2>1
    <3>2. q \in D \ S
      BY <1>1, <1>4, <3>1
    <3> QED BY <2>1, <3>2
  <2> QED BY <1>1, <2>1
<1> QED BY <1>1, <1>3, <1>4

(* t is a forest of the senders of f, whose trees join connected senders. *)
Joins(f, t) ==
  /\ IsForest(t, DOMAIN f)
  /\ \A x, y \in DOMAIN f : Roots(t)[x] = Roots(t)[y] => Connected(f, x, y)

(* What t joins, u joins too. *)
Coarser(f, u, t) ==
  \A x, y \in DOMAIN f : Roots(t)[x] = Roots(t)[y] => Roots(u)[x] = Roots(u)[y]

(* The pair of p and q was visited. *)
Visited(f, t, p, q) ==
  p < q /\ p \in DOMAIN f /\ q \in DOMAIN f /\ Near(f, p, q) => Roots(t)[p] = Roots(t)[q]

Forests(f) == {t \in [DOMAIN f -> DOMAIN f] : Joins(f, t)}

LEMMA VisitedStays ==
  ASSUME NEW f, NEW t, NEW u, Coarser(f, u, t), NEW p, NEW q, Visited(f, t, p, q)
  PROVE  Visited(f, u, p, q)
  BY DEF Coarser, Visited

LEMMA CoarserAgain ==
  ASSUME NEW f, NEW t, NEW u, NEW v, Coarser(f, u, t), Coarser(f, v, u)
  PROVE  Coarser(f, v, t)
  BY DEF Coarser

LEMMA VisitJoins ==
  ASSUME NEW f, NEW t \in Forests(f), NEW p, NEW q
  PROVE  /\ Visit(f, t, p, q) \in Forests(f)
         /\ Coarser(f, Visit(f, t, p, q), t)
         /\ Visited(f, Visit(f, t, p, q), p, q)
<1> DEFINE D == DOMAIN f
<1>1. CASE ~(p < q /\ p \in D /\ q \in D /\ Near(f, p, q))
  <2>1. Visit(f, t, p, q) = t
    BY <1>1 DEF Visit
  <2> QED BY <1>1, <2>1 DEF Coarser, Visited
<1>2. CASE p < q /\ p \in D /\ q \in D /\ Near(f, p, q)
  <2> DEFINE u == United(t, p, q)
             g == Roots(t)
             h == Roots(u)
  <2>1. Visit(f, t, p, q) = u
    BY <1>2 DEF Visit
  <2>2. IsForest(t, D) /\ \A x, y \in D : g[x] = g[y] => Connected(f, x, y)
    BY DEF Forests, Joins
  <2>3. IsForest(u, D) /\ h = [x \in D |-> IF g[x] = g[p] THEN g[q] ELSE g[x]]
    BY <1>2, <2>2, UnionOfRoots
  <2>4. u \in [D -> D]
    BY <2>3 DEF IsForest
  <2> HIDE DEF u, g, h
  <2>5. \A x \in D : h[x] = IF g[x] = g[p] THEN g[q] ELSE g[x]
    BY <2>3
  <2>6. ASSUME NEW x \in D, NEW y \in D, h[x] = h[y] PROVE Connected(f, x, y)
    <3>1. Connected(f, p, q) /\ Connected(f, q, p)
      BY <1>2, ConnectedEquivalence
    <3>2. CASE g[x] = g[p] /\ g[y] # g[p]
      <4>1. g[q] = g[y]
        BY <2>5, <2>6, <3>2
      <4>2. Connected(f, x, p) /\ Connected(f, q, y)
        BY <1>2, <2>2, <3>2, <4>1
      <4> QED BY <1>2, <3>1, <4>2, ConnectedEquivalence
    <3>3. CASE g[x] # g[p] /\ g[y] = g[p]
      <4>1. g[x] = g[q]
        BY <2>5, <2>6, <3>3
      <4>2. Connected(f, x, q) /\ Connected(f, p, y)
        BY <1>2, <2>2, <3>3, <4>1
      <4> QED BY <1>2, <3>1, <4>2, ConnectedEquivalence
    <3>4. CASE g[x] = g[p] <=> g[y] = g[p]
      <4>1. g[x] = g[y]
        BY <2>5, <2>6, <3>4
      <4> QED BY <2>2, <4>1
    <3> QED BY <3>2, <3>3, <3>4
  <2>7. u \in Forests(f)
    BY <2>3, <2>4, <2>6 DEF Forests, Joins, h
  <2>8. Coarser(f, u, t)
    BY <2>5 DEF Coarser, g, h
  <2>9. Visited(f, u, p, q)
    <3>1. h[p] = g[q] /\ h[q] = g[q]
      BY <1>2, <2>5
    <3> QED BY <3>1 DEF Visited, h
  <2> QED BY <2>1, <2>7, <2>8, <2>9
<1> QED BY <1>1, <1>2

(* The inner loop visits p with every sender, *)
LEMMA RowJoins ==
  ASSUME NEW f, NEW t \in Forests(f), NEW p
  PROVE  /\ Row(f, t, p) \in Forests(f)
         /\ Coarser(f, Row(f, t, p), t)
         /\ \A q \in 1..Predictors : Visited(f, Row(f, t, p), p, q)
<1> DEFINE n == Predictors
           B == Forests(f)
           step == [e \in (1..n) \X B |-> Visit(f, e[2], p, e[1])]
           Body(g) == [q \in 0..n |-> IF q = 0 THEN t ELSE Visit(f, g[q - 1], p, q)]
           r == CHOOSE g : g = Body(g)
<1>1. n \in Nat
  BY AttackDetectionAssumption
<1>2. Row(f, t, p) = r[n]
  BY DEF Row
<1>3. r = Body(r)
  <2>1. step \in [(1..n) \X B -> B]
    <3>1. \A e \in (1..n) \X B : Visit(f, e[2], p, e[1]) \in B
      BY VisitJoins
    <3> QED BY <3>1
  <2>2. \A i \in 1..n, u \in B : step[<<i, u>>] = Visit(f, u, p, i)
    OBVIOUS
  <2> HIDE DEF step, B, n
  <2>3. PICK g : Follows(g, n, B, t, step)
    BY <1>1, <2>1, RecursionExists DEF B
  <2>4. \A i \in 1..n : g[i] = Visit(f, g[i - 1], p, i)
    <3>1. \A i \in 1..n : i - 1 \in 0..n
      BY <1>1
    <3> QED BY <2>2, <2>3, <3>1 DEF Follows
  <2>5. \A i \in 0..n : i = 0 \/ i \in 1..n
    BY <1>1
  <2>6. \A i \in 0..n : g[i] = IF i = 0 THEN t ELSE Visit(f, g[i - 1], p, i)
    BY <2>3, <2>4, <2>5 DEF Follows
  <2>7. g = Body(g)
    BY <2>3, <2>6 DEF Follows
  <2> HIDE DEF Body
  <2> QED BY <2>7
<1> HIDE DEF r
<1>4. r[0] = t /\ \A q \in 1..n : r[q] = Visit(f, r[q - 1], p, q)
  <2>1. 0 \in 0..n /\ \A q \in 1..n : q \in 0..n /\ q # 0
    BY <1>1
  <2> HIDE DEF n
  <2> QED BY <1>3, <2>1
<1> DEFINE Good(i) == /\ r[i] \in B /\ Coarser(f, r[i], t)
                      /\ \A q \in 1..i : Visited(f, r[i], p, q)
           S == {i \in 0..n : Good(i)}
<1> HIDE DEF n, B
<1>5. 0 \in S
  <2>1. Good(0)
    BY <1>4 DEF Coarser, B
  <2> QED BY <1>1, <2>1
<1>6. ASSUME NEW i \in 1..n, i - 1 \in S PROVE i \in S
  <2>1. Good(i - 1) /\ r[i] = Visit(f, r[i - 1], p, i)
    BY <1>4, <1>6
  <2>2. /\ r[i] \in B
        /\ Coarser(f, r[i], r[i - 1])
        /\ Visited(f, r[i], p, i)
    BY <2>1, VisitJoins DEF B
  <2>3. Coarser(f, r[i], t)
    BY <2>1, <2>2, CoarserAgain
  <2>4. ASSUME NEW q \in 1..i PROVE Visited(f, r[i], p, q)
    <3>1. CASE q = i
      BY <2>2, <3>1
    <3>2. CASE q # i
      <4>1. q \in 1..(i - 1)
        BY <1>1, <3>2
      <4>2. Visited(f, r[i - 1], p, q)
        BY <2>1, <4>1
      <4> QED BY <2>2, <4>2, VisitedStays
    <3> QED BY <3>1, <3>2
  <2>5. Good(i)
    BY <2>2, <2>3, <2>4
  <2>6. i \in 0..n
    BY <1>1
  <2> HIDE DEF Good
  <2> QED BY <2>5, <2>6
<1>7. S = 0..n
  <2>1. S \in SUBSET (0..n)
    OBVIOUS
  <2> HIDE DEF S
  <2> QED BY <1>1, <1>5, <1>6, <2>1, BoundedInduction
<1>8. Good(n)
  <2>1. n \in 0..n
    BY <1>1
  <2> HIDE DEF Good
  <2> QED BY <1>7, <2>1
<1> QED BY <1>2, <1>8 DEF B, n

(* and the outer one every pair. *)
LEMMA ForestJoins ==
  ASSUME NEW f, IsFiniteSet(DOMAIN f)
  PROVE  /\ Forest(f) \in Forests(f)
         /\ \A p, q \in 1..Predictors : Visited(f, Forest(f), p, q)
<1> DEFINE n == Predictors
           B == Forests(f)
           t == [q \in DOMAIN f |-> q]
           step == [e \in (1..n) \X B |-> Row(f, e[2], e[1])]
           Body(g) == [p \in 0..n |-> IF p = 0 THEN t ELSE Row(f, g[p - 1], p)]
           r == CHOOSE g : g = Body(g)
<1>1. n \in Nat
  BY AttackDetectionAssumption
<1>2. Forest(f) = r[n]
  BY DEF Forest
<1>3. t \in B
  <2>1. t \in [DOMAIN f -> DOMAIN f]
    OBVIOUS
  <2>2. Ranked(t, DOMAIN f, [q \in DOMAIN f |-> 0])
    BY DEF Ranked
  <2>3. IsForest(t, DOMAIN f)
    BY <2>1, <2>2 DEF IsForest
  <2>4. \A q \in DOMAIN f : Roots(t)[q] = q
    <3>1. Finds(Roots(t), t, DOMAIN f)
      BY <2>3, RootsFound
    <3> QED BY <3>1 DEF Finds
  <2>5. \A x, y \in DOMAIN f : Roots(t)[x] = Roots(t)[y] => Connected(f, x, y)
    BY <2>4, ConnectedEquivalence
  <2> HIDE DEF t
  <2> QED BY <2>1, <2>3, <2>5 DEF Forests, Joins
<1> HIDE DEF t
<1>4. r = Body(r)
  <2>1. step \in [(1..n) \X B -> B]
    <3>1. \A e \in (1..n) \X B : Row(f, e[2], e[1]) \in B
      BY RowJoins
    <3> QED BY <3>1
  <2>2. \A i \in 1..n, u \in B : step[<<i, u>>] = Row(f, u, i)
    OBVIOUS
  <2> HIDE DEF step, B, n
  <2>3. PICK g : Follows(g, n, B, t, step)
    BY <1>1, <1>3, <2>1, RecursionExists
  <2>4. \A i \in 1..n : g[i] = Row(f, g[i - 1], i)
    <3>1. \A i \in 1..n : i - 1 \in 0..n
      BY <1>1
    <3> QED BY <2>2, <2>3, <3>1 DEF Follows
  <2>5. \A i \in 0..n : i = 0 \/ i \in 1..n
    BY <1>1
  <2>6. \A i \in 0..n : g[i] = IF i = 0 THEN t ELSE Row(f, g[i - 1], i)
    BY <2>3, <2>4, <2>5 DEF Follows
  <2>7. g = Body(g)
    BY <2>3, <2>6 DEF Follows
  <2> HIDE DEF Body
  <2> QED BY <2>7
<1> HIDE DEF r
<1>5. r[0] = t /\ \A p \in 1..n : r[p] = Row(f, r[p - 1], p)
  <2>1. 0 \in 0..n /\ \A p \in 1..n : p \in 0..n /\ p # 0
    BY <1>1
  <2> HIDE DEF n
  <2> QED BY <1>4, <2>1
<1> DEFINE Good(i) == /\ r[i] \in B
                      /\ \A p \in 1..i, q \in 1..n : Visited(f, r[i], p, q)
           S == {i \in 0..n : Good(i)}
<1> HIDE DEF n, B
<1>6. 0 \in S
  <2>1. Good(0)
    BY <1>3, <1>5
  <2> QED BY <1>1, <2>1
<1>7. ASSUME NEW i \in 1..n, i - 1 \in S PROVE i \in S
  <2>1. Good(i - 1) /\ r[i] = Row(f, r[i - 1], i)
    BY <1>5, <1>7
  <2>2. /\ r[i] \in B
        /\ Coarser(f, r[i], r[i - 1])
        /\ \A q \in 1..n : Visited(f, r[i], i, q)
    BY <2>1, RowJoins DEF B, n
  <2>3. ASSUME NEW p \in 1..i, NEW q \in 1..n PROVE Visited(f, r[i], p, q)
    <3>1. CASE p = i
      BY <2>2, <3>1
    <3>2. CASE p # i
      <4>1. p \in 1..(i - 1)
        BY <1>1, <3>2
      <4>2. Visited(f, r[i - 1], p, q)
        BY <2>1, <4>1
      <4> QED BY <2>2, <4>2, VisitedStays
    <3> QED BY <3>1, <3>2
  <2>4. Good(i)
    BY <2>2, <2>3
  <2>5. i \in 0..n
    BY <1>1
  <2> HIDE DEF Good
  <2> QED BY <2>4, <2>5
<1>8. S = 0..n
  <2>1. S \in SUBSET (0..n)
    OBVIOUS
  <2> HIDE DEF S
  <2> QED BY <1>1, <1>6, <1>7, <2>1, BoundedInduction
<1>9. Good(n)
  <2>1. n \in 0..n
    BY <1>1
  <2> HIDE DEF Good
  <2> QED BY <1>8, <2>1
<1> QED BY <1>2, <1>9 DEF B, n

(* The union-find joins exactly the connected senders. *)
LEMMA UnionFindExact ==
  ASSUME NEW S \in SUBSET Senders, NEW f \in [S -> Point]
  PROVE  /\ IsForest(Forest(f), S)
         /\ \A p, q \in S : Roots(Forest(f))[p] = Roots(Forest(f))[q] <=> Connected(f, p, q)
<1> DEFINE t == Forest(f)
           g == Roots(t)
<1>1. DOMAIN f = S /\ IsFiniteSet(S)
  <2>1. IsFiniteSet(Senders)
    BY FS_Interval, AttackDetectionAssumption DEF Senders
  <2> QED BY <2>1, FS_Subset
<1>2. t \in Forests(f) /\ \A p, q \in 1..Predictors : Visited(f, t, p, q)
  BY <1>1, ForestJoins
<1>3. IsForest(t, S) /\ \A p, q \in S : g[p] = g[q] => Connected(f, p, q)
  BY <1>1, <1>2 DEF Forests, Joins
<1> HIDE DEF t
<1>4. ASSUME NEW p \in S, NEW q \in S, Near(f, p, q) PROVE g[p] = g[q]
  <2>1. p \in 1..Predictors /\ q \in 1..Predictors /\ Near(f, q, p)
    BY <1>4, NearSymmetric DEF Senders
  <2>2. p < q \/ q < p \/ p = q
    BY <2>1, AttackDetectionAssumption
  <2> QED BY <1>1, <1>2, <1>4, <2>1, <2>2 DEF Visited
<1>5. ASSUME NEW p \in S, NEW q \in S, Connected(f, p, q) PROVE g[p] = g[q]
  <2> DEFINE T == {x \in S : g[x] = g[p]}
  <2>1. T \in SUBSET DOMAIN f /\ p \in T
    BY <1>1
  <2>2. \A a \in T, b \in DOMAIN f : Near(f, a, b) => b \in T
    BY <1>1, <1>4
  <2> HIDE DEF T
  <2>3. q \in T
    BY <1>5, <2>1, <2>2 DEF Connected
  <2> QED BY <2>3 DEF T
<1> QED BY <1>3, <1>5 DEF t

(* A node that is connected with another has a near one. *)
LEMMA ConnectedAreSuspects ==
  ASSUME NEW f, NEW p \in DOMAIN f, NEW q \in DOMAIN f, p # q, Connected(f, p, q)
  PROVE  p \in Suspects(f)
<1>1. SUFFICES ASSUME \A x \in DOMAIN f \ {p} : ~Near(f, x, p) PROVE FALSE
  BY DEF Suspects
<1>2. \A a \in {p}, b \in DOMAIN f : Near(f, a, b) => b \in {p}
  BY <1>1, NearSymmetric
<1>3. {p} \in SUBSET DOMAIN f
  OBVIOUS
<1>4. q \in {p}
  BY <1>2, <1>3 DEF Connected
<1> QED BY <1>4

(* What the detectors say is about the points of the last analysis. *)
AttackInv ==
  /\ cloneStreak \in [Senders -> Nat]
  /\ CoordinationExact

LEMMA AnalysisExact ==
  ASSUME cloneStreak \in [Senders -> Nat],
         NEW S \in SUBSET Senders, NEW f \in [S -> Point], DetectAll(f)
  PROVE  /\ cloneStreak' \in [Senders -> Nat]
         /\ point' = f
         /\ coordinated' = {p \in S : Cardinality({q \in S : Connected(f, p, q)}) >= MinCluster}
         /\ \A p \in coordinated' : cloneStreak'[p] > 0
<1> DEFINE t == Forest(f)
           root == [p \in S |-> Find(t, p)]
           group(p) == {q \in S : Connected(f, p, q)}
<1>1. DOMAIN f = S /\ IsFiniteSet(S)
  <2>1. IsFiniteSet(Senders)
    BY FS_Interval, AttackDetectionAssumption DEF Senders
  <2> QED BY <2>1, FS_Subset
<1>2. point' = f
  BY DEF DetectAll
<1>3. coordinated' = {p \in S : Cardinality({q \in S : root[q] = root[p]}) >= MinCluster}
  BY <1>1 DEF DetectAll, DetectCoordination
<1>4. \A p, q \in S : root[q] = root[p] <=> Connected(f, p, q)
  <2>1. /\ IsForest(t, S)
        /\ \A p, q \in S : Roots(t)[p] = Roots(t)[q] <=> Connected(f, p, q)
    BY UnionFindExact
  <2>2. \A p \in S : root[p] = Roots(t)[p]
    BY <2>1, RootsFound
  <2> HIDE DEF root, t
  <2> QED BY <2>1, <2>2
<1> HIDE DEF root, t
<1>5. \A p \in S : {q \in S : root[q] = root[p]} = group(p)
  BY <1>4
<1>6. coordinated' = {p \in S : Cardinality(group(p)) >= MinCluster}
  <2> HIDE DEF group
  <2> QED BY <1>3, <1>5
<1>7. cloneStreak' \in [Senders -> Nat]
  <2>1. CASE Cardinality(S) < 2
    BY <1>1, <2>1 DEF DetectAll, DetectClones
  <2>2. CASE ~(Cardinality(S) < 2)
    <3>1. cloneStreak' = [p \in Senders |->
                            IF p \notin S THEN cloneStreak[p]
                            ELSE IF p \in Suspects(f) THEN cloneStreak[p] + 1
                            ELSE 0]
      BY <1>1, <2>2 DEF DetectAll, DetectClones
    <3> QED BY <3>1
  <2> QED BY <2>1, <2>2
<1>8. ASSUME NEW p \in S, Cardinality(group(p)) >= MinCluster PROVE cloneStreak'[p] > 0
  <2>1. IsFiniteSet(group(p)) /\ Cardinality(group(p)) <= Cardinality(S)
    BY <1>1, FS_Subset
  <2>2. Cardinality(group(p)) \in Nat /\ Cardinality(S) \in Nat
    BY <1>1, <2>1, FS_CardinalityType
  <2>3. Cardinality(group(p)) >= 2 /\ ~(Cardinality(S) < 2)
    <3> HIDE DEF group
    <3> QED BY <1>8, <2>1, <2>2, AttackDetectionAssumption
  <2>4. PICK q \in group(p) : q # p
    <3> SUFFICES ASSUME group(p) \subseteq {p} PROVE FALSE
      OBVIOUS
    <3>1. IsFiniteSet({p}) /\ Cardinality({p}) = 1
      BY FS_Singleton
    <3>2. Cardinality(group(p)) <= 1
      <4> HIDE DEF group
      <4> QED BY <3>1, FS_Subset
    <3> HIDE DEF group
    <3> QED BY <2>2, <2>3, <3>2
  <2>5. p \in Suspects(f)
    BY <1>1, <2>4, ConnectedAreSuspects
  <2>6. cloneStreak'[p] = cloneStreak[p] + 1
    BY <1>1, <2>3, <2>5 DEF DetectAll, DetectClones
  <2>7. cloneStreak[p] \in Nat
    OBVIOUS
  <2> QED BY <2>6, <2>7
<1>9. \A p \in coordinated' : cloneStreak'[p] > 0
  <2> HIDE DEF group
  <2> QED BY <1>6, <1>8
<1> QED BY <1>2, <1>6, <1>7, <1>9

(* However many nodes predict, and in whatever order: the coordination     *)
(* detector punishes the nodes of large connected groups and no others,    *)
(* and the clone detector counts each of them.                             *)
THEOREM CoordinationExactHolds ==
  AttackSpec => []CoordinationExact
<1>1. AttackInit => AttackInv
  BY DEF AttackInit, AttackInv, CoordinationExact
<1>2. AttackInv /\ [AttackNext]_attackVars => AttackInv'
  <2> SUFFICES ASSUME AttackInv, [AttackNext]_attackVars PROVE AttackInv'
    OBVIOUS
  <2>1. ASSUME NEW S \in SUBSET Senders, NEW f \in [S -> Point], DetectAll(f)
        PROVE  AttackInv'
    <3>1. /\ cloneStreak' \in [Senders -> Nat]
          /\ point' = f
          /\ coordinated' = {p \in S : Cardinality({q \in S : Connected(f, p, q)}) >= MinCluster}
          /\ \A p \in coordinated' : cloneStreak'[p] > 0
      BY <2>1, AnalysisExact DEF AttackInv
    <3>2. DOMAIN point' = S
      BY <3>1
    <3>3. CoordinationExact'
      BY <3>1, <3>2 DEF CoordinationExact
    <3> QED BY <3>1, <3>3 DEF AttackInv
  <2>2. CASE UNCHANGED attackVars
    BY <2>2 DEF attackVars, AttackInv, CoordinationExact
  <2> QED BY <2>1, <2>2 DEF AttackNext
<1>3. AttackInv => CoordinationExact
  BY DEF AttackInv
<1> QED BY <1>1, <1>2, <1>3, PTL DEF AttackSpec

=============================================================================

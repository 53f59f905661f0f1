-------------------------- MODULE RecursionProofs --------------------------
(***************************************************************************)
(* Induction and recursion over the natural numbers and over finite sets,  *)
(* stated for sets and functions so that the lemmas can be cited of any of *)
(* them, and what sums over finite sets do.                                *)
(***************************************************************************)
EXTENDS Integers, Functions, TLAPS, WellFoundedInduction, FiniteSetTheorems

(* Less-than is well founded on the natural numbers.                       *)
LEMMA LessThanOnNat ==
  IsWellFoundedOn({p \in Nat \X Nat : p[1] < p[2]}, Nat)
  BY NatLessThanWellFounded DEF OpToRel

(* A set of naturals that holds 0 and every successor is Nat. *)
LEMMA SetInduction ==
  ASSUME NEW S \in SUBSET Nat, 0 \in S, \A n \in S : n + 1 \in S
  PROVE  S = Nat
<1> DEFINE T == Nat \ S
           R == {p \in Nat \X Nat : p[1] < p[2]}
<1>1. CASE T = {}
  BY <1>1
<1>2. CASE T # {}
  <2>1. IsWellFoundedOn(R, Nat)
    BY LessThanOnNat
  <2>2. T \subseteq Nat
    OBVIOUS
  <2> HIDE DEF R, T
  <2>3. PICK x \in T : \A y \in T : <<y, x>> \notin R
    BY <2>1, <2>2, <1>2, WFMin
  <2> USE DEF R, T
  <2>4. x # 0
    OBVIOUS
  <2>5. x - 1 \in Nat /\ x - 1 \notin S
    BY <2>4
  <2>6. x - 1 \in T
    BY <2>5
  <2>7. <<x - 1, x>> \in R
    BY <2>4
  <2> QED BY <2>3, <2>6, <2>7
<1> QED BY <1>1, <1>2

(* The same up to a bound *)
LEMMA BoundedInduction ==
  ASSUME NEW n \in Nat, NEW S \in SUBSET (0..n), 0 \in S,
         \A i \in 1..n : i - 1 \in S => i \in S
  PROVE  S = 0..n
<1> DEFINE U == S \cup {i \in Nat : i > n}
<1>1. U \in SUBSET Nat /\ 0 \in U
  <2>1. S \subseteq Nat
    OBVIOUS
  <2> QED BY <2>1
<1>2. \A i \in U : i + 1 \in U
  <2> SUFFICES ASSUME NEW i \in U PROVE i + 1 \in U
    OBVIOUS
  <2>1. i \in Nat
    BY <1>1
  <2>2. CASE i + 1 > n
    BY <2>1, <2>2
  <2>3. CASE i + 1 <= n
    <3>1. i \in S /\ i + 1 \in 1..n /\ (i + 1) - 1 = i
      BY <2>1, <2>3
    <3> QED BY <3>1
  <2> QED BY <2>1, <2>2, <2>3
<1>3. U = Nat
  <2> HIDE DEF U
  <2> QED BY <1>1, <1>2, SetInduction
<1>4. ASSUME NEW i \in 0..n PROVE i \in S
  <2>1. i \in Nat /\ ~(i > n)
    OBVIOUS
  <2>2. i \in U
    BY <1>3, <2>1
  <2> QED BY <2>1, <2>2
<1> QED BY <1>4

(* A nonempty set of naturals below a bound has a greatest element. *)
LEMMA GreatestExists ==
  ASSUME NEW n \in Nat, NEW S \in SUBSET (0..n), S # {}
  PROVE  \E i \in S : \A j \in S : j <= i
<1> DEFINE R == {p \in Nat \X Nat : p[1] < p[2]}
           T == {k \in 0..n : n - k \in S}
<1>1. IsWellFoundedOn(R, Nat)
  BY LessThanOnNat
<1>2. T \subseteq Nat /\ T # {}
  <2>1. PICK i \in S : TRUE
    OBVIOUS
  <2>2. i \in 0..n /\ n - i \in 0..n /\ n - (n - i) = i
    OBVIOUS
  <2>3. n - i \in T
    BY <2>1, <2>2
  <2>4. T \subseteq Nat
    OBVIOUS
  <2> QED BY <2>3, <2>4
<1>3. PICK k \in T : \A j \in T : <<j, k>> \notin R
  <2> HIDE DEF R, T
  <2> QED BY <1>1, <1>2, WFMin
<1>4. n - k \in S
  OBVIOUS
<1>5. ASSUME NEW j \in S
      PROVE  j <= n - k
  <2>1. j \in 0..n /\ k \in 0..n
    OBVIOUS
  <2>2. n - j \in 0..n /\ n - (n - j) = j
    BY <2>1
  <2>3. n - j \in T
    BY <2>2
  <2>4. <<n - j, k>> \notin R
    BY <1>3, <2>3
  <2>5. <<n - j, k>> \in Nat \X Nat
    BY <2>1, <2>2
  <2>6. ~(n - j < k)
    BY <2>4, <2>5
  <2> QED BY <2>1, <2>6
<1> QED BY <1>4, <1>5

(* A nonempty set of naturals has a least element. *)
LEMMA LeastExists ==
  ASSUME NEW S \in SUBSET Nat, S # {}
  PROVE  \E i \in S : \A j \in S : i <= j
<1> DEFINE R == {p \in Nat \X Nat : p[1] < p[2]}
<1>1. IsWellFoundedOn(R, Nat)
  BY LessThanOnNat
<1>2. PICK k \in S : \A j \in S : <<j, k>> \notin R
  <2> HIDE DEF R
  <2> QED BY <1>1, WFMin
<1>3. ASSUME NEW j \in S PROVE k <= j
  <2>1. <<j, k>> \in Nat \X Nat
    OBVIOUS
  <2> QED BY <1>2, <2>1
<1> QED BY <1>3

(* A function from a finite set to the naturals is bounded. *)
LEMMA BoundExists ==
  ASSUME NEW S, IsFiniteSet(S), NEW f \in [S -> Nat]
  PROVE  \E b \in Nat : \A x \in S : f[x] <= b
<1> DEFINE Bounded(T) == \E b \in Nat : \A x \in T : f[x] <= b
           G == {n \in Nat : \A T \in SUBSET S : Cardinality(T) = n => Bounded(T)}
<1>1. \A T \in SUBSET S : IsFiniteSet(T) /\ Cardinality(T) \in Nat
  BY FS_Subset, FS_CardinalityType
<1>2. G \subseteq Nat /\ 0 \in G
  <2>1. ASSUME NEW T \in SUBSET S, Cardinality(T) = 0
        PROVE  Bounded(T)
    <3>1. T = {}
      BY <1>1, <2>1, FS_EmptySet
    <3> QED BY <3>1
  <2> QED BY <2>1
<1>3. ASSUME NEW n \in G PROVE n + 1 \in G
  <2>1. ASSUME NEW T \in SUBSET S, Cardinality(T) = n + 1
        PROVE  Bounded(T)
    <3>1. n \in Nat
      OBVIOUS
    <3>2. T # {}
      BY <1>1, <2>1, <3>1, FS_EmptySet
    <3>3. PICK y \in T : TRUE
      BY <3>2
    <3>4. Cardinality(T \ {y}) = n
      <4>1. Cardinality(T \ {y}) = Cardinality(T) - 1
        BY <1>1, <3>3, FS_RemoveElement
      <4> QED BY <2>1, <3>1, <4>1
    <3>5. Bounded(T \ {y})
      BY <3>4
    <3>6. PICK b \in Nat : \A x \in T \ {y} : f[x] <= b
      BY <3>5
    <3>7. f[y] \in Nat /\ \A x \in T : f[x] \in Nat
      BY <3>3
    <3>8. \A x \in T : f[x] <= b + f[y]
      BY <3>6, <3>7
    <3> QED BY <3>7, <3>8
  <2> HIDE DEF Bounded
  <2> QED BY <2>1
<1>4. G = Nat
  <2> HIDE DEF G
  <2> QED BY <1>2, <1>3, SetInduction
<1>5. Cardinality(S) \in G
  BY <1>1, <1>4
<1> QED BY <1>5

(* f is the run of n steps from start, all of it in B. *)
Follows(f, n, B, start, step) ==
  /\ f \in [0..n -> B]
  /\ f[0] = start
  /\ \A i \in 1..n : f[i] = step[<<i, f[i - 1]>>]

(* A recursion whose step stays in B defines a function into B. *)
LEMMA RecursionExists ==
  ASSUME NEW n \in Nat, NEW B, NEW start \in B, NEW step \in [(1..n) \X B -> B]
  PROVE  \E f : Follows(f, n, B, start, step)
<1> DEFINE Good(k, f) == /\ f[0] = start
                         /\ \A i \in 1..k : f[i] = step[<<i, f[i - 1]>>]
           S == {k \in 0..n : \E f \in [0..k -> B] : Good(k, f)}
<1>1. 0 \in S
  <2> DEFINE f == [i \in 0..0 |-> start]
  <2>1. f \in [0..0 -> B] /\ Good(0, f)
    OBVIOUS
  <2> HIDE DEF f
  <2> QED BY <2>1
<1>2. ASSUME NEW k \in 1..n, k - 1 \in S
      PROVE  k \in S
  <2>1. PICK f \in [0..(k - 1) -> B] : Good(k - 1, f)
    BY <1>2
  <2> DEFINE g == [i \in 0..k |-> IF i = k THEN step[<<k, f[k - 1]>>] ELSE f[i]]
  <2>2. step[<<k, f[k - 1]>>] \in B
    BY <2>1
  <2>3. g \in [0..k -> B]
    BY <2>1, <2>2
  <2>4. g[0] = start
    BY <2>1
  <2>5. ASSUME NEW i \in 1..k
        PROVE  g[i] = step[<<i, g[i - 1]>>]
    <3>1. i - 1 \in 0..(k - 1) /\ g[i - 1] = f[i - 1]
      OBVIOUS
    <3>2. CASE i = k
      <4>1. g[k - 1] = f[k - 1]
        BY <3>1, <3>2
      <4>2. g[k] = step[<<k, f[k - 1]>>]
        OBVIOUS
      <4> QED BY <3>2, <4>1, <4>2
    <3>3. CASE i # k
      BY <2>1, <3>1, <3>3
    <3> QED BY <3>2, <3>3
  <2>6. Good(k, g)
    BY <2>4, <2>5
  <2> HIDE DEF g, Good
  <2> QED BY <2>3, <2>6
<1>3. S \in SUBSET (0..n)
  OBVIOUS
<1>4. S = 0..n
  <2> HIDE DEF S
  <2> QED BY <1>1, <1>2, <1>3, BoundedInduction
<1>5. n \in S
  BY <1>4
<1>6. PICK f \in [0..n -> B] : Good(n, f)
  BY <1>5
<1>7. Follows(f, n, B, start, step)
  BY <1>6 DEF Follows
<1> QED BY <1>7

-----------------------------------------------------------------------------
(* Finite sets *)

(* A family that holds {} and grows by single elements holds every subset. *)
LEMMA SubsetInduction ==
  ASSUME NEW S, IsFiniteSet(S), NEW G \in SUBSET (SUBSET S), {} \in G,
         \A s \in G : \A x \in S \ s : s \cup {x} \in G
  PROVE  G = SUBSET S
<1> DEFINE N == {n \in Nat : \A s \in SUBSET S : Cardinality(s) = n => s \in G}
<1>1. \A s \in SUBSET S : IsFiniteSet(s) /\ Cardinality(s) \in Nat
  BY FS_Subset, FS_CardinalityType
<1>2. N \subseteq Nat /\ 0 \in N
  <2>1. \A s \in SUBSET S : Cardinality(s) = 0 => s = {}
    BY <1>1, FS_EmptySet
  <2> QED BY <2>1
<1>3. ASSUME NEW n \in N PROVE n + 1 \in N
  <2>1. ASSUME NEW s \in SUBSET S, Cardinality(s) = n + 1
        PROVE  s \in G
    <3>1. n \in Nat
      OBVIOUS
    <3>2. s # {}
      BY <1>1, <2>1, <3>1, FS_EmptySet
    <3>3. PICK x \in s : TRUE
      BY <3>2
    <3>4. Cardinality(s \ {x}) = n
      <4>1. Cardinality(s \ {x}) = Cardinality(s) - 1
        BY <1>1, <3>3, FS_RemoveElement
      <4> QED BY <2>1, <3>1, <4>1
    <3>5. s \ {x} \in G
      BY <3>4
    <3>6. (s \ {x}) \cup {x} \in G
      BY <3>3, <3>5
    <3>7. (s \ {x}) \cup {x} = s
      BY <3>3
    <3> QED BY <3>6, <3>7
  <2> QED BY <2>1
<1>4. N = Nat
  <2> HIDE DEF N
  <2> QED BY <1>2, <1>3, SetInduction
<1>5. ASSUME NEW s \in SUBSET S PROVE s \in G
  <2>1. Cardinality(s) \in N
    BY <1>1, <1>4
  <2> QED BY <2>1
<1> QED BY <1>5

(* g sums up f over every subset of S, element by element. *)
Sums(g, f, S) ==
  /\ g \in [SUBSET S -> Int]
  /\ \A s \in SUBSET S :
       g[s] = IF s = {} THEN 0
              ELSE f[CHOOSE x \in s : TRUE] + g[s \ {CHOOSE x \in s : TRUE}]

LEMMA SumsExist ==
  ASSUME NEW S, IsFiniteSet(S), NEW f, \A x \in S : f[x] \in Int
  PROVE  \E g : Sums(g, f, S)
<1> DEFINE c(s) == CHOOSE x \in s : TRUE
           Upto(n) == {s \in SUBSET S : Cardinality(s) <= n}
           Good(n, g) == \A s \in Upto(n) :
                           g[s] = IF s = {} THEN 0 ELSE f[c(s)] + g[s \ {c(s)}]
           N == {n \in Nat : \E g \in [Upto(n) -> Int] : Good(n, g)}
<1>1. \A s \in SUBSET S : /\ IsFiniteSet(s) /\ Cardinality(s) \in Nat
                          /\ Cardinality(s) = 0 <=> s = {}
  BY FS_Subset, FS_CardinalityType, FS_EmptySet
<1>2. \A s \in SUBSET S : s # {} =>
        c(s) \in s /\ Cardinality(s \ {c(s)}) = Cardinality(s) - 1
  BY <1>1, FS_RemoveElement
<1>3. N \subseteq Nat /\ 0 \in N
  <2> DEFINE g == [s \in Upto(0) |-> 0]
  <2>1. \A s \in Upto(0) : s = {}
    BY <1>1
  <2>2. g \in [Upto(0) -> Int] /\ Good(0, g)
    BY <2>1
  <2> HIDE DEF g, Good, Upto
  <2> QED BY <2>2
<1>4. ASSUME NEW n \in N PROVE n + 1 \in N
  <2>1. PICK h \in [Upto(n) -> Int] : Good(n, h)
    OBVIOUS
  <2> DEFINE g == [s \in Upto(n + 1) |-> IF s = {} THEN 0
                                        ELSE f[c(s)] + h[s \ {c(s)}]]
  <2>2. n \in Nat
    OBVIOUS
  <2>3. ASSUME NEW s \in Upto(n + 1), s # {}
        PROVE  s \ {c(s)} \in Upto(n) /\ f[c(s)] \in Int
    <3> HIDE DEF c
    <3> QED BY <1>1, <1>2, <2>2, <2>3
  <2>4. g \in [Upto(n + 1) -> Int]
    <3> HIDE DEF c, Upto
    <3> QED BY <2>1, <2>3
  <2>5. \A s \in Upto(n) : g[s] = h[s]
    <3>1. \A s \in Upto(n) : s \in Upto(n + 1)
      BY <1>1, <2>2
    <3> HIDE DEF c, Upto
    <3> QED BY <2>1, <3>1
  <2>6. Good(n + 1, g)
    <3> HIDE DEF c, Upto
    <3> QED BY <2>3, <2>5
  <2> HIDE DEF g, Good, Upto
  <2> QED BY <2>2, <2>4, <2>6
<1>5. Cardinality(S) \in N
  <2>1. N = Nat
    <3> HIDE DEF N
    <3> QED BY <1>3, <1>4, SetInduction
  <2> QED BY <1>1, <2>1
<1>6. PICK g \in [Upto(Cardinality(S)) -> Int] : Good(Cardinality(S), g)
  BY <1>5
<1>7. Upto(Cardinality(S)) = SUBSET S
  BY FS_Subset
<1> QED BY <1>6, <1>7 DEF Sums

(* There is one such sum for each subset. *)
LEMMA SumsUnique ==
  ASSUME NEW S, IsFiniteSet(S), NEW T \in SUBSET S, NEW f, NEW g, NEW h,
         Sums(g, f, S), Sums(h, f, T)
  PROVE  \A s \in SUBSET T : g[s] = h[s]
<1> DEFINE N == {n \in Nat : \A s \in SUBSET T : Cardinality(s) = n => g[s] = h[s]}
           c(s) == CHOOSE x \in s : TRUE
<1>1. \A s \in SUBSET T : /\ s \in SUBSET S
                          /\ IsFiniteSet(s) /\ Cardinality(s) \in Nat
                          /\ Cardinality(s) = 0 <=> s = {}
  BY FS_Subset, FS_CardinalityType, FS_EmptySet
<1>2. N \subseteq Nat /\ 0 \in N
  BY <1>1 DEF Sums
<1>3. ASSUME NEW n \in N PROVE n + 1 \in N
  <2>1. ASSUME NEW s \in SUBSET T, Cardinality(s) = n + 1
        PROVE  g[s] = h[s]
    <3>1. n \in Nat /\ s # {}
      BY <1>1, <2>1
    <3>2. c(s) \in s
      BY <3>1
    <3>3. Cardinality(s \ {c(s)}) = n
      <4>1. Cardinality(s \ {c(s)}) = Cardinality(s) - 1
        BY <1>1, <3>2, FS_RemoveElement
      <4> QED BY <2>1, <3>1, <4>1
    <3>4. g[s \ {c(s)}] = h[s \ {c(s)}]
      <4> HIDE DEF c
      <4> QED BY <3>3
    <3> QED BY <1>1, <3>1, <3>4 DEF Sums
  <2> QED BY <2>1
<1>4. N = Nat
  <2> HIDE DEF N
  <2> QED BY <1>2, <1>3, SetInduction
<1> QED BY <1>1, <1>4

(* The sum takes up any element, not just the chosen one. *)
LEMMA SumsRemove ==
  ASSUME NEW S, IsFiniteSet(S), NEW f, \A x \in S : f[x] \in Int,
         NEW g, Sums(g, f, S)
  PROVE  \A s \in SUBSET S : \A x \in s : g[s] = f[x] + g[s \ {x}]
<1> DEFINE c(s) == CHOOSE x \in s : TRUE
           N == {n \in Nat : \A s \in SUBSET S : Cardinality(s) = n =>
                               \A x \in s : g[s] = f[x] + g[s \ {x}]}
<1>1. \A s \in SUBSET S : /\ IsFiniteSet(s) /\ Cardinality(s) \in Nat
                          /\ Cardinality(s) = 0 <=> s = {}
  BY FS_Subset, FS_CardinalityType, FS_EmptySet
<1>2. N \subseteq Nat /\ 0 \in N
  BY <1>1
<1>3. ASSUME NEW n \in N PROVE n + 1 \in N
  <2>1. ASSUME NEW s \in SUBSET S, Cardinality(s) = n + 1, NEW x \in s
        PROVE  g[s] = f[x] + g[s \ {x}]
    <3> DEFINE y == c(s)
    <3>1. n \in Nat /\ y \in s /\ g[s] = f[y] + g[s \ {y}]
      BY <2>1 DEF Sums
    <3> HIDE DEF y
    <3>2. CASE x = y
      BY <3>1, <3>2
    <3>3. CASE x # y
      <4>1. Cardinality(s \ {x}) = n /\ Cardinality(s \ {y}) = n
        <5>1. /\ Cardinality(s \ {x}) = Cardinality(s) - 1
              /\ Cardinality(s \ {y}) = Cardinality(s) - 1
          BY <1>1, <3>1, FS_RemoveElement
        <5> QED BY <2>1, <3>1, <5>1
      <4>2. /\ g[s \ {x}] = f[y] + g[(s \ {x}) \ {y}]
            /\ g[s \ {y}] = f[x] + g[(s \ {y}) \ {x}]
        BY <3>1, <3>3, <4>1
      <4>3. (s \ {x}) \ {y} = (s \ {y}) \ {x}
        OBVIOUS
      <4> DEFINE rest == g[(s \ {y}) \ {x}]
      <4>4. f[x] \in Int /\ f[y] \in Int /\ rest \in Int
        BY <3>1 DEF Sums
      <4>5. g[s] = f[y] + (f[x] + rest) /\ g[s \ {x}] = f[y] + rest
        BY <3>1, <4>2, <4>3
      <4> HIDE DEF rest
      <4> QED BY <4>4, <4>5
    <3> QED BY <3>2, <3>3
  <2> QED BY <2>1
<1>4. N = Nat
  <2> HIDE DEF N
  <2> QED BY <1>2, <1>3, SetInduction
<1> QED BY <1>1, <1>4

LEMMA SumIsSums ==
  ASSUME NEW S, IsFiniteSet(S), NEW f, \A x \in S : f[x] \in Int
  PROVE  \E g : Sums(g, f, S) /\ SumFunctionOnSet(f, S) = g[S]
<1> DEFINE Body(h) == [s \in SUBSET S |->
                         IF s = {} THEN 0
                         ELSE f[CHOOSE x \in s : TRUE] + h[s \ {CHOOSE x \in s : TRUE}]]
           g == CHOOSE h : h = Body(h)
<1>1. SumFunctionOnSet(f, S) = g[S]
  BY DEF SumFunctionOnSet, FoldFunctionOnSet, MapThenFoldSet
<1>2. PICK h : Sums(h, f, S)
  BY SumsExist
<1>3. h = Body(h)
  BY <1>2 DEF Sums
<1>4. g = Body(g)
  <2> HIDE DEF Body
  <2> QED BY <1>3
<1>5. Sums(g, f, S)
  <2>1. \A s \in SUBSET S : g[s] = h[s]
    <3> HIDE DEF g
    <3> DEFINE N == {n \in Nat : \A s \in SUBSET S : Cardinality(s) = n => g[s] = h[s]}
    <3>1. \A s \in SUBSET S : /\ IsFiniteSet(s) /\ Cardinality(s) \in Nat
                              /\ Cardinality(s) = 0 <=> s = {}
      BY FS_Subset, FS_CardinalityType, FS_EmptySet
    <3>2. N \subseteq Nat /\ 0 \in N
      BY <1>2, <1>4, <3>1 DEF Sums
    <3>3. ASSUME NEW n \in N PROVE n + 1 \in N
      <4>1. ASSUME NEW s \in SUBSET S, Cardinality(s) = n + 1
            PROVE  g[s] = h[s]
        <5> DEFINE y == CHOOSE x \in s : TRUE
        <5>1. n \in Nat /\ s # {} /\ y \in s
          BY <3>1, <4>1
        <5>2. g[s] = f[y] + g[s \ {y}] /\ h[s] = f[y] + h[s \ {y}]
          BY <1>2, <1>4, <5>1 DEF Sums
        <5> HIDE DEF y
        <5>3. Cardinality(s \ {y}) = n
          <6>1. Cardinality(s \ {y}) = Cardinality(s) - 1
            BY <3>1, <5>1, FS_RemoveElement
          <6> QED BY <4>1, <5>1, <6>1
        <5>4. g[s \ {y}] = h[s \ {y}]
          BY <5>3
        <5> QED BY <5>2, <5>4
      <4> QED BY <4>1
    <3>4. N = Nat
      <4> HIDE DEF N
      <4> QED BY <3>2, <3>3, SetInduction
    <3> QED BY <3>1, <3>4
  <2>2. DOMAIN g = SUBSET S /\ DOMAIN h = SUBSET S
    BY <1>2, <1>4 DEF Sums
  <2>3. g = h
    <3> HIDE DEF g
    <3> QED BY <1>2, <1>4, <2>1, <2>2 DEF Sums
  <2> QED BY <1>2, <2>3
<1> QED BY <1>1, <1>5

(* A sum takes up any element. *)
LEMMA SumUnfold ==
  ASSUME NEW S, IsFiniteSet(S), NEW f, \A x \in S : f[x] \in Int
  PROVE  /\ SumFunctionOnSet(f, S) \in Int
         /\ S = {} => SumFunctionOnSet(f, S) = 0
         /\ \A x \in S :
              SumFunctionOnSet(f, S) = f[x] + SumFunctionOnSet(f, S \ {x})
<1>1. PICK g : Sums(g, f, S) /\ SumFunctionOnSet(f, S) = g[S]
  BY SumIsSums
<1>2. g[S] \in Int /\ (S = {} => g[S] = 0)
  BY <1>1 DEF Sums
<1>3. ASSUME NEW x \in S
      PROVE  SumFunctionOnSet(f, S) = f[x] + SumFunctionOnSet(f, S \ {x})
  <2>1. IsFiniteSet(S \ {x})
    BY FS_RemoveElement
  <2>2. PICK h : Sums(h, f, S \ {x}) /\ SumFunctionOnSet(f, S \ {x}) = h[S \ {x}]
    BY <2>1, SumIsSums
  <2>3. g[S \ {x}] = h[S \ {x}]
    BY <1>1, <2>2, SumsUnique
  <2>4. g[S] = f[x] + g[S \ {x}]
    BY <1>1, SumsRemove
  <2> QED BY <1>1, <2>2, <2>3, <2>4
<1> QED BY <1>1, <1>2, <1>3

(* One element more. *)
LEMMA SumInsert ==
  ASSUME NEW S, IsFiniteSet(S), NEW f, \A x \in S : f[x] \in Int,
         NEW x, x \notin S, f[x] \in Int
  PROVE  /\ IsFiniteSet(S \cup {x})
         /\ SumFunctionOnSet(f, S \cup {x}) = f[x] + SumFunctionOnSet(f, S)
<1>1. IsFiniteSet(S \cup {x})
  BY FS_AddElement
<1>2. (S \cup {x}) \ {x} = S
  OBVIOUS
<1>3. SumFunctionOnSet(f, S \cup {x})
        = f[x] + SumFunctionOnSet(f, (S \cup {x}) \ {x})
  BY <1>1, SumUnfold
<1> QED BY <1>1, <1>2, <1>3

(* The value at one point may change. *)
LEMMA SumUpdate ==
  ASSUME NEW S, IsFiniteSet(S), NEW f, NEW g, NEW z \in S,
         \A x \in S : f[x] \in Int /\ g[x] \in Int,
         \A x \in S \ {z} : f[x] = g[x]
  PROVE  SumFunctionOnSet(g, S) = SumFunctionOnSet(f, S) - f[z] + g[z]
<1> DEFINE A(s) == SumFunctionOnSet(f, s)
           B(s) == SumFunctionOnSet(g, s)
           T == S \ {z}
           G == {s \in SUBSET T : A(s) = B(s)}
<1>1. IsFiniteSet(T) /\ \A s \in SUBSET T : IsFiniteSet(s)
  BY FS_RemoveElement, FS_Subset
<1>2. {} \in G
  <2>1. A({}) = 0 /\ B({}) = 0
    BY FS_EmptySet, SumUnfold
  <2> QED BY <2>1
<1>3. ASSUME NEW s \in G, NEW x \in T \ s PROVE s \cup {x} \in G
  <2>1. A(s \cup {x}) = f[x] + A(s) /\ B(s \cup {x}) = g[x] + B(s)
    BY <1>1, SumInsert
  <2> QED BY <2>1
<1>4. T \in G
  <2>1. G = SUBSET T
    <3>1. G \in SUBSET (SUBSET T)
      OBVIOUS
    <3> HIDE DEF G, T
    <3> QED BY <3>1, <1>1, <1>2, <1>3, SubsetInduction
  <2> QED BY <2>1
<1>5. A(S) = f[z] + A(T) /\ B(S) = g[z] + B(T) /\ A(T) \in Int /\ B(T) \in Int
  BY <1>1, SumUnfold
<1>6. A(T) = B(T) /\ f[z] \in Int /\ g[z] \in Int
  BY <1>4
<1> QED BY <1>5, <1>6

(* Smaller terms have the smaller sum, equal terms the same. *)
LEMMA SumMonotonic ==
  ASSUME NEW S, IsFiniteSet(S), NEW f, NEW g,
         \A x \in S : f[x] \in Int /\ g[x] \in Int /\ f[x] <= g[x]
  PROVE  SumFunctionOnSet(f, S) <= SumFunctionOnSet(g, S)
<1> DEFINE A(s) == SumFunctionOnSet(f, s)
           B(s) == SumFunctionOnSet(g, s)
           G == {s \in SUBSET S : A(s) <= B(s)}
<1>1. \A s \in SUBSET S : IsFiniteSet(s)
  BY FS_Subset
<1>2. {} \in G
  <2>1. A({}) = 0 /\ B({}) = 0
    BY FS_EmptySet, SumUnfold
  <2> QED BY <2>1
<1>3. ASSUME NEW s \in G, NEW x \in S \ s PROVE s \cup {x} \in G
  <2>1. A(s \cup {x}) = f[x] + A(s) /\ B(s \cup {x}) = g[x] + B(s)
    BY <1>1, SumInsert
  <2>2. A(s) \in Int /\ B(s) \in Int
    BY <1>1, SumUnfold
  <2>3. f[x] \in Int /\ g[x] \in Int /\ f[x] <= g[x] /\ A(s) <= B(s)
    OBVIOUS
  <2> HIDE DEF A, B
  <2> QED BY <2>1, <2>2, <2>3
<1>4. S \in G
  <2>1. G = SUBSET S
    <3>1. G \in SUBSET (SUBSET S)
      OBVIOUS
    <3> HIDE DEF G
    <3> QED BY <3>1, <1>2, <1>3, SubsetInduction
  <2> QED BY <2>1
<1> QED BY <1>4

LEMMA SumSame ==
  ASSUME NEW S, IsFiniteSet(S), NEW f, NEW g,
         \A x \in S : f[x] \in Int /\ f[x] = g[x]
  PROVE  SumFunctionOnSet(f, S) = SumFunctionOnSet(g, S)
<1>1. /\ SumFunctionOnSet(f, S) <= SumFunctionOnSet(g, S)
      /\ SumFunctionOnSet(g, S) <= SumFunctionOnSet(f, S)
  BY SumMonotonic
<1>2. SumFunctionOnSet(f, S) \in Int /\ SumFunctionOnSet(g, S) \in Int
  BY SumUnfold
<1> QED BY <1>1, <1>2

(* A sum of naturals is a natural, and no term exceeds it. *)
LEMMA SumNat ==
  ASSUME NEW S, IsFiniteSet(S), NEW f, \A x \in S : f[x] \in Nat
  PROVE  /\ SumFunctionOnSet(f, S) \in Nat
         /\ \A x \in S : f[x] <= SumFunctionOnSet(f, S)
<1> DEFINE A(s) == SumFunctionOnSet(f, s)
           G == {s \in SUBSET S : A(s) \in Nat}
<1>1. /\ \A s \in SUBSET S : IsFiniteSet(s)
      /\ \A x \in S : f[x] \in Int
  BY FS_Subset
<1>2. {} \in G
  <2>1. A({}) = 0
    BY FS_EmptySet, SumUnfold
  <2> QED BY <2>1
<1>3. ASSUME NEW s \in G, NEW x \in S \ s PROVE s \cup {x} \in G
  <2>1. A(s \cup {x}) = f[x] + A(s)
    BY <1>1, SumInsert
  <2>2. f[x] \in Nat /\ A(s) \in Nat
    OBVIOUS
  <2> HIDE DEF A
  <2> QED BY <2>1, <2>2
<1>4. G = SUBSET S
  <2>1. G \in SUBSET (SUBSET S)
    OBVIOUS
  <2> HIDE DEF G
  <2> QED BY <2>1, <1>2, <1>3, SubsetInduction
<1>5. ASSUME NEW x \in S PROVE f[x] <= A(S)
  <2>1. A(S) = f[x] + A(S \ {x})
    BY <1>1, SumUnfold
  <2>2. A(S \ {x}) \in Nat /\ f[x] \in Nat
    BY <1>4
  <2> HIDE DEF A
  <2> QED BY <2>1, <2>2
<1> QED BY <1>4, <1>5

(* Two disjoint sets *)
LEMMA SumUnion ==
  ASSUME NEW S, NEW T, IsFiniteSet(S), IsFiniteSet(T), S \cap T = {},
         NEW f, \A x \in S \cup T : f[x] \in Int
  PROVE  SumFunctionOnSet(f, S \cup T)
           = SumFunctionOnSet(f, S) + SumFunctionOnSet(f, T)
<1> DEFINE A(s) == SumFunctionOnSet(f, s)
           G == {s \in SUBSET T : A(S \cup s) = A(S) + A(s)}
<1>1. \A s \in SUBSET T : IsFiniteSet(s) /\ IsFiniteSet(S \cup s)
  BY FS_Subset, FS_Union
<1>2. A(S) \in Int
  BY SumUnfold
<1>3. {} \in G
  <2>1. A({}) = 0 /\ S \cup {} = S
    BY FS_EmptySet, SumUnfold
  <2> HIDE DEF A
  <2> QED BY <1>2, <2>1
<1>4. ASSUME NEW s \in G, NEW x \in T \ s PROVE s \cup {x} \in G
  <2>1. x \notin S \cup s /\ f[x] \in Int /\ S \cup (s \cup {x}) = (S \cup s) \cup {x}
    OBVIOUS
  <2>2. A(s \cup {x}) = f[x] + A(s) /\ A((S \cup s) \cup {x}) = f[x] + A(S \cup s)
    BY <1>1, <2>1, SumInsert
  <2>3. A(s) \in Int
    BY <1>1, SumUnfold
  <2>4. A(S \cup s) = A(S) + A(s)
    OBVIOUS
  <2>5. A(S \cup (s \cup {x})) = A(S) + A(s \cup {x})
    <3>1. A(S \cup (s \cup {x})) = f[x] + (A(S) + A(s))
      BY <2>1, <2>2, <2>4
    <3> HIDE DEF A
    <3> QED BY <1>2, <2>1, <2>2, <2>3, <3>1
  <2> QED BY <2>5
<1>5. T \in G
  <2>1. G = SUBSET T
    <3>1. G \in SUBSET (SUBSET T)
      OBVIOUS
    <3> HIDE DEF G
    <3> QED BY <3>1, <1>3, <1>4, SubsetInduction
  <2> QED BY <2>1
<1> QED BY <1>5

(* The sum of sums *)
LEMMA SumPlus ==
  ASSUME NEW S, IsFiniteSet(S), NEW f, NEW g, NEW h,
         \A x \in S : f[x] \in Int /\ g[x] \in Int /\ h[x] = f[x] + g[x]
  PROVE  SumFunctionOnSet(h, S) = SumFunctionOnSet(f, S) + SumFunctionOnSet(g, S)
<1> DEFINE A(s) == SumFunctionOnSet(f, s)
           B(s) == SumFunctionOnSet(g, s)
           C(s) == SumFunctionOnSet(h, s)
           G == {s \in SUBSET S : C(s) = A(s) + B(s)}
<1>1. \A s \in SUBSET S : IsFiniteSet(s)
  BY FS_Subset
<1>2. {} \in G
  <2>1. A({}) = 0 /\ B({}) = 0 /\ C({}) = 0
    BY FS_EmptySet, SumUnfold
  <2> QED BY <2>1
<1>3. ASSUME NEW s \in G, NEW x \in S \ s PROVE s \cup {x} \in G
  <2>1. f[x] \in Int /\ g[x] \in Int /\ h[x] = f[x] + g[x] /\ C(s) = A(s) + B(s)
    OBVIOUS
  <2>2. \A y \in S : h[y] \in Int
    OBVIOUS
  <2>3. /\ A(s \cup {x}) = f[x] + A(s)
        /\ B(s \cup {x}) = g[x] + B(s)
        /\ C(s \cup {x}) = h[x] + C(s)
    BY <1>1, <2>2, SumInsert
  <2>4. A(s) \in Int /\ B(s) \in Int
    BY <1>1, SumUnfold
  <2>5. C(s \cup {x}) = A(s \cup {x}) + B(s \cup {x})
    <3> HIDE DEF A, B, C
    <3> QED BY <2>1, <2>3, <2>4
  <2> QED BY <2>5
<1>4. S \in G
  <2>1. G = SUBSET S
    <3>1. G \in SUBSET (SUBSET S)
      OBVIOUS
    <3> HIDE DEF G
    <3> QED BY <3>1, <1>2, <1>3, SubsetInduction
  <2> QED BY <2>1
<1> QED BY <1>4

(* A common factor *)
LEMMA SumScaled ==
  ASSUME NEW S, IsFiniteSet(S), NEW f, NEW g, NEW k \in Int,
         \A x \in S : f[x] \in Int /\ g[x] = k * f[x]
  PROVE  SumFunctionOnSet(g, S) = k * SumFunctionOnSet(f, S)
<1> DEFINE A(s) == SumFunctionOnSet(f, s)
           B(s) == SumFunctionOnSet(g, s)
           G == {s \in SUBSET S : B(s) = k * A(s)}
<1>1. \A x \in S : g[x] \in Int
  OBVIOUS
<1>2. {} \in G
  <2>1. A({}) = 0 /\ B({}) = 0
    BY FS_EmptySet, SumUnfold
  <2> QED BY <2>1
<1>3. ASSUME NEW s \in G, NEW x \in S \ s PROVE s \cup {x} \in G
  <2>1. IsFiniteSet(s) /\ \A y \in s : f[y] \in Int /\ g[y] \in Int
    BY <1>1, FS_Subset
  <2>2. A(s \cup {x}) = f[x] + A(s) /\ B(s \cup {x}) = g[x] + B(s)
    BY <1>1, <2>1, SumInsert
  <2>3. A(s) \in Int
    BY <2>1, SumUnfold
  <2>4. B(s) = k * A(s) /\ g[x] = k * f[x] /\ f[x] \in Int
    OBVIOUS
  <2>5. ASSUME NEW a \in Int, NEW b \in Int PROVE k * (a + b) = k * a + k * b
    OBVIOUS
  <2>6. k * (f[x] + A(s)) = k * f[x] + k * A(s)
    <3> HIDE DEF A
    <3> QED BY <2>3, <2>4, <2>5
  <2>7. s \cup {x} \in SUBSET S
    OBVIOUS
  <2>8. B(s \cup {x}) = k * A(s \cup {x})
    <3> HIDE DEF A, B
    <3> QED BY <2>2, <2>4, <2>6
  <2> QED BY <2>7, <2>8
<1>4. G = SUBSET S
  <2> HIDE DEF G
  <2>1. G \in SUBSET (SUBSET S)
    BY DEF G
  <2> QED BY <1>2, <1>3, <2>1, SubsetInduction
<1>5. S \in G
  BY <1>4
<1> QED BY <1>5

(* The sum over an interval is that over all but its last element, and the *)
(* last term.                                                              *)
LEMMA SumLast ==
  ASSUME NEW s \in Int, NEW t \in Int, s <= t, NEW f, \A i \in s..t : f[i] \in Int
  PROVE  /\ SumFunctionOnSet(f, s..(t - 1)) \in Int
         /\ SumFunctionOnSet(f, s..t) = f[t] + SumFunctionOnSet(f, s..(t - 1))
<1>1. IsFiniteSet(s..t) /\ IsFiniteSet(s..(t - 1))
  BY FS_Interval
<1>2. t \in s..t /\ (s..t) \ {t} = s..(t - 1)
  OBVIOUS
<1>3. SumFunctionOnSet(f, s..t) = f[t] + SumFunctionOnSet(f, (s..t) \ {t})
  BY <1>1, <1>2, SumUnfold
<1>4. SumFunctionOnSet(f, s..(t - 1)) \in Int
  <2>1. \A i \in s..(t - 1) : f[i] \in Int
    OBVIOUS
  <2> QED BY <1>1, <2>1, SumUnfold
<1> QED BY <1>2, <1>3, <1>4

LEMMA SumZero ==
  ASSUME NEW S, IsFiniteSet(S), NEW f, \A x \in S : f[x] = 0
  PROVE  SumFunctionOnSet(f, S) = 0
<1> DEFINE k == 0
<1>1. \A x \in S : f[x] \in Int /\ f[x] = k * f[x]
  OBVIOUS
<1>2. k \in Int /\ \A i \in Int : k * i = 0
  OBVIOUS
<1> HIDE DEF k
<1>3. SumFunctionOnSet(f, S) = k * SumFunctionOnSet(f, S)
  BY <1>1, <1>2, SumScaled
<1>4. SumFunctionOnSet(f, S) \in Int
  BY <1>1, SumUnfold
<1> QED BY <1>2, <1>3, <1>4

(* Equal terms; terms from some bound on, or up to one *)
LEMMA SumConstant ==
  ASSUME NEW S, IsFiniteSet(S), NEW c \in Int, NEW f, \A x \in S : f[x] = c
  PROVE  SumFunctionOnSet(f, S) = c * Cardinality(S)
<1> DEFINE A(s) == SumFunctionOnSet(f, s)
           G == {s \in SUBSET S : A(s) = c * Cardinality(s)}
<1>1. {} \in G
  <2>1. A({}) = 0 /\ Cardinality({}) = 0 /\ c * 0 = 0
    BY FS_EmptySet, SumUnfold
  <2> HIDE DEF A
  <2> QED BY <2>1
<1>2. ASSUME NEW s \in G, NEW x \in S \ s PROVE s \cup {x} \in G
  <2>1. IsFiniteSet(s) /\ \A y \in s : f[y] \in Int
    BY FS_Subset
  <2>2. A(s \cup {x}) = f[x] + A(s) /\ f[x] = c
    BY <2>1, SumInsert
  <2>3. Cardinality(s \cup {x}) = Cardinality(s) + 1 /\ Cardinality(s) \in Nat
    BY <2>1, FS_AddElement, FS_CardinalityType
  <2>4. \A m \in Nat : c * (m + 1) = c + c * m
    OBVIOUS
  <2>5. A(s) = c * Cardinality(s)
    OBVIOUS
  <2> HIDE DEF A
  <2>6. A(s \cup {x}) = c * Cardinality(s \cup {x})
    BY <2>2, <2>3, <2>4, <2>5
  <2> QED BY <2>6
<1>3. G = SUBSET S
  <2> HIDE DEF G
  <2>1. G \in SUBSET (SUBSET S)
    BY DEF G
  <2> QED BY <1>1, <1>2, <2>1, SubsetInduction
<1>4. S \in G
  BY <1>3
<1> QED BY <1>4

LEMMA SumAtMost ==
  ASSUME NEW S, IsFiniteSet(S), NEW c \in Int, NEW f,
         \A x \in S : f[x] \in Int /\ f[x] <= c
  PROVE  SumFunctionOnSet(f, S) <= c * Cardinality(S)
<1> DEFINE g == [x \in S |-> c]
<1>1. \A x \in S : f[x] \in Int /\ g[x] \in Int /\ f[x] <= g[x] /\ g[x] = c
  OBVIOUS
<1> HIDE DEF g
<1>2. SumFunctionOnSet(f, S) <= SumFunctionOnSet(g, S)
  BY <1>1, SumMonotonic
<1>3. SumFunctionOnSet(g, S) = c * Cardinality(S)
  BY <1>1, SumConstant
<1> QED BY <1>2, <1>3

LEMMA SumAtLeast ==
  ASSUME NEW S, IsFiniteSet(S), NEW T \in SUBSET S, NEW c \in Int, NEW f,
         \A x \in S : f[x] \in Nat, \A x \in T : c <= f[x]
  PROVE  c * Cardinality(T) <= SumFunctionOnSet(f, S)
<1> DEFINE g == [x \in S |-> c]
<1>1. IsFiniteSet(T) /\ IsFiniteSet(S \ T) /\ T \cup (S \ T) = S /\ T \cap (S \ T) = {}
  BY FS_Subset
<1>2. \A x \in T : f[x] \in Int /\ g[x] \in Int /\ g[x] <= f[x] /\ g[x] = c
  OBVIOUS
<1> HIDE DEF g
<1>3. SumFunctionOnSet(g, T) <= SumFunctionOnSet(f, T)
  BY <1>1, <1>2, SumMonotonic
<1>4. SumFunctionOnSet(g, T) = c * Cardinality(T)
  BY <1>1, <1>2, SumConstant
<1>5. SumFunctionOnSet(f, T \cup (S \ T))
        = SumFunctionOnSet(f, T) + SumFunctionOnSet(f, S \ T)
  <2>1. \A x \in T \cup (S \ T) : f[x] \in Int
    BY <1>1
  <2> QED BY <1>1, <2>1, SumUnion
<1>6. SumFunctionOnSet(f, T) \in Nat /\ SumFunctionOnSet(f, S \ T) \in Nat
  BY <1>1, SumNat
<1>7. c * Cardinality(T) \in Int
  <2>1. Cardinality(T) \in Nat
    BY <1>1, FS_CardinalityType
  <2> QED BY <2>1
<1> DEFINE k == c * Cardinality(T)
<1> HIDE DEF k
<1>8. k \in Int /\ k <= SumFunctionOnSet(f, T)
  BY <1>3, <1>4, <1>7 DEF k
<1>9. k <= SumFunctionOnSet(f, S)
  BY <1>1, <1>5, <1>6, <1>8
<1> QED BY <1>9 DEF k

=============================================================================

-------------------------------- MODULE Sums --------------------------------
(***************************************************************************)
(* Facts about sums of integers over finite sets, SumFunctionOnSet of the  *)
(* community module Functions: what the invariants about tokens and events *)
(* need to follow a sum through a step.  The sum is a recursive function   *)
(* on the subsets of the index set; it is first shown to be well defined.  *)
(***************************************************************************)
EXTENDS Functions, FiniteSetTheorems, TLAPS

(* Every non-empty set of naturals has a least element.  Stated without an *)
(* operator parameter, it is the induction principle used below.           *)
LEMMA LeastNatural ==
    ASSUME NEW T, T \subseteq Nat, T # {}
    PROVE  \E x \in T : \A y \in T : x <= y
<1> DEFINE R == OpToRel(<, Nat)
<1>1. IsWellFoundedOn(R, Nat)
  BY NatLessThanWellFounded
<1>2. PICK x \in T : \A y \in T : ~(<<y, x>> \in R)
  BY <1>1, WFMin
<1>3. \A y \in T : ~(y < x)
  <2>1. SUFFICES ASSUME NEW y \in T, y < x PROVE FALSE
    OBVIOUS
  <2>2. <<y, x>> \in R
    BY <2>1 DEF OpToRel
  <2>3. QED
    BY <1>2, <2>2
<1> HIDE DEF R
<1>4. \A y \in T : x \in Nat /\ y \in Nat
  OBVIOUS
<1>5. \A y \in T : x <= y
  BY <1>3, <1>4
<1>6. QED
  BY <1>5

(* A non-empty set of subsets of a finite set has a minimal element.       *)
LEMMA MinimalSubset ==
    ASSUME NEW U, IsFiniteSet(U), NEW T, T \subseteq SUBSET U, T # {}
    PROVE  \E s \in T : \A t \in T : t \subseteq s => t = s
<1> DEFINE R == StrictSubsetOrdering(U)
<1>1. IsWellFoundedOn(R, SUBSET U)
  BY FS_StrictSubsetOrderingWellFounded, FS_FiniteSubsetsOfFinite
<1>2. PICK s \in T : \A t \in T : ~(<<t, s>> \in R)
  BY <1>1, WFMin
<1>3. ASSUME NEW t \in T, t \subseteq s, t # s PROVE FALSE
  <2>1. <<t, s>> \in R
    BY <1>3 DEF StrictSubsetOrdering
  <2>2. QED
    BY <1>2, <2>1
<1>4. QED
  BY <1>2, <1>3

-----------------------------------------------------------------------------
\* The element that the fold takes next.
Pick(s) == CHOOSE x \in s : TRUE

\* g is the fold on all subsets of S.
IsSum(g, f, S) ==
    /\ g \in [SUBSET S -> Int]
    /\ \A s \in SUBSET S :
          g[s] = IF s = {} THEN 0 ELSE f[Pick(s)] + g[s \ {Pick(s)}]

LEMMA PickIn == ASSUME NEW s, s # {} PROVE Pick(s) \in s
BY DEF Pick

(* The fold exists: it can be extended from the sets of at most m elements *)
(* to those of one more.                                                   *)
LEMMA SumExists ==
    ASSUME NEW S, IsFiniteSet(S), NEW f, \A x \in S : f[x] \in Int
    PROVE  \E g : IsSum(g, f, S)
<1> DEFINE Upto(g, m) == \A s \in SUBSET S : Cardinality(s) <= m =>
               g[s] = IF s = {} THEN 0 ELSE f[Pick(s)] + g[s \ {Pick(s)}]
           Bad == {m \in Nat : ~ \E g \in [SUBSET S -> Int] : Upto(g, m)}
<1>0. \A s \in SUBSET S : Cardinality(s) \in Nat /\ IsFiniteSet(s)
  BY FS_Subset, FS_CardinalityType
<1>1. ASSUME Bad # {} PROVE FALSE
  <2>1. PICK m \in Bad : \A y \in Bad : m <= y
    BY <1>1, LeastNatural
  <2>2. m \in Nat /\ ~ \E g \in [SUBSET S -> Int] : Upto(g, m)
    BY <2>1
  <2>3. m # 0
    <3>1. SUFFICES ASSUME m = 0 PROVE FALSE
      OBVIOUS
    <3> DEFINE z == [s \in SUBSET S |-> 0]
    <3>2. \A s \in SUBSET S : Cardinality(s) <= 0 => s = {}
      BY <1>0, FS_EmptySet
    <3>3. z \in [SUBSET S -> Int] /\ Upto(z, 0)
      BY <3>2
    <3>4. QED
      BY <2>2, <3>1, <3>3
  <2>4. m - 1 \in Nat /\ m - 1 \notin Bad
    <3> HIDE DEF Bad
    <3>1. m - 1 \in Nat /\ ~(m <= m - 1)
      BY <2>2, <2>3
    <3>2. QED
      BY <2>1, <3>1
  <2>5. PICK g \in [SUBSET S -> Int] : Upto(g, m - 1)
    BY <2>4
  <2> DEFINE h == [s \in SUBSET S |-> IF s = {} \/ Cardinality(s) # m THEN g[s]
                                      ELSE f[Pick(s)] + g[s \ {Pick(s)}]]
  <2>6. ASSUME NEW s \in SUBSET S, s # {}
        PROVE  /\ Pick(s) \in s /\ s \ {Pick(s)} \in SUBSET S
               /\ Cardinality(s \ {Pick(s)}) = Cardinality(s) - 1
    <3>1. Pick(s) \in s
      BY <2>6, PickIn
    <3>2. QED
      BY <1>0, <3>1, FS_RemoveElement
  <2>7. h \in [SUBSET S -> Int]
    BY <2>6
  <2>8. ASSUME NEW s \in SUBSET S, Cardinality(s) <= m
        PROVE  h[s] = IF s = {} THEN 0 ELSE f[Pick(s)] + h[s \ {Pick(s)}]
    <3>1. CASE s = {}
      <4>1. Cardinality(s) <= m - 1
        BY <3>1, <2>4, FS_EmptySet
      <4>2. g[s] = 0
        BY <2>5, <3>1, <4>1
      <4>3. QED
        BY <3>1, <4>2
    <3>2. CASE s # {}
      <4> DEFINE t == s \ {Pick(s)}
      <4>1. t \in SUBSET S /\ Cardinality(t) = Cardinality(s) - 1
        BY <3>2, <2>6
      <4>2. Cardinality(t) # m
        BY <1>0, <2>2, <2>8, <4>1
      <4>3. h[t] = g[t]
        BY <4>1, <4>2
      <4>4. CASE Cardinality(s) = m
        BY <3>2, <4>3, <4>4
      <4>5. CASE Cardinality(s) # m
        <5>1. Cardinality(s) <= m - 1
          BY <4>5, <1>0, <2>2, <2>8
        <5>2. g[s] = f[Pick(s)] + g[t]
          BY <2>5, <3>2, <5>1
        <5>3. QED
          BY <3>2, <4>3, <4>5, <5>2
      <4>6. QED
        BY <4>4, <4>5
    <3>3. QED
      BY <3>1, <3>2
  <2>9. QED
    BY <2>2, <2>7, <2>8
<1>2. Cardinality(S) \in Nat
  BY FS_CardinalityType
<1>3. PICK g \in [SUBSET S -> Int] : Upto(g, Cardinality(S))
  BY <1>1, <1>2
<1>4. \A s \in SUBSET S : Cardinality(s) <= Cardinality(S)
  BY FS_Subset
<1>5. IsSum(g, f, S)
  BY <1>3, <1>4 DEF IsSum
<1>6. QED
  BY <1>5

(* The sum over S is the value at S of a function that satisfies the fold's *)
(* equation.                                                                *)
LEMMA SumIsFold ==
    ASSUME NEW S, IsFiniteSet(S), NEW f, \A x \in S : f[x] \in Int
    PROVE  \E g : IsSum(g, f, S) /\ SumFunctionOnSet(f, S) = g[S]
<1> DEFINE F(g) == [s \in SUBSET S |-> IF s = {} THEN 0
                                       ELSE f[Pick(s)] + g[s \ {Pick(s)}]]
           iter == CHOOSE g : g = F(g)
           Bad == {s \in SUBSET S : iter[s] \notin Int}
<1>1. PICK g : IsSum(g, f, S)
  BY SumExists
<1>2. g = F(g)
  BY <1>1 DEF IsSum
<1>3. iter = F(iter)
  BY <1>2
<1> HIDE DEF iter
<1>4. \A s \in SUBSET S : iter[s] = IF s = {} THEN 0 ELSE f[Pick(s)] + iter[s \ {Pick(s)}]
  BY <1>3
<1>5. ASSUME Bad # {} PROVE FALSE
  <2>1. PICK s \in Bad : \A t \in Bad : t \subseteq s => t = s
    <3>1. Bad \subseteq SUBSET S
      OBVIOUS
    <3> HIDE DEF Bad
    <3>2. QED
      BY <1>5, <3>1, MinimalSubset
  <2>2. s \in SUBSET S /\ iter[s] \notin Int
    BY <2>1
  <2>3. s # {}
    <3>1. iter[{}] = 0
      BY <1>4
    <3>2. QED
      BY <2>2, <3>1
  <2>4. Pick(s) \in s
    BY <2>3, PickIn
  <2>5. iter[s \ {Pick(s)}] \in Int
    BY <2>1, <2>2, <2>4
  <2>6. iter[s] = f[Pick(s)] + iter[s \ {Pick(s)}]
    BY <1>4, <2>2, <2>3
  <2>7. f[Pick(s)] \in Int
    BY <2>2, <2>4
  <2> HIDE DEF Bad
  <2>8. QED
    BY <2>2, <2>5, <2>6, <2>7
<1>6. iter \in [SUBSET S -> Int]
  BY <1>3, <1>5
<1>7. IsSum(iter, f, S)
  BY <1>4, <1>6 DEF IsSum
<1>8. SumFunctionOnSet(f, S) = iter[S]
  BY DEF SumFunctionOnSet, FoldFunctionOnSet, MapThenFoldSet, iter, Pick
<1>9. QED
  BY <1>7, <1>8

(* Two folds agree on the sets that both are defined for, if the summands do. *)
LEMMA SumUnique ==
    ASSUME NEW S, IsFiniteSet(S), NEW T \in SUBSET S, NEW f, NEW e, NEW g, NEW h,
           \A x \in T : f[x] = e[x], IsSum(g, f, S), IsSum(h, e, T)
    PROVE  g[T] = h[T]
<1> DEFINE Bad == {s \in SUBSET T : g[s] # h[s]}
<1>1. ASSUME Bad # {} PROVE FALSE
  <2>1. PICK s \in Bad : \A t \in Bad : t \subseteq s => t = s
    <3>1. Bad \subseteq SUBSET S
      OBVIOUS
    <3> HIDE DEF Bad
    <3>2. QED
      BY <1>1, <3>1, MinimalSubset
  <2>2. s \in SUBSET S /\ s \in SUBSET T /\ g[s] # h[s]
    BY <2>1
  <2>3. s # {}
    BY <2>2 DEF IsSum
  <2>4. Pick(s) \in s
    BY <2>3, PickIn
  <2>5. g[s \ {Pick(s)}] = h[s \ {Pick(s)}]
    BY <2>1, <2>2, <2>4
  <2>6. g[s] = f[Pick(s)] + g[s \ {Pick(s)}] /\ h[s] = e[Pick(s)] + h[s \ {Pick(s)}]
    BY <2>2, <2>3 DEF IsSum
  <2>7. QED
    BY <2>2, <2>4, <2>5, <2>6
<1>2. QED
  BY <1>1

-----------------------------------------------------------------------------
(* A sum of integers is an integer. *)
LEMMA SumType ==
    ASSUME NEW S, IsFiniteSet(S), NEW f, \A x \in S : f[x] \in Int
    PROVE  SumFunctionOnSet(f, S) \in Int
<1>1. PICK g : IsSum(g, f, S) /\ SumFunctionOnSet(f, S) = g[S]
  BY SumIsFold
<1>2. QED
  BY <1>1 DEF IsSum

LEMMA SumEmpty == ASSUME NEW f PROVE SumFunctionOnSet(f, {}) = 0
<1>1. IsFiniteSet({})
  BY FS_EmptySet
<1>2. PICK g : IsSum(g, f, {}) /\ SumFunctionOnSet(f, {}) = g[{}]
  BY <1>1, SumIsFold
<1>3. QED
  BY <1>2 DEF IsSum

(* A sum depends on the summands only. *)
LEMMA SumAgree ==
    ASSUME NEW S, IsFiniteSet(S), NEW f, NEW e,
           \A x \in S : f[x] \in Int /\ e[x] = f[x]
    PROVE  SumFunctionOnSet(e, S) = SumFunctionOnSet(f, S)
<1>1. PICK g : IsSum(g, f, S) /\ SumFunctionOnSet(f, S) = g[S]
  BY SumIsFold
<1>2. PICK h : IsSum(h, e, S) /\ SumFunctionOnSet(e, S) = h[S]
  BY SumIsFold
<1>3. g[S] = h[S]
  BY <1>1, <1>2, SumUnique
<1>4. QED
  BY <1>1, <1>2, <1>3

(* One step of the fold. *)
LEMMA SumStep ==
    ASSUME NEW S, IsFiniteSet(S), S # {}, NEW f, \A x \in S : f[x] \in Int
    PROVE  /\ Pick(S) \in S
           /\ SumFunctionOnSet(f, S) = f[Pick(S)] + SumFunctionOnSet(f, S \ {Pick(S)})
<1> DEFINE T == S \ {Pick(S)}
<1>1. PICK g : IsSum(g, f, S) /\ SumFunctionOnSet(f, S) = g[S]
  BY SumIsFold
<1>2. IsFiniteSet(T)
  BY FS_RemoveElement
<1>3. PICK h : IsSum(h, f, T) /\ SumFunctionOnSet(f, T) = h[T]
  BY <1>2, SumIsFold
<1>4. g[T] = h[T]
  <2>1. T \in SUBSET S
    OBVIOUS
  <2> HIDE DEF T
  <2>2. QED
    BY <1>1, <1>3, <2>1, SumUnique
<1>5. Pick(S) \in S
  BY PickIn
<1>6. g[S] = f[Pick(S)] + g[T]
  BY <1>1 DEF IsSum
<1>7. QED
  BY <1>1, <1>3, <1>4, <1>5, <1>6

(* Any element can be taken out of the sum, not only the one that the fold *)
(* takes first.                                                            *)
LEMMA SumRemove ==
    ASSUME NEW S, IsFiniteSet(S), NEW f, \A x \in S : f[x] \in Int, NEW a \in S
    PROVE  SumFunctionOnSet(f, S) = f[a] + SumFunctionOnSet(f, S \ {a})
<1> DEFINE Sum(s) == SumFunctionOnSet(f, s)
           Bad == {s \in SUBSET S : \E b \in s : Sum(s) # f[b] + Sum(s \ {b})}
<1>0. \A s \in SUBSET S : IsFiniteSet(s) /\ Sum(s) \in Int
  <2>1. ASSUME NEW s \in SUBSET S PROVE IsFiniteSet(s) /\ Sum(s) \in Int
    <3>1. IsFiniteSet(s)
      BY FS_Subset
    <3>2. QED
      BY <3>1, SumType
  <2>2. QED
    BY <2>1
<1>a. \A s \in SUBSET S : s # {} => Pick(s) \in s /\ Sum(s) = f[Pick(s)] + Sum(s \ {Pick(s)})
  BY <1>0, SumStep
<1> HIDE DEF Sum
<1>1. ASSUME Bad # {} PROVE FALSE
  <2>1. PICK s \in Bad : \A t \in Bad : t \subseteq s => t = s
    <3>1. Bad \subseteq SUBSET S
      OBVIOUS
    <3> HIDE DEF Bad
    <3>2. QED
      BY <1>1, <3>1, MinimalSubset
  <2>2. PICK b \in s : Sum(s) # f[b] + Sum(s \ {b})
    BY <2>1
  <2> DEFINE x == Pick(s)
  <2>3. s \in SUBSET S /\ s # {}
    BY <2>1, <2>2
  <2>4. x \in s /\ Sum(s) = f[x] + Sum(s \ {x})
    BY <1>a, <2>3
  <2> HIDE DEF x
  <2>5. x # b
    BY <2>2, <2>4
  <2>6. s \ {x} \notin Bad /\ s \ {b} \notin Bad
    BY <2>1, <2>2, <2>4
  <2>7. Sum(s \ {x}) = f[b] + Sum((s \ {x}) \ {b})
    BY <2>2, <2>3, <2>5, <2>6
  <2>8. Sum(s \ {b}) = f[x] + Sum((s \ {b}) \ {x})
    BY <2>3, <2>4, <2>5, <2>6
  <2>9. (s \ {x}) \ {b} = (s \ {b}) \ {x}
    OBVIOUS
  <2>10. f[x] \in Int /\ f[b] \in Int /\ Sum((s \ {b}) \ {x}) \in Int
    BY <1>0, <2>2, <2>3, <2>4
  <2> HIDE DEF Bad
  <2>11. Sum(s) = f[x] + (f[b] + Sum((s \ {b}) \ {x}))
    BY <2>4, <2>7, <2>9
  <2>12. QED
    BY <2>2, <2>8, <2>10, <2>11
<1>2. S \notin Bad
  BY <1>1
<1>3. QED
  BY <1>2 DEF Sum

(* Changing one summand changes the sum by the difference. *)
LEMMA SumExcept ==
    ASSUME NEW S, IsFiniteSet(S), NEW f \in [S -> Int], NEW a \in S, NEW v \in Int
    PROVE  SumFunctionOnSet([f EXCEPT ![a] = v], S) = SumFunctionOnSet(f, S) + v - f[a]
<1> SUFFICES ASSUME NEW e, e = [f EXCEPT ![a] = v]
             PROVE  SumFunctionOnSet(e, S) = SumFunctionOnSet(f, S) + v - f[a]
  OBVIOUS
<1> DEFINE T == S \ {a}
<1>0. IsFiniteSet(T)
  BY FS_RemoveElement
<1>1. \A x \in S : f[x] \in Int
  OBVIOUS
<1>2. \A x \in S : e[x] \in Int
  OBVIOUS
<1>3. e[a] = v /\ \A x \in T : e[x] = f[x]
  OBVIOUS
<1>4. \A x \in T : f[x] \in Int
  OBVIOUS
<1>5. SumFunctionOnSet(e, S) = e[a] + SumFunctionOnSet(e, T)
  BY <1>2, SumRemove
<1>6. SumFunctionOnSet(f, S) = f[a] + SumFunctionOnSet(f, T)
  BY <1>1, SumRemove
<1> HIDE DEF T
<1>7. SumFunctionOnSet(f, T) \in Int
  BY <1>0, <1>4, SumType
<1>8. SumFunctionOnSet(e, T) = SumFunctionOnSet(f, T)
  BY <1>0, <1>3, <1>4, SumAgree
<1>9. QED
  BY <1>1, <1>3, <1>5, <1>6, <1>7, <1>8

(* The same for two functions that differ in one place. *)
LEMMA SumChange ==
    ASSUME NEW S, IsFiniteSet(S), NEW f \in [S -> Int], NEW g \in [S -> Int], NEW a \in S,
           \A x \in S \ {a} : g[x] = f[x]
    PROVE  SumFunctionOnSet(g, S) = SumFunctionOnSet(f, S) + g[a] - f[a]
<1>1. PICK v \in Int : v = g[a]
  OBVIOUS
<1>2. SumFunctionOnSet([f EXCEPT ![a] = v], S) = SumFunctionOnSet(f, S) + v - f[a]
  BY SumExcept
<1>3. g = [f EXCEPT ![a] = v]
  BY <1>1
<1>4. QED
  BY <1>1, <1>2, <1>3

(* Zeroing a summand takes it out of the sum. *)
LEMMA SumClear ==
    ASSUME NEW S, IsFiniteSet(S), NEW f \in [S -> Int], NEW a \in S
    PROVE  SumFunctionOnSet([f EXCEPT ![a] = 0], S) = SumFunctionOnSet(f, S) - f[a]
<1>1. PICK v \in Int : v = 0
  OBVIOUS
<1>2. SumFunctionOnSet([f EXCEPT ![a] = v], S) = SumFunctionOnSet(f, S) + v - f[a]
  BY SumExcept
<1>3. SumFunctionOnSet(f, S) \in Int /\ f[a] \in Int
  BY SumType
<1>4. QED
  BY <1>1, <1>2, <1>3

(* A sum of zeros is zero. *)
LEMMA SumZero ==
    ASSUME NEW S, IsFiniteSet(S), NEW f, \A x \in S : f[x] = 0
    PROVE  SumFunctionOnSet(f, S) = 0
<1> DEFINE Bad == {s \in SUBSET S : SumFunctionOnSet(f, s) # 0}
<1>1. ASSUME Bad # {} PROVE FALSE
  <2>1. PICK s \in Bad : \A t \in Bad : t \subseteq s => t = s
    <3>1. Bad \subseteq SUBSET S
      OBVIOUS
    <3> HIDE DEF Bad
    <3>2. QED
      BY <1>1, <3>1, MinimalSubset
  <2>2. s # {} /\ IsFiniteSet(s)
    BY <2>1, SumEmpty, FS_Subset
  <2>3. Pick(s) \in s /\ SumFunctionOnSet(f, s) = f[Pick(s)] + SumFunctionOnSet(f, s \ {Pick(s)})
    <3>1. \A x \in s : f[x] \in Int
      BY <2>1
    <3>2. QED
      BY <2>2, <3>1, SumStep
  <2>4. SumFunctionOnSet(f, s \ {Pick(s)}) = 0
    BY <2>1, <2>3
  <2>5. QED
    BY <2>1, <2>3, <2>4
<1>2. QED
  BY <1>1

(* A sum is monotonic in its summands. *)
LEMMA SumMonotonic ==
    ASSUME NEW S, IsFiniteSet(S), NEW f, NEW e,
           \A x \in S : f[x] \in Int /\ e[x] \in Int /\ f[x] <= e[x]
    PROVE  SumFunctionOnSet(f, S) <= SumFunctionOnSet(e, S)
<1> DEFINE Bad == {s \in SUBSET S : ~(SumFunctionOnSet(f, s) <= SumFunctionOnSet(e, s))}
<1>1. ASSUME Bad # {} PROVE FALSE
  <2>1. PICK s \in Bad : \A t \in Bad : t \subseteq s => t = s
    <3>1. Bad \subseteq SUBSET S
      OBVIOUS
    <3> HIDE DEF Bad
    <3>2. QED
      BY <1>1, <3>1, MinimalSubset
  <2>2. s # {} /\ IsFiniteSet(s)
    <3>1. SumFunctionOnSet(f, {}) = 0 /\ SumFunctionOnSet(e, {}) = 0
      BY SumEmpty
    <3>2. {} \notin Bad
      BY <3>1
    <3>3. s \in SUBSET S
      BY <2>1
    <3> HIDE DEF Bad
    <3>4. QED
      BY <3>2, <3>3, FS_Subset
  <2> DEFINE x == Pick(s)
             t == s \ {x}
  <2>3. x \in s /\ SumFunctionOnSet(f, s) = f[x] + SumFunctionOnSet(f, t)
    BY <2>2, SumStep
  <2>4. SumFunctionOnSet(e, s) = e[x] + SumFunctionOnSet(e, t)
    BY <2>2, SumStep
  <2>5. SumFunctionOnSet(f, t) <= SumFunctionOnSet(e, t)
    BY <2>1, <2>3
  <2>6. IsFiniteSet(t)
    BY <2>2, FS_RemoveElement
  <2> HIDE DEF x, t
  <2>7. SumFunctionOnSet(f, t) \in Int /\ SumFunctionOnSet(e, t) \in Int
    BY <2>6, SumType DEF t
  <2>8. QED
    BY <2>1, <2>3, <2>4, <2>5, <2>7
<1>2. QED
  BY <1>1

(* A sum of numbers between 0 and m is between 0 and m for each of them.   *)
LEMMA SumBounded ==
    ASSUME NEW S, IsFiniteSet(S), NEW m \in Nat, NEW f, \A x \in S : f[x] \in 0 .. m
    PROVE  SumFunctionOnSet(f, S) \in 0 .. Cardinality(S) * m
<1> DEFINE Sum(s) == SumFunctionOnSet(f, s)
           Bad == {s \in SUBSET S : ~(Sum(s) \in 0 .. Cardinality(s) * m)}
<1>1. ASSUME Bad # {} PROVE FALSE
  <2>1. PICK s \in Bad : \A t \in Bad : t \subseteq s => t = s
    <3>1. Bad \subseteq SUBSET S
      OBVIOUS
    <3> HIDE DEF Bad
    <3>2. QED
      BY <1>1, <3>1, MinimalSubset
  <2>2. s \in SUBSET S /\ ~(Sum(s) \in 0 .. Cardinality(s) * m)
    OBVIOUS
  <2>3. IsFiniteSet(s)
    BY <2>2, FS_Subset
  <2>4. s # {}
    <3>1. Sum({}) = 0 /\ Cardinality({}) = 0
      BY SumEmpty, FS_EmptySet
    <3>2. Sum({}) \in 0 .. Cardinality({}) * m
      <4>1. 0 * m = 0
        OBVIOUS
      <4> HIDE DEF Sum
      <4>2. QED
        BY <3>1, <4>1
    <3> HIDE DEF Sum
    <3>3. QED
      BY <2>2, <3>2
  <2>5. PICK a \in s : TRUE
    BY <2>4
  <2> DEFINE t == s \ {a}
  <2>6. t \in SUBSET S /\ t \subseteq s /\ t # s
    BY <2>2
  <2>7. Sum(t) \in 0 .. Cardinality(t) * m
    BY <2>1, <2>6
  <2>8. Sum(s) = f[a] + Sum(t)
    <3>1. \A x \in s : f[x] \in Int
      BY <2>2
    <3>2. QED
      BY <2>3, <3>1, SumRemove
  <2>9. IsFiniteSet(t) /\ Cardinality(t) = Cardinality(s) - 1 /\ Cardinality(s) \in Nat
    BY <2>3, FS_RemoveElement, FS_CardinalityType
  <2>10. PICK c \in Nat : c = Cardinality(t)
    BY <2>9, FS_CardinalityType
  <2>11. Cardinality(s) = c + 1
    BY <2>9, <2>10
  <2>12. (c + 1) * m = c * m + m /\ c * m \in Nat
    OBVIOUS
  <2>13. f[a] \in 0 .. m
    BY <2>2
  <2> HIDE DEF Sum, t, Bad
  <2>14. Sum(s) \in 0 .. (c + 1) * m
    BY <2>7, <2>8, <2>10, <2>12, <2>13
  <2>15. QED
    BY <2>2, <2>11, <2>14
<1>2. S \notin Bad
  BY <1>1
<1>3. QED
  BY <1>2
=============================================================================

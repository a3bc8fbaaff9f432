------------------------ MODULE RollingWindow_proofs ------------------------
(***************************************************************************)
(* The operations of the rolling window keep it well formed, for every     *)
(* number of buckets and every clock reading.  The work is in the sum of   *)
(* the evicted buckets, a recursive function, which is first shown to be   *)
(* well defined.                                                           *)
(***************************************************************************)
EXTENDS RollingWindow, Sums

(* Wrapping around leaves an int64, and leaves one that fits alone.         *)
LEMMA WrapType ==
    ASSUME NEW x \in Int
    PROVE  /\ int64(x) \in Int64
           /\ x \in Int64 => int64(x) = x
<1> DEFINE m == 2 * (MaxInt64 + 1)
           r == (x + MaxInt64 + 1) % m
<1>1. MaxInt64 \in Nat /\ m \in Nat \ {0}
  BY IntAssumption
<1>2. int64(x) = r - (MaxInt64 + 1)
  BY DEF int64
<1>3. x + MaxInt64 + 1 \in Int
  BY <1>1
<1>4. r \in 0 .. (m - 1)
  <2> HIDE DEF m
  <2>1. QED
    BY <1>1, <1>3
<1>5. x \in Int64 => r = x + MaxInt64 + 1
  <2>1. SUFFICES ASSUME x \in Int64 PROVE r = x + MaxInt64 + 1
    OBVIOUS
  <2>2. x + MaxInt64 + 1 \in 0 .. (m - 1)
    BY <1>1, <2>1 DEF Int64
  <2> HIDE DEF m
  <2>3. QED
    BY <1>1, <2>2
<1> HIDE DEF r
<1>6. QED
  BY <1>1, <1>2, <1>4, <1>5 DEF Int64

(* Zero is an int64, and an int64 is an integer. *)
LEMMA Int64Facts == 0 \in Int64 /\ Int64 \subseteq Int
BY IntAssumption DEF Int64

\* The bucket visited by the i-th iteration of the eviction loop.
Visited(w, n, i) == w.buckets[HeadAfter(w, n, i)]

(* A bucket index computed modulo the number of buckets is a bucket index. *)
LEMMA VisitedType ==
    ASSUME NEW n \in Nat \ {0}, NEW w \in WindowType(n), NEW i \in Nat
    PROVE  /\ HeadAfter(w, n, i) \in Slots(n)
           /\ Visited(w, n, i) \in Int
<1>1. w.headIdx \in Slots(n) /\ w.buckets \in [Slots(n) -> Int]
  BY Int64Facts DEF WindowType
<1>2. HeadAfter(w, n, i) \in Slots(n)
  BY <1>1 DEF Slots, HeadAfter
<1>3. QED
  BY <1>1, <1>2 DEF Visited

(* The prefix sums of the visited buckets exist: they can be extended by   *)
(* one bucket at a time, so there is no least length for which they don't. *)
LEMMA PrefixSumsExist ==
    ASSUME NEW n \in Nat \ {0}, NEW w \in WindowType(n), NEW k \in Nat
    PROVE  \E g \in [0 .. k -> Int] :
               /\ g[0] = 0
               /\ \A i \in 1 .. k : g[i] = g[i - 1] + Visited(w, n, i)
<1> DEFINE Sums(g, m) == /\ g \in [0 .. m -> Int]
                         /\ g[0] = 0
                         /\ \A i \in 1 .. m : g[i] = g[i - 1] + Visited(w, n, i)
           Bad == {m \in Nat : ~ \E g \in [0 .. m -> Int] : Sums(g, m)}
<1>1. SUFFICES ASSUME Bad # {} PROVE FALSE
  OBVIOUS
<1>2. PICK m \in Bad : \A y \in Bad : m <= y
  BY <1>1, LeastNatural
<1>3. m \in Nat /\ ~ \E g \in [0 .. m -> Int] : Sums(g, m)
  BY <1>2
<1>4. m # 0
  <2>1. Sums([i \in 0 .. 0 |-> 0], 0)
    OBVIOUS
  <2>2. QED
    BY <2>1, <1>3
<1>5. m - 1 \in Nat /\ m - 1 \notin Bad
  <2> HIDE DEF Bad
  <2>1. m - 1 \in Nat /\ ~(m <= m - 1)
    BY <1>3, <1>4
  <2>2. QED
    BY <1>2, <2>1
<1>6. PICK g \in [0 .. (m - 1) -> Int] : Sums(g, m - 1)
  BY <1>5
<1> DEFINE h == [i \in 0 .. m |-> IF i = m THEN g[m - 1] + Visited(w, n, m) ELSE g[i]]
<1>7. Visited(w, n, m) \in Int
  BY <1>3, VisitedType
<1>8. Sums(h, m)
  <2>1. h \in [0 .. m -> Int]
    BY <1>3, <1>4, <1>6, <1>7
  <2>2. h[0] = 0
    BY <1>3, <1>4, <1>6
  <2>3. ASSUME NEW i \in 1 .. m PROVE h[i] = h[i - 1] + Visited(w, n, i)
    <3>1. CASE i = m
      BY <3>1, <1>3, <1>4
    <3>2. CASE i # m
      BY <3>2, <1>3, <1>4, <1>6
    <3>3. QED
      BY <3>1, <3>2
  <2>4. QED
    BY <2>1, <2>2, <2>3
<1>9. QED
  BY <1>3, <1>8

(* The tokens that advance subtracts from the cached sum are the last of   *)
(* these prefix sums.                                                      *)
LEMMA EvictedIsPrefixSum ==
    ASSUME NEW n \in Nat \ {0}, NEW w \in WindowType(n), NEW k \in Nat
    PROVE  \E g \in [0 .. k -> Int] :
               /\ g[0] = 0
               /\ \A i \in 1 .. k : g[i] = g[i - 1] + Visited(w, n, i)
               /\ EvictedTokens(w, n, k) = g[k]
<1> DEFINE F(g) == [i \in 0 .. k |-> IF i = 0 THEN 0
                                              ELSE g[i - 1] + Visited(w, n, i)]
           sum == CHOOSE g : g = F(g)
           Bad == {m \in 0 .. k : sum[m] \notin Int}
<1>1. PICK g \in [0 .. k -> Int] :
               /\ g[0] = 0
               /\ \A i \in 1 .. k : g[i] = g[i - 1] + Visited(w, n, i)
  BY PrefixSumsExist
<1>2. g = F(g)
  BY <1>1
<1>3. sum = F(sum)
  BY <1>2
<1>4. EvictedTokens(w, n, k) = sum[k]
  BY DEF EvictedTokens, Visited
<1> HIDE DEF sum
<1>5. sum[0] = 0 /\ \A i \in 1 .. k : sum[i] = sum[i - 1] + Visited(w, n, i)
  BY <1>3
<1>6. Bad = {}
  <2>1. SUFFICES ASSUME Bad # {} PROVE FALSE
    OBVIOUS
  <2>a. Bad \subseteq Nat
    OBVIOUS
  <2>2. PICK m \in Bad : \A y \in Bad : m <= y
    <3> HIDE DEF Bad
    <3>1. QED
      BY <2>1, <2>a, LeastNatural
  <2>3. m \in 1 .. k /\ m - 1 \in 0 .. k /\ m - 1 \notin Bad
    BY <2>2, <1>5
  <2>4. sum[m - 1] \in Int /\ Visited(w, n, m) \in Int
    BY <2>3, VisitedType
  <2>5. QED
    BY <2>2, <2>3, <2>4, <1>5
<1>7. sum \in [0 .. k -> Int]
  BY <1>3, <1>6
<1>8. QED
  BY <1>4, <1>5, <1>7

(* They are an integer. *)
LEMMA EvictedTokensType ==
    ASSUME NEW n \in Nat \ {0}, NEW w \in WindowType(n), NEW k \in Nat
    PROVE  EvictedTokens(w, n, k) \in Int
BY EvictedIsPrefixSum

(* A fresh window is well formed (NewRollingWindow). *)
LEMMA NewWindowType ==
    ASSUME NEW n \in Nat \ {0}, NEW t \in Int
    PROVE  NewRollingWindow(n, t) \in WindowType(n)
BY Int64Facts DEF NewRollingWindow, WindowType, Slots

(* advance keeps the window well formed, whichever way the clock moved.    *)
LEMMA AdvanceType ==
    ASSUME NEW n \in Nat \ {0}, NEW w \in WindowType(n), NEW t \in Int
    PROVE  advance(w, n, t) \in WindowType(n)
<1> DEFINE elapsed == t - w.headTime
<1>1. /\ w.buckets \in [Slots(n) -> Int64] /\ w.headIdx \in Slots(n)
      /\ w.headTime \in Int /\ w.total \in Int
  BY Int64Facts DEF WindowType
<1>2. CASE elapsed <= 0
  BY <1>2 DEF advance
<1>3. CASE ~(elapsed <= 0) /\ WholeWindowExpired(elapsed, n)
  <2>1. advance(w, n, t) = NewRollingWindow(n, t)
    BY <1>3 DEF advance
  <2>2. QED
    BY <2>1, NewWindowType
<1>4. CASE ~(elapsed <= 0) /\ ~WholeWindowExpired(elapsed, n)
  <2>1. elapsed \in Nat
    BY <1>1, <1>4
  <2>2. EvictedTokens(w, n, elapsed) \in Int
    BY <2>1, EvictedTokensType
  <2>3. HeadAfter(w, n, elapsed) \in Slots(n)
    BY <2>1, VisitedType
  <2> DEFINE b == [i \in Slots(n) |-> IF i \in Expired(w, n, elapsed)
                                      THEN 0 ELSE w.buckets[i]]
             tot == int64(w.total - EvictedTokens(w, n, elapsed))
             hd == HeadAfter(w, n, elapsed)
  <2>4. b \in [Slots(n) -> Int64]
    BY <1>1, Int64Facts
  <2>5. tot \in Int64
    BY <1>1, <2>2, WrapType
  <2>6. advance(w, n, t) = [buckets |-> b, headIdx |-> hd, headTime |-> t, total |-> tot]
    BY <1>4 DEF advance
  <2> HIDE DEF b, tot, hd
  <2>7. QED
    BY <2>3, <2>4, <2>5, <2>6 DEF WindowType, hd
<1>5. QED
  BY <1>2, <1>3, <1>4

(* Add keeps the window well formed. *)
LEMMA AddType ==
    ASSUME NEW n \in Nat \ {0}, NEW w \in WindowType(n), NEW t \in Int,
           NEW tokens \in Int
    PROVE  Add(w, n, t, tokens) \in WindowType(n)
<1> DEFINE a == advance(w, n, t)
<1>1. a \in WindowType(n)
  BY AdvanceType
<1> HIDE DEF a
<1> DEFINE b == [a.buckets EXCEPT ![a.headIdx] = int64(@ + tokens)]
           c == Clamped(int64(a.total + tokens))
<1>a. /\ a.buckets \in [Slots(n) -> Int64] /\ a.headIdx \in Slots(n)
      /\ a.buckets[a.headIdx] \in Int /\ a.total \in Int
  BY <1>1, Int64Facts DEF WindowType
<1>b. int64(a.buckets[a.headIdx] + tokens) \in Int64 /\ int64(a.total + tokens) \in Int64
  BY <1>a, WrapType
<1>2. b \in [Slots(n) -> Int64]
  BY <1>a, <1>b
<1>3. c \in Int64
  BY <1>b, Int64Facts DEF Clamped
<1>4. Add(w, n, t, tokens) = [a EXCEPT !.buckets = b, !.total = c]
  BY DEF Add, a
<1> HIDE DEF b, c
<1>5. [a EXCEPT !.buckets = b, !.total = c] \in WindowType(n)
  BY <1>1, <1>2, <1>3 DEF WindowType
<1>6. QED
  BY <1>4, <1>5

(* Total never reports a negative number of tokens. *)
LEMMA TotalType ==
    ASSUME NEW n \in Nat \ {0}, NEW w \in WindowType(n), NEW t \in Int
    PROVE  Total(w, n, t) \in Nat
<1> DEFINE a == advance(w, n, t)
<1>1. a \in WindowType(n)
  BY AdvanceType
<1> HIDE DEF a
<1>a. a.total \in Int
  BY <1>1, Int64Facts DEF WindowType
<1>2. Clamped(a.total) \in Nat
  BY <1>a DEF Clamped
<1>3. QED
  BY <1>2 DEF Total, a

-----------------------------------------------------------------------------
(* The remainder of a division is unique. *)
LEMMA ModUnique ==
    ASSUME NEW n \in Nat \ {0}, NEW q \in Int, NEW r \in 0 .. (n - 1)
    PROVE  (n * q + r) % n = r
OBVIOUS

(* An index less than two rings long is reduced by at most one ring.       *)
LEMMA SmallMod ==
    ASSUME NEW n \in Nat \ {0}, NEW x \in 0 .. (2 * n - 1)
    PROVE  x % n = IF x < n THEN x ELSE x - n
<1>1. CASE x < n
  BY <1>1
<1>2. CASE ~(x < n)
  <2>1. x - n \in 0 .. (n - 1) /\ x = n * 1 + (x - n)
    BY <1>2
  <2>2. QED
    BY <1>2, <2>1, ModUnique
<1>3. QED
  BY <1>1, <1>2

(* A summand may be reduced before it is added, *)
LEMMA ModAdd ==
    ASSUME NEW m \in Nat \ {0}, NEW x \in Int, NEW t \in Int
    PROVE  ((x % m) + t) % m = (x + t) % m
<1> DEFINE q == x \div m
           y == (x % m) + t
           p == y \div m
           r == y % m
<1>1. q \in Int /\ p \in Int /\ r \in 0 .. (m - 1) /\ x % m \in Int
  OBVIOUS
<1>2. x = m * q + (x % m) /\ y = m * p + r
  OBVIOUS
<1>3. x + t = m * q + m * p + r
  BY <1>1, <1>2
<1>4. m * q + m * p = m * (q + p) /\ q + p \in Int
  BY <1>1
<1>5. x + t = m * (q + p) + r
  BY <1>3, <1>4
<1> HIDE DEF q, p, r, y
<1>6. (x + t) % m = r
  BY <1>1, <1>4, <1>5, ModUnique
<1>7. QED
  BY <1>6 DEF r, y

(* so wrapping around once at the end is as good as after every addition.  *)
LEMMA WrapAdd ==
    ASSUME NEW x \in Int, NEW t \in Int
    PROVE  int64(int64(x) + t) = int64(x + t)
<1> DEFINE h == MaxInt64 + 1
           m == 2 * h
           y == x + MaxInt64 + 1
<1>1. h \in Int /\ m \in Nat \ {0} /\ y \in Int
  BY IntAssumption
<1>2. int64(x) = (y % m) - h /\ int64(x + t) = ((x + t + MaxInt64 + 1) % m) - h
  BY DEF int64
<1>3. x + t + MaxInt64 + 1 = y + t
  BY IntAssumption
<1>4. int64(int64(x) + t) = ((int64(x) + t + MaxInt64 + 1) % m) - h
  BY DEF int64
<1>5. y % m \in Int
  BY <1>1
<1>6. int64(x) + t + MaxInt64 + 1 = (y % m) + t
  <2> HIDE DEF m, y
  <2>1. QED
    BY <1>2, <1>5, IntAssumption
<1> HIDE DEF m, y
<1>7. ((y % m) + t) % m = (y + t) % m
  BY <1>1, ModAdd
<1>8. QED
  BY <1>2, <1>3, <1>4, <1>6, <1>7

(* The bucket that the k-th iteration of the eviction loop visits. *)
LEMMA HeadAfterValue ==
    ASSUME NEW n \in Nat \ {0}, NEW w \in WindowType(n), NEW k \in 1 .. n
    PROVE  HeadAfter(w, n, k) = IF w.headIdx + k < n THEN w.headIdx + k
                                                     ELSE w.headIdx + k - n
<1>1. w.headIdx \in 0 .. (n - 1)
  BY DEF WindowType, Slots
<1>2. PICK x \in 0 .. (2 * n - 1) : x = w.headIdx + k
  BY <1>1
<1>3. x % n = IF x < n THEN x ELSE x - n
  BY SmallMod
<1>4. HeadAfter(w, n, k) = x % n
  BY <1>2 DEF HeadAfter
<1>5. QED
  BY <1>1, <1>2, <1>3, <1>4

(* The eviction loop meets a bucket once: within one ring, different steps *)
(* from the head are different buckets.                                    *)
LEMMA HeadAfterInjective ==
    ASSUME NEW n \in Nat \ {0}, NEW w \in WindowType(n),
           NEW i \in 1 .. n, NEW j \in 1 .. n, i # j
    PROVE  HeadAfter(w, n, i) # HeadAfter(w, n, j)
<1>1. w.headIdx \in 0 .. (n - 1)
  BY DEF WindowType, Slots
<1>2. \A k \in 1 .. n : HeadAfter(w, n, k) = IF w.headIdx + k < n THEN w.headIdx + k
                                                                ELSE w.headIdx + k - n
  BY HeadAfterValue
<1>3. QED
  BY <1>1, <1>2

\* The buckets after the first m iterations of the eviction loop.
Zeroed(w, n, m) == [i \in Slots(n) |-> IF i \in Expired(w, n, m) THEN 0 ELSE w.buckets[i]]

(* One more iteration zeroes one more bucket, which held what it holds.    *)
LEMMA ZeroedStep ==
    ASSUME NEW n \in Nat \ {0}, NEW w \in WindowType(n), NEW m \in 1 .. (n - 1)
    PROVE  /\ Zeroed(w, n, m) = [Zeroed(w, n, m - 1) EXCEPT ![HeadAfter(w, n, m)] = 0]
           /\ Zeroed(w, n, m - 1)[HeadAfter(w, n, m)] = Visited(w, n, m)
<1> DEFINE h == HeadAfter(w, n, m)
<1>1. h \in Slots(n)
  BY VisitedType
<1>2. Expired(w, n, m) = Expired(w, n, m - 1) \cup {h}
  BY DEF Expired
<1>3. h \notin Expired(w, n, m - 1)
  <2>1. ASSUME NEW i \in 1 .. (m - 1) PROVE HeadAfter(w, n, i) # h
    <3>1. i \in 1 .. n /\ m \in 1 .. n /\ i # m
      OBVIOUS
    <3>2. QED
      BY <3>1, HeadAfterInjective
  <2>2. QED
    BY <2>1 DEF Expired
<1> HIDE DEF h
<1>4. Zeroed(w, n, m) = [Zeroed(w, n, m - 1) EXCEPT ![h] = 0]
  BY <1>1, <1>2 DEF Zeroed
<1>5. Zeroed(w, n, m - 1)[h] = w.buckets[h]
  BY <1>1, <1>3 DEF Zeroed
<1>6. QED
  BY <1>4, <1>5 DEF h, Visited

(* The tokens subtracted from the cached sum are those zeroed in the ring. *)
LEMMA ZeroedSum ==
    ASSUME NEW n \in Nat \ {0}, NEW w \in WindowType(n), NEW k \in 0 .. (n - 1)
    PROVE  SumFunctionOnSet(Zeroed(w, n, k), Slots(n))
               = SumFunctionOnSet(w.buckets, Slots(n)) - EvictedTokens(w, n, k)
<1> DEFINE S == Slots(n)
           Sum(m) == SumFunctionOnSet(Zeroed(w, n, m), S)
           all == SumFunctionOnSet(w.buckets, S)
<1>1. IsFiniteSet(S) /\ w.buckets \in [S -> Int]
  <2>1. 0 \in Int /\ n - 1 \in Int
    OBVIOUS
  <2>2. IsFiniteSet(0 .. (n - 1))
    BY <2>1, FS_Interval
  <2>3. QED
    BY <2>2, Int64Facts DEF Slots, WindowType
<1>2. all \in Int
  BY <1>1, SumType
<1>3. ASSUME NEW m \in 0 .. k PROVE Zeroed(w, n, m) \in [S -> Int] /\ Sum(m) \in Int
  <2>1. Zeroed(w, n, m) \in [S -> Int]
    BY <1>1 DEF Zeroed
  <2>2. QED
    BY <1>1, <2>1, SumType
<1>4. PICK g \in [0 .. k -> Int] :
               /\ g[0] = 0
               /\ \A i \in 1 .. k : g[i] = g[i - 1] + Visited(w, n, i)
               /\ EvictedTokens(w, n, k) = g[k]
  <2>1. k \in Nat
    OBVIOUS
  <2>2. QED
    BY <2>1, EvictedIsPrefixSum
<1>5. Sum(0) = all
  <2>1. Expired(w, n, 0) = {}
    BY DEF Expired
  <2>2. Zeroed(w, n, 0) = w.buckets
    BY <1>1, <2>1 DEF Zeroed
  <2>3. QED
    BY <2>2
<1>6. ASSUME NEW m \in 1 .. k PROVE Sum(m) = Sum(m - 1) - Visited(w, n, m)
  <2> DEFINE h == HeadAfter(w, n, m)
             b == Zeroed(w, n, m - 1)
  <2>1. h \in S /\ b \in [S -> Int] /\ Visited(w, n, m) \in Int
    <3>1. m \in Nat /\ m - 1 \in 0 .. k
      OBVIOUS
    <3>2. h \in S /\ Visited(w, n, m) \in Int
      BY <3>1, VisitedType
    <3>3. QED
      BY <3>1, <3>2, <1>3
  <2>2. Zeroed(w, n, m) = [b EXCEPT ![h] = 0] /\ b[h] = Visited(w, n, m)
    BY ZeroedStep
  <2>3. SumFunctionOnSet(b, S) \in Int
    BY <1>1, <2>1, SumType
  <2> HIDE DEF h, b, S
  <2>4. SumFunctionOnSet([b EXCEPT ![h] = 0], S) = SumFunctionOnSet(b, S) - b[h]
    BY <1>1, <2>1, SumClear
  <2>5. QED
    BY <2>1, <2>2, <2>3, <2>4 DEF b
<1> DEFINE Bad == {m \in 0 .. k : Sum(m) # all - g[m]}
<1> HIDE DEF Sum, all
<1>7. Bad = {}
  <2>1. SUFFICES ASSUME Bad # {} PROVE FALSE
    OBVIOUS
  <2>2. Bad \subseteq Nat
    OBVIOUS
  <2>3. PICK m \in Bad : \A y \in Bad : m <= y
    <3> HIDE DEF Bad
    <3>1. QED
      BY <2>1, <2>2, LeastNatural
  <2>4. m \in 1 .. k /\ m - 1 \in 0 .. k /\ m - 1 \notin Bad
    BY <2>3, <1>2, <1>4, <1>5
  <2>5. Sum(m - 1) = all - g[m - 1] /\ Visited(w, n, m) \in Int
    BY <2>4, VisitedType
  <2>6. QED
    BY <2>3, <2>4, <2>5, <1>2, <1>4, <1>6
<1>8. QED
  BY <1>4, <1>7 DEF Sum, all

(* What the ring is after some but not all of its seconds have passed.     *)
LEMMA AdvancePartly ==
    ASSUME NEW n \in Nat \ {0}, NEW w \in WindowType(n), NEW t \in Int,
           t - w.headTime \in 1 .. (n - 1)
    PROVE  advance(w, n, t) = [buckets  |-> Zeroed(w, n, t - w.headTime),
                               headIdx  |-> HeadAfter(w, n, t - w.headTime),
                               headTime |-> t,
                               total    |-> int64(w.total - EvictedTokens(w, n, t - w.headTime))]
<1>1. w.headTime \in Int
  BY DEF WindowType
<1>2. ~(t - w.headTime <= 0) /\ ~WholeWindowExpired(t - w.headTime, n)
  BY <1>1 DEF WholeWindowExpired
<1>3. QED
  BY <1>2 DEF advance, Zeroed

(* What the ring is otherwise. *)
LEMMA AdvanceOtherwise ==
    ASSUME NEW n \in Nat \ {0}, NEW w \in WindowType(n), NEW t \in Int
    PROVE  /\ t - w.headTime <= 0 => advance(w, n, t) = w
           /\ t - w.headTime >= n => advance(w, n, t) = NewRollingWindow(n, t)
<1>1. w.headTime \in Int
  BY DEF WindowType
<1>2. QED
  BY <1>1 DEF advance, WholeWindowExpired

(* Within the second of the head, and as long as the sum is an int64 and   *)
(* not negative, Add adds and Total reads.                                 *)
LEMMA AtHead ==
    ASSUME NEW n \in Nat \ {0}, NEW w \in WindowType(n), NEW tokens \in Int
    PROVE  /\ advance(w, n, w.headTime) = w
           /\ w.total >= 0 => Total(w, n, w.headTime) = w.total
           /\ Add(w, n, w.headTime, tokens).headTime = w.headTime
           /\ w.total + tokens \in 0 .. MaxInt64 =>
                 Add(w, n, w.headTime, tokens).total = w.total + tokens
<1>1. w.headTime \in Int /\ w.total \in Int /\ MaxInt64 \in Nat
  BY Int64Facts, IntAssumption DEF WindowType
<1>2. advance(w, n, w.headTime) = w
  BY <1>1, AdvanceOtherwise
<1>3. w.total >= 0 => Total(w, n, w.headTime) = w.total
  BY <1>1, <1>2 DEF Total, Clamped
<1>4. /\ Add(w, n, w.headTime, tokens).headTime = w.headTime
      /\ Add(w, n, w.headTime, tokens).total = Clamped(int64(w.total + tokens))
  BY <1>2 DEF Add, WindowType
<1>5. ASSUME w.total + tokens \in 0 .. MaxInt64
      PROVE  Add(w, n, w.headTime, tokens).total = w.total + tokens
  <2>1. w.total + tokens \in Int64 /\ w.total + tokens \in Int
    BY <1>1, <1>5 DEF Int64
  <2>2. int64(w.total + tokens) = w.total + tokens
    BY <2>1, WrapType
  <2>3. QED
    BY <1>1, <1>4, <1>5, <2>2 DEF Clamped
<1>6. QED
  BY <1>2, <1>3, <1>4, <1>5
=============================================================================

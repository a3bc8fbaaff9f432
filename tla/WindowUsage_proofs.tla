------------------------- MODULE WindowUsage_proofs -------------------------
(***************************************************************************)
(* The rolling window against its history, for every length of the window, *)
(* every clock and every width of an integer: the ring holds exactly the   *)
(* seconds it stands for, and the cached sum is never below the ring.      *)
(***************************************************************************)
EXTENDS WindowUsage, RollingWindow_proofs

\* The bucket of the second j seconds before the head of w.
SlotBack(w, n, j) == (w.headIdx + n - j) % n

(* The buckets of the last n seconds are different buckets. *)
LEMMA SlotBackValue ==
    ASSUME NEW n \in Nat \ {0}, NEW w \in WindowType(n), NEW j \in Slots(n)
    PROVE  /\ SlotBack(w, n, j) = IF j <= w.headIdx THEN w.headIdx - j
                                                    ELSE w.headIdx + n - j
           /\ SlotBack(w, n, j) \in Slots(n)
<1>1. w.headIdx \in 0 .. (n - 1) /\ j \in 0 .. (n - 1)
  BY DEF WindowType, Slots
<1>2. PICK x \in 0 .. (2 * n - 1) : x = w.headIdx + n - j
  BY <1>1
<1>3. x % n = IF x < n THEN x ELSE x - n
  BY SmallMod
<1>4. SlotBack(w, n, j) = x % n
  BY <1>2 DEF SlotBack
<1>5. QED
  BY <1>1, <1>2, <1>3, <1>4 DEF Slots

\* The ring of w holds the last n seconds of the history h, and nothing has
\* been added to a second after its head.
Holds(w, n, h) == /\ \A j \in Slots(n) :
                        w.buckets[SlotBack(w, n, j)] = int64(h[w.headTime - j])
                  /\ \A s \in Int : s > w.headTime => h[s] = 0

(* advance keeps the ring true to the history. *)
LEMMA AdvanceHolds ==
    ASSUME NEW n \in Nat \ {0}, NEW w \in WindowType(n), NEW t \in Int,
           NEW h \in [Int -> Int], Holds(w, n, h)
    PROVE  Holds(advance(w, n, t), n, h)
<1> DEFINE a == advance(w, n, t)
           e == t - w.headTime
<1>1. /\ w.headTime \in Int /\ w.headIdx \in Slots(n)
      /\ a \in WindowType(n) /\ int64(0) = 0
  <2>1. a \in WindowType(n)
    BY AdvanceType
  <2>2. int64(0) = 0
    BY WrapType, Int64Facts
  <2>3. QED
    BY <2>1, <2>2 DEF WindowType
<1>2. CASE e <= 0
  BY <1>2, AdvanceOtherwise
<1>3. CASE e >= n
  <2>1. a = NewRollingWindow(n, t)
    BY <1>3, AdvanceOtherwise
  <2>2. a.headTime = t /\ \A i \in Slots(n) : a.buckets[i] = 0
    BY <2>1 DEF NewRollingWindow
  <2>3. ASSUME NEW j \in Slots(n) PROVE SlotBack(a, n, j) \in Slots(n) /\ h[t - j] = 0
    <3>1. t - j > w.headTime /\ t - j \in Int
      BY <1>1, <1>3 DEF Slots
    <3>2. SlotBack(a, n, j) \in Slots(n)
      BY <1>1, SlotBackValue
    <3>3. QED
      BY <3>1, <3>2 DEF Holds
  <2>4. \A s \in Int : s > t => h[s] = 0
    BY <1>1, <1>3 DEF Holds
  <2> HIDE DEF a
  <2>5. QED
    BY <1>1, <2>2, <2>3, <2>4 DEF Holds, a
<1>4. CASE e \in 1 .. (n - 1)
  <2>1. /\ a.buckets = Zeroed(w, n, e) /\ a.headIdx = HeadAfter(w, n, e)
        /\ a.headTime = t
    BY <1>4, AdvancePartly
  <2> HIDE DEF a
  <2>2. w.headIdx \in 0 .. (n - 1)
    BY <1>1 DEF Slots
  <2>3. a.headIdx = IF w.headIdx + e < n THEN w.headIdx + e ELSE w.headIdx + e - n
    <3>1. e \in 1 .. n
      BY <1>4
    <3>2. QED
      BY <2>1, <3>1, HeadAfterValue
  <2>4. ASSUME NEW j \in Slots(n)
        PROVE  a.buckets[SlotBack(a, n, j)] = int64(h[t - j])
    <3>1. /\ SlotBack(a, n, j) = IF j <= a.headIdx THEN a.headIdx - j
                                                   ELSE a.headIdx + n - j
          /\ SlotBack(a, n, j) \in Slots(n)
      BY <1>1, SlotBackValue
    <3>2. CASE j < e
      <4>1. e - j \in 1 .. e /\ e - j \in 1 .. n
        BY <1>4, <3>2 DEF Slots
      <4>2. HeadAfter(w, n, e - j) = IF w.headIdx + (e - j) < n THEN w.headIdx + (e - j)
                                                              ELSE w.headIdx + (e - j) - n
        BY <4>1, HeadAfterValue
      <4>3. SlotBack(a, n, j) = HeadAfter(w, n, e - j)
        BY <1>4, <2>2, <2>3, <3>1, <3>2, <4>2 DEF Slots
      <4>4. SlotBack(a, n, j) \in Expired(w, n, e)
        BY <4>1, <4>3 DEF Expired
      <4>5. a.buckets[SlotBack(a, n, j)] = 0
        BY <2>1, <3>1, <4>4 DEF Zeroed
      <4>6. t - j > w.headTime /\ t - j \in Int
        BY <1>1, <1>4, <3>2 DEF Slots
      <4>7. QED
        BY <1>1, <4>5, <4>6 DEF Holds
    <3>3. CASE ~(j < e)
      <4>1. j - e \in Slots(n)
        BY <1>4, <3>3 DEF Slots
      <4>2. SlotBack(w, n, j - e) = IF j - e <= w.headIdx THEN w.headIdx - (j - e)
                                                         ELSE w.headIdx + n - (j - e)
        BY <4>1, SlotBackValue
      <4>3. SlotBack(a, n, j) = SlotBack(w, n, j - e)
        BY <1>4, <2>2, <2>3, <3>1, <3>3, <4>2 DEF Slots
      <4>4. SlotBack(a, n, j) \notin Expired(w, n, e)
        <5>1. ASSUME NEW i \in 1 .. e PROVE HeadAfter(w, n, i) # SlotBack(a, n, j)
          <6>1. i \in 1 .. n
            BY <1>4
          <6>2. HeadAfter(w, n, i) = IF w.headIdx + i < n THEN w.headIdx + i
                                                         ELSE w.headIdx + i - n
            BY <6>1, HeadAfterValue
          <6>3. QED
            BY <1>4, <2>2, <3>3, <4>2, <4>3, <6>2 DEF Slots
        <5>2. QED
          BY <5>1 DEF Expired
      <4>5. a.buckets[SlotBack(a, n, j)] = w.buckets[SlotBack(w, n, j - e)]
        BY <2>1, <3>1, <4>3, <4>4 DEF Zeroed
      <4>6. w.headTime - (j - e) = t - j
        BY <1>1, <1>4 DEF Slots
      <4>7. QED
        BY <4>1, <4>5, <4>6 DEF Holds
    <3>4. QED
      BY <3>2, <3>3
  <2>5. \A s \in Int : s > t => h[s] = 0
    BY <1>1, <1>4 DEF Holds
  <2>6. QED
    BY <2>1, <2>4, <2>5 DEF Holds, a
<1>5. QED
  BY <1>1, <1>2, <1>3, <1>4

(* Add keeps the ring true to the history with the tokens added at its     *)
(* head.                                                                   *)
LEMMA AddHolds ==
    ASSUME NEW n \in Nat \ {0}, NEW w \in WindowType(n), NEW t \in Int, NEW tokens \in Int,
           NEW h \in [Int -> Int], Holds(w, n, h)
    PROVE  Holds(Add(w, n, t, tokens), n,
                 [h EXCEPT ![advance(w, n, t).headTime] = @ + tokens])
<1> DEFINE a == advance(w, n, t)
           b == Add(w, n, t, tokens)
           g == [h EXCEPT ![a.headTime] = @ + tokens]
<1>1. a \in WindowType(n) /\ Holds(a, n, h)
  BY AdvanceType, AdvanceHolds
<1>2. /\ b.headTime = a.headTime /\ b.headIdx = a.headIdx
      /\ b.buckets = [a.buckets EXCEPT ![a.headIdx] = int64(@ + tokens)]
  <2> HIDE DEF a
  <2>1. QED
    BY <1>1 DEF Add, a, WindowType
<1> HIDE DEF a, b
<1>3. /\ a.headIdx \in Slots(n) /\ a.headTime \in Int
      /\ a.buckets \in [Slots(n) -> Int64]
      /\ a.headIdx \in 0 .. (n - 1) /\ 0 \in Slots(n)
  BY <1>1 DEF WindowType, Slots
<1>4. ASSUME NEW j \in Slots(n)
      PROVE  b.buckets[SlotBack(b, n, j)] = int64(g[b.headTime - j])
  <2>1. /\ SlotBack(a, n, j) = IF j <= a.headIdx THEN a.headIdx - j
                                                 ELSE a.headIdx + n - j
        /\ SlotBack(a, n, j) \in Slots(n)
    BY <1>1, SlotBackValue
  <2>2. SlotBack(b, n, j) = SlotBack(a, n, j)
    BY <1>2 DEF SlotBack
  <2>3. a.buckets[SlotBack(a, n, j)] = int64(h[a.headTime - j])
    BY <1>1 DEF Holds
  <2>4. CASE j = 0
    <3>1. SlotBack(a, n, j) = a.headIdx /\ a.headTime - j = a.headTime
      BY <1>3, <2>1, <2>4
    <3>2. g[a.headTime - j] = h[a.headTime] + tokens /\ h[a.headTime] \in Int
      BY <1>3, <3>1
    <3>3. b.buckets[SlotBack(b, n, j)] = int64(int64(h[a.headTime]) + tokens)
      BY <1>2, <1>3, <2>2, <2>3, <3>1
    <3>4. int64(int64(h[a.headTime]) + tokens) = int64(h[a.headTime] + tokens)
      BY <3>2, WrapAdd
    <3>5. QED
      BY <1>2, <3>2, <3>3, <3>4
  <2>5. CASE j # 0
    <3>0. j \in 1 .. (n - 1)
      BY <2>5 DEF Slots
    <3>1. SlotBack(a, n, j) # a.headIdx /\ a.headTime - j # a.headTime /\ a.headTime - j \in Int
      <4>1. SlotBack(a, n, j) # a.headIdx
        BY <1>3, <2>1, <3>0
      <4>2. a.headTime - j # a.headTime /\ a.headTime - j \in Int
        BY <1>3, <3>0
      <4>3. QED
        BY <4>1, <4>2
    <3>2. g[a.headTime - j] = h[a.headTime - j]
      BY <3>1
    <3>3. b.buckets[SlotBack(b, n, j)] = a.buckets[SlotBack(a, n, j)]
      BY <1>2, <1>3, <2>1, <2>2, <3>1
    <3>4. QED
      BY <1>2, <2>3, <3>2, <3>3
  <2>6. QED
    BY <2>4, <2>5
<1>5. \A s \in Int : s > b.headTime => g[s] = 0
  BY <1>1, <1>2, <1>3 DEF Holds
<1>6. QED
  BY <1>4, <1>5 DEF Holds, a, b

-----------------------------------------------------------------------------
\* The tokens in the buckets of a window of n seconds.
Tokens(w, n) == SumFunctionOnSet(w.buckets, Slots(n))

(* advance takes what it zeroes in the ring from the cached sum, so it     *)
(* keeps the sum at or above the ring when the subtraction does not wrap.  *)
LEMMA AdvanceSum ==
    ASSUME NEW n \in Nat \ {0}, NEW w \in WindowType(n), NEW t \in Int
    PROVE  /\ Tokens(w, n) \in Int
           /\ t - w.headTime <= 0 => advance(w, n, t) = w
           /\ t - w.headTime >= n => /\ advance(w, n, t).total = 0
                                     /\ Tokens(advance(w, n, t), n) = 0
           /\ t - w.headTime \in 1 .. (n - 1) =>
                 LET ev == EvictedTokens(w, n, t - w.headTime)
                 IN  /\ ev \in Int
                     /\ advance(w, n, t).total = int64(w.total - ev)
                     /\ Tokens(advance(w, n, t), n) = Tokens(w, n) - ev
<1> DEFINE e == t - w.headTime
<1>1. IsFiniteSet(Slots(n)) /\ w.buckets \in [Slots(n) -> Int]
  <2>1. 0 \in Int /\ n - 1 \in Int
    OBVIOUS
  <2>2. IsFiniteSet(0 .. (n - 1))
    BY <2>1, FS_Interval
  <2>3. QED
    BY <2>2, Int64Facts DEF Slots, WindowType
<1>2. Tokens(w, n) \in Int
  BY <1>1, SumType DEF Tokens
<1>3. ASSUME e >= n
      PROVE  advance(w, n, t).total = 0 /\ Tokens(advance(w, n, t), n) = 0
  <2>1. PICK b : b = advance(w, n, t).buckets
    OBVIOUS
  <2>2. /\ advance(w, n, t).total = 0
        /\ \A i \in Slots(n) : b[i] = 0
    BY <1>3, <2>1, AdvanceOtherwise DEF NewRollingWindow
  <2>3. SumFunctionOnSet(b, Slots(n)) = 0
    BY <1>1, <2>2, SumZero
  <2>4. QED
    BY <2>1, <2>2, <2>3 DEF Tokens
<1>4. ASSUME e \in 1 .. (n - 1)
      PROVE  /\ EvictedTokens(w, n, e) \in Int
             /\ advance(w, n, t).total = int64(w.total - EvictedTokens(w, n, e))
             /\ Tokens(advance(w, n, t), n) = Tokens(w, n) - EvictedTokens(w, n, e)
  <2>1. e \in Nat /\ e \in 0 .. (n - 1)
    BY <1>4
  <2>2. /\ advance(w, n, t).buckets = Zeroed(w, n, e)
        /\ advance(w, n, t).total = int64(w.total - EvictedTokens(w, n, e))
    BY <1>4, AdvancePartly
  <2> HIDE DEF e
  <2>3. EvictedTokens(w, n, e) \in Int
    BY <2>1, EvictedTokensType
  <2>4. SumFunctionOnSet(Zeroed(w, n, e), Slots(n))
            = SumFunctionOnSet(w.buckets, Slots(n)) - EvictedTokens(w, n, e)
    BY <2>1, ZeroedSum
  <2>5. QED
    BY <2>2, <2>3, <2>4 DEF Tokens
<1>5. QED
  BY <1>2, <1>3, <1>4, AdvanceOtherwise

(* Add adds the same to the bucket and to the cached sum, or more to the   *)
(* sum if it is clamped.                                                   *)
LEMMA AddSum ==
    ASSUME NEW n \in Nat \ {0}, NEW w \in WindowType(n), NEW t \in Int, NEW tokens \in Int,
           NEW a, a = advance(w, n, t),
           int64(a.buckets[a.headIdx] + tokens) = a.buckets[a.headIdx] + tokens,
           int64(a.total + tokens) = a.total + tokens,
           a.total >= Tokens(a, n)
    PROVE  Add(w, n, t, tokens).total >= Tokens(Add(w, n, t, tokens), n)
<1>1. a \in WindowType(n) /\ Tokens(a, n) \in Int
  <2>1. a \in WindowType(n)
    BY AdvanceType
  <2>2. QED
    BY <2>1, AdvanceSum
<1>2. /\ IsFiniteSet(Slots(n)) /\ a.buckets \in [Slots(n) -> Int]
      /\ a.headIdx \in Slots(n) /\ a.total \in Int
  <2>1. 0 \in Int /\ n - 1 \in Int
    OBVIOUS
  <2>2. IsFiniteSet(0 .. (n - 1))
    BY <2>1, FS_Interval
  <2>3. QED
    BY <1>1, <2>2, Int64Facts DEF Slots, WindowType
<1>3. PICK v \in Int : v = a.buckets[a.headIdx] + tokens
  BY <1>2
<1>4. /\ Add(w, n, t, tokens).total = Clamped(a.total + tokens)
      /\ Add(w, n, t, tokens).buckets = [a.buckets EXCEPT ![a.headIdx] = v]
  BY <1>1, <1>3 DEF Add, WindowType
<1>5. SumFunctionOnSet([a.buckets EXCEPT ![a.headIdx] = v], Slots(n))
          = SumFunctionOnSet(a.buckets, Slots(n)) + v - a.buckets[a.headIdx]
  BY <1>2, SumExcept
<1>6. a.buckets[a.headIdx] \in Int /\ Clamped(a.total + tokens) >= a.total + tokens
  BY <1>2 DEF Clamped
<1>7. Tokens(Add(w, n, t, tokens), n) = Tokens(a, n) + v - a.buckets[a.headIdx]
  BY <1>4, <1>5 DEF Tokens
<1>8. Clamped(a.total + tokens) \in Int
  BY <1>2 DEF Clamped
<1>9. QED
  BY <1>1, <1>2, <1>3, <1>4, <1>6, <1>7, <1>8

-----------------------------------------------------------------------------
(* The ring's head stands for a second of the clock, and no tokens have    *)
(* been added to a second after it.                                        *)
HeadIsLast == /\ win.headTime \in Seconds
              /\ \A s \in Seconds : s > win.headTime => hist[s] = 0

(* The inductive invariant.  Without HeadIsLast a ring that matches its    *)
(* history could be advanced to seconds that have tokens and lose them.    *)
IInv == TypeOK /\ HeadIsLast /\ RingMatchesHistory /\ CachedSumNeverBelowBuckets

\* The history as a function on all seconds, before and after the run.
FullHistory == [s \in Int |-> History(s)]

(* In these terms the ring's invariants are what advance and Add preserve. *)
LEMMA RingIsHolds ==
    TypeOK /\ win.headTime \in Seconds =>
        /\ FullHistory \in [Int -> Int]
        /\ HeadIsLast /\ RingMatchesHistory <=> Holds(win, WindowSeconds, FullHistory)
<1> SUFFICES ASSUME TypeOK, win.headTime \in Seconds
             PROVE  /\ FullHistory \in [Int -> Int]
                    /\ HeadIsLast /\ RingMatchesHistory
                           <=> Holds(win, WindowSeconds, FullHistory)
  OBVIOUS
<1>0. WindowSeconds \in Nat \ {0} /\ MaxTime \in Nat /\ MaxTokens \in Nat /\ Seconds \subseteq Int
  BY UsageAssumption DEF Seconds
<1>1. win.headTime \in Int /\ hist \in [Seconds -> Int]
  BY <1>0 DEF TypeOK, WindowType
<1>2. FullHistory \in [Int -> Int]
  BY <1>1 DEF FullHistory, History
<1>3. \A j \in Slots(WindowSeconds) : /\ SlotOf(j) = SlotBack(win, WindowSeconds, j)
                                      /\ FullHistory[win.headTime - j] = History(win.headTime - j)
  BY <1>0, <1>1 DEF SlotOf, SlotBack, FullHistory, Slots
<1>4. RingMatchesHistory <=>
          \A j \in Slots(WindowSeconds) :
              win.buckets[SlotBack(win, WindowSeconds, j)] = int64(FullHistory[win.headTime - j])
  BY <1>3 DEF RingMatchesHistory
<1>5. (\A s \in Seconds : s > win.headTime => hist[s] = 0)
          <=> \A s \in Int : s > win.headTime => FullHistory[s] = 0
  BY <1>0 DEF FullHistory, History
<1>6. QED
  BY <1>2, <1>4, <1>5 DEF HeadIsLast, Holds

(* The cached sum in terms of Tokens. *)
LEMMA CachedIsTokens == TypeOK => BucketSum = Tokens(win, WindowSeconds)
<1> SUFFICES ASSUME TypeOK PROVE BucketSum = Tokens(win, WindowSeconds)
  OBVIOUS
<1>1. DOMAIN win.buckets = Slots(WindowSeconds)
  BY DEF TypeOK, WindowType
<1>2. QED
  BY <1>1 DEF BucketSum, Tokens, SumFunction

-----------------------------------------------------------------------------
(* A new window is empty, and so is its history. *)
LEMMA InitIInv == Init => IInv
<1> SUFFICES ASSUME Init PROVE IInv
  OBVIOUS
<1>0. /\ WindowSeconds \in Nat \ {0} /\ MaxTime \in Nat /\ MaxTokens \in Nat
      /\ 0 \in Seconds /\ 0 \in -MaxTokens .. MaxTokens
  BY UsageAssumption DEF Seconds
<1>1. win \in WindowType(WindowSeconds)
  BY <1>0, NewWindowType DEF Init
<1>2. TypeOK
  BY <1>0, <1>1 DEF Init, TypeOK
<1>3. win.headTime = 0 /\ win.total = 0 /\ \A i \in Slots(WindowSeconds) : win.buckets[i] = 0
  BY DEF Init, NewRollingWindow
<1>4. HeadIsLast
  BY <1>0, <1>3 DEF HeadIsLast, Init
<1>5. RingMatchesHistory
  <2>1. int64(0) = 0
    BY WrapType, Int64Facts
  <2>2. ASSUME NEW j \in Slots(WindowSeconds)
        PROVE  win.buckets[SlotOf(j)] = int64(History(win.headTime - j))
    <3>1. SlotBack(win, WindowSeconds, j) \in Slots(WindowSeconds)
      BY <1>0, <1>1, SlotBackValue
    <3>2. SlotOf(j) \in Slots(WindowSeconds)
      BY <3>1 DEF SlotOf, SlotBack
    <3>3. History(win.headTime - j) = 0
      BY DEF History, Init
    <3>4. QED
      BY <1>3, <2>1, <3>2, <3>3
  <2>3. QED
    BY <2>2 DEF RingMatchesHistory
<1>6. CachedSumNeverBelowBuckets
  <2>1. IsFiniteSet(Slots(WindowSeconds))
    <3>1. 0 \in Int /\ WindowSeconds - 1 \in Int
      BY <1>0
    <3>2. QED
      BY <3>1, FS_Interval DEF Slots
  <2>2. PICK b : b = win.buckets
    OBVIOUS
  <2>3. SumFunctionOnSet(b, Slots(WindowSeconds)) = 0
    BY <1>3, <2>1, <2>2, SumZero
  <2>4. QED
    BY <1>2, <1>3, <2>2, <2>3, CachedIsTokens DEF CachedSumNeverBelowBuckets, Tokens
<1>7. QED
  BY <1>2, <1>4, <1>5, <1>6 DEF IInv

(* What both Add and Total do first, in the state of the run: the head     *)
(* stays at a second of the clock, and the cached sum stays at or above    *)
(* the ring unless it has wrapped.                                         *)
LEMMA AdvanceInState ==
    ASSUME IInv
    PROVE  LET a == advance(win, WindowSeconds, now)
           IN  /\ a \in WindowType(WindowSeconds)
               /\ a.headTime \in Seconds
               /\ Holds(a, WindowSeconds, FullHistory)
               /\ WrappedByAdvance \/ a.total >= Tokens(a, WindowSeconds)
<1> DEFINE a == advance(win, WindowSeconds, now)
           n == WindowSeconds
           e == now - win.headTime
<1>0. /\ n \in Nat \ {0} /\ now \in Int /\ win \in WindowType(n)
      /\ win.headTime \in Int /\ win.headTime \in Seconds /\ now \in Seconds
      /\ win.total \in Int
  <2>1. n \in Nat \ {0} /\ now \in Seconds /\ win.headTime \in Seconds /\ win \in WindowType(n)
    BY UsageAssumption DEF IInv, TypeOK, HeadIsLast
  <2>2. Seconds \subseteq Int
    BY UsageAssumption DEF Seconds
  <2>3. win.total \in Int64
    BY <2>1 DEF WindowType
  <2>4. QED
    BY <2>1, <2>2, <2>3, Int64Facts
<1>1. a \in WindowType(n)
  BY <1>0, AdvanceType
<1>2. FullHistory \in [Int -> Int] /\ Holds(win, n, FullHistory)
  BY <1>0, RingIsHolds DEF IInv
<1>3. Holds(a, n, FullHistory)
  BY <1>0, <1>2, AdvanceHolds
<1>4. /\ Tokens(win, n) \in Int
      /\ e <= 0 => a = win
      /\ e >= n => a.total = 0 /\ Tokens(a, n) = 0
      /\ e \in 1 .. (n - 1) => /\ EvictedTokens(win, n, e) \in Int
                               /\ a.total = int64(win.total - EvictedTokens(win, n, e))
                               /\ Tokens(a, n) = Tokens(win, n) - EvictedTokens(win, n, e)
  BY <1>0, AdvanceSum
<1>5. wrapped \/ win.total >= Tokens(win, n)
  BY CachedIsTokens DEF IInv, CachedSumNeverBelowBuckets
<1>6. a.headTime \in Seconds
  <2>1. e \in 1 .. (n - 1) => a.headTime = now
    BY <1>0, AdvancePartly
  <2>2. e >= n => a.headTime = now
    BY <1>0, AdvanceOtherwise DEF NewRollingWindow
  <2>3. e <= 0 \/ e \in 1 .. (n - 1) \/ e >= n
    BY <1>0
  <2> HIDE DEF a
  <2>4. QED
    BY <1>0, <1>4, <2>1, <2>2, <2>3
<1>7. WrappedByAdvance \/ a.total >= Tokens(a, n)
  <2>1. CASE e <= 0
    <3>1. a = win
      BY <2>1, <1>4
    <3>2. WrappedByAdvance = wrapped
      BY <2>1, <1>0 DEF WrappedByAdvance, IInv, TypeOK
    <3>3. QED
      BY <1>5, <3>1, <3>2
  <2>2. CASE e >= n
    BY <2>2, <1>4
  <2>3. CASE e \in 1 .. (n - 1)
    <3> DEFINE ev == EvictedTokens(win, n, e)
    <3>1. /\ ev \in Int /\ a.total = int64(win.total - ev)
          /\ Tokens(a, n) = Tokens(win, n) - ev
      BY <2>3, <1>4
    <3>2. WrappedByAdvance <=> (wrapped \/ int64(win.total - ev) # win.total - ev)
      BY <2>3 DEF WrappedByAdvance, Wraps
    <3> HIDE DEF ev, a
    <3>3. QED
      BY <1>0, <1>4, <1>5, <3>1, <3>2
  <2>4. QED
    BY <1>0, <2>1, <2>2, <2>3
<1>8. QED
  BY <1>1, <1>3, <1>6, <1>7

(* Add preserves the invariant. *)
LEMMA AddTokensIInv ==
    ASSUME IInv, NEW tokens \in Int, AddTokens(tokens)
    PROVE  IInv'
<1> DEFINE n == WindowSeconds
<1>0. /\ n \in Nat \ {0} /\ now \in Int /\ win \in WindowType(n)
      /\ hist \in [Seconds -> Int] /\ Seconds \subseteq Int /\ Holds(win, n, FullHistory)
      /\ FullHistory \in [Int -> Int]
  <2>1. n \in Nat \ {0} /\ Seconds \subseteq Int /\ -MaxTokens .. MaxTokens \subseteq Int
    BY UsageAssumption DEF Seconds
  <2>2. /\ now \in Int /\ win \in WindowType(n) /\ hist \in [Seconds -> Int]
        /\ win.headTime \in Seconds
    BY <2>1 DEF IInv, TypeOK, HeadIsLast
  <2>3. QED
    BY <2>1, <2>2, RingIsHolds DEF IInv
<1>1. PICK a : a = advance(win, n, now)
  OBVIOUS
<1>2. /\ a \in WindowType(n) /\ a.headTime \in Seconds
      /\ WrappedByAdvance \/ a.total >= Tokens(a, n)
  BY <1>1, AdvanceInState
<1>3. win' = Add(win, n, now, tokens) /\ win' \in WindowType(n)
  BY <1>0, AddType DEF AddTokens
<1>4. win'.headTime = a.headTime
  BY <1>1, <1>2, <1>3 DEF Add, WindowType
<1>5. hist' = [hist EXCEPT ![a.headTime] = @ + tokens]
  BY <1>4 DEF AddTokens
<1>6. TypeOK'
  <2>1. hist'[a.headTime] \in -MaxTokens .. MaxTokens
    BY <1>4 DEF AddTokens
  <2>2. hist' \in [Seconds -> -MaxTokens .. MaxTokens]
    BY <1>2, <1>5, <2>1 DEF IInv, TypeOK
  <2>3. now' \in Seconds /\ wrapped' \in BOOLEAN
    BY DEF AddTokens, IInv, TypeOK, WrappedByAdvance, Wraps
  <2>4. QED
    BY <1>3, <2>2, <2>3 DEF TypeOK
<1>7. FullHistory' = [FullHistory EXCEPT ![a.headTime] = @ + tokens]
  BY <1>0, <1>2, <1>5 DEF FullHistory, History
<1>8. Holds(win', n, FullHistory')
  BY <1>0, <1>1, <1>3, <1>7, AddHolds
<1>9. HeadIsLast' /\ RingMatchesHistory'
  <2>1. (win.headTime \in Seconds)'
    BY <1>2, <1>4
  <2>2. (HeadIsLast /\ RingMatchesHistory <=> Holds(win, WindowSeconds, FullHistory))'
    BY <1>6, <2>1, RingIsHolds, PTL
  <2>3. QED
    BY <1>8, <2>2
<1>10. CachedSumNeverBelowBuckets'
  <2>0. (BucketSum = Tokens(win, WindowSeconds))'
    BY <1>6, CachedIsTokens, PTL
  <2>1. SUFFICES ASSUME ~wrapped' PROVE win'.total >= Tokens(win', n)
    BY <2>0 DEF CachedSumNeverBelowBuckets
  <2>2. /\ ~WrappedByAdvance
        /\ int64(a.buckets[a.headIdx] + tokens) = a.buckets[a.headIdx] + tokens
        /\ int64(a.total + tokens) = a.total + tokens
    BY <1>1, <2>1 DEF AddTokens, Wraps
  <2>3. QED
    BY <1>0, <1>1, <1>2, <1>3, <2>2, AddSum
<1>11. QED
  BY <1>6, <1>9, <1>10 DEF IInv

(* Total preserves the invariant. *)
LEMMA ReadTotalIInv ==
    ASSUME IInv, ReadTotal
    PROVE  IInv'
<1> DEFINE n == WindowSeconds
<1>1. /\ win' \in WindowType(n) /\ win'.headTime \in Seconds
      /\ Holds(win', n, FullHistory)
      /\ wrapped' \/ win'.total >= Tokens(win', n)
  BY AdvanceInState DEF ReadTotal
<1>2. TypeOK'
  <2>1. wrapped' \in BOOLEAN
    BY DEF ReadTotal, IInv, TypeOK, WrappedByAdvance, Wraps
  <2>2. QED
    BY <1>1, <2>1 DEF ReadTotal, IInv, TypeOK
<1>3. Holds(win', n, FullHistory')
  BY <1>1 DEF ReadTotal, FullHistory, History
<1>4. HeadIsLast' /\ RingMatchesHistory'
  <2>1. (win.headTime \in Seconds)'
    BY <1>1
  <2>2. (HeadIsLast /\ RingMatchesHistory <=> Holds(win, WindowSeconds, FullHistory))'
    BY <1>2, <2>1, RingIsHolds, PTL
  <2>3. QED
    BY <1>3, <2>2
<1>5. CachedSumNeverBelowBuckets'
  <2>1. (BucketSum = Tokens(win, WindowSeconds))'
    BY <1>2, CachedIsTokens, PTL
  <2>2. QED
    BY <1>1, <2>1 DEF CachedSumNeverBelowBuckets
<1>6. QED
  BY <1>2, <1>4, <1>5 DEF IInv

(* So does every step. *)
LEMMA NextIInv == IInv /\ [Next]_vars => IInv'
<1> SUFFICES ASSUME IInv, [Next]_vars PROVE IInv'
  OBVIOUS
<1>1. ASSUME NEW tokens \in Grants, AddTokens(tokens) PROVE IInv'
  BY <1>1, AddTokensIInv, UsageAssumption
<1>2. ASSUME NEW tokens \in Refunds, Refund(tokens) PROVE IInv'
  <2>1. -tokens \in Int
    BY UsageAssumption
  <2>2. AddTokens(-tokens)
    BY <1>2 DEF Refund
  <2>3. QED
    BY <2>1, <2>2, AddTokensIInv
<1>3. CASE ReadTotal
  BY <1>3, ReadTotalIInv
<1>4. CASE Tick
  BY <1>4 DEF Tick, IInv, TypeOK, HeadIsLast, RingMatchesHistory, SlotOf, History,
              CachedSumNeverBelowBuckets, BucketSum
<1>5. CASE UNCHANGED vars
  BY <1>5 DEF vars, IInv, TypeOK, HeadIsLast, RingMatchesHistory, SlotOf, History,
              CachedSumNeverBelowBuckets, BucketSum
<1>6. QED
  BY <1>1, <1>2, <1>3, <1>4, <1>5 DEF Next

(* The inductive invariant holds throughout. *)
LEMMA SpecIInv == Spec => []IInv
BY InitIInv, NextIInv, PTL DEF Spec

(* The window is always well formed: the head is one of its buckets, and   *)
(* every count is an int64 (window.go, advance and Add).                   *)
THEOREM UsageTypeCorrect == Spec => []TypeOK
<1>1. IInv => TypeOK
  BY DEF IInv
<1>2. QED
  BY <1>1, SpecIInv, PTL

(* The ring holds exactly the last WindowSeconds seconds of the history,   *)
(* after any additions, idle gaps and clock steps: no expired second is    *)
(* kept and no live one is dropped (window.go, advance and Add).           *)
THEOREM RingIsHistory == Spec => []RingMatchesHistory
<1>1. IInv => RingMatchesHistory
  BY DEF IInv
<1>2. QED
  BY <1>1, SpecIInv, PTL

(* The cached sum is never below the tokens in the ring, unless an int64   *)
(* has wrapped around since the window was last empty (window.go, the      *)
(* subtraction in advance and the clamp in Add).                           *)
THEOREM CachedSumIsSafe == Spec => []CachedSumNeverBelowBuckets
<1>1. IInv => CachedSumNeverBelowBuckets
  BY DEF IInv
<1>2. QED
  BY <1>1, SpecIInv, PTL
=============================================================================

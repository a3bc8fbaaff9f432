---------------------------- MODULE RollingWindow ----------------------------
(***************************************************************************)
(* The per-second token ring of internal/budget/window.go, as operators on *)
(* the part of a RollingWindow value that its mutex guards:                *)
(*                                                                         *)
(*   buckets   tokens per second, indexed 0 .. numBuckets-1                *)
(*   headIdx   index of the bucket of second headTime                      *)
(*   headTime  the last second the ring was advanced to                    *)
(*   total     the cached sum, totalTokens                                 *)
(*                                                                         *)
(* The burst pool is not guarded by the mutex; its atomic operations are   *)
(* steps of module BudgetTracker.  Time is in whole seconds, as nowFunc()  *)
(* is truncated to the second before it is used.                           *)
(***************************************************************************)
EXTENDS Integers

CONSTANT MaxInt64   \* the largest value of an int64

ASSUME IntAssumption == MaxInt64 \in Nat

Int64 == -(MaxInt64 + 1) .. MaxInt64

\* Go's int64 arithmetic: the exact result x of an operation wraps around.
int64(x) == ((x + MaxInt64 + 1) % (2 * (MaxInt64 + 1))) - (MaxInt64 + 1)

Slots(n) == 0 .. (n - 1)

WindowType(n) == [buckets : [Slots(n) -> Int64], headIdx : Slots(n),
                  headTime : Int, total : Int64]

(* Mutant: the head starts behind the last bucket. *)
NewHeadPastEnd(n, now) ==
    [buckets |-> [i \in Slots(n) |-> 0], headIdx |-> n,
     headTime |-> now, total |-> 0]

NewRollingWindow(n, now) ==
    [buckets |-> [i \in Slots(n) |-> 0], headIdx |-> 0,
     headTime |-> now, total |-> 0]

(* Mutant: the eviction loop reads a bucket before it moves the head. *)
ExpiredFromOldHead(w, n, k) == {(w.headIdx + i) % n : i \in 0 .. (k - 1)}
EvictedFromOldHead(w, n, k) ==
    LET sum[i \in 0 .. k] ==
            IF i = 0 THEN 0
                     ELSE sum[i - 1] + w.buckets[(w.headIdx + i - 1) % n]
    IN  sum[k]

(* Mutant: a negative sum is kept. *)
NotClamped(total) == total

\* The head index after k more seconds.
HeadAfter(w, n, k) == (w.headIdx + k) % n

\* The first k buckets after the head, which the eviction loop of advance
\* zeroes, and the tokens in them, summed in the order of that loop.
Expired(w, n, k) == {HeadAfter(w, n, i) : i \in 1 .. k}

EvictedTokens(w, n, k) ==
    LET sum[i \in 0 .. k] ==
            IF i = 0 THEN 0
                     ELSE sum[i - 1] + w.buckets[HeadAfter(w, n, i)]
    IN  sum[k]

WholeWindowExpired(elapsed, n) == elapsed >= n

\* The three cases of advance: the clock has not moved past the head (or has
\* stepped back), the whole window has expired, some buckets have expired.
advance(w, n, now) ==
    LET elapsed == now - w.headTime
    IN  IF elapsed <= 0 THEN w
        ELSE IF WholeWindowExpired(elapsed, n) THEN NewRollingWindow(n, now)
        ELSE [buckets  |-> [i \in Slots(n) |-> IF i \in Expired(w, n, elapsed)
                                               THEN 0 ELSE w.buckets[i]],
              headIdx  |-> HeadAfter(w, n, elapsed),
              headTime |-> now,
              total    |-> int64(w.total - EvictedTokens(w, n, elapsed))]

\* Zero, when a reconciliation has driven the sum below it.
Clamped(total) == IF total < 0 THEN 0 ELSE total

\* Add clamps the cached sum and leaves the bucket as it is.
Add(w, n, now, tokens) ==
    LET a == advance(w, n, now)
    IN  [a EXCEPT !.buckets[a.headIdx] = int64(@ + tokens),
                  !.total = Clamped(int64(@ + tokens))]

\* What Total returns; the window it leaves behind is advance(w, n, now).
Total(w, n, now) == Clamped(advance(w, n, now).total)
=============================================================================

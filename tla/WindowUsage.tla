----------------------------- MODULE WindowUsage -----------------------------
(***************************************************************************)
(* One RollingWindow used through Add and Total while the wall clock runs, *)
(* with the history of what was added in which second as the reference     *)
(* that the ring, a cache of the last WindowSeconds seconds of it, is      *)
(* compared with.                                                          *)
(***************************************************************************)
EXTENDS RollingWindow, Functions

CONSTANTS WindowSeconds,   \* numBuckets
          Grants,          \* what Reserve adds, or Record on top of it
          Refunds,         \* what Record gives back of an earlier Reserve
          MaxTime,         \* bound on the clock
          MaxTokens        \* bound on the tokens of one second

ASSUME UsageAssumption ==
    /\ WindowSeconds \in Nat \ {0}
    /\ Grants \subseteq Nat /\ Refunds \subseteq Nat
    /\ MaxTime \in Nat /\ MaxTokens \in Nat

VARIABLES now,     \* the wall clock, in seconds
          win,     \* the window
          hist,    \* history: tokens added in each second
          wrapped  \* history: has an int64 wrapped around since the window
                   \* was last empty?

vars == <<now, win, hist, wrapped>>

Seconds == 0 .. MaxTime

TypeOK == /\ now \in Seconds
          /\ win \in WindowType(WindowSeconds)
          /\ hist \in [Seconds -> -MaxTokens .. MaxTokens]
          /\ wrapped \in BOOLEAN

Init == /\ now = 0
        /\ win = NewRollingWindow(WindowSeconds, 0)
        /\ hist = [s \in Seconds |-> 0]
        /\ wrapped = FALSE

Wraps(x) == int64(x) # x

\* Has an int64 wrapped around, if the ring is now advanced?
WrappedByAdvance ==
    LET elapsed == now - win.headTime
    IN  IF elapsed \in 1 .. (WindowSeconds - 1)
        THEN wrapped \/ Wraps(win.total - EvictedTokens(win, WindowSeconds, elapsed))
        ELSE wrapped /\ elapsed < WindowSeconds

\* Add: the tokens count for the second the ring's head stands for, which is
\* the clock's unless the clock has stepped back.
AddTokens(tokens) ==
    /\ win' = Add(win, WindowSeconds, now, tokens)
    /\ hist' = [hist EXCEPT ![win'.headTime] = @ + tokens]
    /\ hist'[win'.headTime] \in -MaxTokens .. MaxTokens
    /\ LET a == advance(win, WindowSeconds, now)
       IN  wrapped' = (\/ WrappedByAdvance
                       \/ Wraps(a.buckets[a.headIdx] + tokens)
                       \/ Wraps(a.total + tokens))
    /\ UNCHANGED now

\* Record with a negative delta: only tokens reserved before are given back,
\* however long ago that was.
Refund(tokens) == /\ tokens <= SumFunction(hist)
                  /\ AddTokens(-tokens)

\* Total advances the ring as well.
ReadTotal == /\ win' = advance(win, WindowSeconds, now)
             /\ wrapped' = WrappedByAdvance
             /\ UNCHANGED <<now, hist>>

\* time.Now().Truncate(time.Second) is wall-clock time: it passes, by any
\* number of seconds between two calls, and an adjustment may set it back.
Tick == /\ \E t \in Seconds : t # now /\ t >= now - 1 /\ now' = t
        /\ UNCHANGED <<win, hist, wrapped>>

Next == \/ \E tokens \in Grants : AddTokens(tokens)
        \/ \E tokens \in Refunds : Refund(tokens)
        \/ ReadTotal
        \/ Tick

Spec == Init /\ [][Next]_vars

-----------------------------------------------------------------------------
\* The bucket that holds the tokens of the second j seconds before the head.
SlotOf(j) == (win.headIdx + WindowSeconds - j) % WindowSeconds

History(s) == IF s \in Seconds THEN hist[s] ELSE 0

BucketSum == SumFunction(win.buckets)

(* Whatever the sequence of additions, idle gaps and clock steps, the ring   *)
(* holds exactly the last WindowSeconds seconds of the history, as an int64  *)
(* holds it: advance neither keeps an expired second nor drops a live one    *)
(* (window.go, advance and Add).                                             *)
RingMatchesHistory ==
    \A j \in Slots(WindowSeconds) :
        win.buckets[SlotOf(j)] = int64(History(win.headTime - j))

(* The cached sum never under-reports the ring: the clamp in Add, the        *)
(* incremental subtraction in advance and the reset of a fully expired       *)
(* window can only leave totalTokens at or above the sum of the buckets,     *)
(* unless an int64 has wrapped around; a window that has been idle for its   *)
(* whole length has recovered from that too.                                 *)
CachedSumNeverBelowBuckets == wrapped \/ win.total >= BucketSum
=============================================================================

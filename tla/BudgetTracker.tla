---------------------------- MODULE BudgetTracker ----------------------------
(***************************************************************************)
(* internal/budget/tracker.go and the burst pool of window.go, called by   *)
(* concurrent request goroutines.                                          *)
(*                                                                         *)
(* Reserve and Record are sequences of separately synchronised steps: each *)
(* Add and each Total is a critical section of the window's mutex, each    *)
(* Load and CompareAndSwap of burstRemaining an atomic operation.  A       *)
(* goroutine's position in a call is pc[p]; between two of its steps any   *)
(* number of steps of the others, and of the clock, may happen.            *)
(*                                                                         *)
(* The client of the tracker modelled here makes a reservation and, when   *)
(* it is granted, reconciles it once or lets it stand.  Module             *)
(* ProxyHandler replaces that client by the HTTP handler.                  *)
(***************************************************************************)
EXTENDS RollingWindow, Functions

CONSTANTS Procs,          \* request goroutines
          Workloads,      \* the accounting keys a request may carry
          Registered,     \* the ones registered at startup
          NoWorkload,     \* the key of a goroutine that makes no request
          WindowSeconds,  \* BudgetParams of each registered workload
          LimitTokens,
          BurstTokens,
          Estimates,      \* values of estimatedTokens, which a client sets
          Deltas(_),      \* values of report.Tokens after a reservation of e
          CallsSpanSeconds, \* may a second begin while a call is in progress?
          MaxTime,        \* bound on the clock
          MaxCalls        \* bound on the number of Reserve calls

ASSUME TrackerAssumption ==
    /\ Registered \subseteq Workloads /\ NoWorkload \notin Workloads
    /\ WindowSeconds \in [Registered -> Nat \ {0}]
    /\ LimitTokens \in [Registered -> Nat]
    /\ BurstTokens \in [Registered -> Nat]
    /\ \A k \in Registered : LimitTokens[k] + BurstTokens[k] <= MaxInt64
    /\ Estimates \subseteq Int
    /\ \A e \in Estimates : Deltas(e) \subseteq Int
    /\ CallsSpanSeconds \in BOOLEAN
    /\ MaxTime \in Nat
    /\ MaxCalls \in Nat

VARIABLES now,      \* the wall clock, in seconds
          win,      \* the mutex-guarded window of each registered workload
          burst,    \* burstRemaining of each registered workload
          pc,       \* where each goroutine is in its call
          key,      \* its workloadID
          est,      \* its estimatedTokens
          delta,    \* its report.Tokens
          seen,     \* its local: the total it read last
          cur,      \* its local: burstRemaining as loaded
          calls,    \* number of Reserve calls so far
          settled,  \* history: tokens of finished requests, per workload
          reservedAt \* history: the second each reservation was booked in

shared == <<win, burst>>
locals == <<key, est, delta, seen, cur>>
history == <<calls, settled, reservedAt>>
vars == <<now, shared, pc, locals, history>>

ReserveSteps == {"r_add", "r_total", "r_load", "r_cas", "r_undo", "r_retotal"}
RecordSteps  == {"c_add", "c_total", "c_load", "c_cas"}
InCall       == ReserveSteps \cup RecordSteps
Returned     == {"granted", "denied", "unknown", "recorded"}

TypeOK == /\ now \in Nat
          /\ win = [k \in Registered |-> win[k]]
          /\ \A k \in Registered : win[k] \in WindowType(WindowSeconds[k])
          /\ burst \in [Registered -> Int]
          /\ pc \in [Procs -> {"idle"} \cup InCall \cup Returned]
          /\ key \in [Procs -> Workloads \cup {NoWorkload}]
          /\ est \in [Procs -> Int]
          /\ delta \in [Procs -> Int]
          /\ seen \in [Procs -> Nat]
          /\ cur \in [Procs -> Int]
          /\ calls \in Nat
          /\ settled \in [Registered -> Int]
          /\ reservedAt \in [Procs -> Int]

\* NewTracker, and the Register calls main makes before it starts serving.
Init == /\ now = 0
        /\ win = [k \in Registered |-> NewRollingWindow(WindowSeconds[k], 0)]
        /\ burst = BurstTokens
        /\ pc = [p \in Procs |-> "idle"]
        /\ key = [p \in Procs |-> NoWorkload]
        /\ est = [p \in Procs |-> 0]
        /\ delta = [p \in Procs |-> 0]
        /\ seen = [p \in Procs |-> 0]
        /\ cur = [p \in Procs |-> 0]
        /\ calls = 0
        /\ settled = [k \in Registered |-> 0]
        /\ reservedAt = [p \in Procs |-> 0]

-----------------------------------------------------------------------------
(* Steps shared by Reserve and Record *)

Limit(p) == LimitTokens[key[p]]

Goto(p, label) == pc' = [pc EXCEPT ![p] = label]

\* window.Add(tokens) by goroutine p
WindowAdd(p, tokens) ==
    win' = [win EXCEPT ![key[p]] = Add(@, WindowSeconds[key[p]], now, tokens)]

\* seen = window.Total(), by goroutine p
WindowTotal(p) ==
    /\ win' = [win EXCEPT ![key[p]] = advance(@, WindowSeconds[key[p]], now)]
    /\ seen' = [seen EXCEPT ![p] = Total(win[key[p]], WindowSeconds[key[p]], now)]

\* cur = burstRemaining.Load(), by goroutine p
LoadBurst(p) == cur' = [cur EXCEPT ![p] = burst[key[p]]]

(* Mutant: the loop swaps again without loading again. *)
SwapAgain(p, new, done, retry) ==
    \/ /\ burst[key[p]] = cur[p]
       /\ burst' = [burst EXCEPT ![key[p]] = new]
       /\ Goto(p, done)
    \/ burst[key[p]] # cur[p] /\ UNCHANGED <<burst, pc>>

\* burstRemaining.CompareAndSwap(cur, new): goes to done, or back to retry
\* when another goroutine has changed the pool since it was loaded.
CompareAndSwap(p, new, done, retry) ==
    \/ /\ burst[key[p]] = cur[p]
       /\ burst' = [burst EXCEPT ![key[p]] = new]
       /\ Goto(p, done)
    \/ /\ burst[key[p]] # cur[p]
       /\ Goto(p, retry)
       /\ UNCHANGED burst

-----------------------------------------------------------------------------
(* Reserve *)

\* The call, with its lookup of the workload.
CallReserve(p, k, e) ==
    /\ pc[p] = "idle"
    /\ key' = [key EXCEPT ![p] = k]
    /\ est' = [est EXCEPT ![p] = e]
    /\ Goto(p, IF k \in Registered THEN "r_add" ELSE "unknown")
    /\ calls' = calls + 1
    /\ UNCHANGED <<now, shared, delta, seen, cur, settled, reservedAt>>

\* The reservation is added before the total is compared with the limit.
ReserveAdd(p) ==
    /\ pc[p] = "r_add"
    /\ WindowAdd(p, est[p])
    /\ reservedAt' = [reservedAt EXCEPT ![p] = now]
    /\ Goto(p, "r_total")
    /\ UNCHANGED <<now, burst, locals, calls, settled>>

(* Mutant: the limit is compared with what the others hold. *)
ReserveTotalOfOthers(p) ==
    /\ pc[p] = "r_total"
    /\ WindowTotal(p)
    /\ Goto(p, IF seen'[p] - est[p] <= Limit(p) THEN "granted" ELSE "r_load")
    /\ UNCHANGED <<now, burst, key, est, delta, cur, history>>

ReserveTotal(p) ==
    /\ pc[p] = "r_total"
    /\ WindowTotal(p)
    /\ Goto(p, IF seen'[p] <= Limit(p) THEN "granted" ELSE "r_load")
    /\ UNCHANGED <<now, burst, key, est, delta, cur, history>>

\* ConsumeBurst(overage): load, give up if too little is left, swap.
overage(p) == seen[p] - Limit(p)

(* Mutant: any burst left is taken to be enough. *)
ConsumeBurstIfAny(p) ==
    /\ pc[p] = "r_load"
    /\ LoadBurst(p)
    /\ Goto(p, IF cur'[p] <= 0 THEN "r_undo" ELSE "r_cas")
    /\ UNCHANGED <<now, shared, key, est, delta, seen, history>>

ConsumeBurstLoad(p) ==
    /\ pc[p] = "r_load"
    /\ LoadBurst(p)
    /\ Goto(p, IF cur'[p] < overage(p) THEN "r_undo" ELSE "r_cas")
    /\ UNCHANGED <<now, shared, key, est, delta, seen, history>>

ConsumeBurstSwap(p) ==
    /\ pc[p] = "r_cas"
    /\ CompareAndSwap(p, cur[p] - overage(p), "granted", "r_load")
    /\ UNCHANGED <<now, win, locals, history>>

(* Mutant: a denied reservation is not undone. *)
ReserveNoUndo(p) ==
    /\ pc[p] = "r_undo"
    /\ Goto(p, "r_retotal")
    /\ UNCHANGED <<now, shared, locals, history>>

\* Cannot reserve: undo the reservation and report the total after that.
ReserveUndo(p) ==
    /\ pc[p] = "r_undo"
    /\ WindowAdd(p, -est[p])
    /\ Goto(p, "r_retotal")
    /\ UNCHANGED <<now, burst, locals, history>>

ReserveRetotal(p) ==
    /\ pc[p] = "r_retotal"
    /\ WindowTotal(p)
    /\ Goto(p, "denied")
    /\ UNCHANGED <<now, burst, key, est, delta, cur, history>>

-----------------------------------------------------------------------------
(* Record *)

CallRecord(p, d) ==
    /\ delta' = [delta EXCEPT ![p] = d]
    /\ Goto(p, IF key[p] \in Registered THEN "c_add" ELSE "recorded")
    /\ UNCHANGED <<now, shared, key, est, seen, cur, history>>

RecordAdd(p) ==
    /\ pc[p] = "c_add"
    /\ WindowAdd(p, delta[p])
    /\ Goto(p, "c_total")
    /\ UNCHANGED <<now, burst, locals, history>>

RecordTotal(p) ==
    /\ pc[p] = "c_total"
    /\ WindowTotal(p)
    /\ Goto(p, IF seen'[p] < Limit(p) THEN "c_load" ELSE "recorded")
    /\ UNCHANGED <<now, burst, key, est, delta, cur, history>>

\* ReplenishBurst(freed): load, add, cap at burstMax, swap.
freed(p) == Limit(p) - seen[p]

ReplenishBurstLoad(p) ==
    /\ pc[p] = "c_load"
    /\ LoadBurst(p)
    /\ Goto(p, "c_cas")
    /\ UNCHANGED <<now, shared, key, est, delta, seen, history>>

(* Mutant: the pool is not capped at burstMax. *)
ReplenishedUncapped(p) == cur[p] + freed(p)

Replenished(p) == IF cur[p] + freed(p) > BurstTokens[key[p]]
                  THEN BurstTokens[key[p]] ELSE cur[p] + freed(p)

ReplenishBurstSwap(p) ==
    /\ pc[p] = "c_cas"
    /\ CompareAndSwap(p, Replenished(p), "recorded", "c_load")
    /\ UNCHANGED <<now, win, locals, history>>

-----------------------------------------------------------------------------
(* Status, the clock, and the client *)

\* Status and StatusAll read each window's Total, which advances it.
Status(k) ==
    /\ win' = [win EXCEPT ![k] = advance(@, WindowSeconds[k], now)]
    /\ UNCHANGED <<now, burst, pc, locals, history>>

Tick == /\ now < MaxTime
        /\ CallsSpanSeconds \/ \A p \in Procs : pc[p] \notin InCall
        /\ now' = now + 1
        /\ UNCHANGED <<shared, pc, locals, history>>

\* A step of the tracker's own code on behalf of p.
TrackerStep(p) == \/ ReserveAdd(p) \/ ReserveTotal(p)
                  \/ ConsumeBurstLoad(p) \/ ConsumeBurstSwap(p)
                  \/ ReserveUndo(p) \/ ReserveRetotal(p)
                  \/ RecordAdd(p) \/ RecordTotal(p)
                  \/ ReplenishBurstLoad(p) \/ ReplenishBurstSwap(p)

\* Tokens that p's request has in the window, by where the request stands.
Holds(p) ==
    CASE pc[p] \in {"r_total", "r_load", "r_cas", "r_undo", "granted", "c_add"} -> est[p]
      [] pc[p] \in {"c_total", "c_load", "c_cas"} -> est[p] + delta[p]
      [] pc[p] = "recorded" /\ key[p] \in Registered -> est[p] + delta[p]
      [] OTHER -> 0

\* The request is over: what it holds, nothing if denied, is final, and its
\* locals are gone.
Finish(p) ==
    /\ pc[p] \in Returned
    /\ Goto(p, "idle")
    /\ settled' = [k \in Registered |->
                     IF k = key[p] THEN settled[k] + Holds(p) ELSE settled[k]]
    /\ key' = [key EXCEPT ![p] = NoWorkload]
    /\ est' = [est EXCEPT ![p] = 0]
    /\ delta' = [delta EXCEPT ![p] = 0]
    /\ seen' = [seen EXCEPT ![p] = 0]
    /\ cur' = [cur EXCEPT ![p] = 0]
    /\ reservedAt' = [reservedAt EXCEPT ![p] = 0]
    /\ UNCHANGED <<now, shared, calls>>

Client(p) ==
    \/ /\ calls < MaxCalls
       /\ \E k \in Workloads, e \in Estimates : CallReserve(p, k, e)
    \/ /\ pc[p] = "granted"
       /\ \E d \in Deltas(est[p]) : CallRecord(p, d)
    \/ Finish(p)

Next == \/ \E p \in Procs : TrackerStep(p) \/ Client(p)
        \/ \E k \in Registered : Status(k)
        \/ Tick

Spec == Init /\ [][Next]_vars

-----------------------------------------------------------------------------
(* Properties *)

\* The tokens f(p) of the requests of workload k, added up.
TokensOf(k, f(_)) == SumFunction([p \in Procs |-> IF key[p] = k THEN f(p) ELSE 0])

(* The burst pool stays between empty and burstMax, whatever stale value a   *)
(* goroutine has loaded before its CompareAndSwap (window.go, ConsumeBurst   *)
(* and ReplenishBurst).                                                      *)
BurstBounded == \A k \in Registered : burst[k] \in 0 .. BurstTokens[k]

(* No Reserve is granted on a total above limit plus burst, even when the    *)
(* pool it drew from was refilled by a Record that had seen an older, lower  *)
(* total: the overage is measured from the limit each time (Reserve).        *)
GrantWithinCapacity ==
    \A p \in Procs : pc[p] = "granted" => seen[p] <= Limit(p) + BurstTokens[key[p]]

(* While no second expires, the window holds exactly the tokens of finished  *)
(* requests plus what each request in flight stands for: a denied Reserve    *)
(* takes back what it added, nothing is lost to the clamp in Add, and no     *)
(* interleaving loses an update (Reserve, Record).                           *)
ReservationsConserved ==
    now = 0 => \A k \in Registered :
        win[k].total = settled[k] + TokensOf(k, Holds)

(* The reservations booked within the last WindowSeconds seconds and not yet *)
(* reconciled never exceed limit plus burst: "Reservation fails if           *)
(* insufficient tokens are available" (Reserve).                             *)
LiveReservationsWithinCapacity ==
    \A k \in Registered :
        TokensOf(k, LAMBDA p : IF /\ pc[p] \in {"granted", "c_add"}
                                  /\ now - reservedAt[p] < WindowSeconds[k]
                               THEN est[p] ELSE 0)
          <= LimitTokens[k] + BurstTokens[k]

\* Requests whose reservation was granted and that are not over yet.
Open(p) == pc[p] \in {"granted", "recorded"} \cup RecordSteps

Budget == INSTANCE TokenBudget WITH
    Capacity <- [k \in Registered |-> LimitTokens[k] + BurstTokens[k]],
    used     <- settled,
    phase    <- [p \in Procs |-> CASE ~Open(p) -> "none"
                                   [] pc[p] \in {"granted", "c_add"} -> "reserved"
                                   [] OTHER -> "reconciled"],
    owner    <- [p \in Procs |-> IF Open(p) THEN key[p] ELSE NoWorkload],
    held     <- [p \in Procs |-> IF Open(p) THEN Holds(p) ELSE 0]

(* Reserve and Record, as interleaved steps, implement the promise of module *)
(* TokenBudget while no second expires and no reconciliation exceeds its     *)
(* reservation.                                                              *)
ImplementsTokenBudget == Budget!Spec
=============================================================================

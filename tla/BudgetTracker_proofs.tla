------------------------ MODULE BudgetTracker_proofs ------------------------
(***************************************************************************)
(* For any number of goroutines, workloads, buckets and tokens: the state  *)
(* of the tracker stays well formed, the burst pool stays within its       *)
(* bounds, no reservation is granted beyond limit plus burst, no token is  *)
(* lost within a second, and Reserve and Record implement TokenBudget.     *)
(*                                                                         *)
(* None of them is inductive by itself.  What carries the bounds through a *)
(* step is what each goroutine still knows about its local, possibly stale *)
(* values (Locals); the refinement needs, besides, what the goroutines     *)
(* waiting for burst tokens know about each other (Competing).             *)
(***************************************************************************)
EXTENDS BudgetTracker, RollingWindow_proofs

\* A goroutine inside the tracker works on a registered workload.
Calling == \A p \in Procs :
    pc[p] \in InCall \cup {"granted", "denied"} => key[p] \in Registered

\* What the code has checked about seen and cur when it reaches pc[p].  The
\* pool itself may have changed since; cur is then not equal to it.
Locals == \A p \in Procs :
    /\ pc[p] \in {"r_load", "r_cas"} => seen[p] > Limit(p)
    /\ pc[p] = "r_cas" => overage(p) <= cur[p] /\ cur[p] <= BurstTokens[key[p]]
    /\ pc[p] \in {"c_load", "c_cas"} => seen[p] < Limit(p)
    /\ pc[p] = "c_cas" => cur[p] \in 0 .. BurstTokens[key[p]]

\* What the tracker maintains, whoever its client is.
TrackerInv == TypeOK /\ Calling /\ Locals /\ BurstBounded /\ GrantWithinCapacity

\* The requests are ones that the client of this module may make.
Asked == \A p \in Procs : pc[p] # "idle" => est[p] \in Estimates

IInv == TrackerInv /\ Asked

-----------------------------------------------------------------------------
(* The windows stay well formed under window.Add. *)
LEMMA WindowAddType ==
    ASSUME TypeOK, NEW p \in Procs, key[p] \in Registered, NEW tokens \in Int,
           WindowAdd(p, tokens)
    PROVE  /\ win' = [k \in Registered |-> win'[k]]
           /\ \A k \in Registered : win'[k] \in WindowType(WindowSeconds[k])
<1>1. WindowSeconds[key[p]] \in Nat \ {0} /\ now \in Int
  BY TrackerAssumption DEF TypeOK
<1>2. win[key[p]] \in WindowType(WindowSeconds[key[p]])
  BY DEF TypeOK
<1> DEFINE w == Add(win[key[p]], WindowSeconds[key[p]], now, tokens)
<1>3. w \in WindowType(WindowSeconds[key[p]])
  BY <1>1, <1>2, AddType
<1>4. win' = [win EXCEPT ![key[p]] = w]
  BY DEF WindowAdd
<1> HIDE DEF w
<1>5. QED
  BY <1>3, <1>4 DEF TypeOK

(* They stay well formed under advance, by whoever calls it. *)
LEMMA AdvanceWindowType ==
    ASSUME TypeOK, NEW k \in Registered,
           win' = [win EXCEPT ![k] = advance(@, WindowSeconds[k], now)]
    PROVE  /\ win' = [j \in Registered |-> win'[j]]
           /\ \A j \in Registered : win'[j] \in WindowType(WindowSeconds[j])
<1>1. WindowSeconds[k] \in Nat \ {0} /\ now \in Int
  BY TrackerAssumption DEF TypeOK
<1>2. win[k] \in WindowType(WindowSeconds[k])
  BY DEF TypeOK
<1> DEFINE w == advance(win[k], WindowSeconds[k], now)
<1>3. w \in WindowType(WindowSeconds[k])
  BY <1>1, <1>2, AdvanceType
<1>4. win' = [win EXCEPT ![k] = w]
  OBVIOUS
<1> HIDE DEF w
<1>5. QED
  BY <1>3, <1>4 DEF TypeOK

(* window.Total reads a natural number and keeps the windows well formed. *)
LEMMA WindowTotalType ==
    ASSUME TypeOK, NEW p \in Procs, key[p] \in Registered, WindowTotal(p)
    PROVE  /\ win' = [k \in Registered |-> win'[k]]
           /\ \A k \in Registered : win'[k] \in WindowType(WindowSeconds[k])
           /\ \E t \in Nat : seen' = [seen EXCEPT ![p] = t]
<1>1. WindowSeconds[key[p]] \in Nat \ {0} /\ now \in Int
  BY TrackerAssumption DEF TypeOK
<1>2. win[key[p]] \in WindowType(WindowSeconds[key[p]])
  BY DEF TypeOK
<1>3. Total(win[key[p]], WindowSeconds[key[p]], now) \in Nat
  BY <1>1, <1>2, TotalType
<1>4. \E t \in Nat : seen' = [seen EXCEPT ![p] = t]
  BY <1>3 DEF WindowTotal
<1>5. win' = [win EXCEPT ![key[p]] = advance(@, WindowSeconds[key[p]], now)]
  BY DEF WindowTotal
<1>6. QED
  BY <1>4, <1>5, AdvanceWindowType

-----------------------------------------------------------------------------
(* The initial state: empty windows, full pools, nobody calling. *)
LEMMA InitInv == Init => TrackerInv
<1> SUFFICES ASSUME Init PROVE TrackerInv
  OBVIOUS
<1>1. \A k \in Registered : NewRollingWindow(WindowSeconds[k], 0) \in WindowType(WindowSeconds[k])
  BY TrackerAssumption, NewWindowType
<1>2. /\ win = [k \in Registered |-> win[k]]
      /\ \A k \in Registered : win[k] \in WindowType(WindowSeconds[k])
  BY <1>1 DEF Init
<1>3. BurstBounded
  BY TrackerAssumption DEF Init, BurstBounded
<1>4. TypeOK
  BY <1>2, TrackerAssumption DEF Init, TypeOK
<1>5. Calling /\ Locals /\ GrantWithinCapacity
  BY DEF Init, Calling, Locals, GrantWithinCapacity, InCall, ReserveSteps, RecordSteps
<1>6. QED
  BY <1>3, <1>4, <1>5 DEF TrackerInv

(* A CompareAndSwap that stores a value within the pool's bounds keeps the *)
(* pool within them; one that fails leaves it alone.                       *)
LEMMA SwapKeepsBounds ==
    ASSUME TypeOK, BurstBounded, NEW p \in Procs, key[p] \in Registered,
           NEW new, burst[key[p]] = cur[p] => new \in 0 .. BurstTokens[key[p]],
           NEW done, NEW retry, CompareAndSwap(p, new, done, retry)
    PROVE  /\ burst' \in [Registered -> Int]
           /\ BurstBounded'
<1>1. CASE burst[key[p]] = cur[p] /\ burst' = [burst EXCEPT ![key[p]] = new]
  BY <1>1, TrackerAssumption DEF TypeOK, BurstBounded
<1>2. CASE UNCHANGED burst
  BY <1>2 DEF TypeOK, BurstBounded
<1>3. QED
  BY <1>1, <1>2 DEF CompareAndSwap

(* Every step of Reserve preserves the invariant. *)
LEMMA ReserveInv ==
    ASSUME TrackerInv, NEW p \in Procs,
           \/ ReserveAdd(p) \/ ReserveTotal(p) \/ ConsumeBurstLoad(p)
           \/ ConsumeBurstSwap(p) \/ ReserveUndo(p) \/ ReserveRetotal(p)
    PROVE  TrackerInv'
<1> USE DEF InCall, ReserveSteps, RecordSteps, Returned
<1>1. key[p] \in Registered
  BY DEF TrackerInv, Calling, ReserveAdd, ReserveTotal, ConsumeBurstLoad,
         ConsumeBurstSwap, ReserveUndo, ReserveRetotal
<1>2. LimitTokens[key[p]] \in Nat /\ BurstTokens[key[p]] \in Nat
  BY <1>1, TrackerAssumption
<1>3. CASE ReserveAdd(p)
  <2>1. est[p] \in Int
    BY DEF TrackerInv, TypeOK
  <2>2. /\ win' = [k \in Registered |-> win'[k]]
        /\ \A k \in Registered : win'[k] \in WindowType(WindowSeconds[k])
    BY <1>1, <1>3, <2>1, WindowAddType DEF TrackerInv, ReserveAdd
  <2>3. TypeOK'
    BY <1>3, <2>2 DEF TrackerInv, TypeOK, ReserveAdd, Goto, locals
  <2>4. (Calling /\ Locals /\ BurstBounded /\ GrantWithinCapacity)'
    BY <1>3 DEF TrackerInv, TypeOK, ReserveAdd, Goto, locals, Calling, Locals, BurstBounded,
                GrantWithinCapacity, Limit, overage
  <2>5. QED
    BY <2>3, <2>4 DEF TrackerInv
<1>4. CASE ReserveTotal(p)
  <2>1. /\ win' = [k \in Registered |-> win'[k]]
        /\ \A k \in Registered : win'[k] \in WindowType(WindowSeconds[k])
        /\ \E t \in Nat : seen' = [seen EXCEPT ![p] = t]
    BY <1>1, <1>4, WindowTotalType DEF TrackerInv, ReserveTotal
  <2>2. PICK t \in Nat : seen' = [seen EXCEPT ![p] = t]
    BY <2>1
  <2>3. TypeOK'
    BY <1>4, <2>1, <2>2 DEF TrackerInv, TypeOK, ReserveTotal, Goto, history
  <2>4. (Calling /\ BurstBounded)'
    BY <1>4 DEF TrackerInv, TypeOK, ReserveTotal, Goto, history, Calling, BurstBounded
  <2>5. (Locals /\ GrantWithinCapacity)'
    BY <1>1, <1>2, <1>4, <2>2 DEF TrackerInv, TypeOK, ReserveTotal, Goto, history,
       Locals, GrantWithinCapacity, Limit, overage
  <2>6. QED
    BY <2>3, <2>4, <2>5 DEF TrackerInv
<1>5. CASE ConsumeBurstLoad(p)
  <2>1. TypeOK'
    BY <1>1, <1>5 DEF TrackerInv, TypeOK, ConsumeBurstLoad, LoadBurst, Goto, shared, history
  <2>2. (Calling /\ BurstBounded /\ GrantWithinCapacity)'
    BY <1>5 DEF TrackerInv, TypeOK, ConsumeBurstLoad, LoadBurst, Goto, shared, history,
       Calling, BurstBounded, GrantWithinCapacity, Limit
  <2>3. Locals'
    BY <1>1, <1>2, <1>5 DEF TrackerInv, TypeOK, ConsumeBurstLoad, LoadBurst, Goto, shared,
       history, Locals, BurstBounded, Limit, overage
  <2>4. QED
    BY <2>1, <2>2, <2>3 DEF TrackerInv
<1>6. CASE ConsumeBurstSwap(p)
  <2>1. cur[p] - overage(p) \in 0 .. BurstTokens[key[p]]
    BY <1>1, <1>2, <1>6 DEF TrackerInv, TypeOK, ConsumeBurstSwap, Locals, overage, Limit
  <2>2. burst' \in [Registered -> Int] /\ BurstBounded'
    BY <1>1, <1>6, <2>1, SwapKeepsBounds DEF TrackerInv, ConsumeBurstSwap
  <2>3. pc' = [pc EXCEPT ![p] = "granted"] \/ pc' = [pc EXCEPT ![p] = "r_load"]
    BY <1>6 DEF ConsumeBurstSwap, CompareAndSwap, Goto
  <2>4. TypeOK'
    BY <1>6, <2>2, <2>3 DEF TrackerInv, TypeOK, ConsumeBurstSwap, locals, history
  <2>5. Calling'
    BY <1>6, <2>3 DEF TrackerInv, TypeOK, ConsumeBurstSwap, locals, Calling
  <2>6. (Locals /\ GrantWithinCapacity)'
    BY <1>1, <1>2, <1>6, <2>3 DEF TrackerInv, TypeOK, ConsumeBurstSwap, locals, Locals,
       GrantWithinCapacity, Limit, overage
  <2>7. QED
    BY <2>2, <2>4, <2>5, <2>6 DEF TrackerInv
<1>7. CASE ReserveUndo(p)
  <2>1. -est[p] \in Int
    BY DEF TrackerInv, TypeOK
  <2>2. /\ win' = [k \in Registered |-> win'[k]]
        /\ \A k \in Registered : win'[k] \in WindowType(WindowSeconds[k])
    BY <1>1, <1>7, <2>1, WindowAddType DEF TrackerInv, ReserveUndo
  <2>3. TypeOK'
    BY <1>7, <2>2 DEF TrackerInv, TypeOK, ReserveUndo, Goto, locals, history
  <2>4. (Calling /\ Locals /\ BurstBounded /\ GrantWithinCapacity)'
    BY <1>7 DEF TrackerInv, TypeOK, ReserveUndo, Goto, locals, Calling, Locals, BurstBounded,
                GrantWithinCapacity, Limit, overage
  <2>5. QED
    BY <2>3, <2>4 DEF TrackerInv
<1>8. CASE ReserveRetotal(p)
  <2>1. /\ win' = [k \in Registered |-> win'[k]]
        /\ \A k \in Registered : win'[k] \in WindowType(WindowSeconds[k])
        /\ \E t \in Nat : seen' = [seen EXCEPT ![p] = t]
    BY <1>1, <1>8, WindowTotalType DEF TrackerInv, ReserveRetotal
  <2>2. PICK t \in Nat : seen' = [seen EXCEPT ![p] = t]
    BY <2>1
  <2>3. TypeOK'
    BY <1>8, <2>1, <2>2 DEF TrackerInv, TypeOK, ReserveRetotal, Goto, history
  <2>4. (Calling /\ BurstBounded)'
    BY <1>1, <1>8 DEF TrackerInv, TypeOK, ReserveRetotal, Goto, history, Calling, BurstBounded
  <2>5. (Locals /\ GrantWithinCapacity)'
    BY <1>8, <2>2 DEF TrackerInv, TypeOK, ReserveRetotal, Goto, history,
       Locals, GrantWithinCapacity, Limit, overage
  <2>6. QED
    BY <2>3, <2>4, <2>5 DEF TrackerInv
<1>9. QED
  BY <1>3, <1>4, <1>5, <1>6, <1>7, <1>8

(* Every step of Record preserves the invariant. *)
LEMMA RecordInv ==
    ASSUME TrackerInv, NEW p \in Procs,
           \/ RecordAdd(p) \/ RecordTotal(p)
           \/ ReplenishBurstLoad(p) \/ ReplenishBurstSwap(p)
    PROVE  TrackerInv'
<1> USE DEF InCall, ReserveSteps, RecordSteps, Returned
<1>1. key[p] \in Registered
  BY DEF TrackerInv, Calling, RecordAdd, RecordTotal, ReplenishBurstLoad, ReplenishBurstSwap
<1>2. LimitTokens[key[p]] \in Nat /\ BurstTokens[key[p]] \in Nat
  BY <1>1, TrackerAssumption
<1>3. CASE RecordAdd(p)
  <2>1. delta[p] \in Int
    BY DEF TrackerInv, TypeOK
  <2>2. /\ win' = [k \in Registered |-> win'[k]]
        /\ \A k \in Registered : win'[k] \in WindowType(WindowSeconds[k])
    BY <1>1, <1>3, <2>1, WindowAddType DEF TrackerInv, RecordAdd
  <2>3. TypeOK'
    BY <1>3, <2>2 DEF TrackerInv, TypeOK, RecordAdd, Goto, locals, history
  <2>4. (Calling /\ Locals /\ BurstBounded /\ GrantWithinCapacity)'
    BY <1>3 DEF TrackerInv, TypeOK, RecordAdd, Goto, locals, Calling, Locals, BurstBounded,
                GrantWithinCapacity, Limit, overage
  <2>5. QED
    BY <2>3, <2>4 DEF TrackerInv
<1>4. CASE RecordTotal(p)
  <2>1. /\ win' = [k \in Registered |-> win'[k]]
        /\ \A k \in Registered : win'[k] \in WindowType(WindowSeconds[k])
        /\ \E t \in Nat : seen' = [seen EXCEPT ![p] = t]
    BY <1>1, <1>4, WindowTotalType DEF TrackerInv, RecordTotal
  <2>2. PICK t \in Nat : seen' = [seen EXCEPT ![p] = t]
    BY <2>1
  <2>3. TypeOK'
    BY <1>4, <2>1, <2>2 DEF TrackerInv, TypeOK, RecordTotal, Goto, history
  <2>4. (Calling /\ BurstBounded)'
    BY <1>4 DEF TrackerInv, TypeOK, RecordTotal, Goto, history, Calling, BurstBounded
  <2>5. (Locals /\ GrantWithinCapacity)'
    BY <1>1, <1>2, <1>4, <2>2 DEF TrackerInv, TypeOK, RecordTotal, Goto, history,
       Locals, GrantWithinCapacity, Limit, overage
  <2>6. QED
    BY <2>3, <2>4, <2>5 DEF TrackerInv
<1>5. CASE ReplenishBurstLoad(p)
  <2>1. TypeOK'
    BY <1>1, <1>5 DEF TrackerInv, TypeOK, ReplenishBurstLoad, LoadBurst, Goto, shared, history
  <2>2. (Calling /\ BurstBounded /\ GrantWithinCapacity)'
    BY <1>5 DEF TrackerInv, TypeOK, ReplenishBurstLoad, LoadBurst, Goto, shared, history,
       Calling, BurstBounded, GrantWithinCapacity, Limit
  <2>3. Locals'
    BY <1>1, <1>2, <1>5 DEF TrackerInv, TypeOK, ReplenishBurstLoad, LoadBurst, Goto, shared,
       history, Locals, BurstBounded, Limit, overage
  <2>4. QED
    BY <2>1, <2>2, <2>3 DEF TrackerInv
<1>6. CASE ReplenishBurstSwap(p)
  <2>1. Replenished(p) \in 0 .. BurstTokens[key[p]]
    BY <1>1, <1>2, <1>6 DEF TrackerInv, TypeOK, ReplenishBurstSwap, Locals, Replenished,
       freed, Limit
  <2>2. burst' \in [Registered -> Int] /\ BurstBounded'
    BY <1>1, <1>6, <2>1, SwapKeepsBounds DEF TrackerInv, ReplenishBurstSwap
  <2>3. pc' = [pc EXCEPT ![p] = "recorded"] \/ pc' = [pc EXCEPT ![p] = "c_load"]
    BY <1>6 DEF ReplenishBurstSwap, CompareAndSwap, Goto
  <2>4. TypeOK'
    BY <1>6, <2>2, <2>3 DEF TrackerInv, TypeOK, ReplenishBurstSwap, locals, history
  <2>5. Calling'
    BY <1>6, <2>3 DEF TrackerInv, TypeOK, ReplenishBurstSwap, locals, Calling
  <2>6. (Locals /\ GrantWithinCapacity)'
    BY <1>1, <1>2, <1>6, <2>3 DEF TrackerInv, TypeOK, ReplenishBurstSwap, locals, Locals,
       GrantWithinCapacity, Limit, overage
  <2>7. QED
    BY <2>2, <2>4, <2>5, <2>6 DEF TrackerInv
<1>7. QED
  BY <1>3, <1>4, <1>5, <1>6

(* So do the two calls, for whatever key and number of tokens. *)
LEMMA CallReserveInv ==
    ASSUME TrackerInv, NEW p \in Procs, NEW k \in Workloads \cup {NoWorkload}, NEW e \in Int,
           CallReserve(p, k, e)
    PROVE  TrackerInv'
<1> USE DEF InCall, ReserveSteps, RecordSteps, Returned
<1>1. TypeOK'
  BY DEF TrackerInv, TypeOK, CallReserve, Goto, shared
<1>2. (Calling /\ Locals /\ BurstBounded /\ GrantWithinCapacity)'
  BY DEF TrackerInv, TypeOK, CallReserve, Goto, shared, Calling, Locals, BurstBounded,
         GrantWithinCapacity, Limit, overage
<1>3. QED
  BY <1>1, <1>2 DEF TrackerInv

LEMMA CallRecordInv ==
    ASSUME TrackerInv, NEW p \in Procs, NEW d \in Int, CallRecord(p, d)
    PROVE  TrackerInv'
<1> USE DEF InCall, ReserveSteps, RecordSteps, Returned
<1>1. TypeOK'
  BY DEF TrackerInv, TypeOK, CallRecord, Goto, shared, history
<1>2. (Calling /\ Locals /\ BurstBounded /\ GrantWithinCapacity)'
  BY DEF TrackerInv, TypeOK, CallRecord, Goto, shared, Calling, Locals,
         BurstBounded, GrantWithinCapacity, Limit, overage
<1>3. QED
  BY <1>1, <1>2 DEF TrackerInv

(* And reading the status, the clock, and steps of others. *)
LEMMA StatusInv == ASSUME TrackerInv, NEW k \in Registered, Status(k) PROVE TrackerInv'
<1>1. /\ win' = [j \in Registered |-> win'[j]]
      /\ \A j \in Registered : win'[j] \in WindowType(WindowSeconds[j])
  BY AdvanceWindowType DEF TrackerInv, Status
<1>2. TypeOK'
  BY <1>1 DEF TrackerInv, TypeOK, Status, locals, history
<1>3. (Calling /\ Locals /\ BurstBounded /\ GrantWithinCapacity)'
  BY DEF TrackerInv, Status, locals, Calling, Locals, BurstBounded,
         GrantWithinCapacity, Limit, overage
<1>4. QED
  BY <1>2, <1>3 DEF TrackerInv

LEMMA TickInv == TrackerInv /\ (Tick \/ UNCHANGED vars) => TrackerInv'
<1> SUFFICES ASSUME TrackerInv, Tick \/ UNCHANGED vars PROVE TrackerInv'
  OBVIOUS
<1>1. TypeOK'
  BY DEF TrackerInv, TypeOK, Tick, vars, shared, locals, history
<1>2. (Calling /\ Locals /\ BurstBounded /\ GrantWithinCapacity)'
  BY DEF TrackerInv, Tick, vars, shared, locals, Calling, Locals, BurstBounded,
         GrantWithinCapacity, Limit, overage
<1>3. QED
  BY <1>1, <1>2 DEF TrackerInv

(* What a step of the tracker on behalf of p leaves alone, and where it    *)
(* may take p.                                                             *)
LEMMA TrackerStepFrame ==
    ASSUME TypeOK, NEW p \in Procs, TrackerStep(p)
    PROVE  /\ UNCHANGED <<now, key, est, delta, calls, settled>>
           /\ pc[p] \in InCall
           /\ \E l \in InCall \cup {"granted", "denied", "recorded"} :
                 /\ pc' = [pc EXCEPT ![p] = l]
                 /\ pc[p] \in ReserveSteps => l \in ReserveSteps \cup {"granted", "denied"}
                 /\ pc[p] \in RecordSteps => l \in RecordSteps \cup {"recorded"}
<1> USE DEF InCall, ReserveSteps, RecordSteps, locals, history, Goto
<1>1. CASE ReserveAdd(p) \/ ReserveTotal(p) \/ ConsumeBurstLoad(p)
  BY <1>1 DEF ReserveAdd, ReserveTotal, ConsumeBurstLoad
<1>2. CASE ConsumeBurstSwap(p) \/ ReserveUndo(p) \/ ReserveRetotal(p)
  BY <1>2 DEF ConsumeBurstSwap, ReserveUndo, ReserveRetotal, CompareAndSwap
<1>3. CASE RecordAdd(p) \/ RecordTotal(p)
  BY <1>3 DEF RecordAdd, RecordTotal
<1>4. CASE ReplenishBurstLoad(p) \/ ReplenishBurstSwap(p)
  BY <1>4 DEF ReplenishBurstLoad, ReplenishBurstSwap, CompareAndSwap
<1>5. QED
  BY <1>1, <1>2, <1>3, <1>4 DEF TrackerStep

-----------------------------------------------------------------------------
(* The calls of this module's client and the end of its requests. *)
LEMMA ClientIInv == ASSUME IInv, NEW p \in Procs, Client(p) PROVE IInv'
<1> USE DEF InCall, ReserveSteps, RecordSteps, Returned
<1>1. ASSUME NEW k \in Workloads, NEW e \in Estimates, CallReserve(p, k, e)
      PROVE  IInv'
  <2>1. e \in Int
    BY TrackerAssumption
  <2>2. TrackerInv'
    BY <1>1, <2>1, CallReserveInv DEF IInv
  <2>3. Asked'
    BY <1>1 DEF IInv, TrackerInv, TypeOK, Asked, CallReserve, Goto
  <2>4. QED
    BY <2>2, <2>3 DEF IInv
<1>2. ASSUME pc[p] = "granted", NEW d \in Deltas(est[p]), CallRecord(p, d)
      PROVE  IInv'
  <2>1. est[p] \in Estimates
    BY <1>2 DEF IInv, Asked
  <2>2. d \in Int
    BY <1>2, <2>1, TrackerAssumption
  <2>3. TrackerInv'
    BY <1>2, <2>2, CallRecordInv DEF IInv
  <2>4. Asked'
    BY <1>2, <2>1 DEF IInv, TrackerInv, TypeOK, Asked, CallRecord, Goto
  <2>5. QED
    BY <2>3, <2>4 DEF IInv
<1>3. ASSUME Finish(p) PROVE IInv'
  <2>1. Holds(p) \in Int
    BY DEF IInv, TrackerInv, TypeOK, Holds
  <2>2. settled' \in [Registered -> Int]
    BY <1>3, <2>1 DEF IInv, TrackerInv, TypeOK, Finish
  <2>3. TypeOK'
    BY <1>3, <2>2 DEF IInv, TrackerInv, TypeOK, Finish, Goto, shared
  <2>4. (Calling /\ Locals /\ BurstBounded /\ GrantWithinCapacity)'
    BY <1>3 DEF IInv, TrackerInv, TypeOK, Finish, Goto, shared, Calling, Locals, BurstBounded,
                GrantWithinCapacity, Limit, overage
  <2>5. Asked'
    BY <1>3 DEF IInv, TrackerInv, TypeOK, Asked, Finish, Goto
  <2>6. QED
    BY <2>3, <2>4, <2>5 DEF IInv, TrackerInv
<1>4. QED
  BY <1>1, <1>2, <1>3 DEF Client

LEMMA InitIInv == Init => IInv
BY InitInv DEF Init, IInv, Asked

(* The invariant is inductive. *)
LEMMA NextIInv == IInv /\ [Next]_vars => IInv'
<1> SUFFICES ASSUME IInv, [Next]_vars PROVE IInv'
  OBVIOUS
<1>1. ASSUME NEW p \in Procs, TrackerStep(p) PROVE IInv'
  <2>1. TrackerInv'
    BY <1>1, ReserveInv, RecordInv DEF IInv, TrackerStep
  <2>2. TypeOK
    BY DEF IInv, TrackerInv
  <2>3. /\ est' = est /\ pc[p] # "idle"
        /\ \E l : pc' = [pc EXCEPT ![p] = l]
    BY <1>1, <2>2, TrackerStepFrame DEF InCall, ReserveSteps, RecordSteps
  <2>4. Asked'
    BY <2>2, <2>3 DEF IInv, Asked, TypeOK
  <2>5. QED
    BY <2>1, <2>4 DEF IInv
<1>2. ASSUME NEW p \in Procs, Client(p) PROVE IInv'
  BY <1>2, ClientIInv
<1>3. ASSUME NEW k \in Registered, Status(k) PROVE IInv'
  <2>1. TrackerInv'
    BY <1>3, StatusInv DEF IInv
  <2>2. Asked'
    BY <1>3 DEF IInv, Asked, Status, locals
  <2>3. QED
    BY <2>1, <2>2 DEF IInv
<1>4. ASSUME Tick \/ UNCHANGED vars PROVE IInv'
  <2>1. TrackerInv'
    BY <1>4, TickInv DEF IInv
  <2>2. Asked'
    BY <1>4 DEF IInv, Asked, Tick, vars, locals
  <2>3. QED
    BY <2>1, <2>2 DEF IInv
<1>5. QED
  BY <1>1, <1>2, <1>3, <1>4 DEF Next

LEMMA SpecIInv == Spec => []IInv
BY InitIInv, NextIInv, PTL DEF Spec

(* The state of the tracker is well formed in every reachable state; in      *)
(* particular every total that Reserve and Record act on is non-negative.    *)
THEOREM TypeCorrect == Spec => []TypeOK
<1>1. IInv => TypeOK
  BY DEF IInv, TrackerInv
<1>2. QED
  BY <1>1, SpecIInv, PTL

(* The burst pool of window.go never leaves 0 .. burstMax, for any number    *)
(* of goroutines in ConsumeBurst and ReplenishBurst at once.                 *)
THEOREM BurstPoolBounded == Spec => []BurstBounded
<1>1. IInv => BurstBounded
  BY DEF IInv, TrackerInv
<1>2. QED
  BY <1>1, SpecIInv, PTL

(* Reserve never grants a reservation on a total above limit plus burst,     *)
(* whatever happens between its reading of the total and its CompareAndSwap. *)
THEOREM GrantsWithinCapacity == Spec => []GrantWithinCapacity
<1>1. IInv => GrantWithinCapacity
  BY DEF IInv, TrackerInv
<1>2. QED
  BY <1>1, SpecIInv, PTL

-----------------------------------------------------------------------------
(* Conservation of tokens within one second.  It needs a client that the   *)
(* window can follow: tokens are not negative, and all that is ever        *)
(* reserved or used fits an int64, so that neither the clamp in Add nor a  *)
(* wrap-around changes a sum.                                              *)

\* A request reserves and uses between 0 and most tokens, and MaxCalls of
\* them fit an int64.
HonestClient(most) ==
    /\ IsFiniteSet(Procs) /\ most \in Nat
    /\ \A e \in Estimates : e \in 0 .. most /\ \A d \in Deltas(e) : e + d \in 0 .. most
    /\ MaxCalls * most <= MaxInt64

\* What is reconciled is one of the client's answers.
Reconciling == \A p \in Procs :
    pc[p] \in RecordSteps \cup {"recorded"} => delta[p] \in Deltas(est[p])

\* What the requests of workload k hold, and the most that they may hold.
HeldBy(k) == [p \in Procs |-> IF key[p] = k THEN Holds(p) ELSE 0]
MayHold(k, most) == [p \in Procs |-> IF key[p] = k /\ pc[p] # "idle" THEN most ELSE 0]

\* Every call has added at most one request's tokens.
CallsCover(most) == \A k \in Registered :
    settled[k] + SumFunctionOnSet(MayHold(k, most), Procs) <= most * calls

ClientInv(most) ==
    /\ IInv /\ Reconciling
    /\ calls <= MaxCalls
    /\ \A k \in Registered : settled[k] >= 0
    /\ CallsCover(most)

(* A request holds nothing before it arrives, and never more than most.    *)
LEMMA HoldsRange ==
    ASSUME NEW most, HonestClient(most), IInv, Reconciling, NEW p \in Procs
    PROVE  Holds(p) \in 0 .. most /\ (pc[p] = "idle" => Holds(p) = 0)
<1>1. /\ most \in Nat /\ (pc[p] # "idle" => est[p] \in 0 .. most)
      /\ pc[p] \in RecordSteps \cup {"recorded"} => est[p] + delta[p] \in 0 .. most
  BY DEF HonestClient, IInv, Asked, Reconciling, RecordSteps
<1>2. QED
  BY <1>1 DEF Holds, RecordSteps

(* The functions that are summed are functions to the integers. *)
LEMMA HeldType ==
    ASSUME NEW most, HonestClient(most), IInv, Reconciling, NEW k \in Registered
    PROVE  /\ HeldBy(k) \in [Procs -> Int] /\ MayHold(k, most) \in [Procs -> Int]
           /\ \A p \in Procs : 0 <= HeldBy(k)[p] /\ HeldBy(k)[p] <= MayHold(k, most)[p]
           /\ SumFunctionOnSet(HeldBy(k), Procs) \in Int
           /\ SumFunctionOnSet(MayHold(k, most), Procs) \in Int
           /\ TokensOf(k, Holds) = SumFunctionOnSet(HeldBy(k), Procs)
<1>1. most \in Nat /\ IsFiniteSet(Procs)
  BY DEF HonestClient
<1>2. \A p \in Procs : Holds(p) \in 0 .. most /\ (pc[p] = "idle" => Holds(p) = 0)
  BY HoldsRange
<1>3. HeldBy(k) \in [Procs -> Int] /\ MayHold(k, most) \in [Procs -> Int]
  BY <1>1, <1>2 DEF HeldBy, MayHold
<1>4. \A p \in Procs : 0 <= HeldBy(k)[p] /\ HeldBy(k)[p] <= MayHold(k, most)[p]
  BY <1>1, <1>2 DEF HeldBy, MayHold
<1>5. /\ SumFunctionOnSet(HeldBy(k), Procs) \in Int
      /\ SumFunctionOnSet(MayHold(k, most), Procs) \in Int
  BY <1>1, <1>3, SumType
<1>6. TokensOf(k, Holds) = SumFunctionOnSet(HeldBy(k), Procs)
  BY DEF TokensOf, HeldBy, SumFunction
<1>7. QED
  BY <1>3, <1>4, <1>5, <1>6

\* The tokens of each workload fit an int64.
Fits == \A k \in Registered :
    /\ settled[k] + SumFunctionOnSet(HeldBy(k), Procs) \in 0 .. MaxInt64
    /\ SumFunctionOnSet(HeldBy(k), Procs) \in Nat

(* They do, as every call has made room for them. *)
LEMMA Room ==
    ASSUME NEW CONSTANT most, HonestClient(most)
    PROVE  ClientInv(most) => Fits
<1> SUFFICES ASSUME ClientInv(most), NEW k \in Registered
             PROVE  /\ settled[k] + SumFunctionOnSet(HeldBy(k), Procs) \in 0 .. MaxInt64
                    /\ SumFunctionOnSet(HeldBy(k), Procs) \in Nat
  BY DEF Fits
<1> DEFINE h == SumFunctionOnSet(HeldBy(k), Procs)
           c == SumFunctionOnSet(MayHold(k, most), Procs)
<1>1. /\ IsFiniteSet(Procs) /\ most \in Nat /\ MaxCalls \in Nat /\ calls \in Nat
      /\ MaxInt64 \in Nat /\ settled[k] \in Int
  BY TrackerAssumption, IntAssumption DEF HonestClient, ClientInv, IInv, TrackerInv, TypeOK
<1>2. /\ HeldBy(k) \in [Procs -> Int] /\ MayHold(k, most) \in [Procs -> Int]
      /\ \A p \in Procs : 0 <= HeldBy(k)[p] /\ HeldBy(k)[p] <= MayHold(k, most)[p]
      /\ h \in Int /\ c \in Int
  BY HeldType DEF ClientInv
<1>3. h <= c
  BY <1>1, <1>2, SumMonotonic
<1>4. 0 <= h
  <2>1. PICK z \in [Procs -> Int] : \A p \in Procs : z[p] = 0
    <3>1. [p \in Procs |-> 0] \in [Procs -> Int] /\ \A p \in Procs : [q \in Procs |-> 0][p] = 0
      OBVIOUS
    <3>2. QED
      BY <3>1
  <2>2. SumFunctionOnSet(z, Procs) = 0
    BY <1>1, <2>1, SumZero
  <2>3. SumFunctionOnSet(z, Procs) <= h
    BY <1>1, <1>2, <2>1, SumMonotonic
  <2>4. QED
    BY <2>2, <2>3
<1> HIDE DEF h, c
<1>5. /\ settled[k] + c <= most * calls /\ calls <= MaxCalls /\ settled[k] >= 0
      /\ MaxCalls * most <= MaxInt64
  BY DEF ClientInv, CallsCover, HonestClient, c
<1>6. most * calls <= MaxCalls * most /\ most * calls \in Int /\ MaxCalls * most \in Int
  BY <1>1, <1>5
<1>7. QED
  BY <1>1, <1>2, <1>3, <1>4, <1>5, <1>6 DEF h

(* The client's part of the invariant holds at first, *)
LEMMA InitClientInv ==
    ASSUME NEW most, HonestClient(most)
    PROVE  Init => ClientInv(most)
<1> SUFFICES ASSUME Init PROVE ClientInv(most)
  OBVIOUS
<1>1. IInv
  BY InitIInv
<1>2. Reconciling
  BY DEF Init, Reconciling, RecordSteps
<1>3. ASSUME NEW k \in Registered
      PROVE  settled[k] = 0 /\ SumFunctionOnSet(MayHold(k, most), Procs) = 0
  <2>1. PICK z : z = MayHold(k, most)
    OBVIOUS
  <2>2. \A p \in Procs : z[p] = 0
    BY <2>1 DEF Init, MayHold
  <2>3. SumFunctionOnSet(z, Procs) = 0
    BY <2>2, SumZero DEF HonestClient
  <2>4. QED
    BY <2>1, <2>3 DEF Init
<1>4. most * calls = 0 /\ calls <= MaxCalls
  BY TrackerAssumption DEF HonestClient, Init
<1>5. QED
  BY <1>1, <1>2, <1>3, <1>4 DEF ClientInv, CallsCover

(* and every step preserves it: a call makes room for one more request,    *)
(* whose tokens are settled when it is over.                               *)
LEMMA NextClientInv ==
    ASSUME NEW most, HonestClient(most), ClientInv(most), [Next]_vars
    PROVE  ClientInv(most)'
<1> DEFINE Sum(k) == SumFunctionOnSet(MayHold(k, most), Procs)
<1>0. /\ TypeOK /\ IInv /\ IInv' /\ TypeOK' /\ most \in Nat /\ IsFiniteSet(Procs)
      /\ calls \in Nat /\ MaxCalls \in Nat /\ most * calls \in Int
  BY NextIInv, TrackerAssumption DEF ClientInv, IInv, TrackerInv, TypeOK, HonestClient
<1>1. \A k \in Registered : /\ Sum(k) \in Int /\ settled[k] \in Int /\ settled[k] >= 0
                            /\ settled[k] + Sum(k) <= most * calls
                            /\ MayHold(k, most) \in [Procs -> Int]
  BY <1>0, HeldType DEF ClientInv, CallsCover, TypeOK
<1>a. \A j \in Registered : MayHold(j, most)' \in [Procs -> Int]
  BY <1>0 DEF MayHold
<1>2. ASSUME UNCHANGED <<settled, calls>>, Reconciling',
             \A k \in Registered : MayHold(k, most)' = MayHold(k, most)
      PROVE  ClientInv(most)'
  BY <1>0, <1>2 DEF ClientInv, CallsCover
<1>3. ASSUME NEW p \in Procs, TrackerStep(p) PROVE ClientInv(most)'
  <2>1. PICK l \in InCall \cup {"granted", "denied", "recorded"} :
            /\ pc' = [pc EXCEPT ![p] = l]
            /\ pc[p] \in ReserveSteps => l \in ReserveSteps \cup {"granted", "denied"}
            /\ pc[p] \in RecordSteps => l \in RecordSteps \cup {"recorded"}
    BY <1>0, <1>3, TrackerStepFrame
  <2>2. UNCHANGED <<key, est, delta, calls, settled>> /\ pc[p] \in InCall
    BY <1>0, <1>3, TrackerStepFrame
  <2>3. pc[p] # "idle" /\ l # "idle" /\ pc' \in [Procs -> {"idle"} \cup InCall \cup Returned]
    BY <1>0, <2>1, <2>2 DEF InCall, ReserveSteps, RecordSteps, TypeOK
  <2>4. \A k \in Registered : MayHold(k, most)' = MayHold(k, most)
    BY <1>0, <2>1, <2>2, <2>3 DEF MayHold, TypeOK
  <2>5. Reconciling'
    BY <1>0, <2>1, <2>2 DEF ClientInv, Reconciling, InCall, ReserveSteps, RecordSteps, TypeOK
  <2>6. QED
    BY <1>2, <2>2, <2>4, <2>5
<1>4. ASSUME NEW p \in Procs, NEW k \in Workloads, NEW e \in Estimates, calls < MaxCalls,
             CallReserve(p, k, e)
      PROVE  ClientInv(most)'
  <2>1. Reconciling'
    BY <1>0, <1>4 DEF ClientInv, Reconciling, RecordSteps, CallReserve, Goto, TypeOK
  <2>2. ASSUME NEW j \in Registered PROVE Sum(j)' <= Sum(j) + most
    <3>1. PICK f \in [Procs -> Int] : f = MayHold(j, most)
      BY <1>1
    <3>2. PICK g \in [Procs -> Int] : g = MayHold(j, most)'
      BY <1>a
    <3>3. /\ \A q \in Procs \ {p} : g[q] = f[q]
          /\ f[p] = 0 /\ g[p] <= most
      BY <1>0, <1>4, <3>1, <3>2 DEF MayHold, CallReserve, Goto, TypeOK
    <3>4. SumFunctionOnSet(g, Procs) = SumFunctionOnSet(f, Procs) + g[p] - f[p]
      BY <1>0, <3>3, SumChange
    <3>5. SumFunctionOnSet(f, Procs) \in Int
      BY <1>1, <3>1
    <3>6. QED
      BY <1>0, <3>1, <3>2, <3>3, <3>4, <3>5
  <2>3. \A j \in Registered : Sum(j)' \in Int
    <3>1. ASSUME NEW j \in Registered PROVE Sum(j)' \in Int
      <4>1. PICK g \in [Procs -> Int] : g = MayHold(j, most)'
        BY <1>a
      <4>2. SumFunctionOnSet(g, Procs) \in Int
        BY <1>0, SumType
      <4>3. QED
        BY <4>1, <4>2
    <3>2. QED
      BY <3>1
  <2> HIDE DEF Sum
  <2>4. most * (calls + 1) = most * calls + most
    BY <1>0
  <2>5. \A j \in Registered : settled'[j] = settled[j]
    BY <1>4 DEF CallReserve
  <2>6. \A j \in Registered : settled'[j] + Sum(j)' <= most * calls'
    <3>1. calls' = calls + 1
      BY <1>4 DEF CallReserve
    <3>2. QED
      BY <1>0, <1>1, <2>2, <2>3, <2>4, <2>5, <3>1
  <2>7. calls' <= MaxCalls
    BY <1>0, <1>4 DEF CallReserve
  <2>8. QED
    BY <1>0, <1>1, <2>1, <2>5, <2>6, <2>7 DEF ClientInv, CallsCover, Sum
<1>5. ASSUME NEW p \in Procs, pc[p] = "granted", NEW d \in Deltas(est[p]), CallRecord(p, d)
      PROVE  ClientInv(most)'
  <2>1. Reconciling'
    BY <1>0, <1>5 DEF ClientInv, Reconciling, CallRecord, Goto, TypeOK
  <2>2. \A k \in Registered : MayHold(k, most)' = MayHold(k, most)
    BY <1>0, <1>5 DEF MayHold, CallRecord, Goto, TypeOK
  <2>3. QED
    BY <1>2, <1>5, <2>1, <2>2 DEF CallRecord, history
<1>6. ASSUME NEW p \in Procs, Finish(p) PROVE ClientInv(most)'
  <2>1. Reconciling'
    BY <1>0, <1>6 DEF ClientInv, Reconciling, RecordSteps, Finish, Goto, TypeOK
  <2>2. Holds(p) \in 0 .. most
    BY <1>0, HoldsRange DEF ClientInv
  <2>3. ASSUME NEW j \in Registered
        PROVE  /\ settled'[j] >= 0
               /\ settled'[j] + Sum(j)' <= most * calls'
    <3>1. PICK f \in [Procs -> Int] : f = MayHold(j, most)
      BY <1>1
    <3>2. PICK g \in [Procs -> Int] : g = MayHold(j, most)'
      BY <1>a
    <3>3. /\ \A q \in Procs \ {p} : g[q] = f[q]
          /\ f[p] = (IF key[p] = j THEN most ELSE 0) /\ g[p] = 0
      BY <1>0, <1>6, <3>1, <3>2 DEF MayHold, Finish, Goto, TypeOK, Returned
    <3>4. SumFunctionOnSet(g, Procs) = SumFunctionOnSet(f, Procs) + g[p] - f[p]
      BY <1>0, <3>3, SumChange
    <3>5. SumFunctionOnSet(f, Procs) \in Int
      BY <1>1, <3>1
    <3>6. /\ settled'[j] = IF j = key[p] THEN settled[j] + Holds(p) ELSE settled[j]
          /\ calls' = calls
      BY <1>6 DEF Finish
    <3>7. Sum(j)' = SumFunctionOnSet(g, Procs) /\ Sum(j) = SumFunctionOnSet(f, Procs)
      BY <3>1, <3>2
    <3> HIDE DEF Sum
    <3>8. QED
      BY <1>0, <1>1, <2>2, <3>3, <3>4, <3>5, <3>6, <3>7
  <2>4. calls' <= MaxCalls
    BY <1>6 DEF Finish, ClientInv
  <2>5. QED
    BY <1>0, <2>1, <2>3, <2>4 DEF ClientInv, CallsCover
<1>7. ASSUME (\E k \in Registered : Status(k)) \/ Tick \/ UNCHANGED vars
      PROVE  ClientInv(most)'
  <2>1. UNCHANGED <<pc, key, est, delta, settled, calls>>
    BY <1>7 DEF Status, Tick, vars, locals, history
  <2>2. Reconciling'
    BY <2>1 DEF ClientInv, Reconciling
  <2>3. \A k \in Registered : MayHold(k, most)' = MayHold(k, most)
    BY <2>1 DEF MayHold
  <2>4. QED
    BY <1>2, <2>1, <2>2, <2>3
<1>8. QED
  BY <1>3, <1>4, <1>5, <1>6, <1>7 DEF Next, Client

-----------------------------------------------------------------------------
\* In the first second no window has been advanced.
FirstSecond == now = 0 => \A k \in Registered : win[k].headTime = 0

ConservedInv(most) == ClientInv(most) /\ FirstSecond /\ ReservationsConserved

(* A step on behalf of p that does not add to a window changes nothing that *)
(* a request holds,                                                         *)
LEMMA HoldsSame ==
    ASSUME TypeOK, Calling, NEW p \in Procs,
           \/ ReserveTotal(p) \/ ConsumeBurstLoad(p) \/ ConsumeBurstSwap(p)
           \/ ReserveRetotal(p) \/ RecordTotal(p)
           \/ ReplenishBurstLoad(p) \/ ReplenishBurstSwap(p)
    PROVE  /\ \A q \in Procs : Holds(q)' = Holds(q)
           /\ UNCHANGED <<now, key, settled>>
           /\ UNCHANGED win \/ (key[p] \in Registered /\ WindowTotal(p))
<1> USE DEF InCall, ReserveSteps, RecordSteps, locals, history, shared, Goto
<1>1. CASE ReserveTotal(p)
  <2>1. \E l \in {"granted", "r_load"} : pc' = [pc EXCEPT ![p] = l]
    BY <1>1 DEF ReserveTotal
  <2>2. pc[p] = "r_total" /\ UNCHANGED <<now, key, est, delta, settled>> /\ WindowTotal(p)
    BY <1>1 DEF ReserveTotal
  <2>3. \A q \in Procs : Holds(q)' = Holds(q)
    BY <2>1, <2>2 DEF TypeOK, Holds
  <2>4. QED
    BY <2>2, <2>3 DEF Calling
<1>2. CASE ConsumeBurstLoad(p)
  <2>1. \E l \in {"r_undo", "r_cas"} : pc' = [pc EXCEPT ![p] = l]
    BY <1>2 DEF ConsumeBurstLoad
  <2>2. pc[p] = "r_load" /\ UNCHANGED <<now, key, est, delta, settled, win>>
    BY <1>2 DEF ConsumeBurstLoad
  <2>3. QED
    BY <2>1, <2>2 DEF TypeOK, Holds
<1>3. CASE ConsumeBurstSwap(p)
  <2>1. \E l \in {"granted", "r_load"} : pc' = [pc EXCEPT ![p] = l]
    BY <1>3 DEF ConsumeBurstSwap, CompareAndSwap
  <2>2. pc[p] = "r_cas" /\ UNCHANGED <<now, key, est, delta, settled, win>>
    BY <1>3 DEF ConsumeBurstSwap
  <2>3. QED
    BY <2>1, <2>2 DEF TypeOK, Holds
<1>4. CASE ReserveRetotal(p)
  <2>1. /\ pc' = [pc EXCEPT ![p] = "denied"] /\ pc[p] = "r_retotal"
        /\ UNCHANGED <<now, key, est, delta, settled>> /\ WindowTotal(p)
    BY <1>4 DEF ReserveRetotal
  <2>2. \A q \in Procs : Holds(q)' = Holds(q)
    BY <2>1 DEF TypeOK, Holds
  <2>3. QED
    BY <2>1, <2>2 DEF Calling
<1>5. CASE RecordTotal(p)
  <2>1. \E l \in {"c_load", "recorded"} : pc' = [pc EXCEPT ![p] = l]
    BY <1>5 DEF RecordTotal
  <2>2. /\ pc[p] = "c_total" /\ key[p] \in Registered
        /\ UNCHANGED <<now, key, est, delta, settled>> /\ WindowTotal(p)
    BY <1>5 DEF RecordTotal, Calling
  <2>3. \A q \in Procs : Holds(q)' = Holds(q)
    BY <2>1, <2>2 DEF TypeOK, Holds
  <2>4. QED
    BY <2>2, <2>3
<1>6. CASE ReplenishBurstLoad(p) \/ ReplenishBurstSwap(p)
  <2>1. \E l \in {"c_load", "c_cas", "recorded"} : pc' = [pc EXCEPT ![p] = l]
    BY <1>6 DEF ReplenishBurstLoad, ReplenishBurstSwap, CompareAndSwap
  <2>2. /\ pc[p] \in {"c_load", "c_cas"} /\ key[p] \in Registered
        /\ UNCHANGED <<now, key, est, delta, settled, win>>
    BY <1>6 DEF ReplenishBurstLoad, ReplenishBurstSwap, Calling
  <2>3. QED
    BY <2>1, <2>2 DEF TypeOK, Holds
<1>7. QED
  BY <1>1, <1>2, <1>3, <1>4, <1>5, <1>6

(* and one that adds to it changes by as much what p holds.                 *)
LEMMA HoldsAdds ==
    ASSUME TypeOK, Calling, NEW p \in Procs, ReserveAdd(p) \/ ReserveUndo(p) \/ RecordAdd(p)
    PROVE  /\ \A q \in Procs \ {p} : Holds(q)' = Holds(q)
           /\ UNCHANGED <<now, key, settled>> /\ key[p] \in Registered
           /\ \E tokens \in Int : WindowAdd(p, tokens) /\ Holds(p)' = Holds(p) + tokens
<1> USE DEF InCall, ReserveSteps, RecordSteps, locals, history, Goto
<1>1. CASE ReserveAdd(p)
  <2>1. /\ pc' = [pc EXCEPT ![p] = "r_total"] /\ pc[p] = "r_add"
        /\ UNCHANGED <<now, key, est, delta, settled>> /\ WindowAdd(p, est[p])
    BY <1>1 DEF ReserveAdd
  <2>2. est[p] \in Int /\ \A q \in Procs \ {p} : Holds(q)' = Holds(q)
    BY <2>1 DEF TypeOK, Holds
  <2>3. Holds(p)' = Holds(p) + est[p]
    BY <2>1 DEF TypeOK, Holds
  <2>4. QED
    BY <2>1, <2>2, <2>3 DEF Calling
<1>2. CASE ReserveUndo(p)
  <2>1. /\ pc' = [pc EXCEPT ![p] = "r_retotal"] /\ pc[p] = "r_undo"
        /\ UNCHANGED <<now, key, est, delta, settled>> /\ WindowAdd(p, -est[p])
    BY <1>2 DEF ReserveUndo
  <2>2. -est[p] \in Int /\ \A q \in Procs \ {p} : Holds(q)' = Holds(q)
    BY <2>1 DEF TypeOK, Holds
  <2>3. Holds(p)' = Holds(p) + (-est[p])
    BY <2>1 DEF TypeOK, Holds
  <2>4. QED
    BY <2>1, <2>2, <2>3 DEF Calling
<1>3. CASE RecordAdd(p)
  <2>1. /\ pc' = [pc EXCEPT ![p] = "c_total"] /\ pc[p] = "c_add"
        /\ UNCHANGED <<now, key, est, delta, settled>> /\ WindowAdd(p, delta[p])
    BY <1>3 DEF RecordAdd
  <2>2. delta[p] \in Int /\ \A q \in Procs \ {p} : Holds(q)' = Holds(q)
    BY <2>1 DEF TypeOK, Holds
  <2>3. Holds(p)' = Holds(p) + delta[p]
    BY <2>1 DEF TypeOK, Holds
  <2>4. QED
    BY <2>1, <2>2, <2>3 DEF Calling
<1>4. QED
  BY <1>1, <1>2, <1>3

(* The calls hold what the request held before; its end settles it.         *)
LEMMA HoldsClient ==
    ASSUME TypeOK, Calling, NEW p \in Procs
    PROVE  /\ \A k, e : CallReserve(p, k, e) =>
                 /\ \A q \in Procs : Holds(q)' = Holds(q)
                 /\ \A q \in Procs \ {p} : key'[q] = key[q]
                 /\ Holds(p) = 0
           /\ \A d : pc[p] = "granted" /\ CallRecord(p, d) =>
                 \A q \in Procs : Holds(q)' = Holds(q)
           /\ Finish(p) =>
                 /\ \A q \in Procs \ {p} : Holds(q)' = Holds(q) /\ key'[q] = key[q]
                 /\ Holds(p)' = 0
<1>1. ASSUME NEW k, NEW e, CallReserve(p, k, e)
      PROVE  /\ \A q \in Procs : Holds(q)' = Holds(q)
             /\ \A q \in Procs \ {p} : key'[q] = key[q]
             /\ Holds(p) = 0
  BY <1>1 DEF CallReserve, Goto, TypeOK, Holds
<1>2. ASSUME NEW d, pc[p] = "granted", CallRecord(p, d)
      PROVE  \A q \in Procs : Holds(q)' = Holds(q)
  BY <1>2 DEF CallRecord, Goto, TypeOK, Holds, Calling
<1>3. ASSUME Finish(p)
      PROVE  /\ \A q \in Procs \ {p} : Holds(q)' = Holds(q) /\ key'[q] = key[q]
             /\ Holds(p)' = 0
  BY <1>3 DEF Finish, Goto, TypeOK, Holds
<1>4. QED
  BY <1>1, <1>2, <1>3

(* Reading a window within its second leaves all of them alone. *)
LEMMA StillWindow ==
    ASSUME TypeOK, NEW k \in Registered, win[k].headTime = now
    PROVE  [win EXCEPT ![k] = advance(@, WindowSeconds[k], now)] = win
<1>1. WindowSeconds[k] \in Nat \ {0} /\ win[k] \in WindowType(WindowSeconds[k])
  BY TrackerAssumption DEF TypeOK
<1>2. advance(win[k], WindowSeconds[k], now) = win[k]
  BY <1>1, AtHead
<1>3. win = [j \in Registered |-> win[j]]
  BY DEF TypeOK
<1>4. QED
  BY <1>2, <1>3

\* Each window is in its first second and holds exactly the settled tokens
\* and those of the requests in flight.
Balanced == \A k \in Registered :
    /\ win[k].headTime = 0
    /\ win[k].total = settled[k] + SumFunctionOnSet(HeldBy(k), Procs)

(* What a request holds, added up, are integers. *)
LEMMA HeldSum ==
    ASSUME IsFiniteSet(Procs)
    PROVE  TypeOK => \A k \in Registered : /\ HeldBy(k) \in [Procs -> Int]
                                           /\ SumFunctionOnSet(HeldBy(k), Procs) \in Int
<1> SUFFICES ASSUME TypeOK, NEW k \in Registered
             PROVE  HeldBy(k) \in [Procs -> Int] /\ SumFunctionOnSet(HeldBy(k), Procs) \in Int
  OBVIOUS
<1>1. HeldBy(k) \in [Procs -> Int]
  BY DEF HeldBy, Holds, TypeOK
<1>2. QED
  BY <1>1, SumType

(* Whoever its client is, a step of the tracker keeps the windows balanced  *)
(* within the first second.                                                 *)
LEMMA StepBalanced ==
    ASSUME IsFiniteSet(Procs), TypeOK, TypeOK', Calling, now = 0, Balanced, Fits',
           NEW p \in Procs, TrackerStep(p)
    PROVE  Balanced'
<1> DEFINE Sum(k) == SumFunctionOnSet(HeldBy(k), Procs)
<1>1. \A k \in Registered : /\ win[k].headTime = 0 /\ win[k].headTime = now
                            /\ win[k].total = settled[k] + Sum(k)
                            /\ Sum(k) \in Int /\ settled[k] \in Int
                            /\ HeldBy(k) \in [Procs -> Int]
  BY HeldSum DEF Balanced, TypeOK
<1>2. \A k \in Registered : HeldBy(k)' \in [Procs -> Int]
  BY DEF HeldBy, Holds, TypeOK
<1>3. CASE \/ ReserveTotal(p) \/ ConsumeBurstLoad(p) \/ ConsumeBurstSwap(p)
           \/ ReserveRetotal(p) \/ RecordTotal(p)
           \/ ReplenishBurstLoad(p) \/ ReplenishBurstSwap(p)
  <2>1. /\ \A q \in Procs : Holds(q)' = Holds(q)
        /\ UNCHANGED <<now, key, settled>>
        /\ UNCHANGED win \/ (key[p] \in Registered /\ WindowTotal(p))
    BY <1>3, HoldsSame
  <2>2. UNCHANGED win
    BY <1>1, <2>1, StillWindow DEF WindowTotal
  <2>3. \A k \in Registered : HeldBy(k)' = HeldBy(k)
    BY <2>1 DEF HeldBy
  <2>4. QED
    BY <1>1, <2>1, <2>2, <2>3 DEF Balanced
<1>4. CASE ReserveAdd(p) \/ ReserveUndo(p) \/ RecordAdd(p)
  <2>1. /\ \A q \in Procs \ {p} : Holds(q)' = Holds(q)
        /\ UNCHANGED <<now, key, settled>> /\ key[p] \in Registered
        /\ \E tokens \in Int : WindowAdd(p, tokens) /\ Holds(p)' = Holds(p) + tokens
    BY <1>4, HoldsAdds
  <2>2. PICK tokens \in Int : WindowAdd(p, tokens) /\ Holds(p)' = Holds(p) + tokens
    BY <2>1
  <2>3. ASSUME NEW k \in Registered, k # key[p]
        PROVE  win'[k].headTime = 0 /\ win'[k].total = settled'[k] + Sum(k)'
    <3>1. HeldBy(k)' = HeldBy(k)
      BY <2>1, <2>3 DEF HeldBy
    <3>2. win'[k] = win[k]
      BY <2>2, <2>3 DEF WindowAdd, TypeOK
    <3>3. QED
      BY <1>1, <2>1, <3>1, <3>2
  <2>4. PICK k \in Registered : k = key[p]
    BY <2>1
  <2>5. PICK w : w = win[k]
    OBVIOUS
  <2>6. PICK n : n = WindowSeconds[k]
    OBVIOUS
  <2>7. /\ n \in Nat \ {0} /\ w \in WindowType(n) /\ w.headTime = now
        /\ win'[k] = Add(w, n, now, tokens)
    BY <1>1, <2>2, <2>4, <2>5, <2>6, TrackerAssumption DEF TypeOK, WindowAdd
  <2>8. /\ Add(w, n, w.headTime, tokens).headTime = w.headTime
        /\ w.total + tokens \in 0 .. MaxInt64 =>
               Add(w, n, w.headTime, tokens).total = w.total + tokens
    BY <2>7, AtHead
  <2>9. Sum(k)' = Sum(k) + tokens
    <3>1. PICK f \in [Procs -> Int] : f = HeldBy(k)
      BY <1>1
    <3>2. PICK g \in [Procs -> Int] : g = HeldBy(k)'
      BY <1>2
    <3>3. f[p] = Holds(p) /\ g[p] = Holds(p) + tokens /\ \A q \in Procs \ {p} : g[q] = f[q]
      BY <2>1, <2>2, <2>4, <3>1, <3>2 DEF HeldBy
    <3>4. SumFunctionOnSet(g, Procs) = SumFunctionOnSet(f, Procs) + g[p] - f[p]
      <4>1. IsFiniteSet(Procs) /\ \A q \in Procs \ {p} : g[q] = f[q]
        BY <3>3
      <4>2. QED
        BY <4>1, SumChange
    <3>5. SumFunctionOnSet(f, Procs) \in Int /\ f[p] \in Int /\ g[p] \in Int
      BY <1>1, <3>1
    <3>6. Sum(k)' = SumFunctionOnSet(g, Procs) /\ Sum(k) = SumFunctionOnSet(f, Procs)
      BY <3>1, <3>2
    <3> HIDE DEF Sum
    <3>7. QED
      BY <3>3, <3>4, <3>5, <3>6
  <2>10. settled'[k] + Sum(k)' \in 0 .. MaxInt64
    BY DEF Fits
  <2> HIDE DEF Sum
  <2>11. w.total + tokens = settled'[k] + Sum(k)'
    BY <1>1, <2>1, <2>5, <2>9
  <2>12. win'[k].headTime = 0 /\ win'[k].total = settled'[k] + Sum(k)'
    BY <2>7, <2>8, <2>10, <2>11
  <2>13. QED
    BY <2>3, <2>4, <2>12 DEF Balanced, Sum
<1>5. QED
  BY <1>3, <1>4 DEF TrackerStep

(* Every step within the first second conserves the tokens.                 *)
LEMMA NextConserved ==
    ASSUME NEW CONSTANT most, HonestClient(most)
    PROVE  ConservedInv(most) /\ [Next]_vars => ConservedInv(most)'
<1> DEFINE Sum(k) == SumFunctionOnSet(HeldBy(k), Procs)
<1>1. ClientInv(most) => Fits
  BY Room
<1>2. ClientInv(most)' => Fits'
  BY <1>1, PTL
<1>3. \A k \in Registered : TokensOf(k, Holds) = Sum(k)
  BY DEF TokensOf, HeldBy, SumFunction
<1>4. (\A k \in Registered : TokensOf(k, Holds) = Sum(k))'
  BY <1>3, PTL
<1> SUFFICES ASSUME ConservedInv(most), [Next]_vars PROVE ConservedInv(most)'
  OBVIOUS
<1>5. ClientInv(most)'
  BY NextClientInv DEF ConservedInv
<1> SUFFICES ASSUME now' = 0
             PROVE  Balanced'
  BY <1>4, <1>5 DEF ConservedInv, FirstSecond, ReservationsConserved, Balanced
<1>6. /\ IsFiniteSet(Procs) /\ IInv /\ IInv' /\ TypeOK /\ TypeOK' /\ Calling
      /\ Reconciling /\ ClientInv(most) /\ most \in Nat
  BY <1>5 DEF HonestClient, ConservedInv, ClientInv, IInv, TrackerInv
<1>7. now = 0 /\ ~Tick
  BY <1>6 DEF TypeOK, Tick, Next, Status, Client, CallReserve, CallRecord, Finish, vars,
     TrackerStep, ReserveAdd, ReserveTotal, ConsumeBurstLoad, ConsumeBurstSwap, ReserveUndo,
     ReserveRetotal, RecordAdd, RecordTotal, ReplenishBurstLoad, ReplenishBurstSwap
<1>8. \A k \in Registered : /\ win[k].headTime = 0 /\ win[k].headTime = now
                            /\ win[k].total = settled[k] + Sum(k)
                            /\ Sum(k) \in Int /\ settled[k] \in Int
                            /\ HeldBy(k) \in [Procs -> Int]
  <2>1. \A k \in Registered : Sum(k) \in Int /\ HeldBy(k) \in [Procs -> Int]
    BY <1>6, HeldSum
  <2>2. \A k \in Registered : settled[k] \in Int
    BY <1>6 DEF TypeOK
  <2>3. QED
    BY <1>3, <1>7, <2>1, <2>2 DEF ConservedInv, FirstSecond, ReservationsConserved
<1>9. ASSUME UNCHANGED <<win, settled>>, \A k \in Registered : HeldBy(k)' = HeldBy(k)
      PROVE  Balanced'
  BY <1>8, <1>9 DEF Balanced
<1>10. \A k \in Registered : HeldBy(k)' \in [Procs -> Int]
  BY <1>6 DEF HeldBy, Holds, TypeOK
<1>11. Balanced /\ Fits'
  BY <1>2, <1>5, <1>8 DEF Balanced
<1>12. ASSUME NEW p \in Procs, TrackerStep(p) PROVE Balanced'
  BY <1>6, <1>7, <1>11, <1>12, StepBalanced
<1>13. ASSUME NEW p \in Procs, NEW k \in Workloads, NEW e \in Estimates, CallReserve(p, k, e)
       PROVE  Balanced'
  <2>1. /\ \A q \in Procs : Holds(q)' = Holds(q)
        /\ \A q \in Procs \ {p} : key'[q] = key[q]
        /\ Holds(p) = 0
    BY <1>6, <1>13, HoldsClient
  <2>2. \A j \in Registered : HeldBy(j)' = HeldBy(j)
    BY <2>1 DEF HeldBy
  <2>3. QED
    BY <1>9, <1>13, <2>2 DEF CallReserve, shared
<1>14. ASSUME NEW p \in Procs, pc[p] = "granted", NEW d, CallRecord(p, d)
       PROVE  Balanced'
  <2>1. \A q \in Procs : Holds(q)' = Holds(q)
    BY <1>6, <1>14, HoldsClient
  <2>2. \A k \in Registered : HeldBy(k)' = HeldBy(k)
    BY <1>14, <2>1 DEF HeldBy, CallRecord
  <2>3. QED
    BY <1>9, <1>14, <2>2 DEF CallRecord, shared, history
<1>15. ASSUME NEW p \in Procs, Finish(p)
       PROVE  Balanced'
  <2>1. \A q \in Procs \ {p} : Holds(q)' = Holds(q) /\ key'[q] = key[q]
    BY <1>6, <1>15, HoldsClient
  <2>2. Holds(p)' = 0
    BY <1>6, <1>15, HoldsClient
  <2>3. ASSUME NEW k \in Registered PROVE settled'[k] + Sum(k)' = settled[k] + Sum(k)
    <3>1. PICK f \in [Procs -> Int] : f = HeldBy(k)
      BY <1>8
    <3>2. PICK g \in [Procs -> Int] : g = HeldBy(k)'
      BY <1>10
    <3>3. /\ f[p] = (IF key[p] = k THEN Holds(p) ELSE 0) /\ g[p] = 0
          /\ \A q \in Procs \ {p} : g[q] = f[q]
      BY <2>1, <2>2, <3>1, <3>2 DEF HeldBy
    <3>4. SumFunctionOnSet(g, Procs) = SumFunctionOnSet(f, Procs) + g[p] - f[p]
      BY <1>6, <3>3, SumChange
    <3>5. SumFunctionOnSet(f, Procs) \in Int /\ f[p] \in Int /\ settled[k] \in Int
      BY <1>8, <3>1
    <3>6. settled'[k] = IF k = key[p] THEN settled[k] + Holds(p) ELSE settled[k]
      BY <1>15 DEF Finish
    <3>7. Sum(k)' = SumFunctionOnSet(g, Procs) /\ Sum(k) = SumFunctionOnSet(f, Procs)
      BY <3>1, <3>2
    <3> HIDE DEF Sum
    <3>8. QED
      BY <3>3, <3>4, <3>5, <3>6, <3>7
  <2>4. UNCHANGED win
    BY <1>15 DEF Finish, shared
  <2>5. QED
    BY <1>8, <2>3, <2>4 DEF Balanced
<1>16. ASSUME NEW k \in Registered, Status(k)
       PROVE  Balanced'
  <2>1. UNCHANGED win
    BY <1>6, <1>8, <1>16, StillWindow DEF Status
  <2>2. \A j \in Registered : HeldBy(j)' = HeldBy(j)
    BY <1>16 DEF Status, locals, HeldBy, Holds
  <2>3. QED
    BY <1>9, <1>16, <2>1, <2>2 DEF Status, history
<1>17. CASE UNCHANGED vars
  <2>1. \A j \in Registered : HeldBy(j)' = HeldBy(j)
    BY <1>17 DEF vars, locals, HeldBy, Holds
  <2>2. QED
    BY <1>9, <1>17, <2>1 DEF vars, shared, history
<1>18. QED
  BY <1>7, <1>12, <1>13, <1>14, <1>15, <1>16, <1>17 DEF Next, Client

LEMMA InitConserved ==
    ASSUME NEW CONSTANT most, HonestClient(most)
    PROVE  Init => ConservedInv(most)
<1> SUFFICES ASSUME Init PROVE ConservedInv(most)
  OBVIOUS
<1>1. ClientInv(most)
  BY InitClientInv
<1>2. \A k \in Registered : win[k].headTime = 0 /\ win[k].total = 0 /\ settled[k] = 0
  BY DEF Init, NewRollingWindow
<1>3. ASSUME NEW k \in Registered PROVE TokensOf(k, Holds) = 0
  <2>1. PICK z : z = HeldBy(k)
    OBVIOUS
  <2>2. \A p \in Procs : z[p] = 0
    BY <2>1 DEF Init, HeldBy, Holds
  <2>3. SumFunctionOnSet(z, Procs) = 0
    BY <2>2, SumZero DEF HonestClient
  <2>4. QED
    BY <2>1, <2>3 DEF TokensOf, HeldBy, SumFunction
<1>4. QED
  BY <1>1, <1>2, <1>3 DEF ConservedInv, FirstSecond, ReservationsConserved

(* With an honest client, the window holds in its first second exactly the  *)
(* tokens of the finished requests and of those in flight, for any number   *)
(* of goroutines inside Reserve and Record at once: no update is lost, and  *)
(* a denied Reserve takes back what it added.                               *)
THEOREM TokensConserved ==
    ASSUME NEW CONSTANT most, HonestClient(most)
    PROVE  Spec => []ReservationsConserved
<1>1. Init => ConservedInv(most)
  BY InitConserved
<1>2. ConservedInv(most) /\ [Next]_vars => ConservedInv(most)'
  BY NextConserved
<1>3. ConservedInv(most) => ReservationsConserved
  BY DEF ConservedInv
<1>4. QED
  BY <1>1, <1>2, <1>3, PTL DEF Spec

-----------------------------------------------------------------------------
(* The tracker implements module TokenBudget as long as no second expires  *)
(* and no reconciliation exceeds its reservation.  Competing says why: of  *)
(* the requests that wait for burst tokens, take any set; if the granted   *)
(* requests and these together exceed the capacity, one of them has seen   *)
(* that they do, and ConsumeBurst will refuse it.                          *)

Capacity(k) == LimitTokens[k] + BurstTokens[k]

Waiting(k) == {p \in Procs : key[p] = k /\ pc[p] \in {"r_load", "r_cas"}}

\* The tokens of the granted requests of workload k and of those in S.
Share(k, S) == [p \in Procs |-> IF key[p] = k /\ (Open(p) \/ p \in S) THEN Holds(p) ELSE 0]
Usage(k, S) == settled[k] + SumFunctionOnSet(Share(k, S), Procs)

Covered(k, S) == \/ Usage(k, S) <= Capacity(k)
                 \/ \E p \in S : Usage(k, S) <= seen[p]
Competing == \A k \in Registered : \A S \in SUBSET Waiting(k) : Covered(k, S)

RefInv(most) == ConservedInv(most) /\ now = 0 /\ Competing
                /\ \A p \in Procs : pc[p] = "recorded" => key[p] \in Registered

\* A reconciliation returns tokens and never takes more.
OnlyRefunds == \A e \in Estimates : \A d \in Deltas(e) : d <= 0

(* Steps on behalf of p leave the other requests alone. *)
LEMMA OthersKeep ==
    ASSUME TypeOK, NEW p \in Procs, TrackerStep(p) \/ Client(p)
    PROVE  \A q \in Procs \ {p} : /\ pc'[q] = pc[q] /\ key'[q] = key[q] /\ seen'[q] = seen[q]
                                  /\ Holds(q)' = Holds(q)
<1> USE DEF TypeOK, Goto, locals, history, shared
<1>1. \A q \in Procs \ {p} : pc'[q] = pc[q] /\ key'[q] = key[q] /\ seen'[q] = seen[q]
                             /\ est'[q] = est[q] /\ delta'[q] = delta[q]
  <2>1. CASE ReserveAdd(p) \/ ReserveTotal(p) \/ ConsumeBurstLoad(p) \/ ReserveUndo(p)
    BY <2>1 DEF ReserveAdd, ReserveTotal, ConsumeBurstLoad, ReserveUndo, WindowTotal
  <2>2. CASE ReserveRetotal(p) \/ RecordAdd(p) \/ RecordTotal(p) \/ ReplenishBurstLoad(p)
    BY <2>2 DEF ReserveRetotal, RecordAdd, RecordTotal, ReplenishBurstLoad, WindowTotal
  <2>3. CASE ConsumeBurstSwap(p) \/ ReplenishBurstSwap(p)
    BY <2>3 DEF ConsumeBurstSwap, ReplenishBurstSwap, CompareAndSwap
  <2>4. CASE Client(p)
    BY <2>4 DEF Client, CallReserve, CallRecord, Finish
  <2>5. QED
    BY <2>1, <2>2, <2>3, <2>4 DEF TrackerStep
<1>2. QED
  BY <1>1 DEF Holds

(* What such a step changes of a share is what p's request adds to it. *)
LEMMA ShareStep ==
    ASSUME IsFiniteSet(Procs), TypeOK, TypeOK', NEW p \in Procs, TrackerStep(p) \/ Client(p),
           NEW k \in Registered, NEW S, NEW T, S \ {p} = T \ {p}
    PROVE  /\ SumFunctionOnSet(Share(k, T), Procs) \in Int
           /\ SumFunctionOnSet(Share(k, S), Procs)' \in Int
           /\ Share(k, T)[p] \in Int /\ Share(k, S)'[p] \in Int
           /\ SumFunctionOnSet(Share(k, S), Procs)' = SumFunctionOnSet(Share(k, T), Procs)
                  + Share(k, S)'[p] - Share(k, T)[p]
<1>1. \A q \in Procs \ {p} : /\ pc'[q] = pc[q] /\ key'[q] = key[q] /\ Holds(q)' = Holds(q)
  BY OthersKeep
<1>2. \A q \in Procs : Holds(q) \in Int /\ Holds(q)' \in Int
  BY DEF TypeOK, Holds
<1>3. Share(k, T) \in [Procs -> Int] /\ Share(k, S)' \in [Procs -> Int]
  BY <1>2 DEF Share
<1>4. PICK f \in [Procs -> Int] : f = Share(k, T)
  BY <1>3
<1>5. PICK g \in [Procs -> Int] : g = Share(k, S)'
  BY <1>3
<1>6. \A q \in Procs \ {p} : g[q] = f[q]
  <2>1. \A q \in Procs \ {p} : (Open(q)' <=> Open(q)) /\ (q \in S <=> q \in T)
    BY <1>1 DEF Open
  <2>2. QED
    BY <1>1, <1>4, <1>5, <2>1 DEF Share
<1>7. SumFunctionOnSet(g, Procs) = SumFunctionOnSet(f, Procs) + g[p] - f[p]
  BY <1>6, SumChange
<1>8. SumFunctionOnSet(f, Procs) \in Int /\ SumFunctionOnSet(g, Procs) \in Int
  BY SumType
<1>9. SumFunctionOnSet(Share(k, S), Procs)' = SumFunctionOnSet(g, Procs)
  BY <1>5
<1>10. QED
  BY <1>3, <1>4, <1>5, <1>7, <1>8, <1>9

(* A set is covered after the step if the corresponding set was before, and *)
(* p's request did not add to what they use.                                *)
LEMMA CoveredStep ==
    ASSUME IsFiniteSet(Procs), TypeOK, TypeOK', Competing, NEW p \in Procs,
           TrackerStep(p) \/ Client(p), NEW k \in Registered,
           NEW S, NEW T \in SUBSET Waiting(k), S \ {p} = T \ {p},
           p \in T => (p \in S /\ seen'[p] = seen[p]) \/ seen[p] <= Capacity(k),
           settled'[k] + Share(k, S)'[p] <= settled[k] + Share(k, T)[p]
    PROVE  Covered(k, S)'
<1> DEFINE s == SumFunctionOnSet(Share(k, T), Procs)
           t == SumFunctionOnSet(Share(k, S), Procs)'
<1>1. /\ s \in Int /\ t \in Int /\ Share(k, T)[p] \in Int /\ Share(k, S)'[p] \in Int
      /\ t = s + Share(k, S)'[p] - Share(k, T)[p]
  BY ShareStep
<1>2. settled[k] \in Int /\ settled'[k] \in Int /\ Capacity(k) \in Int
  BY TrackerAssumption DEF TypeOK, Capacity
<1>3. Usage(k, T) = settled[k] + s /\ Usage(k, S)' = settled'[k] + t
  BY DEF Usage
<1> HIDE DEF s, t
<1>4. Usage(k, S)' <= Usage(k, T) /\ Usage(k, S)' \in Int /\ Usage(k, T) \in Int
  BY <1>1, <1>2, <1>3
<1>5. \A q \in Procs : seen[q] \in Int
  BY DEF TypeOK
<1>6. Covered(k, T)
  BY DEF Competing
<1>7. CASE Usage(k, T) <= Capacity(k)
  BY <1>2, <1>4, <1>7 DEF Covered, Capacity
<1>8. CASE \E q \in T : Usage(k, T) <= seen[q]
  <2>1. PICK q \in T : Usage(k, T) <= seen[q]
    BY <1>8
  <2>2. q \in Procs
    BY DEF Waiting
  <2>3. CASE q = p /\ seen[p] <= Capacity(k)
    BY <1>2, <1>4, <1>5, <2>1, <2>3 DEF Covered, Capacity
  <2>4. CASE q \in S /\ seen'[q] = seen[q]
    BY <1>4, <1>5, <2>1, <2>2, <2>4 DEF Covered
  <2>5. q # p => q \in S /\ seen'[q] = seen[q]
    BY <2>2, OthersKeep
  <2>6. QED
    BY <2>3, <2>4, <2>5
<1>9. QED
  BY <1>6, <1>7, <1>8 DEF Covered

(* Every step keeps the waiting requests covered.  The total that a request *)
(* reads covers all of them; a request that takes burst tokens was covered  *)
(* up to the total it has seen, which is within the capacity.               *)
LEMMA NextCompeting ==
    ASSUME NEW CONSTANT most, HonestClient(most), OnlyRefunds, RefInv(most), now' = 0,
           ConservedInv(most)', [Next]_vars
    PROVE  Competing'
<1> USE DEF InCall, ReserveSteps, RecordSteps
<1>1. /\ IsFiniteSet(Procs) /\ most \in Nat /\ IInv /\ TypeOK /\ TypeOK' /\ Calling /\ Locals
      /\ Reconciling /\ Competing /\ now = 0
  BY DEF HonestClient, RefInv, ConservedInv, ClientInv, IInv, TrackerInv
<1>2. \A q \in Procs : Holds(q) \in 0 .. most
  BY <1>1, HoldsRange
<1> SUFFICES ASSUME NEW k \in Registered, NEW S \in SUBSET Waiting(k)' PROVE Covered(k, S)'
  BY DEF Competing
<1>3. LimitTokens[k] \in Nat /\ BurstTokens[k] \in Nat /\ settled[k] \in Int
  BY <1>1, TrackerAssumption DEF TypeOK
<1>4. ASSUME NEW p \in Procs, TrackerStep(p) \/ Client(p), settled' = settled,
             p \in S => pc[p] \in {"r_load", "r_cas"} /\ key'[p] = key[p] /\ seen'[p] = seen[p],
             Share(k, S)'[p] <= Share(k, S)[p]
      PROVE  Covered(k, S)'
  <2>1. \A q \in Procs \ {p} : pc'[q] = pc[q] /\ key'[q] = key[q]
    BY <1>1, <1>4, OthersKeep
  <2>2. S \in SUBSET Waiting(k)
    BY <1>4, <2>1 DEF Waiting
  <2>3. Share(k, S)[p] \in Int /\ Share(k, S)'[p] \in Int
    BY <1>1, <1>4, ShareStep
  <2>4. settled'[k] + Share(k, S)'[p] <= settled[k] + Share(k, S)[p]
    BY <1>3, <1>4, <2>3
  <2>5. QED
    BY <1>1, <1>4, <2>2, <2>4, CoveredStep
<1>5. ASSUME NEW p \in Procs,
             \/ ReserveAdd(p) \/ ReserveUndo(p) \/ ReserveRetotal(p) \/ ConsumeBurstLoad(p)
             \/ RecordTotal(p) \/ ReplenishBurstLoad(p) \/ ReplenishBurstSwap(p)
      PROVE  Covered(k, S)'
  <2>1. UNCHANGED <<key, settled>>
    BY <1>5 DEF ReserveAdd, ReserveUndo, ReserveRetotal, ConsumeBurstLoad, RecordTotal,
       ReplenishBurstLoad, ReplenishBurstSwap, locals, history
  <2>2. /\ (Open(p)' <=> Open(p)) /\ (Open(p) => Holds(p)' = Holds(p))
        /\ p \in S => pc[p] \in {"r_load", "r_cas"} /\ seen'[p] = seen[p] /\ Holds(p)' = Holds(p)
    <3>1. p \in S => pc'[p] \in {"r_load", "r_cas"}
      BY DEF Waiting
    <3>2. CASE ReserveAdd(p) \/ ReserveUndo(p) \/ ReserveRetotal(p)
      BY <1>1, <3>1, <3>2 DEF ReserveAdd, ReserveUndo, ReserveRetotal, Goto, Open, TypeOK
    <3>3. CASE ConsumeBurstLoad(p)
      <4>1. Holds(p)' = Holds(p)
        BY <1>1, <3>3, HoldsSame
      <4>2. QED
        BY <1>1, <3>1, <3>3, <4>1 DEF ConsumeBurstLoad, Goto, Open, TypeOK
    <3>4. CASE RecordTotal(p) \/ ReplenishBurstLoad(p) \/ ReplenishBurstSwap(p)
      <4>1. Holds(p)' = Holds(p)
        BY <1>1, <3>4, HoldsSame
      <4>2. QED
        BY <1>1, <3>1, <3>4, <4>1 DEF RecordTotal, ReplenishBurstLoad, ReplenishBurstSwap,
           CompareAndSwap, Goto, Open, TypeOK
    <3>5. QED
      BY <1>5, <3>2, <3>3, <3>4
  <2>3. Share(k, S)'[p] = Share(k, S)[p]
    BY <2>1, <2>2 DEF Share
  <2>4. Share(k, S)[p] \in Int
    BY <1>2 DEF Share
  <2>5. QED
    BY <1>4, <1>5, <2>1, <2>2, <2>3, <2>4 DEF TrackerStep
<1>6. ASSUME NEW p \in Procs, ReserveTotal(p) PROVE Covered(k, S)'
  <2>1. /\ pc[p] = "r_total" /\ UNCHANGED <<key, settled>> /\ key[p] \in Registered
        /\ pc' = [pc EXCEPT ![p] = IF seen'[p] <= Limit(p) THEN "granted" ELSE "r_load"]
        /\ \A q \in Procs : Holds(q)' = Holds(q)
    BY <1>1, <1>6, HoldsSame DEF ReserveTotal, Goto, history, Calling
  <2>2. CASE p \notin S /\ (key[p] # k \/ pc'[p] = "r_load")
    <3>1. Share(k, S)'[p] <= Share(k, S)[p]
      BY <1>1, <1>2, <2>1, <2>2 DEF Share, Open, TypeOK
    <3>2. QED
      BY <1>4, <1>6, <2>1, <2>2, <3>1 DEF TrackerStep
  <2>3. CASE key[p] = k
    <3>1. PICK f : f = Share(k, S)'
      OBVIOUS
    <3>2. PICK h : h = HeldBy(k)
      OBVIOUS
    <3>3. \A q \in Procs : f[q] \in Int /\ h[q] \in Int /\ f[q] <= h[q]
      BY <1>2, <2>1, <3>1, <3>2 DEF Share, HeldBy
    <3>4. SumFunctionOnSet(f, Procs) <= SumFunctionOnSet(h, Procs)
      BY <1>1, <3>3, SumMonotonic
    <3>5. win[k].total = settled[k] + SumFunctionOnSet(h, Procs)
      BY <1>1, <3>2, HeldType DEF RefInv, ConservedInv, ReservationsConserved
    <3>6. /\ win[k].headTime = now /\ WindowSeconds[k] \in Nat \ {0}
          /\ win[k] \in WindowType(WindowSeconds[k])
      BY <1>1, TrackerAssumption DEF RefInv, ConservedInv, FirstSecond, TypeOK
    <3>7. Total(win[k], WindowSeconds[k], now) = win[k].total
      <4>1. win[k].total >= 0
        BY <3>2, <3>5, Room DEF Fits, RefInv, ConservedInv
      <4>2. Total(win[k], WindowSeconds[k], win[k].headTime) = win[k].total
        <5>1. 0 \in Int
          OBVIOUS
        <5>2. QED
          BY <3>6, <4>1, <5>1, AtHead
      <4>3. QED
        BY <3>6, <4>2
    <3>8. seen' = [seen EXCEPT ![p] = win[k].total]
      BY <1>6, <2>3, <3>7 DEF ReserveTotal, WindowTotal
    <3>9. seen'[p] = settled[k] + SumFunctionOnSet(h, Procs) /\ seen'[p] \in Nat
      BY <1>1, <3>5, <3>8 DEF TypeOK
    <3>10. SumFunctionOnSet(f, Procs) \in Int /\ SumFunctionOnSet(h, Procs) \in Int
      BY <1>1, <3>3, SumType
    <3>11. Usage(k, S)' = settled'[k] + SumFunctionOnSet(f, Procs)
      BY <3>1 DEF Usage
    <3>12. Usage(k, S)' <= seen'[p] /\ Usage(k, S)' \in Int
      BY <1>3, <2>1, <3>4, <3>9, <3>10, <3>11
    <3>13. CASE pc'[p] = "granted"
      <4>1. seen'[p] <= LimitTokens[k]
        BY <1>1, <2>1, <2>3, <3>13 DEF Limit, TypeOK
      <4>2. QED
        BY <1>3, <3>9, <3>12, <4>1 DEF Covered, Capacity
    <3>14. CASE p \in S
      BY <3>12, <3>14 DEF Covered
    <3>15. QED
      BY <1>1, <2>1, <2>2, <3>13, <3>14 DEF TypeOK
  <2>4. p \in S => key[p] = k
    BY <2>1 DEF Waiting
  <2>5. QED
    BY <2>2, <2>3, <2>4
<1>7. ASSUME NEW p \in Procs, ConsumeBurstSwap(p) PROVE Covered(k, S)'
  <2>1. /\ pc[p] = "r_cas" /\ UNCHANGED <<key, settled, seen>> /\ key[p] \in Registered
        /\ pc' = [pc EXCEPT ![p] = "granted"] \/ pc' = [pc EXCEPT ![p] = "r_load"]
        /\ \A q \in Procs : Holds(q)' = Holds(q)
    BY <1>1, <1>7, HoldsSame DEF ConsumeBurstSwap, CompareAndSwap, Goto, history, locals, Calling
  <2>2. CASE key[p] # k \/ pc'[p] = "r_load"
    <3>1. Share(k, S)'[p] <= Share(k, S)[p]
      BY <1>1, <1>2, <2>1, <2>2 DEF Share, Open, TypeOK
    <3>2. QED
      BY <1>4, <1>7, <2>1, <3>1 DEF TrackerStep
  <2>3. CASE key[p] = k /\ pc'[p] = "granted"
    <3> DEFINE T == S \cup {p}
    <3>1. T \in SUBSET Waiting(k) /\ p \notin S
      <4>1. \A q \in Procs \ {p} : pc'[q] = pc[q]
        BY <1>1, <2>1 DEF TypeOK
      <4>2. QED
        BY <2>1, <2>3, <4>1 DEF Waiting
    <3>2. seen[p] <= Capacity(k)
      <4>1. overage(p) <= cur[p] /\ cur[p] <= BurstTokens[key[p]]
        BY <1>1, <2>1 DEF Locals
      <4>2. seen[p] \in Int /\ cur[p] \in Int
        BY <1>1 DEF TypeOK
      <4>3. QED
        BY <1>3, <2>3, <4>1, <4>2 DEF overage, Limit, Capacity
    <3>3. Share(k, S)'[p] = Share(k, T)[p] /\ Share(k, T)[p] \in Int
      BY <1>2, <2>1, <2>3 DEF Share, Open
    <3>4. settled'[k] + Share(k, S)'[p] <= settled[k] + Share(k, T)[p]
      BY <1>3, <2>1, <3>3
    <3>5. S \ {p} = T \ {p}
      OBVIOUS
    <3> HIDE DEF T
    <3>6. QED
      BY <1>1, <1>7, <3>1, <3>2, <3>4, <3>5, CoveredStep DEF TrackerStep
  <2>4. QED
    BY <1>1, <2>1, <2>2, <2>3 DEF TypeOK
<1>8. ASSUME NEW p \in Procs, RecordAdd(p) PROVE Covered(k, S)'
  <2>1. /\ pc[p] = "c_add" /\ UNCHANGED <<key, est, delta, settled, seen>>
        /\ pc' = [pc EXCEPT ![p] = "c_total"]
    BY <1>8 DEF RecordAdd, Goto, locals, history
  <2>2. p \notin S /\ Open(p) /\ Open(p)'
    BY <1>1, <2>1 DEF Waiting, Open, TypeOK
  <2>3. est[p] \in Estimates /\ delta[p] \in Deltas(est[p])
    BY <1>1, <2>1 DEF IInv, Asked, Reconciling
  <2>4. est[p] \in Int /\ delta[p] \in Int /\ delta[p] <= 0
    BY <1>1, <2>3 DEF OnlyRefunds, TypeOK
  <2>5. Holds(p) = est[p] /\ Holds(p)' = est[p] + delta[p]
    BY <1>1, <2>1 DEF Holds, TypeOK
  <2>6. Share(k, S)'[p] <= Share(k, S)[p]
    BY <2>1, <2>2, <2>4, <2>5 DEF Share
  <2>7. QED
    BY <1>4, <1>8, <2>1, <2>2, <2>6 DEF TrackerStep
<1>9. ASSUME NEW p \in Procs, Client(p) PROVE Covered(k, S)'
  <2>1. CASE \E j \in Workloads, e \in Estimates : CallReserve(p, j, e)
    <3>1. /\ ~Open(p) /\ ~Open(p)' /\ p \notin S /\ settled' = settled
      BY <1>1, <2>1 DEF CallReserve, Goto, Open, Waiting, TypeOK
    <3>2. Share(k, S)'[p] <= Share(k, S)[p]
      BY <3>1 DEF Share
    <3>3. QED
      BY <1>4, <1>9, <3>1, <3>2
  <2>2. CASE pc[p] = "granted" /\ \E d \in Deltas(est[p]) : CallRecord(p, d)
    <3>1. /\ Open(p) /\ Open(p)' /\ p \notin S /\ settled' = settled /\ key' = key
      BY <1>1, <2>2 DEF CallRecord, Goto, Open, Waiting, TypeOK, history
    <3>2. Holds(p)' = Holds(p)
      BY <1>1, <2>2, HoldsClient
    <3>3. Share(k, S)'[p] <= Share(k, S)[p]
      BY <1>2, <3>1, <3>2 DEF Share
    <3>4. QED
      BY <1>4, <1>9, <3>1, <3>3
  <2>3. CASE Finish(p)
    <3>1. /\ ~Open(p)' /\ p \notin S /\ pc[p] \in Returned
          /\ settled'[k] = IF k = key[p] THEN settled[k] + Holds(p) ELSE settled[k]
      BY <1>1, <2>3 DEF Finish, Goto, Open, Waiting, TypeOK
    <3>2. Open(p) \/ Holds(p) = 0
      BY <3>1 DEF Open, Returned, Holds
    <3>3. Share(k, S)'[p] = 0
      BY <3>1 DEF Share
    <3>4. Share(k, S)[p] = IF key[p] = k THEN Holds(p) ELSE 0
      BY <3>1, <3>2 DEF Share
    <3>5. settled'[k] + Share(k, S)'[p] <= settled[k] + Share(k, S)[p]
      BY <1>2, <1>3, <3>1, <3>3, <3>4
    <3>6. S \in SUBSET Waiting(k)
      <4>1. \A q \in Procs \ {p} : pc'[q] = pc[q] /\ key'[q] = key[q]
        BY <1>1, <1>9, OthersKeep
      <4>2. QED
        BY <3>1, <4>1 DEF Waiting
    <3>7. QED
      BY <1>1, <1>9, <3>1, <3>5, <3>6, CoveredStep
  <2>4. QED
    BY <1>9, <2>1, <2>2, <2>3 DEF Client
<1>10. CASE (\E j \in Registered : Status(j)) \/ UNCHANGED vars
  <2>1. UNCHANGED <<pc, key, est, delta, seen, settled>>
    BY <1>10 DEF Status, vars, locals, history
  <2>2. Share(k, S)' = Share(k, S) /\ S \in SUBSET Waiting(k)
    BY <2>1 DEF Share, Open, Holds, Waiting
  <2>3. Usage(k, S)' = Usage(k, S)
    BY <2>1, <2>2 DEF Usage
  <2>4. Covered(k, S)
    BY <1>1, <2>2 DEF Competing
  <2>5. QED
    BY <2>1, <2>3, <2>4 DEF Covered
<1>11. ~Tick
  BY <1>1 DEF Tick
<1>12. QED
  BY <1>5, <1>6, <1>7, <1>8, <1>9, <1>10, <1>11 DEF Next, TrackerStep

-----------------------------------------------------------------------------
(* The refinement mapping of Budget, by name. *)
AbsPhase == [p \in Procs |-> CASE ~Open(p) -> "none"
                               [] pc[p] \in {"granted", "c_add"} -> "reserved"
                               [] OTHER -> "reconciled"]
AbsOwner == [p \in Procs |-> IF Open(p) THEN key[p] ELSE NoWorkload]
AbsHeld == [p \in Procs |-> IF Open(p) THEN Holds(p) ELSE 0]

(* The phase of a request, case by case. *)
PhaseCases ==
    /\ AbsPhase = [q \in Procs |-> AbsPhase[q]]
    /\ \A q \in Procs :
          /\ ~Open(q) => AbsPhase[q] = "none"
          /\ Open(q) /\ pc[q] \in {"granted", "c_add"} => AbsPhase[q] = "reserved"
          /\ Open(q) /\ pc[q] \notin {"granted", "c_add"} => AbsPhase[q] = "reconciled"

LEMMA PhaseNow == PhaseCases
<1>1. AbsPhase = [q \in Procs |-> AbsPhase[q]]
  BY DEF AbsPhase
<1>2. ASSUME NEW q \in Procs
      PROVE  AbsPhase[q] = CASE ~Open(q) -> "none"
                             [] pc[q] \in {"granted", "c_add"} -> "reserved"
                             [] OTHER -> "reconciled"
  BY DEF AbsPhase
<1>3. ASSUME NEW q \in Procs
      PROVE  /\ ~Open(q) => AbsPhase[q] = "none"
             /\ Open(q) /\ pc[q] \in {"granted", "c_add"} => AbsPhase[q] = "reserved"
             /\ Open(q) /\ pc[q] \notin {"granted", "c_add"} => AbsPhase[q] = "reconciled"
  <2>1. CASE ~Open(q)
    BY <1>2, <2>1 DEF Open, RecordSteps
  <2>2. CASE Open(q) /\ pc[q] \in {"granted", "c_add"}
    BY <1>2, <2>2 DEF Open
  <2>3. CASE Open(q) /\ pc[q] \notin {"granted", "c_add"}
    BY <1>2, <2>3 DEF Open
  <2>4. QED
    BY <2>1, <2>2, <2>3
<1>4. QED
  BY <1>1, <1>3 DEF PhaseCases

LEMMA PhaseNext == PhaseCases'
BY PhaseNow, PTL

(* What the abstract specification adds up is what the granted requests hold. *)
LEMMA CommittedShare ==
    ASSUME NEW k \in Registered
    PROVE  Budget!Committed(k) = settled[k] + SumFunctionOnSet(Share(k, {}), Procs)
<1>1. \A f, S : Budget!SumFunctionOnSet(f, S) = SumFunctionOnSet(f, S)
  BY DEF Budget!SumFunctionOnSet, Budget!FoldFunctionOnSet, Budget!MapThenFoldSet,
         SumFunctionOnSet, FoldFunctionOnSet, MapThenFoldSet
<1>2. [q \in Procs |-> IF AbsOwner[q] = k THEN AbsHeld[q] ELSE 0] = Share(k, {})
  BY TrackerAssumption DEF AbsOwner, AbsHeld, Share
<1>3. Budget!Committed(k) = settled[k] +
          SumFunctionOnSet([q \in Procs |-> IF AbsOwner[q] = k THEN AbsHeld[q] ELSE 0], Procs)
  BY <1>1 DEF Budget!Committed, Budget!SumFunction, AbsOwner, AbsHeld
<1>4. QED
  BY <1>2, <1>3

(* A step that leaves what is open alone is a stuttering step. *)
LEMMA StutterStep ==
    ASSUME settled' = settled,
           \A q \in Procs : /\ (Open(q)' <=> Open(q))
                            /\ Open(q) => /\ key'[q] = key[q] /\ Holds(q)' = Holds(q)
                                          /\ pc'[q] \in {"granted", "c_add"}
                                                <=> pc[q] \in {"granted", "c_add"}
    PROVE  UNCHANGED Budget!vars
<1>1. AbsOwner' = AbsOwner /\ AbsHeld' = AbsHeld
  BY DEF AbsOwner, AbsHeld
<1>2. AbsPhase' = AbsPhase
  <2>1. \A q \in Procs : AbsPhase'[q] = AbsPhase[q]
    BY PhaseNow, PhaseNext DEF PhaseCases
  <2>2. QED
    BY <2>1, PhaseNow, PhaseNext DEF PhaseCases
<1>3. QED
  BY <1>1, <1>2 DEF Budget!vars, AbsPhase, AbsOwner, AbsHeld

(* The step that grants p's reservation is a Grant of it. *)
LEMMA GrantStep ==
    ASSUME IsFiniteSet(Procs), IInv, TypeOK', Competing', NEW p \in Procs, TrackerStep(p),
           ~Open(p), pc' = [pc EXCEPT ![p] = "granted"],
           NEW k \in Registered, key[p] = k, NEW e \in Estimates, est[p] = e,
           UNCHANGED <<key, est, settled>>
    PROVE  Budget!Grant(p, k, e)
<1>1. TypeOK
  BY DEF IInv, TrackerInv
<1>2. /\ \A q \in Procs \ {p} : pc'[q] = pc[q] /\ key'[q] = key[q] /\ Holds(q)' = Holds(q)
      /\ pc'[p] = "granted"
  BY <1>1, OthersKeep DEF TypeOK
<1>3. Open(p)' /\ Holds(p)' = e /\ e \in Int
  BY <1>1, <1>2 DEF Open, Holds, TypeOK
<1>4. \A q \in Procs \ {p} : (Open(q)' <=> Open(q))
  BY <1>2 DEF Open
<1>5. AbsPhase' = [AbsPhase EXCEPT ![p] = "reserved"] /\ AbsPhase[p] = "none"
  <2>1. /\ \A q \in Procs \ {p} : AbsPhase'[q] = AbsPhase[q]
        /\ AbsPhase'[p] = "reserved"
    BY <1>2, <1>3, <1>4, PhaseNow, PhaseNext DEF PhaseCases
  <2>2. AbsPhase[p] = "none"
    BY <1>2, <1>3, <1>4, PhaseNow DEF PhaseCases
  <2>3. QED
    BY <2>1, <2>2, PhaseNow, PhaseNext DEF PhaseCases
<1>6. AbsOwner' = [AbsOwner EXCEPT ![p] = k]
  BY <1>2, <1>3, <1>4 DEF AbsOwner
<1>7. AbsHeld' = [AbsHeld EXCEPT ![p] = e]
  BY <1>2, <1>3, <1>4 DEF AbsHeld
<1>8. Budget!Committed(k) + e <= Capacity(k)
  <2> DEFINE s == SumFunctionOnSet(Share(k, {}), Procs)
             t == SumFunctionOnSet(Share(k, {}), Procs)'
  <2>1. /\ s \in Int /\ t \in Int
        /\ t = s + Share(k, {})'[p] - Share(k, {})[p]
    BY <1>1, ShareStep
  <2>2. Share(k, {})'[p] = e /\ Share(k, {})[p] = 0
    BY <1>3 DEF Share
  <2>3. {} \in SUBSET Waiting(k)'
    OBVIOUS
  <2>4. Usage(k, {})' <= Capacity(k)
    BY <2>3 DEF Competing, Covered, Capacity
  <2>5. Usage(k, {})' = settled'[k] + t
    BY DEF Usage
  <2>6. Budget!Committed(k) = settled[k] + s
    BY CommittedShare
  <2>7. settled[k] \in Int /\ settled'[k] = settled[k]
    BY <1>1 DEF TypeOK
  <2> HIDE DEF s, t
  <2>8. QED
    BY <1>3, <2>1, <2>2, <2>4, <2>5, <2>6, <2>7
<1>9. QED
  BY <1>5, <1>6, <1>7, <1>8 DEF Budget!Grant, AbsPhase, AbsOwner, AbsHeld, Capacity

(* The step that adds the report's tokens is a Reconcile. *)
LEMMA ReconcileStep ==
    ASSUME TypeOK, TypeOK', NEW p \in Procs, RecordAdd(p), est[p] + delta[p] \in 0 .. est[p]
    PROVE  Budget!Reconcile(p)
<1>1. /\ pc[p] = "c_add" /\ UNCHANGED <<key, est, delta, settled>>
      /\ pc' = [pc EXCEPT ![p] = "c_total"]
  BY DEF RecordAdd, Goto, locals, history
<1>2. \A q \in Procs \ {p} : pc'[q] = pc[q] /\ key'[q] = key[q] /\ Holds(q)' = Holds(q)
  BY OthersKeep DEF TrackerStep
<1>3. /\ Open(p) /\ Open(p)' /\ pc'[p] = "c_total"
      /\ Holds(p) = est[p] /\ Holds(p)' = est[p] + delta[p]
  BY <1>1 DEF Open, Holds, TypeOK, RecordSteps
<1>4. \A q \in Procs \ {p} : (Open(q)' <=> Open(q))
  BY <1>2 DEF Open
<1>5. AbsPhase' = [AbsPhase EXCEPT ![p] = "reconciled"] /\ AbsPhase[p] = "reserved"
  <2>1. /\ \A q \in Procs \ {p} : AbsPhase'[q] = AbsPhase[q]
        /\ AbsPhase'[p] = "reconciled"
    BY <1>1, <1>2, <1>3, <1>4, PhaseNow, PhaseNext DEF PhaseCases
  <2>2. AbsPhase[p] = "reserved"
    BY <1>1, <1>2, <1>3, <1>4, PhaseNow DEF PhaseCases
  <2>3. QED
    BY <2>1, <2>2, PhaseNow, PhaseNext DEF PhaseCases
<1>6. AbsOwner' = AbsOwner
  BY <1>1, <1>2, <1>3, <1>4 DEF AbsOwner
<1>7. AbsHeld' = [AbsHeld EXCEPT ![p] = est[p] + delta[p]] /\ AbsHeld[p] = est[p]
  BY <1>2, <1>3, <1>4 DEF AbsHeld
<1>8. QED
  BY <1>1, <1>5, <1>6, <1>7 DEF Budget!Reconcile, AbsPhase, AbsOwner, AbsHeld

(* The end of a granted request is a Close; that of another one a stutter. *)
LEMMA FinishStep ==
    ASSUME TypeOK, TypeOK', NEW p \in Procs, Finish(p), Open(p) => key[p] \in Registered
    PROVE  Budget!Close(p) \/ UNCHANGED Budget!vars
<1>1. /\ pc[p] \in Returned /\ pc' = [pc EXCEPT ![p] = "idle"]
      /\ key' = [key EXCEPT ![p] = NoWorkload]
      /\ settled' = [k \in Registered |->
                       IF k = key[p] THEN settled[k] + Holds(p) ELSE settled[k]]
  BY DEF Finish, Goto
<1>2. \A q \in Procs \ {p} : pc'[q] = pc[q] /\ key'[q] = key[q] /\ Holds(q)' = Holds(q)
  BY OthersKeep DEF Client
<1>3. ~Open(p)' /\ \A q \in Procs \ {p} : (Open(q)' <=> Open(q))
  BY <1>1, <1>2 DEF Open, TypeOK, RecordSteps
<1>4. CASE Open(p)
  <2>1. AbsPhase' = [AbsPhase EXCEPT ![p] = "none"] /\ AbsPhase[p] # "none"
    <3>1. /\ \A q \in Procs \ {p} : AbsPhase'[q] = AbsPhase[q]
          /\ AbsPhase'[p] = "none"
      BY <1>2, <1>3, <1>4, PhaseNow, PhaseNext DEF PhaseCases
    <3>2. AbsPhase[p] # "none"
      BY <1>2, <1>3, <1>4, PhaseNow DEF PhaseCases
    <3>3. QED
      BY <3>1, <3>2, PhaseNow, PhaseNext DEF PhaseCases
  <2>2. AbsOwner' = [AbsOwner EXCEPT ![p] = NoWorkload] /\ AbsOwner[p] = key[p]
    BY <1>2, <1>3, <1>4 DEF AbsOwner
  <2>3. AbsHeld' = [AbsHeld EXCEPT ![p] = 0] /\ AbsHeld[p] = Holds(p)
    BY <1>2, <1>3, <1>4 DEF AbsHeld
  <2>4. settled' = [settled EXCEPT ![AbsOwner[p]] = @ + AbsHeld[p]]
    BY <1>1, <1>4, <2>2, <2>3 DEF TypeOK
  <2>5. QED
    BY <2>1, <2>2, <2>3, <2>4 DEF Budget!Close, AbsPhase, AbsOwner, AbsHeld
<1>5. CASE ~Open(p)
  <2>1. Holds(p) = 0
    BY <1>1, <1>5 DEF Open, Returned, Holds
  <2>2. settled' = settled
    BY <1>1, <2>1 DEF TypeOK
  <2>3. QED
    BY <1>2, <1>3, <1>5, <2>2, StutterStep
<1>6. QED
  BY <1>4, <1>5

(* Each step of the tracker is one of the abstract specification's. *)
LEMMA StepRefines ==
    ASSUME NEW CONSTANT most, HonestClient(most), OnlyRefunds, RefInv(most), RefInv(most)',
           [Next]_vars
    PROVE  [Budget!Next]_(Budget!vars)
<1> USE DEF InCall, ReserveSteps, RecordSteps
<1>1. /\ IsFiniteSet(Procs) /\ most \in Nat /\ IInv /\ TypeOK /\ TypeOK' /\ Calling
      /\ Reconciling /\ Competing' /\ Asked
  BY DEF HonestClient, RefInv, ConservedInv, ClientInv, IInv, TrackerInv
<1>2. ASSUME NEW p \in Procs, TrackerStep(p) \/ Client(p), settled' = settled, Open(p)' <=> Open(p),
             Open(p) => /\ key'[p] = key[p] /\ Holds(p)' = Holds(p)
                        /\ pc'[p] \in {"granted", "c_add"} <=> pc[p] \in {"granted", "c_add"}
      PROVE  UNCHANGED Budget!vars
  <2>1. \A q \in Procs \ {p} : pc'[q] = pc[q] /\ key'[q] = key[q] /\ Holds(q)' = Holds(q)
    BY <1>1, <1>2, OthersKeep
  <2>2. \A q \in Procs \ {p} : (Open(q)' <=> Open(q))
    BY <2>1 DEF Open
  <2>3. QED
    BY <1>2, <2>1, <2>2, StutterStep
<1>3. ASSUME NEW p \in Procs, ReserveTotal(p) \/ ConsumeBurstSwap(p)
      PROVE  [Budget!Next]_(Budget!vars)
  <2>1. /\ pc[p] \in {"r_total", "r_cas"} /\ key[p] \in Registered /\ est[p] \in Estimates
        /\ UNCHANGED <<key, est, settled>>
        /\ \E l \in {"granted", "r_load"} : pc' = [pc EXCEPT ![p] = l]
    BY <1>1, <1>3 DEF ReserveTotal, ConsumeBurstSwap, CompareAndSwap, Goto, locals, history,
       Calling, Asked
  <2>2. CASE pc' = [pc EXCEPT ![p] = "granted"]
    <3>1. ~Open(p)
      BY <2>1 DEF Open
    <3>2. PICK k \in Registered, e \in Estimates : k = key[p] /\ e = est[p]
      BY <2>1
    <3>3. Budget!Grant(p, k, e)
      BY <1>1, <1>3, <2>1, <2>2, <3>1, <3>2, GrantStep DEF TrackerStep
    <3>4. QED
      BY <3>3 DEF Budget!Next
  <2>3. CASE pc' = [pc EXCEPT ![p] = "r_load"]
    <3>1. ~Open(p) /\ ~Open(p)'
      BY <1>1, <2>1, <2>3 DEF Open, TypeOK
    <3>2. QED
      BY <1>2, <1>3, <2>1, <3>1 DEF TrackerStep
  <2>4. QED
    BY <2>1, <2>2, <2>3
<1>4. ASSUME NEW p \in Procs,
             ReserveAdd(p) \/ ConsumeBurstLoad(p) \/ ReserveUndo(p) \/ ReserveRetotal(p)
      PROVE  UNCHANGED Budget!vars
  <2>1. ~Open(p) /\ ~Open(p)' /\ settled' = settled
    BY <1>1, <1>4 DEF ReserveAdd, ConsumeBurstLoad, ReserveUndo, ReserveRetotal, Goto, Open,
       TypeOK, history
  <2>2. QED
    BY <1>2, <1>4, <2>1 DEF TrackerStep
<1>5. ASSUME NEW p \in Procs, RecordAdd(p) PROVE [Budget!Next]_(Budget!vars)
  <2>1. est[p] \in Estimates /\ delta[p] \in Deltas(est[p])
    BY <1>1, <1>5 DEF RecordAdd, Asked, Reconciling
  <2>2. est[p] \in Int /\ delta[p] \in Int /\ delta[p] <= 0 /\ est[p] + delta[p] >= 0
    BY <1>1, <2>1 DEF OnlyRefunds, HonestClient, TypeOK
  <2>3. Budget!Reconcile(p)
    BY <1>1, <1>5, <2>2, ReconcileStep
  <2>4. QED
    BY <2>3 DEF Budget!Next
<1>6. ASSUME NEW p \in Procs, RecordTotal(p) \/ ReplenishBurstLoad(p) \/ ReplenishBurstSwap(p)
      PROVE  UNCHANGED Budget!vars
  <2>1. Holds(p)' = Holds(p) /\ key' = key /\ settled' = settled
    BY <1>1, <1>6, HoldsSame
  <2>2. /\ pc[p] \in {"c_total", "c_load", "c_cas"}
        /\ pc'[p] \in {"c_load", "c_cas", "recorded"}
    BY <1>1, <1>6 DEF RecordTotal, ReplenishBurstLoad, ReplenishBurstSwap, CompareAndSwap,
       Goto, TypeOK
  <2>3. Open(p) /\ Open(p)'
    BY <2>2 DEF Open
  <2>4. QED
    BY <1>2, <1>6, <2>1, <2>2, <2>3 DEF TrackerStep
<1>7. ASSUME NEW p \in Procs, Client(p) PROVE [Budget!Next]_(Budget!vars)
  <2>1. CASE \E k \in Workloads, e \in Estimates : CallReserve(p, k, e)
    <3>1. ~Open(p) /\ ~Open(p)' /\ settled' = settled
      BY <1>1, <2>1 DEF CallReserve, Goto, Open, TypeOK
    <3>2. QED
      BY <1>2, <1>7, <3>1
  <2>2. CASE pc[p] = "granted" /\ \E d \in Deltas(est[p]) : CallRecord(p, d)
    <3>1. Holds(p)' = Holds(p)
      BY <1>1, <2>2, HoldsClient
    <3>2. pc'[p] = "c_add" /\ key' = key /\ settled' = settled
      BY <1>1, <2>2 DEF CallRecord, Goto, TypeOK, Calling, history
    <3>3. Open(p) /\ Open(p)'
      BY <2>2, <3>2 DEF Open
    <3>4. QED
      BY <1>2, <1>7, <2>2, <3>1, <3>2, <3>3
  <2>3. CASE Finish(p)
    <3>1. Open(p) => key[p] \in Registered
      BY <1>1 DEF Open, Calling, RefInv
    <3>2. QED
      BY <1>1, <2>3, <3>1, FinishStep DEF Budget!Next
  <2>4. QED
    BY <1>7, <2>1, <2>2, <2>3 DEF Client
<1>8. CASE (\E k \in Registered : Status(k)) \/ Tick \/ UNCHANGED vars
  <2>1. UNCHANGED <<pc, key, est, delta, settled>>
    BY <1>8 DEF Status, Tick, vars, locals, history
  <2>2. \A q \in Procs : (Open(q)' <=> Open(q)) /\ Holds(q)' = Holds(q)
    BY <2>1 DEF Open, Holds
  <2>3. QED
    BY <2>1, <2>2, StutterStep
<1>9. QED
  BY <1>3, <1>4, <1>5, <1>6, <1>7, <1>8 DEF Next, TrackerStep

(* Reserve and Record, interleaved step by step, implement the promise of    *)
(* module TokenBudget, for any number of goroutines: while no second expires *)
(* and answers use no more than was reserved, every reservation granted      *)
(* fits the workload's limit plus burst together with all that is committed  *)
(* at that moment, although the total it was granted on was read earlier.    *)
THEOREM TrackerImplementsBudget ==
    ASSUME NEW CONSTANT most, HonestClient(most), OnlyRefunds, MaxTime = 0
    PROVE  Spec => ImplementsTokenBudget
<1>1. Init => RefInv(most) /\ Budget!Init
  <2> SUFFICES ASSUME Init PROVE RefInv(most) /\ Budget!Init
    OBVIOUS
  <2>1. ConservedInv(most)
    BY InitConserved
  <2>2. ASSUME NEW k \in Registered, NEW S \in SUBSET Waiting(k) PROVE Covered(k, S)
    <3>1. PICK z : z = Share(k, S)
      OBVIOUS
    <3>2. \A p \in Procs : z[p] = 0
      BY <3>1 DEF Init, Share, Holds, Open
    <3>3. SumFunctionOnSet(z, Procs) = 0
      BY <3>2, SumZero DEF HonestClient
    <3>4. settled[k] = 0 /\ Capacity(k) \in Nat
      BY TrackerAssumption DEF Init, Capacity
    <3>5. QED
      BY <3>1, <3>3, <3>4 DEF Covered, Usage
  <2>3. \A p \in Procs : ~Open(p) /\ pc[p] = "idle"
    BY DEF Init, Open, RecordSteps
  <2>4. Budget!Init
    BY <2>3 DEF Budget!Init, Init
  <2>5. QED
    BY <2>1, <2>2, <2>3, <2>4 DEF RefInv, Competing, Init
<1>2. ConservedInv(most) /\ [Next]_vars => ConservedInv(most)'
  BY NextConserved
<1>3. RefInv(most) /\ [Next]_vars => RefInv(most)'
  <2> SUFFICES ASSUME RefInv(most), [Next]_vars PROVE RefInv(most)'
    OBVIOUS
  <2>1. ConservedInv(most)'
    BY <1>2 DEF RefInv
  <2>2. TypeOK /\ Calling
    BY DEF RefInv, ConservedInv, ClientInv, IInv, TrackerInv
  <2>3. now' = 0
    BY DEF RefInv, Tick, Next, Status, Client, CallReserve, CallRecord, Finish, vars,
       TrackerStep, ReserveAdd, ReserveTotal, ConsumeBurstLoad, ConsumeBurstSwap, ReserveUndo,
       ReserveRetotal, RecordAdd, RecordTotal, ReplenishBurstLoad, ReplenishBurstSwap
  <2>4. Competing'
    BY <2>1, <2>3, NextCompeting
  <2>5. \A p \in Procs : pc'[p] = "recorded" => key'[p] \in Registered
    <3>1. ASSUME NEW p \in Procs, TrackerStep(p)
          PROVE  \A q \in Procs : pc'[q] = "recorded" => key'[q] \in Registered
      <4>1. UNCHANGED key /\ pc[p] \in InCall /\ \E l : pc' = [pc EXCEPT ![p] = l]
        BY <2>2, <3>1, TrackerStepFrame
      <4>2. QED
        BY <2>2, <4>1 DEF RefInv, Calling, TypeOK
    <3>2. ASSUME NEW p \in Procs, Client(p)
          PROVE  \A q \in Procs : pc'[q] = "recorded" => key'[q] \in Registered
      BY <2>2, <3>2 DEF RefInv, Client, CallReserve, CallRecord, Finish, Goto, TypeOK, Calling
    <3>3. CASE (\E k \in Registered : Status(k)) \/ Tick \/ UNCHANGED vars
      BY <3>3 DEF RefInv, Status, Tick, vars, locals
    <3>4. QED
      BY <3>1, <3>2, <3>3 DEF Next
  <2>6. QED
    BY <2>1, <2>3, <2>4, <2>5 DEF RefInv
<1>4. RefInv(most) /\ RefInv(most)' /\ [Next]_vars => [Budget!Next]_(Budget!vars)
  BY StepRefines
<1>5. QED
  BY <1>1, <1>3, <1>4, PTL DEF Spec, ImplementsTokenBudget, Budget!Spec
=============================================================================

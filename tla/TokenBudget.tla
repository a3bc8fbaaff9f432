----------------------------- MODULE TokenBudget -----------------------------
(***************************************************************************)
(* What the budget tracker promises the proxy while no second of the       *)
(* window expires: a reservation is granted only if, together with all the *)
(* tokens already committed, it fits the workload's limit plus burst; it   *)
(* is reconciled at most once and never upwards beyond what was reserved;  *)
(* a request that was not granted leaves no tokens behind.  When a         *)
(* reservation that would fit may still be refused is left open.           *)
(***************************************************************************)
EXTENDS Integers, Functions

CONSTANTS Procs, Registered, Capacity, Estimates,
          NoWorkload   \* the owner of a request that holds nothing

VARIABLES used,    \* tokens of finished requests, per workload
          phase,   \* "none", "reserved" or "reconciled", per request
          owner,   \* the workload a granted request belongs to
          held     \* the tokens committed to it

vars == <<used, phase, owner, held>>

Committed(k) ==
    used[k] + SumFunction([p \in Procs |-> IF owner[p] = k THEN held[p] ELSE 0])

Init == /\ used = [k \in Registered |-> 0]
        /\ phase = [p \in Procs |-> "none"]
        /\ owner = [p \in Procs |-> NoWorkload]
        /\ held = [p \in Procs |-> 0]

Grant(p, k, e) == /\ phase[p] = "none"
                  /\ Committed(k) + e <= Capacity[k]
                  /\ phase' = [phase EXCEPT ![p] = "reserved"]
                  /\ owner' = [owner EXCEPT ![p] = k]
                  /\ held' = [held EXCEPT ![p] = e]
                  /\ UNCHANGED used

Reconcile(p) == /\ phase[p] = "reserved"
                /\ \E a \in 0 .. held[p] : held' = [held EXCEPT ![p] = a]
                /\ phase' = [phase EXCEPT ![p] = "reconciled"]
                /\ UNCHANGED <<used, owner>>

Close(p) == /\ phase[p] # "none"
            /\ used' = [used EXCEPT ![owner[p]] = @ + held[p]]
            /\ phase' = [phase EXCEPT ![p] = "none"]
            /\ held' = [held EXCEPT ![p] = 0]
            /\ owner' = [owner EXCEPT ![p] = NoWorkload]

Next == \E p \in Procs : \/ \E k \in Registered, e \in Estimates : Grant(p, k, e)
                         \/ Reconcile(p) \/ Close(p)

Spec == Init /\ [][Next]_vars
=============================================================================

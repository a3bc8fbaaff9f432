--------------------------- MODULE MCBudgetTracker ---------------------------
(* Small instances of BudgetTracker for TLC. *)
EXTENDS BudgetTracker, TLC

CONSTANTS Window, Limit0, Burst0   \* the same parameters for every workload

MCWindowSeconds == [k \in Registered |-> Window]
MCLimitTokens == [k \in Registered |-> Limit0]
MCBurstTokens == [k \in Registered |-> Burst0]

\* report.Tokens: a full refund, a partial one, an exact estimate.
RefundDeltas(e) == {-e, -1} \cap -e .. 0
\* The same, and a response that used more than was reserved.
AllDeltas(e) == ({-e, -1} \cap -e .. 0) \cup {1}

\* max_tokens is not checked for its sign.
SignedEstimates == {-1, 1, 2}

Symmetry == Permutations(Procs)
=============================================================================

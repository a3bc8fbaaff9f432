---------------------------- MODULE PolicyEngine ----------------------------
(***************************************************************************)
(* What the handler asks of the wiring that main leaves behind and nothing *)
(* changes afterwards: the policy engine (internal/policy), the accounting *)
(* keys registered with the budget tracker, and the tier decider           *)
(* (internal/enforce).                                                     *)
(*                                                                         *)
(* A policy is a record [id, window, limit, burst, guard, kill]: its       *)
(* rolling budget, MaxTokensPerRequest (0 if not set), and whether         *)
(* tier3_platform.action is kill_workload.  A setup is the wiring:         *)
(*                                                                         *)
(*   mode       cfg.Mode.Type                                              *)
(*   policies   the map engine's table, workload ID -> policy              *)
(*   default    cfg.DefaultPolicy, or NoPolicy                             *)
(*   strict     cfg.StrictMode                                             *)
(*   override   the override engine's policy, or NoPolicy                  *)
(*   upstreams  the providers with a base URL                              *)
(*   sse        cfg.SSEExtractionEnabled()                                 *)
(*                                                                         *)
(* A workload ID is the sequence of its parts, as are the two keys that    *)
(* main makes up, so that all of them can be compared.                     *)
(***************************************************************************)
EXTENDS Integers

CONSTANTS Missing,   \* the identity of a request that carries none
          NoPolicy   \* a nil *config.Policy

Listener(s) == s.mode = "listener"

(* Mutant: strict mode is ignored. *)
LookupNotStrict(s, id) ==
    IF s.override # NoPolicy THEN s.override
    ELSE IF id \in DOMAIN s.policies THEN s.policies[id] ELSE s.default

\* Engine.Lookup: the override engine, or the map engine with its fallback.
Lookup(s, id) ==
    IF s.override # NoPolicy THEN s.override
    ELSE IF id \in DOMAIN s.policies THEN s.policies[id]
    ELSE IF s.strict THEN NoPolicy ELSE s.default

DefaultKey == <<"_default">>
OverrideKey(pol) == <<"listener_policy", pol.id>>

\* The workload a request counts for: one without an identity is accepted on
\* the default policy only, as workload "_default".
WorkloadID(id) == IF id = Missing THEN DefaultKey ELSE id

(* Mutant: main does not set listenerAccountingKey for an override. *)
accountingKeyOfDefault(s, workload) == IF Listener(s) THEN DefaultKey ELSE workload

\* listenerAccountingKey as main sets it, and accountingKey.
accountingKey(s, workload) ==
    IF ~Listener(s) THEN workload
    ELSE IF s.override # NoPolicy THEN OverrideKey(s.override) ELSE DefaultKey

\* The keys main registers with the budget tracker.
DefaultKeys(s) == IF s.default # NoPolicy THEN {DefaultKey} ELSE {}
RegisteredKeys(s) ==
    IF s.override # NoPolicy THEN {OverrideKey(s.override)}
    ELSE IF Listener(s) THEN DefaultKeys(s)
    ELSE DOMAIN s.policies \cup DefaultKeys(s)

\* The policy whose budget main registers under key k.  "_default" comes last
\* and Register keeps what it has: a workload of that name has it first.
RegisteredPolicy(s, k) ==
    IF s.override # NoPolicy THEN s.override
    ELSE IF ~Listener(s) /\ k \in DOMAIN s.policies THEN s.policies[k] ELSE s.default

\* CheckPerRequestGuard returns a decision.
GuardExceeded(pol, maxTokens) == pol.guard > 0 /\ maxTokens > pol.guard

\* Evaluate, asked only when the reservation was not allowed.
Evaluate(pol, used, limit) == CASE used <= limit -> "allow"
                                [] used > limit /\ pol.kill -> "kill"
                                [] OTHER -> "throttle"
=============================================================================

--------------------------- MODULE MCProxyHandler ---------------------------
(* Small instances of ProxyHandler for TLC. *)
EXTENDS ProxyHandler

CONSTANTS w1, w2   \* workload IDs; w2 is not configured

Policy(lim, extra, guard, kill) ==
    [id |-> "p", window |-> 1, limit |-> lim, burst |-> extra,
     guard |-> guard, kill |-> kill]

Setup(mode, policies, default, strict, upstreams) ==
    [mode |-> mode, policies |-> policies, default |-> default, strict |-> strict,
     override |-> NoPolicy, upstreams |-> upstreams, sse |-> TRUE]

Tight == Policy(4096, 2000, 6000, TRUE)
Roomy == Policy(6000, 0, 0, FALSE)
Small == Policy(3400, 0, 2000, FALSE)

Both == {"openai", "anthropic"}

StrictSetup == Setup("enforcement", [w \in {w1} |-> Tight], Roomy, TRUE, {"openai"})
LaxSetup == Setup("enforcement", [w \in {w1} |-> Tight], Roomy, FALSE, {"openai"})
ListenerSetup == [Setup("listener", [w \in {w1} |-> Tight], Roomy, TRUE, Both)
                     EXCEPT !.override = Small]
BareSetup == Setup("listener", [w \in {w1} |-> Tight], NoPolicy, FALSE, Both)

AllSetups == {StrictSetup, LaxSetup, ListenerSetup, BareSetup}

MCRegistered == {w1, DefaultKey, OverrideKey(Small)}
MCWorkloads == MCRegistered \cup {w2}
BudgetOf(k) == CASE k = w1 -> Tight [] k = DefaultKey -> Roomy [] OTHER -> Small
MCWindowSeconds == [k \in Registered |-> 1]
MCLimitTokens == [k \in Registered |-> BudgetOf(k).limit]
MCBurstTokens == [k \in Registered |-> BudgetOf(k).burst]
NoDeltas(e) == {}

OpenAI == {"openai.com"}
Anthropic == {"anthropic.com"}

Request(id, max, host, stream) ==
    [id |-> id, maxTokens |-> max, host |-> host, absolute |-> FALSE, stream |-> stream]

\* One request for each way through the handler that a setup offers.
EveryRequest(s) ==
    CASE s = StrictSetup -> {Request(w1, 0, OpenAI, TRUE), Request(w1, 3000, OpenAI, FALSE),
                             Request(w1, 7000, OpenAI, FALSE), Request(w1, 5000, Anthropic, FALSE),
                             Request(w2, 0, OpenAI, FALSE), Request(Missing, 0, OpenAI, FALSE)}
      [] s = LaxSetup -> {Request(w1, 3000, OpenAI, TRUE), Request(w2, 0, OpenAI, FALSE),
                          Request(Missing, 5000, Anthropic, FALSE),
                          [Request(Missing, 0, {}, FALSE) EXCEPT !.absolute = TRUE]}
      [] s = ListenerSetup -> {Request(w1, 3000, OpenAI, FALSE)}
      [] s = BareSetup -> {Request(w1, 0, OpenAI, FALSE), Request(Missing, 7000, {}, FALSE)}

\* A second passes in the listener's setup, whose requests share one window.
ListenerTicks(s) == IF s = ListenerSetup THEN 1 ELSE 0
NoTicks(s) == 0

\* Competing requests on one budget.
OneSetup == {LaxSetup}
SameRequests(s) == {Request(Missing, 0, OpenAI, TRUE)}
=============================================================================

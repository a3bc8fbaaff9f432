---------------------------- MODULE ProxyHandler ----------------------------
(***************************************************************************)
(* The request handler of internal/proxy/proxy.go: ServeHTTP,              *)
(* handleWithPolicy, proxyWithEnforcement, handleNonStreamingResponse and  *)
(* proxyDirect, one goroutine per request, on top of the budget tracker.   *)
(*                                                                         *)
(* The handler's position in a request is stage[p].  Between two positions *)
(* it touches nothing shared except the degraded flag and, through the     *)
(* steps of module BudgetTracker, the windows and burst pools.             *)
(***************************************************************************)
EXTENDS BudgetTracker, PolicyEngine, ProviderRegistry

CONSTANTS Setups,            \* the wirings main may leave behind
          Requests(_),       \* the requests clients send to one of them
          Horizon(_),        \* bound on the clock, for each of them
          Usages,            \* total token counts an upstream reports
          NoUsage            \* no usage was reported, or it was not parsed

\* A request: the identity the resolver finds, its max_tokens (0 if absent),
\* its host, whether its URL is in absolute form, whether it asks for a stream.
RequestType == [id : Workloads \cup {Missing}, maxTokens : Int,
                host : SUBSET Domains, absolute : BOOLEAN, stream : BOOLEAN]

\* The tracker knows the keys of all setups, each with the budget it has in
\* every setup that registers it, and NoWorkload is registered in none.  main
\* makes an override engine in listener mode only.
ASSUME HandlerAssumption ==
    /\ \A s \in Setups :
          /\ Requests(s) \subseteq RequestType
          /\ s.override # NoPolicy => Listener(s)
          /\ RegisteredKeys(s) \subseteq Registered
          /\ \A k \in RegisteredKeys(s) :
                /\ WindowSeconds[k] = RegisteredPolicy(s, k).window
                /\ LimitTokens[k] = RegisteredPolicy(s, k).limit
                /\ BurstTokens[k] = RegisteredPolicy(s, k).burst
    /\ Usages \subseteq Nat /\ NoUsage \notin Nat

VARIABLES setup,     \* the handler's configuration, which nothing changes
          degraded,  \* the handler's degraded flag
          stage,     \* where each request is in the handler
          req,       \* the request itself
          allowed,   \* its local: Reserve returned allowed
          answer,    \* what the upstream did with it
          response,  \* the status the client gets
          decisions  \* how many decisions were counted for it (metrics.go)

handler == <<stage, req, allowed, answer, response, decisions>>
pvars == <<vars, setup, degraded, handler>>

NoRequest == [id |-> Missing, maxTokens |-> 0, host |-> {},
              absolute |-> FALSE, stream |-> FALSE]

Answers == [kind : {"none", "direct", "error", "5xx", "json", "sse"},
            usage : Usages \cup {NoUsage}]

NoAnswer == [kind |-> "none", usage |-> NoUsage]

ProxyTypeOK ==
    /\ TypeOK
    /\ setup \in Setups
    /\ degraded \in BOOLEAN
    /\ stage \in [Procs -> {"idle", "direct", "reading", "reserving", "upstream",
                            "stream", "recording", "copy", "panic", "done"}]
    /\ req \in [Procs -> RequestType]
    /\ allowed \in [Procs -> BOOLEAN]
    /\ answer \in [Procs -> Answers]
    /\ response \in [Procs -> {"none", "proxied", "403", "429", "500", "502", "503", "504"}]
    /\ decisions \in [Procs -> Nat]

PInit == /\ Init
         /\ setup \in Setups
         /\ degraded = FALSE
         /\ stage = [p \in Procs |-> "idle"]
         /\ req = [p \in Procs |-> NoRequest]
         /\ allowed = [p \in Procs |-> FALSE]
         /\ answer = [p \in Procs |-> NoAnswer]
         /\ response = [p \in Procs |-> "none"]
         /\ decisions = [p \in Procs |-> 0]

-----------------------------------------------------------------------------
(* Helpers *)

Enter(p, s) == stage' = [stage EXCEPT ![p] = s]

\* writeErrorResponse, writeEnforcementResponse, or the proxied response
Respond(p, status) == /\ Enter(p, "done")
                      /\ response' = [response EXCEPT ![p] = status]

\* enforcementDecisionsTotal or listenerDecisionsTotal, n times
Count(p, n) == decisions' = [decisions EXCEPT ![p] = @ + n]

Provider(r) == DetectProvider(r.host)

\* The reservation estimate: max_tokens, or the provider's default.
maxTokens(r) == IF r.maxTokens = 0 THEN DefaultMaxTokens(Provider(r)) ELSE r.maxTokens

PolicyOf(r) == Lookup(setup, r.id)

HasUpstream(r) == resolveUpstream(setup, r.host, r.absolute)

\* acctKey, as the tracker looks it up: a key that this setup does not
\* register is unknown to it.
KeyOf(r) == LET k == accountingKey(setup, WorkloadID(r.id))
            IN  IF k \in RegisteredKeys(setup) THEN k ELSE NoWorkload

Arrive(p, r) == /\ stage[p] = "idle"
                /\ req' = [req EXCEPT ![p] = r]

-----------------------------------------------------------------------------
(* ServeHTTP and handleWithPolicy, up to the reservation *)

\* Degraded mode passes the request through.
PassThrough(p, r) ==
    /\ degraded
    /\ Arrive(p, r)
    /\ Enter(p, "direct")
    /\ UNCHANGED <<vars, setup, degraded, allowed, answer, response, decisions>>

\* No identity and no policy to fall back to, or an identity without policy.
Unmatched(p, r) ==
    /\ ~degraded /\ PolicyOf(r) = NoPolicy
    /\ Arrive(p, r)
    /\ IF Listener(setup) THEN Enter(p, "direct") /\ UNCHANGED response ELSE Respond(p, "403")
    /\ Count(p, 1)
    /\ UNCHANGED <<vars, setup, degraded, allowed, answer>>

\* A policy applies: the body is read, for as long as the client takes to
\* send it; the request is what the handler then sees.
Matched(p, r) ==
    /\ ~degraded /\ PolicyOf(r) # NoPolicy
    /\ Arrive(p, r)
    /\ Enter(p, "reading")
    /\ UNCHANGED <<vars, setup, degraded, allowed, answer, response, decisions>>

\* The per-request guard of the policy is exceeded.
OverGuard(r) == GuardExceeded(PolicyOf(r), maxTokens(r))

GuardRejected(p) ==
    /\ stage[p] = "reading" /\ OverGuard(req[p]) /\ ~Listener(setup)
    /\ Respond(p, "429")
    /\ Count(p, 1)
    /\ UNCHANGED <<vars, setup, degraded, req, allowed, answer>>

\* The guard passed, or was only observed: reserve.
StartReserve(p) ==
    /\ stage[p] = "reading" /\ (OverGuard(req[p]) => Listener(setup))
    /\ CallReserve(p, KeyOf(req[p]), maxTokens(req[p]))
    /\ Enter(p, "reserving")
    /\ Count(p, IF OverGuard(req[p]) THEN 1 ELSE 0)
    /\ UNCHANGED <<setup, degraded, req, allowed, answer, response>>

-----------------------------------------------------------------------------
(* handleWithPolicy, after the reservation *)

(* Mutant: a request without an upstream is not counted. *)
ProxyUncounted(p, overruled) ==
    IF HasUpstream(req[p]) THEN Enter(p, "upstream") /\ UNCHANGED response /\ Count(p, 1 + overruled)
                       ELSE Respond(p, "502") /\ UNCHANGED decisions

\* The decision is allow, or is overruled in listener mode after it has been
\* counted: proxy, unless no upstream is configured for the host.
Proxy(p, overruled) ==
    /\ IF HasUpstream(req[p]) THEN Enter(p, "upstream") /\ UNCHANGED response
                          ELSE Respond(p, "502")
    /\ Count(p, 1 + overruled)

Reserved(p) ==
    /\ stage[p] = "reserving" /\ pc[p] = "granted"
    /\ allowed' = [allowed EXCEPT ![p] = TRUE]
    /\ Proxy(p, 0)
    /\ UNCHANGED <<vars, setup, degraded, req, answer>>

\* ErrUnknownWorkload: an error in enforcement mode; in listener mode the
\* decider sees a zero status, which is within its zero limit.
ReserveFailed(p) ==
    /\ stage[p] = "reserving" /\ pc[p] = "unknown"
    /\ IF Listener(setup) THEN Proxy(p, 0) ELSE Respond(p, "500") /\ Count(p, 1)
    /\ UNCHANGED <<vars, setup, degraded, req, allowed, answer>>

Verdict(p) == Evaluate(PolicyOf(req[p]), seen[p], Limit(p))

(* Mutant: the decision is enforced in listener mode too. *)
DeniedEnforced(p) ==
    /\ stage[p] = "reserving" /\ pc[p] = "denied"
    /\ IF Verdict(p) = "allow" THEN Proxy(p, 0)
       ELSE Respond(p, IF Verdict(p) = "kill" THEN "503" ELSE "429") /\ Count(p, 1)
    /\ UNCHANGED <<vars, setup, degraded, req, allowed, answer>>

\* The tracker denied the reservation; the decider judges the total that was
\* read after the reservation had been undone.
Denied(p) ==
    /\ stage[p] = "reserving" /\ pc[p] = "denied"
    /\ CASE Verdict(p) = "allow" -> Proxy(p, 0)
         [] Verdict(p) # "allow" /\ Listener(setup) -> Proxy(p, 1)
         [] OTHER -> /\ Respond(p, IF Verdict(p) = "kill" THEN "503" ELSE "429")
                     /\ Count(p, 1)
    /\ UNCHANGED <<vars, setup, degraded, req, allowed, answer>>

-----------------------------------------------------------------------------
(* proxyWithEnforcement: the upstream's answer, and its reconciliation *)

\* The transport fails or times out: ErrorHandler, the reservation stands.
UpstreamError(p) ==
    /\ stage[p] = "upstream"
    /\ answer' = [answer EXCEPT ![p].kind = "error"]
    /\ Respond(p, "504")
    /\ UNCHANGED <<vars, setup, degraded, req, allowed, decisions>>

\* Record(delta); the reverse proxy goes on when it has returned.
Reconcile(p, d) == CallRecord(p, d) /\ Enter(p, "recording")

(* Mutant: the reservation is kept. *)
Upstream5xxKeeps(p) ==
    /\ stage[p] = "upstream"
    /\ answer' = [answer EXCEPT ![p].kind = "5xx"]
    /\ Enter(p, "copy")
    /\ UNCHANGED <<vars, setup, degraded, req, allowed, response, decisions>>

\* Status 500 or above: the whole reservation is returned.
Upstream5xx(p) ==
    /\ stage[p] = "upstream"
    /\ answer' = [answer EXCEPT ![p].kind = "5xx"]
    /\ Reconcile(p, -est[p])
    /\ UNCHANGED <<setup, degraded, req, allowed, response, decisions>>

\* handleNonStreamingResponse: reconcile with the reported usage, if any.
UpstreamJSON(p, u) ==
    /\ stage[p] = "upstream"
    /\ answer' = [answer EXCEPT ![p] =
                     [kind |-> "json", usage |-> IF ParsesUsage(Provider(req[p]))
                                                 THEN u ELSE NoUsage]]
    /\ IF answer'[p].usage = NoUsage
       THEN Enter(p, "copy") /\ UNCHANGED vars
       ELSE Reconcile(p, u - est[p])
    /\ UNCHANGED <<setup, degraded, req, allowed, response, decisions>>

\* An event stream; it is reconciled when its body is closed.
UpstreamSSE(p) ==
    /\ stage[p] = "upstream"
    /\ answer' = [answer EXCEPT ![p].kind = "sse"]
    /\ Enter(p, "stream")
    /\ UNCHANGED <<vars, setup, degraded, req, allowed, response, decisions>>

\* Where the reverse proxy leaves a request whose body it has copied, in full
\* or not: an incomplete copy panics with http.ErrAbortHandler.
Copied(complete) == IF complete THEN "done" ELSE "panic"

\* The stream ends, completely or because either side went away, having
\* reported usage u so far.  The body is closed, and onUsage runs, before the
\* reverse proxy's panic for an incomplete copy reaches ServeHTTP.
StreamEnd(p, u, complete) ==
    /\ stage[p] = "stream"
    /\ answer' = [answer EXCEPT ![p].usage = IF ExtractsSSE(setup, Provider(req[p]), req[p].stream)
                                              THEN u ELSE NoUsage]
    /\ IF answer'[p].usage = NoUsage
       THEN Enter(p, Copied(complete)) /\ UNCHANGED vars
       ELSE Reconcile(p, u - est[p])
    /\ response' = [response EXCEPT ![p] = "proxied"]
    /\ UNCHANGED <<setup, degraded, req, allowed, decisions>>

\* The reverse proxy goes on when ModifyResponse, or the Close of a stream it
\* has copied, returns.
RecordReturns(p, complete) ==
    /\ stage[p] = "recording" /\ pc[p] = "recorded"
    /\ Enter(p, IF answer[p].kind = "sse" THEN Copied(complete) ELSE "copy")
    /\ UNCHANGED <<vars, setup, degraded, req, allowed, answer, response, decisions>>

\* httputil.ReverseProxy sends the status and copies the body, unless the
\* client or the upstream goes away meanwhile.
CopyTo(p, complete) ==
    /\ Enter(p, Copied(complete))
    /\ response' = [response EXCEPT ![p] = "proxied"]

CopyBody(p, complete) ==
    /\ stage[p] = "copy"
    /\ CopyTo(p, complete)
    /\ UNCHANGED <<vars, setup, degraded, req, allowed, answer, decisions>>

\* proxyDirect: no budget; the reverse proxy's own error handler answers 502.
ProxyDirect(p, complete) ==
    /\ stage[p] = "direct"
    /\ \/ ~HasUpstream(req[p]) /\ Respond(p, "502") /\ UNCHANGED answer
       \/ /\ HasUpstream(req[p])
          /\ answer' = [answer EXCEPT ![p].kind = "direct"]
          /\ Respond(p, "502") \/ CopyTo(p, complete)
    /\ UNCHANGED <<vars, setup, degraded, req, allowed, decisions>>

\* The deferred recover of ServeHTTP; the status has been sent already.
Recover(p) ==
    /\ stage[p] = "panic"
    /\ degraded' = TRUE
    /\ Enter(p, "done")
    /\ UNCHANGED <<vars, setup, req, allowed, answer, response, decisions>>

-----------------------------------------------------------------------------
Arrival(p) == \E r \in Requests(setup) :
                 PassThrough(p, r) \/ Unmatched(p, r) \/ Matched(p, r)

HandlerStep(p) ==
    \/ GuardRejected(p) \/ StartReserve(p)
    \/ Reserved(p) \/ ReserveFailed(p) \/ Denied(p)
    \/ UpstreamError(p) \/ Upstream5xx(p) \/ UpstreamSSE(p)
    \/ \E u \in Usages \cup {NoUsage} :
          UpstreamJSON(p, u) \/ \E complete \in BOOLEAN : StreamEnd(p, u, complete)
    \/ \E complete \in BOOLEAN :
          RecordReturns(p, complete) \/ CopyBody(p, complete) \/ ProxyDirect(p, complete)
    \/ Recover(p)
    \/ TrackerStep(p) /\ UNCHANGED <<setup, degraded, handler>>

\* Requests, the /status endpoint, and the clock.
PNext == \/ \E p \in Procs : Arrival(p) \/ HandlerStep(p)
         \/ \E k \in Registered : Status(k) /\ UNCHANGED <<setup, degraded, handler>>
         \/ now < Horizon(setup) /\ Tick /\ UNCHANGED <<setup, degraded, handler>>

PSpec == PInit /\ [][PNext]_pvars

\* The handler is at a read that nothing in the program ends: of the client's
\* body (the server has no ReadTimeout), of the upstream's header
\* (ResponseHeaderTimeout runs only once the request is written) or of a body
\* that is passed on as it comes (WriteTimeout fails writes, not reads).  A JSON
\* body has been read in full before it is copied.
AwaitsPeer(p) ==
    \/ stage[p] \in {"reading", "upstream", "stream"}
    \/ stage[p] = "direct" /\ HasUpstream(req[p])
    \/ stage[p] = "copy" /\ answer[p].kind # "json"

\* The goroutine of a request is scheduled while it does not wait for its
\* client or its upstream; of those nothing is assumed.
PFairSpec == PSpec /\ \A p \in Procs : WF_pvars(~AwaitsPeer(p) /\ HandlerStep(p))

-----------------------------------------------------------------------------
(* Properties *)

Done(p) == stage[p] = "done"

\* The handler has tried to send the request on.
SentUpstream(p) == answer[p].kind # "none"

\* What a finished request should have cost, given how it was answered.
Charge(p) ==
    CASE ~allowed[p] -> 0
      [] allowed[p] /\ answer[p].kind = "5xx" -> 0
      [] allowed[p] /\ answer[p].kind # "5xx" /\ answer[p].usage # NoUsage -> answer[p].usage
      [] OTHER -> est[p]

(* When all requests are over, and none was sent on without a reservation,   *)
(* each window holds exactly what the code lets an answer cost: reported     *)
(* usage, nothing for an upstream 5xx or a refused request, the reservation  *)
(* for a timeout ("Reservation stands on timeout"), an unparsed body, a      *)
(* stream without usage and an unconfigured upstream.  The accounting        *)
(* invariants want the failed calls released: see FailedCallsReleased.       *)
AccountsMatchAnswers ==
    (now = 0 /\ \A p \in Procs : Done(p) /\ (SentUpstream(p) => allowed[p])) =>
        \A k \in Registered :
            win[k].total = TokensOf(k, Charge)

(* A reservation whose call fails, for want of an upstream or with an error  *)
(* or a timeout of the transport, is released before the request is over: no *)
(* reservation remains unresolved.                                           *)
FailedCallsReleased ==
    \A p \in Procs :
        Done(p) /\ allowed[p] /\ answer[p].kind \in {"none", "error"} => pc[p] = "recorded"

(* No request is sent on without a reservation and then reconciled against   *)
(* one: when all requests are over, no window holds less than the requests   *)
(* that did reserve cost.                                                    *)
ReservedTokensNotErased ==
    (now = 0 /\ \A p \in Procs : Done(p)) =>
        \A k \in Registered :
            win[k].total >= TokensOf(k, Charge)

(* In enforcement mode a request above the guard of the policy that applies  *)
(* to it, or from a workload that strict mode or the lack of a default       *)
(* policy leaves without one, is sent upstream only by degraded              *)
(* pass-through, however the degraded flag, set by another request, races    *)
(* with its checks.                                                          *)
ChecksNotBypassed ==
    \A p \in Procs :
        LET r == req[p]
            known == r.id \in DOMAIN setup.policies
            guard == IF known THEN setup.policies[r.id].guard
                     ELSE IF setup.default = NoPolicy THEN 0 ELSE setup.default.guard
        IN  (/\ ~Listener(setup) /\ SentUpstream(p)
             /\ \/ guard > 0 /\ maxTokens(r) > guard
                \/ ~known /\ (setup.strict \/ setup.default = NoPolicy))
                => degraded /\ pc[p] = "idle"

(* Listener mode never turns a request away: whatever the identity, policy,  *)
(* guard and budget say, the client gets the proxied response, an error of   *)
(* the upstream's or the handler's own 502 for a host without an upstream.   *)
ListenerNeverRejects ==
    Listener(setup) => \A p \in Procs : response[p] \notin {"403", "429", "500", "503"}

\* Sent on by the degraded mode of an enforcing handler.
PassedThrough(p) == degraded /\ pc[p] = "idle" /\ response[p] \in {"proxied", "502"}

(* In enforcement mode each request that does not pass through degraded mode *)
(* is counted as exactly one decision, as a dashboard that adds decisions up *)
(* takes it.                                                                 *)
OneDecisionPerRequest ==
    ~Listener(setup) =>
        \A p \in Procs : Done(p) => decisions[p] = IF PassedThrough(p) THEN 0 ELSE 1

(* Nothing that a client or an upstream does enters degraded mode.           *)
DegradedOnlyByInternalFault == ~degraded

(* Every request that arrives is answered, or waits for ever for bytes of    *)
(* its own client or its own upstream: the loops of the tracker end under    *)
(* contention, and no request is held up by another one's stalled peer.      *)
EveryRequestAnswered ==
    \A p \in Procs : stage[p] # "idle" ~> (Done(p) \/ []AwaitsPeer(p))
=============================================================================

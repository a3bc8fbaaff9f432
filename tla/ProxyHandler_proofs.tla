------------------------ MODULE ProxyHandler_proofs ------------------------
(***************************************************************************)
(* For any number of concurrent requests, any configuration main may wire  *)
(* and any answers of the upstream: the handler's checks are not bypassed, *)
(* each request is counted once, listener mode never rejects, and when all *)
(* requests are over the windows hold what the answers cost.               *)
(*                                                                         *)
(* The invariant is local: it says of each request what its place in the   *)
(* handler (stage), its place in the tracker (pc), its decisions and its   *)
(* answer have to do with each other.  Requests meet only in the degraded  *)
(* flag, which is never reset, and in the windows, about which the lemmas  *)
(* of BudgetTracker_proofs hold whoever the client is.                     *)
(***************************************************************************)
EXTENDS ProxyHandler, BudgetTracker_proofs

Decided == {"granted", "denied", "unknown"}
Reporting == RecordSteps \cup {"recorded"}

\* Where a request is in the handler tells where it is in the tracker.
Placed(p) ==
    /\ stage[p] \in {"idle", "direct", "reading"} => pc[p] = "idle"
    /\ stage[p] = "reserving" => pc[p] \in ReserveSteps \cup Decided
    /\ stage[p] \in {"upstream", "stream"} => pc[p] \in Decided
    /\ stage[p] = "recording" => pc[p] \in Reporting
    /\ stage[p] = "copy" => pc[p] \in Decided \cup {"recorded"}
    /\ stage[p] \in {"panic", "done"} => pc[p] \in Decided \cup {"idle", "recorded"}

\* A request that reached the tracker has passed the checks; one that did not
\* is sent on by degraded mode or listener mode only.
Checked(p) ==
    /\ pc[p] = "idle" /\ (stage[p] = "direct" \/ SentUpstream(p)) => degraded \/ Listener(setup)
    /\ stage[p] = "reading" \/ pc[p] # "idle" => PolicyOf(req[p]) # NoPolicy
    /\ pc[p] # "idle" => (OverGuard(req[p]) => Listener(setup))

\* In enforcement mode the decision is counted when it is taken.
Counted(p) == ~Listener(setup) =>
    /\ stage[p] \in {"idle", "direct", "reading", "reserving"} => decisions[p] = 0
    /\ stage[p] \in {"upstream", "stream", "recording", "copy"} => decisions[p] = 1
    /\ stage[p] \in {"panic", "done"} /\ pc[p] # "idle" => decisions[p] = 1
    /\ stage[p] = "panic" /\ pc[p] = "idle" =>
          degraded /\ decisions[p] = 0 /\ response[p] = "proxied"
    /\ stage[p] = "done" /\ pc[p] = "idle" =>
          \/ degraded /\ decisions[p] = 0 /\ response[p] \in {"proxied", "502"}
          \/ decisions[p] = 1 /\ response[p] \in {"403", "429"}

\* What has been reported to the tracker is what was answered, and only a
\* granted reservation counts as allowed.
Answered(p) ==
    /\ stage[p] \in {"idle", "direct", "reading", "reserving", "upstream"} => answer[p] = NoAnswer
    /\ stage[p] = "stream" => answer[p].kind = "sse"
    /\ stage[p] \in {"idle", "direct", "reading", "reserving"} => ~allowed[p]
    /\ pc[p] \in Reporting =>
          /\ answer[p].kind # "none"
          /\ answer[p].kind = "5xx" => est[p] + delta[p] = 0
          /\ answer[p].kind # "5xx" => /\ answer[p].usage \in Usages
                                       /\ est[p] + delta[p] = answer[p].usage
    /\ pc[p] \notin Reporting => answer[p].kind # "5xx" /\ answer[p].usage = NoUsage
    /\ allowed[p] => pc[p] \in {"granted"} \cup Reporting /\ key[p] \in Registered
    /\ pc[p] = "granted" /\ stage[p] # "reserving" => allowed[p]
    /\ stage[p] = "reading" \/ pc[p] # "idle" => req[p] \in Requests(setup)
    /\ pc[p] # "idle" => est[p] = maxTokens(req[p])

Quiet(p) == Listener(setup) => response[p] \notin {"403", "429", "500", "503"}

Local(p) == Placed(p) /\ Checked(p) /\ Counted(p) /\ Answered(p) /\ Quiet(p)

HandlerInv == TrackerInv /\ ProxyTypeOK /\ \A p \in Procs : Local(p)

-----------------------------------------------------------------------------
(* A request is not affected by a step that leaves it alone, even if that   *)
(* step enters degraded mode.                                               *)
LEMMA OthersLocal ==
    ASSUME NEW q \in Procs, Local(q), setup' = setup, degraded => degraded',
           pc'[q] = pc[q], key'[q] = key[q], est'[q] = est[q], delta'[q] = delta[q],
           stage'[q] = stage[q], req'[q] = req[q], allowed'[q] = allowed[q],
           answer'[q] = answer[q], response'[q] = response[q],
           decisions'[q] = decisions[q]
    PROVE  Local(q)'
<1>1. Placed(q)' /\ Quiet(q)'
  BY DEF Local, Placed, Quiet
<1>2. Checked(q)'
  BY DEF Local, Checked, SentUpstream, PolicyOf, OverGuard
<1>3. Counted(q)'
  BY DEF Local, Counted
<1>4. Answered(q)'
  BY DEF Local, Answered
<1>5. QED
  BY <1>1, <1>2, <1>3, <1>4 DEF Local

(* The tokens a request asks for, and the key it is accounted under.        *)
LEMMA AskType ==
    ASSUME NEW r \in RequestType, setup \in Setups
    PROVE  maxTokens(r) \in Int /\ KeyOf(r) \in Workloads \cup {NoWorkload}
<1>1. DefaultMaxTokens(Provider(r)) \in Int
  <2>1. CASE Provider(r) = "anthropic"
    BY <2>1 DEF DefaultMaxTokens
  <2>2. CASE Provider(r) = "google"
    BY <2>2 DEF DefaultMaxTokens
  <2>3. CASE Provider(r) # "anthropic" /\ Provider(r) # "google"
    BY <2>3 DEF DefaultMaxTokens
  <2>4. QED
    BY <2>1, <2>2, <2>3
<1>2. maxTokens(r) \in Int
  BY <1>1 DEF maxTokens, RequestType
<1>3. KeyOf(r) \in Workloads \cup {NoWorkload}
  BY HandlerAssumption, TrackerAssumption DEF KeyOf
<1>4. QED
  BY <1>2, <1>3

(* Setting one field of an answer. *)
LEMMA AnswerFields ==
    ASSUME NEW a \in Answers
    PROVE  /\ \A k : [a EXCEPT !.kind = k] = [kind |-> k, usage |-> a.usage]
           /\ \A u : [a EXCEPT !.usage = u] = [kind |-> a.kind, usage |-> u]
<1>1. PICK x, y : a = [kind |-> x, usage |-> y]
  BY DEF Answers
<1>2. a.kind = x /\ a.usage = y
  BY <1>1
<1>3. \A k : [[kind |-> x, usage |-> y] EXCEPT !.kind = k] = [kind |-> k, usage |-> y]
  OBVIOUS
<1>4. \A u : [[kind |-> x, usage |-> y] EXCEPT !.usage = u] = [kind |-> x, usage |-> u]
  OBVIOUS
<1>5. QED
  BY <1>1, <1>2, <1>3, <1>4, Zenon

(* The initial state: no request has arrived. *)
LEMMA InitHandlerInv == PInit => HandlerInv
<1> SUFFICES ASSUME PInit PROVE HandlerInv
  OBVIOUS
<1>1. TrackerInv
  BY InitInv DEF PInit
<1>2. NoRequest \in RequestType
  BY DEF NoRequest, RequestType
<1>3. NoAnswer \in Answers
  BY DEF NoAnswer, Answers
<1>4. ProxyTypeOK
  BY <1>1, <1>2, <1>3 DEF PInit, ProxyTypeOK, TrackerInv
<1>5. ASSUME NEW p \in Procs PROVE Local(p)
  <2>1. /\ pc[p] = "idle" /\ stage[p] = "idle" /\ answer[p] = NoAnswer /\ allowed[p] = FALSE
        /\ response[p] = "none" /\ decisions[p] = 0
    BY DEF PInit, Init
  <2>2. Placed(p) /\ Counted(p) /\ Quiet(p)
    BY <2>1 DEF Placed, Counted, Quiet
  <2>3. Checked(p)
    BY <2>1 DEF Checked, SentUpstream, NoAnswer
  <2>4. Answered(p)
    BY <2>1 DEF Answered, NoAnswer, Reporting, RecordSteps
  <2>5. QED
    BY <2>2, <2>3, <2>4 DEF Local
<1>6. QED
  BY <1>1, <1>4, <1>5 DEF HandlerInv

-----------------------------------------------------------------------------
\* A step on behalf of p: nothing else changes, but degraded mode may begin.
Alone(p) == /\ setup' = setup /\ (degraded => degraded')
            /\ \A q \in Procs \ {p} :
                 /\ pc'[q] = pc[q] /\ key'[q] = key[q] /\ est'[q] = est[q] /\ delta'[q] = delta[q]
                 /\ stage'[q] = stage[q] /\ req'[q] = req[q] /\ allowed'[q] = allowed[q]
                 /\ answer'[q] = answer[q] /\ response'[q] = response[q] /\ decisions'[q] = decisions[q]

LEMMA AloneInv ==
    ASSUME HandlerInv, NEW p \in Procs, Alone(p), TrackerInv', ProxyTypeOK', Local(p)'
    PROVE  HandlerInv'
<1>1. ASSUME NEW q \in Procs \ {p} PROVE Local(q)'
  BY OthersLocal DEF HandlerInv, Alone
<1>2. QED
  BY <1>1 DEF HandlerInv

(* ServeHTTP, up to the reading of the body. *)
LEMMA ArrivalInv ==
    ASSUME HandlerInv, NEW p \in Procs, Arrival(p)
    PROVE  HandlerInv'
<1> USE DEF Arrive, Enter, Respond, Count
<1>0. /\ TrackerInv /\ TypeOK /\ ProxyTypeOK /\ setup \in Setups /\ Local(p)
  BY DEF HandlerInv, TrackerInv, ProxyTypeOK
<1>1. PICK r \in Requests(setup) : PassThrough(p, r) \/ Unmatched(p, r) \/ Matched(p, r)
  BY DEF Arrival
<1>2. /\ r \in RequestType /\ stage[p] = "idle" /\ pc[p] = "idle" /\ answer[p] = NoAnswer
      /\ ~allowed[p] /\ req' = [req EXCEPT ![p] = r]
  BY <1>0, <1>1, HandlerAssumption DEF PassThrough, Unmatched, Matched, Local, Placed, Answered
<1>3. req'[p] = r /\ NoAnswer.kind = "none" /\ NoAnswer.usage = NoUsage
  BY <1>0, <1>2 DEF ProxyTypeOK, NoAnswer
<1>4. UNCHANGED <<vars, setup, degraded, allowed, answer>>
  BY <1>1 DEF PassThrough, Unmatched, Matched
<1>5. UNCHANGED <<pc, key, est, delta>>
  BY <1>4 DEF vars, locals
<1>6. TrackerInv'
  BY <1>0, <1>4, TickInv
<1>7. \/ /\ stage' = [stage EXCEPT ![p] = "direct"] /\ response' = response
         /\ degraded /\ decisions' = decisions
      \/ /\ stage' = [stage EXCEPT ![p] = "direct"] /\ response' = response
         /\ Listener(setup) /\ decisions' = [decisions EXCEPT ![p] = @ + 1]
      \/ /\ stage' = [stage EXCEPT ![p] = "done"] /\ ~Listener(setup)
         /\ decisions' = [decisions EXCEPT ![p] = @ + 1]
         /\ response' = [response EXCEPT ![p] = "403"]
      \/ /\ stage' = [stage EXCEPT ![p] = "reading"] /\ response' = response
         /\ PolicyOf(r) # NoPolicy /\ decisions' = decisions
  BY <1>1 DEF PassThrough, Unmatched, Matched
<1>8. ProxyTypeOK'
  BY <1>0, <1>2, <1>4, <1>6, <1>7 DEF ProxyTypeOK, TrackerInv
<1>9. Alone(p)
  BY <1>0, <1>2, <1>4, <1>5, <1>7 DEF ProxyTypeOK, Alone
<1>10. Local(p)'
  <2>1. Placed(p)' /\ Quiet(p)'
    BY <1>0, <1>2, <1>4, <1>5, <1>7 DEF ProxyTypeOK, Local, Placed, Quiet
  <2>2. Counted(p)'
    BY <1>0, <1>2, <1>4, <1>5, <1>7 DEF ProxyTypeOK, Local, Counted
  <2>3. Checked(p)'
    BY <1>0, <1>2, <1>3, <1>4, <1>5, <1>7
      DEF ProxyTypeOK, Local, Checked, SentUpstream, PolicyOf
  <2>4. Answered(p)'
    BY <1>0, <1>2, <1>3, <1>4, <1>5, <1>7
      DEF ProxyTypeOK, Local, Answered, Reporting, RecordSteps
  <2>5. QED
    BY <2>1, <2>2, <2>3, <2>4 DEF Local
<1>11. QED
  BY <1>6, <1>8, <1>9, <1>10, AloneInv

(* handleWithPolicy, from the reading of the body to the reservation. *)
LEMMA GuardInv ==
    ASSUME HandlerInv, NEW p \in Procs, GuardRejected(p) \/ StartReserve(p)
    PROVE  HandlerInv'
<1> USE DEF Enter, Respond, Count
<1>0. /\ TrackerInv /\ TypeOK /\ ProxyTypeOK /\ setup \in Setups /\ Local(p)
  BY DEF HandlerInv, TrackerInv, ProxyTypeOK
<1>1. PICK r : r = req[p]
  OBVIOUS
<1>2. /\ stage[p] = "reading" /\ pc[p] = "idle" /\ answer[p] = NoAnswer /\ ~allowed[p]
      /\ PolicyOf(r) # NoPolicy /\ r \in Requests(setup) /\ r \in RequestType
  BY <1>0, <1>1, HandlerAssumption
    DEF GuardRejected, StartReserve, Local, Placed, Answered, Checked
<1>3. NoAnswer.kind = "none" /\ NoAnswer.usage = NoUsage
  BY DEF NoAnswer
<1>4. CASE GuardRejected(p)
  <2>1. /\ UNCHANGED <<vars, setup, degraded, req, allowed, answer>> /\ ~Listener(setup)
        /\ stage' = [stage EXCEPT ![p] = "done"]
        /\ decisions' = [decisions EXCEPT ![p] = @ + 1]
        /\ response' = [response EXCEPT ![p] = "429"]
    BY <1>4 DEF GuardRejected
  <2>2. UNCHANGED <<pc, key, est, delta>>
    BY <2>1 DEF vars, locals
  <2>3. TrackerInv'
    BY <1>0, <2>1, TickInv
  <2>4. ProxyTypeOK'
    BY <1>0, <2>1, <2>3 DEF ProxyTypeOK, TrackerInv
  <2>5. Alone(p)
    BY <1>0, <2>1, <2>2 DEF ProxyTypeOK, Alone
  <2>6. Local(p)'
    <3>1. Placed(p)' /\ Quiet(p)'
      BY <1>0, <1>2, <2>1, <2>2 DEF ProxyTypeOK, Local, Placed, Quiet
    <3>2. Counted(p)'
      BY <1>0, <1>2, <2>1, <2>2 DEF ProxyTypeOK, Local, Counted
    <3>3. Checked(p)'
      BY <1>0, <1>2, <1>3, <2>1, <2>2 DEF ProxyTypeOK, Local, Checked, SentUpstream
    <3>4. Answered(p)'
      BY <1>0, <1>2, <1>3, <2>1, <2>2 DEF ProxyTypeOK, Local, Answered, Reporting, RecordSteps
    <3>5. QED
      BY <3>1, <3>2, <3>3, <3>4 DEF Local
  <2>7. QED
    BY <2>3, <2>4, <2>5, <2>6, AloneInv
<1>5. CASE StartReserve(p)
  <2>1. /\ (OverGuard(r) => Listener(setup)) /\ CallReserve(p, KeyOf(r), maxTokens(r))
        /\ stage' = [stage EXCEPT ![p] = "reserving"]
        /\ \E n \in {0, 1} : /\ decisions' = [decisions EXCEPT ![p] = @ + n]
                             /\ ~Listener(setup) => n = 0
        /\ UNCHANGED <<setup, degraded, req, allowed, answer, response>>
    BY <1>1, <1>5 DEF StartReserve
  <2>2. maxTokens(r) \in Int /\ KeyOf(r) \in Workloads \cup {NoWorkload}
    BY <1>0, <1>2, AskType
  <2>3. TrackerInv'
    BY <1>0, <2>1, <2>2, CallReserveInv
  <2>4. /\ pc' = [pc EXCEPT ![p] = IF KeyOf(r) \in Registered THEN "r_add" ELSE "unknown"]
        /\ key' = [key EXCEPT ![p] = KeyOf(r)] /\ est' = [est EXCEPT ![p] = maxTokens(r)]
        /\ delta' = delta
    BY <2>1 DEF CallReserve, Goto
  <2>5. ProxyTypeOK'
    BY <1>0, <2>1, <2>3 DEF ProxyTypeOK, TrackerInv
  <2>6. Alone(p)
    BY <1>0, <2>1, <2>4 DEF ProxyTypeOK, Alone, TypeOK
  <2>7. Local(p)'
    <3>1. /\ pc'[p] \in {"r_add", "unknown"} /\ est'[p] = maxTokens(r) /\ stage'[p] = "reserving"
          /\ answer'[p] = NoAnswer /\ ~allowed'[p] /\ req'[p] = r
      BY <1>0, <1>1, <1>2, <2>1, <2>4 DEF ProxyTypeOK, TypeOK
    <3>2. Placed(p)' /\ Quiet(p)'
      BY <1>0, <2>1, <3>1 DEF Local, Placed, Quiet, ReserveSteps, Decided
    <3>3. Counted(p)'
      BY <1>0, <1>2, <2>1, <3>1 DEF ProxyTypeOK, Local, Counted
    <3>4. Checked(p)'
      BY <1>2, <2>1, <3>1 DEF Checked, PolicyOf, OverGuard
    <3>5. Answered(p)'
      BY <1>2, <1>3, <2>1, <3>1 DEF Answered, Reporting, RecordSteps
    <3>6. QED
      BY <3>2, <3>3, <3>4, <3>5 DEF Local
  <2>8. QED
    BY <2>3, <2>5, <2>6, <2>7, AloneInv
<1>6. QED
  BY <1>4, <1>5

(* handleWithPolicy after the reservation: only an enforcing handler turns  *)
(* the request away, and only a granted reservation is recorded as allowed. *)
LEMMA DecisionEffect ==
    ASSUME NEW p \in Procs, Reserved(p) \/ ReserveFailed(p) \/ Denied(p)
    PROVE  /\ stage[p] = "reserving" /\ UNCHANGED <<vars, setup, degraded, req, answer>>
           /\ \/ pc[p] = "granted" /\ allowed' = [allowed EXCEPT ![p] = TRUE]
              \/ pc[p] \in {"denied", "unknown"} /\ allowed' = allowed
           /\ \/ stage' = [stage EXCEPT ![p] = "upstream"] /\ response' = response
              \/ /\ stage' = [stage EXCEPT ![p] = "done"]
                 /\ \E st \in {"429", "500", "502", "503"} :
                       /\ response' = [response EXCEPT ![p] = st]
                       /\ Listener(setup) => st = "502"
           /\ \E n \in {1, 2} : /\ decisions' = [decisions EXCEPT ![p] = @ + n]
                                /\ ~Listener(setup) => n = 1
<1> DEFINE Sent == \/ stage' = [stage EXCEPT ![p] = "upstream"] /\ response' = response
                   \/ /\ stage' = [stage EXCEPT ![p] = "done"]
                      /\ response' = [response EXCEPT ![p] = "502"]
<1>1. ASSUME NEW n, Proxy(p, n)
      PROVE  Sent /\ decisions' = [decisions EXCEPT ![p] = @ + (1 + n)]
  BY <1>1 DEF Proxy, Enter, Respond, Count
<1>2. ASSUME NEW st, Respond(p, st), Count(p, 1)
      PROVE  /\ stage' = [stage EXCEPT ![p] = "done"]
             /\ response' = [response EXCEPT ![p] = st]
             /\ decisions' = [decisions EXCEPT ![p] = @ + 1]
  BY <1>2 DEF Enter, Respond, Count
<1>3. CASE Reserved(p)
  <2>1. Sent /\ decisions' = [decisions EXCEPT ![p] = @ + 1]
    BY <1>1, <1>3 DEF Reserved
  <2>2. QED
    BY <1>3, <2>1 DEF Reserved
<1>4. CASE ReserveFailed(p)
  <2>1. CASE Listener(setup)
    <3>1. Sent /\ decisions' = [decisions EXCEPT ![p] = @ + 1]
      BY <1>1, <1>4, <2>1 DEF ReserveFailed
    <3>2. QED
      BY <1>4, <3>1 DEF ReserveFailed
  <2>2. CASE ~Listener(setup)
    BY <1>2, <1>4, <2>2 DEF ReserveFailed
  <2>3. QED
    BY <2>1, <2>2
<1>5. CASE Denied(p)
  <2>1. /\ stage[p] = "reserving" /\ pc[p] = "denied" /\ allowed' = allowed
        /\ UNCHANGED <<vars, setup, degraded, req, answer>>
    BY <1>5 DEF Denied
  <2>2. CASE Verdict(p) = "allow"
    <3>1. Proxy(p, 0)
      BY <1>5, <2>2 DEF Denied
    <3>2. QED
      BY <1>1, <2>1, <3>1
  <2>3. CASE Verdict(p) # "allow" /\ Listener(setup)
    <3>1. Proxy(p, 1)
      BY <1>5, <2>3 DEF Denied
    <3>2. QED
      BY <1>1, <2>1, <2>3, <3>1
  <2>4. CASE Verdict(p) # "allow" /\ ~Listener(setup)
    <3>1. Respond(p, IF Verdict(p) = "kill" THEN "503" ELSE "429") /\ Count(p, 1)
      BY <1>5, <2>4 DEF Denied
    <3>2. QED
      BY <1>2, <2>1, <2>4, <3>1
  <2>5. QED
    BY <2>2, <2>3, <2>4
<1>6. QED
  BY <1>3, <1>4, <1>5

LEMMA DecisionInv ==
    ASSUME HandlerInv, NEW p \in Procs, Reserved(p) \/ ReserveFailed(p) \/ Denied(p)
    PROVE  HandlerInv'
<1>1. /\ TrackerInv /\ TypeOK /\ ProxyTypeOK /\ Local(p) /\ Calling
  BY DEF HandlerInv, TrackerInv
<1>2. /\ stage[p] = "reserving" /\ UNCHANGED <<vars, setup, degraded, req, answer>>
      /\ \/ pc[p] = "granted" /\ allowed' = [allowed EXCEPT ![p] = TRUE]
         \/ pc[p] \in {"denied", "unknown"} /\ allowed' = allowed
      /\ \/ stage' = [stage EXCEPT ![p] = "upstream"] /\ response' = response
         \/ /\ stage' = [stage EXCEPT ![p] = "done"]
            /\ \E st \in {"429", "500", "502", "503"} :
                  /\ response' = [response EXCEPT ![p] = st]
                  /\ Listener(setup) => st = "502"
      /\ \E n \in {1, 2} : /\ decisions' = [decisions EXCEPT ![p] = @ + n]
                           /\ ~Listener(setup) => n = 1
  BY DecisionEffect
<1>3. UNCHANGED <<pc, key, est, delta>>
  BY <1>2 DEF vars, locals
<1>4. TrackerInv'
  BY <1>1, <1>2, TickInv
<1>5. ProxyTypeOK'
  <2>1. decisions' \in [Procs -> Nat]
    BY <1>1, <1>2 DEF ProxyTypeOK
  <2>2. response' \in [Procs -> {"none", "proxied", "403", "429", "500", "502", "503", "504"}]
    BY <1>1, <1>2 DEF ProxyTypeOK
  <2>3. allowed' \in [Procs -> BOOLEAN]
    BY <1>1, <1>2, Zenon DEF ProxyTypeOK
  <2>4. QED
    BY <1>1, <1>2, <1>4, <2>1, <2>2, <2>3 DEF ProxyTypeOK, TrackerInv
<1>6. Alone(p)
  BY <1>1, <1>2, <1>3 DEF ProxyTypeOK, Alone
<1>7. Local(p)'
  <2>1. Placed(p)' /\ Quiet(p)'
    BY <1>1, <1>2, <1>3 DEF ProxyTypeOK, Local, Placed, Quiet, Decided
  <2>2. Counted(p)'
    BY <1>1, <1>2, <1>3 DEF ProxyTypeOK, Local, Counted
  <2>3. Checked(p)'
    BY <1>1, <1>2, <1>3 DEF ProxyTypeOK, Local, Checked, PolicyOf, OverGuard
  <2>4. Answered(p)'
    BY <1>1, <1>2, <1>3 DEF ProxyTypeOK, Local, Answered, Reporting, RecordSteps, Calling
  <2>5. QED
    BY <2>1, <2>2, <2>3, <2>4 DEF Local
<1>8. QED
  BY <1>4, <1>5, <1>6, <1>7, AloneInv

(* The upstream's answer, with a reconciliation or without one. *)
LEMMA AnswerEffect ==
    ASSUME ProxyTypeOK, NEW p \in Procs, Local(p),
           \/ UpstreamError(p) \/ Upstream5xx(p) \/ UpstreamSSE(p)
           \/ \E u \in Usages \cup {NoUsage} :
                 UpstreamJSON(p, u) \/ \E complete \in BOOLEAN : StreamEnd(p, u, complete)
    PROVE  /\ stage[p] \in {"upstream", "stream"}
           /\ UNCHANGED <<setup, degraded, req, allowed, decisions>>
           /\ response' = response \/ response' = [response EXCEPT ![p] = "proxied"]
                                   \/ response' = [response EXCEPT ![p] = "504"]
           /\ \E k \in {"error", "5xx", "json", "sse"}, u \in Usages \cup {NoUsage},
                 s \in {"done", "stream", "copy", "panic", "recording"} :
                 /\ answer' = [answer EXCEPT ![p] = [kind |-> k, usage |-> u]]
                 /\ stage' = [stage EXCEPT ![p] = s]
                 /\ s = "stream" => k = "sse"
                 /\ \/ /\ UNCHANGED vars
                       /\ s # "recording" /\ k # "5xx" /\ u = NoUsage
                    \/ /\ s = "recording"
                       /\ \/ k = "5xx" /\ u = NoUsage /\ CallRecord(p, -est[p])
                          \/ k # "5xx" /\ u \in Usages /\ CallRecord(p, u - est[p])
<1> USE DEF Enter, Respond, Reconcile, Copied
<1>1. /\ answer \in [Procs -> Answers] /\ answer[p] \in Answers
      /\ \A k : [answer[p] EXCEPT !.kind = k] = [kind |-> k, usage |-> answer[p].usage]
      /\ \A u : [answer[p] EXCEPT !.usage = u] = [kind |-> answer[p].kind, usage |-> u]
  BY AnswerFields DEF ProxyTypeOK
<1>2. stage[p] = "upstream" => answer[p].usage = NoUsage
  BY DEF Local, Answered, NoAnswer
<1>3. stage[p] = "stream" => answer[p].kind = "sse" /\ answer[p].usage = NoUsage
  BY DEF Local, Answered, Placed, Decided, Reporting, RecordSteps
<1>4. CASE UpstreamError(p)
  <2>1. stage[p] = "upstream" /\ answer' = [answer EXCEPT ![p].kind = "error"]
    BY <1>4 DEF UpstreamError
  <2>2. answer' = [answer EXCEPT ![p] = [kind |-> "error", usage |-> NoUsage]]
    BY <1>1, <1>2, <2>1
  <2>3. QED
    BY <1>4, <2>2 DEF UpstreamError
<1>5. CASE Upstream5xx(p)
  <2>1. stage[p] = "upstream" /\ answer' = [answer EXCEPT ![p].kind = "5xx"]
    BY <1>5 DEF Upstream5xx
  <2>2. answer' = [answer EXCEPT ![p] = [kind |-> "5xx", usage |-> NoUsage]]
    BY <1>1, <1>2, <2>1
  <2>3. QED
    BY <1>5, <2>2 DEF Upstream5xx
<1>6. CASE UpstreamSSE(p)
  <2>1. stage[p] = "upstream" /\ answer' = [answer EXCEPT ![p].kind = "sse"]
    BY <1>6 DEF UpstreamSSE
  <2>2. answer' = [answer EXCEPT ![p] = [kind |-> "sse", usage |-> NoUsage]]
    BY <1>1, <1>2, <2>1
  <2>3. QED
    BY <1>6, <2>2 DEF UpstreamSSE
<1>7. ASSUME NEW u \in Usages \cup {NoUsage}, UpstreamJSON(p, u)
      PROVE  /\ stage[p] = "upstream"
             /\ UNCHANGED <<setup, degraded, req, allowed, response, decisions>>
             /\ \E v \in Usages \cup {NoUsage}, s \in {"copy", "recording"} :
                 /\ answer' = [answer EXCEPT ![p] = [kind |-> "json", usage |-> v]]
                 /\ stage' = [stage EXCEPT ![p] = s]
                 /\ \/ UNCHANGED vars /\ s = "copy" /\ v = NoUsage
                    \/ /\ s = "recording"
                       /\ v \in Usages /\ CallRecord(p, v - est[p])
  <2>1. PICK v \in {u, NoUsage} : answer' = [answer EXCEPT ![p] = [kind |-> "json", usage |-> v]]
    BY <1>7 DEF UpstreamJSON
  <2>2. answer'[p].usage = v
    BY <1>1, <2>1
  <2>3. CASE v = NoUsage
    BY <1>7, <2>1, <2>2, <2>3 DEF UpstreamJSON
  <2>4. CASE v # NoUsage
    BY <1>7, <2>1, <2>2, <2>4 DEF UpstreamJSON
  <2>5. QED
    BY <2>3, <2>4
<1>8. ASSUME NEW u \in Usages \cup {NoUsage}, NEW complete \in BOOLEAN, StreamEnd(p, u, complete)
      PROVE  /\ stage[p] = "stream" /\ UNCHANGED <<setup, degraded, req, allowed, decisions>>
             /\ response' = [response EXCEPT ![p] = "proxied"]
             /\ \E v \in Usages \cup {NoUsage}, next \in {"done", "panic"} :
                 /\ answer' = [answer EXCEPT ![p] = [kind |-> "sse", usage |-> v]]
                 /\ \/ /\ UNCHANGED vars
                       /\ stage' = [stage EXCEPT ![p] = next]
                       /\ v = NoUsage
                    \/ /\ stage' = [stage EXCEPT ![p] = "recording"]
                       /\ v \in Usages /\ CallRecord(p, v - est[p])
  <2>1. /\ stage[p] = "stream"
        /\ \E v \in {u, NoUsage} : answer' = [answer EXCEPT ![p].usage = v]
    BY <1>8 DEF StreamEnd
  <2>2. PICK v \in {u, NoUsage} : answer' = [answer EXCEPT ![p].usage = v]
    BY <2>1
  <2>4. answer' = [answer EXCEPT ![p] = [kind |-> "sse", usage |-> v]]
    BY <1>1, <1>3, <2>1, <2>2
  <2>5. answer'[p].usage = v
    BY <1>1, <2>4
  <2>6. CASE v = NoUsage
    BY <1>8, <2>1, <2>4, <2>5, <2>6 DEF StreamEnd
  <2>7. CASE v # NoUsage
    BY <1>8, <2>1, <2>4, <2>5, <2>7 DEF StreamEnd
  <2>8. QED
    BY <2>6, <2>7
<1>9. QED
  BY <1>4, <1>5, <1>6, <1>7, <1>8

LEMMA AnswerInv ==
    ASSUME HandlerInv, NEW p \in Procs,
           \/ UpstreamError(p) \/ Upstream5xx(p) \/ UpstreamSSE(p)
           \/ \E u \in Usages \cup {NoUsage} :
                 UpstreamJSON(p, u) \/ \E complete \in BOOLEAN : StreamEnd(p, u, complete)
    PROVE  HandlerInv'
<1>1. /\ TrackerInv /\ TypeOK /\ ProxyTypeOK /\ Local(p) /\ Calling
  BY DEF HandlerInv, TrackerInv
<1>2. /\ stage[p] \in {"upstream", "stream"}
      /\ UNCHANGED <<setup, degraded, req, allowed, decisions>>
      /\ response' = response \/ response' = [response EXCEPT ![p] = "proxied"]
                              \/ response' = [response EXCEPT ![p] = "504"]
  BY <1>1, AnswerEffect
<1>3. PICK k \in {"error", "5xx", "json", "sse"}, u \in Usages \cup {NoUsage},
           s \in {"done", "stream", "copy", "panic", "recording"} :
        /\ answer' = [answer EXCEPT ![p] = [kind |-> k, usage |-> u]]
        /\ stage' = [stage EXCEPT ![p] = s]
        /\ s = "stream" => k = "sse"
        /\ \/ /\ UNCHANGED vars
              /\ s # "recording" /\ k # "5xx" /\ u = NoUsage
           \/ /\ s = "recording"
              /\ \/ k = "5xx" /\ u = NoUsage /\ CallRecord(p, -est[p])
                 \/ k # "5xx" /\ u \in Usages /\ CallRecord(p, u - est[p])
  BY <1>1, AnswerEffect
<1>4. est[p] \in Int /\ (u \in Usages => u \in Int) /\ pc[p] \in Decided
      /\ NoUsage \notin Usages
  BY <1>1, <1>2, HandlerAssumption DEF TypeOK, Local, Placed
<1>5. TrackerInv'
  <2>1. CASE UNCHANGED vars
    BY <1>1, <2>1, TickInv
  <2>2. CASE CallRecord(p, -est[p])
    BY <1>1, <1>4, <2>2, CallRecordInv
  <2>3. CASE u \in Usages /\ CallRecord(p, u - est[p])
    BY <1>1, <1>4, <2>3, CallRecordInv
  <2>4. QED
    BY <1>3, <2>1, <2>2, <2>3
<1>6. /\ key' = key /\ est' = est
      /\ \/ pc' = pc /\ delta' = delta /\ s # "recording" /\ k # "5xx" /\ u = NoUsage
         \/ /\ s = "recording"
            /\ pc' = [pc EXCEPT ![p] = "c_add"] \/ pc' = [pc EXCEPT ![p] = "recorded"]
            /\ \E d \in Int : /\ delta' = [delta EXCEPT ![p] = d]
                              /\ \/ k = "5xx" /\ u = NoUsage /\ est[p] + d = 0
                                 \/ k # "5xx" /\ u \in Usages /\ est[p] + d = u
  <2>1. CASE UNCHANGED vars /\ s # "recording" /\ k # "5xx" /\ u = NoUsage
    BY <2>1 DEF vars, locals
  <2>2. ASSUME NEW d, CallRecord(p, d)
        PROVE  /\ key' = key /\ est' = est /\ delta' = [delta EXCEPT ![p] = d]
               /\ pc' = [pc EXCEPT ![p] = "c_add"] \/ pc' = [pc EXCEPT ![p] = "recorded"]
    BY <2>2 DEF CallRecord, Goto
  <2>3. CASE s = "recording" /\ k = "5xx" /\ u = NoUsage /\ CallRecord(p, -est[p])
    <3>1. -est[p] \in Int /\ est[p] + (-est[p]) = 0
      BY <1>4
    <3>2. QED
      BY <2>2, <2>3, <3>1
  <2>4. CASE s = "recording" /\ k # "5xx" /\ u \in Usages /\ CallRecord(p, u - est[p])
    <3>1. u - est[p] \in Int /\ est[p] + (u - est[p]) = u
      BY <1>4, <2>4
    <3>2. QED
      BY <2>2, <2>4, <3>1
  <2>5. QED
    BY <1>3, <2>1, <2>3, <2>4
<1>7. [kind |-> k, usage |-> u] \in Answers
  BY DEF Answers
<1>8. ProxyTypeOK'
  <2>1. answer' \in [Procs -> Answers]
    BY <1>1, <1>3, <1>7 DEF ProxyTypeOK
  <2>3. response' \in [Procs -> {"none", "proxied", "403", "429", "500", "502", "503", "504"}]
    BY <1>1, <1>2 DEF ProxyTypeOK
  <2>4. stage' \in [Procs -> {"idle", "direct", "reading", "reserving", "upstream",
                              "stream", "recording", "copy", "panic", "done"}]
    BY <1>1, <1>3 DEF ProxyTypeOK
  <2>5. QED
    BY <1>1, <1>2, <1>5, <2>1, <2>3, <2>4 DEF ProxyTypeOK, TrackerInv
<1>9. /\ stage'[p] = s /\ answer'[p].kind = k /\ answer'[p].usage = u
      /\ answer'[p] = [kind |-> k, usage |-> u]
  BY <1>1, <1>3 DEF ProxyTypeOK
<1>10. Alone(p)
  <2>1. \A q \in Procs \ {p} : pc'[q] = pc[q] /\ delta'[q] = delta[q]
    BY <1>1, <1>6 DEF TypeOK
  <2>2. \A q \in Procs \ {p} : response'[q] = response[q]
    BY <1>1, <1>2, <1>3 DEF ProxyTypeOK
  <2>3. \A q \in Procs \ {p} : answer'[q] = answer[q] /\ stage'[q] = stage[q]
    BY <1>3
  <2>4. QED
    BY <1>2, <1>6, <2>1, <2>2, <2>3 DEF Alone
<1>11. Local(p)'
  <2>1. Placed(p)'
    BY <1>1, <1>4, <1>6, <1>9 DEF Placed, Decided, Reporting, RecordSteps, TypeOK
  <2>2. Quiet(p)'
    BY <1>1, <1>2 DEF Local, Quiet, ProxyTypeOK
  <2>3. pc[p] # "idle" /\ pc'[p] # "idle"
    BY <1>1, <1>4, <1>6 DEF Decided, TypeOK
  <2>4. Counted(p)'
    BY <1>1, <1>2, <1>9, <2>3 DEF Local, Counted
  <2>5. Checked(p)'
    BY <1>1, <1>2, <2>3 DEF Local, Checked, PolicyOf, OverGuard
  <2>6. Answered(p)'
    <3>1. pc[p] \in Decided /\ stage[p] # "reserving"
      BY <1>2, <1>4
    <3>2. CASE pc' = pc /\ delta' = delta /\ s # "recording" /\ k # "5xx" /\ u = NoUsage
      BY <1>1, <1>2, <1>3, <1>6, <1>9, <3>1, <3>2
        DEF Local, Answered, Decided, Reporting, RecordSteps
    <3>3. CASE /\ s = "recording"
               /\ pc' = [pc EXCEPT ![p] = "c_add"] \/ pc' = [pc EXCEPT ![p] = "recorded"]
               /\ \E d \in Int : /\ delta' = [delta EXCEPT ![p] = d]
                                 /\ \/ k = "5xx" /\ u = NoUsage /\ est[p] + d = 0
                                    \/ k # "5xx" /\ u \in Usages /\ est[p] + d = u
      <4>1. /\ pc'[p] \in {"c_add", "recorded"}
            /\ \/ k = "5xx" /\ est[p] + delta'[p] = 0
               \/ k # "5xx" /\ u \in Usages /\ est[p] + delta'[p] = u
        BY <1>1, <3>3 DEF TypeOK
      <4>2. QED
        BY <1>1, <1>2, <1>6, <1>9, <2>3, <3>1, <3>3, <4>1
           DEF Local, Answered, Decided, Reporting, RecordSteps
    <3>4. QED
      BY <1>6, <3>2, <3>3
  <2>7. QED
    BY <2>1, <2>2, <2>4, <2>5, <2>6 DEF Local
<1>12. QED
  BY <1>5, <1>8, <1>10, <1>11, AloneInv

(* The copying of the response, pass-through, and the recovery from a panic. *)
LEMMA ResponseInv ==
    ASSUME HandlerInv, NEW p \in Procs,
           \/ Recover(p)
           \/ \E complete \in BOOLEAN :
                 RecordReturns(p, complete) \/ CopyBody(p, complete) \/ ProxyDirect(p, complete)
    PROVE  HandlerInv'
<1> USE DEF Enter, Respond, CopyTo, Copied
<1>1. /\ TrackerInv /\ TypeOK /\ ProxyTypeOK /\ Local(p)
  BY DEF HandlerInv, TrackerInv
<1>2. /\ UNCHANGED <<vars, setup, req, allowed, decisions>>
      /\ (degraded' = degraded \/ degraded' = TRUE)
  BY DEF RecordReturns, Recover, CopyBody, ProxyDirect
<1>3. UNCHANGED <<pc, key, est, delta>>
  BY <1>2 DEF vars, locals
<1>4. TrackerInv'
  BY <1>1, <1>2, TickInv
<1>5. ASSUME stage[p] # "direct" PROVE answer' = answer
  BY <1>5 DEF RecordReturns, Recover, CopyBody, ProxyDirect
<1>6. PICK s \in {"copy", "done", "panic"} :
        /\ stage' = [stage EXCEPT ![p] = s]
        /\ \/ stage[p] = "recording" /\ pc[p] = "recorded" /\ response' = response
           \/ stage[p] = "panic" /\ s = "done" /\ response' = response
           \/ stage[p] = "copy" /\ s # "copy" /\ response' = [response EXCEPT ![p] = "proxied"]
           \/ stage[p] = "direct" /\ s = "done" /\ response' = [response EXCEPT ![p] = "502"]
           \/ stage[p] = "direct" /\ s # "copy" /\ response' = [response EXCEPT ![p] = "proxied"]
  <2>1. ASSUME NEW complete \in BOOLEAN, RecordReturns(p, complete)
        PROVE  \E s \in {"copy", "done", "panic"} :
                 /\ stage' = [stage EXCEPT ![p] = s] /\ response' = response
                 /\ stage[p] = "recording" /\ pc[p] = "recorded"
    BY <2>1 DEF RecordReturns
  <2>2. CASE Recover(p)
    BY <2>2 DEF Recover
  <2>3. ASSUME NEW complete \in BOOLEAN, CopyBody(p, complete) \/ ProxyDirect(p, complete)
        PROVE  \E s \in {"done", "panic"} :
                 /\ stage' = [stage EXCEPT ![p] = s]
                 /\ \/ stage[p] = "copy" /\ response' = [response EXCEPT ![p] = "proxied"]
                    \/ /\ stage[p] = "direct" /\ s = "done"
                       /\ response' = [response EXCEPT ![p] = "502"]
                    \/ stage[p] = "direct" /\ response' = [response EXCEPT ![p] = "proxied"]
    BY <2>3 DEF CopyBody, ProxyDirect
  <2>4. QED
    BY <2>1, <2>2, <2>3
<1>7. /\ stage[p] = "direct" => answer[p] = NoAnswer /\ pc[p] = "idle"
      /\ NoAnswer \in Answers /\ NoAnswer.kind = "none" /\ NoAnswer.usage = NoUsage
  BY <1>1 DEF Local, Answered, Placed, NoAnswer, Answers
<1>8. ASSUME stage[p] = "direct"
      PROVE  \/ answer' = answer
             \/ answer' = [answer EXCEPT ![p] = [kind |-> "direct", usage |-> NoUsage]]
  <2>1. answer' = answer \/ answer' = [answer EXCEPT ![p].kind = "direct"]
    BY <1>8 DEF RecordReturns, Recover, CopyBody, ProxyDirect
  <2>2. [answer[p] EXCEPT !.kind = "direct"] = [kind |-> "direct", usage |-> NoUsage]
    BY <1>7, <1>8, AnswerFields
  <2>3. QED
    BY <2>1, <2>2
<1>9. [kind |-> "direct", usage |-> NoUsage] \in Answers
  BY DEF Answers
<1>10. answer' \in [Procs -> Answers] /\ \A q \in Procs \ {p} : answer'[q] = answer[q]
  BY <1>1, <1>5, <1>8, <1>9 DEF ProxyTypeOK
<1>11. ProxyTypeOK'
  <2>1. stage' \in [Procs -> {"idle", "direct", "reading", "reserving", "upstream",
                              "stream", "recording", "copy", "panic", "done"}]
    BY <1>1, <1>6 DEF ProxyTypeOK
  <2>2. response' \in [Procs -> {"none", "proxied", "403", "429", "500", "502", "503", "504"}]
    BY <1>1, <1>6 DEF ProxyTypeOK
  <2>3. degraded' \in BOOLEAN
    BY <1>1, <1>2, Zenon DEF ProxyTypeOK
  <2>4. QED
    BY <1>1, <1>2, <1>4, <1>10, <2>1, <2>2, <2>3 DEF ProxyTypeOK, TrackerInv
<1>12. stage'[p] = s /\ \A q \in Procs \ {p} : stage'[q] = stage[q] /\ response'[q] = response[q]
  BY <1>1, <1>6 DEF ProxyTypeOK
<1>13. degraded => degraded'
  BY <1>2
<1>14. Alone(p)
  BY <1>2, <1>3, <1>10, <1>12, <1>13 DEF Alone
<1>15. Local(p)'
  <2>1. Placed(p)'
    BY <1>1, <1>3, <1>6, <1>7, <1>12 DEF Local, Placed, Decided, RecordReturns, Recover,
       CopyBody, ProxyDirect
  <2>2. response'[p] \in {response[p], "502", "proxied"}
    BY <1>1, <1>6 DEF ProxyTypeOK
  <2>3. Quiet(p)'
    BY <1>1, <1>2, <2>2 DEF Local, Quiet
  <2>4. Checked(p)'
    <3>1. pc[p] = "idle" /\ s # "copy" => degraded' \/ Listener(setup) \/ ~SentUpstream(p)'
      <4>1. CASE stage[p] = "direct"
        BY <1>1, <1>7, <1>13, <4>1 DEF Local, Checked
      <4>2. CASE stage[p] # "direct"
        BY <1>1, <1>5, <1>13, <4>2 DEF Local, Checked, SentUpstream
      <4>3. QED
        BY <4>1, <4>2
    <3>2. QED
      BY <1>1, <1>2, <1>3, <1>12, <2>1, <3>1 DEF Local, Checked, PolicyOf, OverGuard, Placed, Decided
  <2>5. Counted(p)'
    <3>1. CASE stage[p] = "direct"
      <4>1. degraded \/ Listener(setup)
        BY <1>1, <1>7, <3>1 DEF Local, Checked
      <4>2. response'[p] = "proxied" \/ (s = "done" /\ response'[p] = "502")
        BY <1>1, <1>6, <3>1 DEF ProxyTypeOK
      <4>3. QED
        BY <1>1, <1>2, <1>3, <1>6, <1>7, <1>12, <1>13, <3>1, <4>1, <4>2 DEF Local, Counted
    <3>2. CASE stage[p] \in {"recording", "copy"}
      BY <1>1, <1>2, <1>3, <1>12, <3>2 DEF Local, Counted, Placed, Decided, Reporting, RecordSteps
    <3>3. CASE stage[p] = "panic"
      BY <1>1, <1>2, <1>3, <1>6, <1>12, <1>13, <3>3 DEF Local, Counted
    <3>4. QED
      BY <1>6, <3>1, <3>2, <3>3
  <2>6. Answered(p)'
    <3>1. CASE stage[p] = "direct"
      <4>1. \/ answer'[p] = NoAnswer
            \/ answer'[p] = [kind |-> "direct", usage |-> NoUsage]
        BY <1>1, <1>7, <1>8, <3>1 DEF ProxyTypeOK
      <4>2. answer'[p].kind # "5xx" /\ answer'[p].usage = NoUsage
        BY <1>7, <4>1
      <4>3. QED
        BY <1>1, <1>2, <1>3, <1>7, <1>12, <3>1, <4>2 DEF Local, Answered, Reporting, RecordSteps
    <3>2. CASE stage[p] # "direct"
      <4>1. stage[p] # "reserving"
        BY <1>6
      <4>2. QED
        BY <1>1, <1>2, <1>3, <1>5, <1>12, <3>2, <4>1 DEF Local, Answered
    <3>3. QED
      BY <3>1, <3>2
  <2>7. QED
    BY <2>1, <2>3, <2>4, <2>5, <2>6 DEF Local
<1>16. QED
  BY <1>4, <1>11, <1>14, <1>15, AloneInv

(* The tracker's own steps on behalf of a request. *)
LEMMA CallInv ==
    ASSUME HandlerInv, NEW p \in Procs, TrackerStep(p), UNCHANGED <<setup, degraded, handler>>
    PROVE  HandlerInv'
<1>1. /\ TrackerInv /\ TypeOK /\ ProxyTypeOK /\ Local(p)
  BY DEF HandlerInv, TrackerInv
<1>2. TrackerInv'
  BY <1>1, ReserveInv, RecordInv DEF TrackerStep
<1>3. UNCHANGED <<key, est, delta>> /\ pc[p] \in InCall
  BY <1>1, TrackerStepFrame
<1>4. PICK l \in InCall \cup {"granted", "denied", "recorded"} :
        /\ pc' = [pc EXCEPT ![p] = l]
        /\ pc[p] \in ReserveSteps => l \in ReserveSteps \cup {"granted", "denied"}
        /\ pc[p] \in RecordSteps => l \in RecordSteps \cup {"recorded"}
  BY <1>1, TrackerStepFrame
<1>5. UNCHANGED <<stage, req, allowed, answer, response, decisions>>
  BY DEF handler
<1>6. ProxyTypeOK'
  BY <1>1, <1>2, <1>5 DEF ProxyTypeOK, TrackerInv
<1>7. pc'[p] = l /\ \A q \in Procs \ {p} : pc'[q] = pc[q]
  BY <1>1, <1>4 DEF TypeOK
<1>8. Alone(p)
  BY <1>3, <1>5, <1>7 DEF Alone
<1>9. \/ stage[p] = "reserving" /\ pc[p] \in ReserveSteps
      \/ stage[p] = "recording" /\ pc[p] \in RecordSteps
  BY <1>1, <1>3
    DEF ProxyTypeOK, Local, Placed, Decided, Reporting, InCall, ReserveSteps, RecordSteps
<1>10. pc[p] # "idle" /\ pc'[p] # "idle"
  BY <1>4, <1>7, <1>9 DEF InCall, ReserveSteps, RecordSteps
<1>11. Local(p)'
  <2>1. Placed(p)'
    BY <1>1, <1>4, <1>5, <1>7, <1>9 DEF Local, Placed, Decided, Reporting
  <2>2. Quiet(p)' /\ Counted(p)'
    BY <1>1, <1>5, <1>9, <1>10 DEF Local, Quiet, Counted
  <2>3. Checked(p)'
    BY <1>1, <1>5, <1>10 DEF Local, Checked, PolicyOf, OverGuard
  <2>4. Answered(p)'
    <3>1. CASE stage[p] = "reserving" /\ pc[p] \in ReserveSteps
      <4>1. pc[p] \notin Reporting /\ pc'[p] \notin Reporting
        BY <1>4, <1>7, <3>1 DEF Reporting, ReserveSteps, RecordSteps
      <4>2. QED
        BY <1>1, <1>3, <1>5, <1>10, <3>1, <4>1 DEF Local, Answered
    <3>2. CASE stage[p] = "recording" /\ pc[p] \in RecordSteps
      <4>1. pc[p] \in Reporting /\ pc'[p] \in Reporting /\ pc'[p] # "granted"
        BY <1>4, <1>7, <3>2 DEF Reporting, RecordSteps
      <4>2. QED
        BY <1>1, <1>3, <1>5, <1>10, <3>2, <4>1 DEF Local, Answered
    <3>3. QED
      BY <1>9, <3>1, <3>2
  <2>5. QED
    BY <2>1, <2>2, <2>3, <2>4 DEF Local
<1>12. QED
  BY <1>2, <1>6, <1>8, <1>11, AloneInv

(* The invariant is inductive. *)
LEMMA NextHandlerInv == HandlerInv /\ [PNext]_pvars => HandlerInv'
<1> SUFFICES ASSUME HandlerInv, [PNext]_pvars PROVE HandlerInv'
  OBVIOUS
<1>1. ASSUME NEW p \in Procs, HandlerStep(p) PROVE HandlerInv'
  BY <1>1, GuardInv, DecisionInv, AnswerInv, ResponseInv, CallInv DEF HandlerStep
<1>2. ASSUME TrackerInv', UNCHANGED <<setup, degraded, handler, pc, key, est, delta>>
      PROVE  HandlerInv'
  <2>1. UNCHANGED <<stage, req, allowed, answer, response, decisions>>
    BY <1>2 DEF handler
  <2>2. ProxyTypeOK'
    BY <1>2, <2>1 DEF HandlerInv, ProxyTypeOK, TrackerInv
  <2>3. ASSUME NEW q \in Procs PROVE Local(q)'
    BY <1>2, <2>1, OthersLocal DEF HandlerInv
  <2>4. QED
    BY <1>2, <2>2, <2>3 DEF HandlerInv
<1>3. ASSUME NEW k \in Registered, Status(k), UNCHANGED <<setup, degraded, handler>>
      PROVE  HandlerInv'
  <2>1. TrackerInv'
    BY <1>3, StatusInv DEF HandlerInv
  <2>2. QED
    BY <1>2, <1>3, <2>1 DEF Status, locals
<1>4. ASSUME Tick \/ UNCHANGED vars, UNCHANGED <<setup, degraded, handler>> PROVE HandlerInv'
  <2>1. TrackerInv'
    BY <1>4, TickInv DEF HandlerInv
  <2>2. QED
    BY <1>2, <1>4, <2>1 DEF Tick, vars, locals
<1>5. QED
  BY <1>1, <1>3, <1>4, ArrivalInv DEF PNext, pvars

LEMMA SpecHandlerInv == PSpec => []HandlerInv
BY InitHandlerInv, NextHandlerInv, PTL DEF PSpec

(* The state of the handler and of the tracker under it is well formed, in   *)
(* particular every window's total is a natural number, whatever the         *)
(* upstreams report.                                                         *)
THEOREM HandlerTypeCorrect == PSpec => []ProxyTypeOK
<1>1. HandlerInv => ProxyTypeOK
  BY DEF HandlerInv
<1>2. QED
  BY <1>1, SpecHandlerInv, PTL

(* The tracker's guarantees do not depend on its client: with the handler,   *)
(* which reports whatever usage an upstream claims and, in listener mode,    *)
(* for reservations that were refused, the pool stays within its bounds and  *)
(* no reservation is granted on a total above limit plus burst.              *)
THEOREM HandlerKeepsBudget == PSpec => [](BurstBounded /\ GrantWithinCapacity)
<1>1. HandlerInv => BurstBounded /\ GrantWithinCapacity
  BY DEF HandlerInv, TrackerInv
<1>2. QED
  BY <1>1, SpecHandlerInv, PTL

(* An enforcing handler sends no request upstream that the guard or the lack *)
(* of a policy forbids, except by degraded pass-through.                     *)
THEOREM ChecksAreNotBypassed == PSpec => []ChecksNotBypassed
<1>1. HandlerInv => ChecksNotBypassed
  <2> DEFINE known(p) == req[p].id \in DOMAIN setup.policies
             guard(p) == IF known(p) THEN setup.policies[req[p].id].guard
                         ELSE IF setup.default = NoPolicy THEN 0 ELSE setup.default.guard
  <2>1. ASSUME HandlerInv, NEW p \in Procs, ~Listener(setup), SentUpstream(p),
               \/ guard(p) > 0 /\ maxTokens(req[p]) > guard(p)
               \/ ~known(p) /\ (setup.strict \/ setup.default = NoPolicy)
        PROVE  degraded /\ pc[p] = "idle"
    <3>1. Local(p) /\ setup \in Setups
      BY <2>1 DEF HandlerInv, ProxyTypeOK
    <3>2. setup.override = NoPolicy
      BY <2>1, <3>1, HandlerAssumption
    <3>3. ASSUME pc[p] # "idle" PROVE FALSE
      <4>1. PolicyOf(req[p]) # NoPolicy /\ ~GuardExceeded(PolicyOf(req[p]), maxTokens(req[p]))
        BY <2>1, <3>1, <3>3 DEF Local, Checked, OverGuard
      <4>2. CASE known(p)
        BY <2>1, <3>2, <4>1, <4>2 DEF PolicyOf, Lookup, GuardExceeded
      <4>3. CASE ~known(p) /\ ~setup.strict
        BY <2>1, <3>2, <4>1, <4>3 DEF PolicyOf, Lookup, GuardExceeded
      <4>4. CASE ~known(p) /\ setup.strict
        BY <2>1, <3>2, <4>1, <4>4 DEF PolicyOf, Lookup
      <4>5. QED
        BY <4>2, <4>3, <4>4
    <3>4. QED
      BY <2>1, <3>1, <3>3 DEF Local, Checked
  <2>2. QED
    BY <2>1 DEF ChecksNotBypassed
<1>2. QED
  BY <1>1, SpecHandlerInv, PTL

(* In enforcement mode each finished request that did not pass through       *)
(* degraded mode has been counted as exactly one decision.                   *)
THEOREM CountedOnce == PSpec => []OneDecisionPerRequest
<1>1. HandlerInv => OneDecisionPerRequest
  <2> SUFFICES ASSUME HandlerInv, ~Listener(setup), NEW p \in Procs, Done(p)
               PROVE  decisions[p] = IF PassedThrough(p) THEN 0 ELSE 1
    BY DEF OneDecisionPerRequest
  <2>1. Counted(p) /\ stage[p] = "done"
    BY DEF HandlerInv, Local, Done
  <2>2. CASE pc[p] # "idle"
    BY <2>1, <2>2 DEF Counted, PassedThrough
  <2>3. CASE pc[p] = "idle"
    BY <2>1, <2>3 DEF Counted, PassedThrough
  <2>4. QED
    BY <2>2, <2>3
<1>2. QED
  BY <1>1, SpecHandlerInv, PTL

(* Listener mode never turns a request away.                                 *)
THEOREM ListenerForwards == PSpec => []ListenerNeverRejects
<1>1. HandlerInv => ListenerNeverRejects
  BY DEF HandlerInv, Local, Quiet, ListenerNeverRejects
<1>2. QED
  BY <1>1, SpecHandlerInv, PTL

-----------------------------------------------------------------------------
(* The accounts.  As for the tracker alone, requests and answers have to be *)
(* ones that the window can follow: no negative number of tokens, and all   *)
(* of them together fit an int64.                                           *)

BoundedRequests(most) ==
    /\ IsFiniteSet(Procs) /\ most \in Nat
    /\ \A s \in Setups : \A r \in Requests(s) : maxTokens(r) \in 0 .. most
    /\ Usages \subseteq 0 .. most
    /\ Cardinality(Procs) * most <= MaxInt64

\* No request was sent on without a reservation.  Nothing can make this true
\* again once it is false.
AllReserved == \A p \in Procs : SentUpstream(p) => allowed[p]

NothingSettled == \A k \in Registered : settled[k] = 0

AccountInv == HandlerInv /\ NothingSettled /\ (now = 0 /\ AllReserved => Balanced)

(* What a request holds is bounded by its estimate or by its usage. *)
LEMMA HandlerHolds ==
    ASSUME NEW CONSTANT most, BoundedRequests(most), HandlerInv, NEW p \in Procs
    PROVE  Holds(p) \in 0 .. most
<1>1. Answered(p) /\ setup \in Setups /\ most \in Nat
  BY DEF HandlerInv, Local, ProxyTypeOK, BoundedRequests
<1>2. pc[p] # "idle" => est[p] \in 0 .. most
  BY <1>1 DEF Answered, BoundedRequests
<1>3. pc[p] \in Reporting => est[p] + delta[p] \in 0 .. most
  <2>1. SUFFICES ASSUME pc[p] \in Reporting PROVE est[p] + delta[p] \in 0 .. most
    OBVIOUS
  <2>2. PICK n : n = est[p] + delta[p]
    OBVIOUS
  <2>3. n = 0 \/ n \in Usages
    BY <1>1, <2>1, <2>2 DEF Answered
  <2>4. Usages \subseteq 0 .. most
    BY DEF BoundedRequests
  <2>5. 0 \in 0 .. most
    BY <1>1
  <2>6. QED
    BY <2>2, <2>3, <2>4, <2>5, Zenon
<1>4. QED
  BY <1>1, <1>2, <1>3 DEF Holds, Reporting, RecordSteps

LEMMA HandlerFits ==
    ASSUME NEW CONSTANT most, BoundedRequests(most)
    PROVE  HandlerInv /\ NothingSettled => Fits
<1> SUFFICES ASSUME HandlerInv, NothingSettled, NEW k \in Registered
             PROVE  /\ settled[k] + SumFunctionOnSet(HeldBy(k), Procs) \in 0 .. MaxInt64
                    /\ SumFunctionOnSet(HeldBy(k), Procs) \in Nat
  BY DEF Fits
<1>1. \A p \in Procs : Holds(p) \in 0 .. most
  BY HandlerHolds
<1>2. /\ most \in Nat /\ IsFiniteSet(Procs) /\ MaxInt64 \in Nat
      /\ Cardinality(Procs) * most <= MaxInt64
  BY IntAssumption DEF BoundedRequests
<1>3. PICK f : f = HeldBy(k)
  OBVIOUS
<1>4. \A p \in Procs : f[p] \in 0 .. most
  BY <1>1, <1>2, <1>3 DEF HeldBy
<1>5. SumFunctionOnSet(f, Procs) \in 0 .. Cardinality(Procs) * most
  BY <1>2, <1>4, SumBounded
<1>6. PICK n \in Nat : n = Cardinality(Procs)
  BY <1>2, FS_CardinalityType
<1>7. n * most \in Nat /\ n * most <= MaxInt64
  BY <1>2, <1>6
<1>8. SumFunctionOnSet(f, Procs) \in 0 .. MaxInt64
  BY <1>2, <1>5, <1>6, <1>7
<1>9. settled[k] = 0
  BY DEF NothingSettled
<1>10. QED
  BY <1>2, <1>3, <1>8, <1>9

(* What a step means to the tracker, and that it reconciles only granted    *)
(* reservations as long as all requests are reserved.                       *)
LEMMA StepKinds ==
    ASSUME HandlerInv, [PNext]_pvars
    PROVE  \/ UNCHANGED vars /\ (AllReserved' => AllReserved)
           \/ /\ \E p \in Procs : \E k, e : CallReserve(p, k, e)
              /\ AllReserved' => AllReserved
           \/ \E p \in Procs : /\ \E d : CallRecord(p, d)
                               /\ AllReserved' => AllReserved /\ pc[p] = "granted"
           \/ (\E p \in Procs : TrackerStep(p)) /\ (AllReserved' => AllReserved)
           \/ (\E k \in Registered : Status(k)) /\ (AllReserved' => AllReserved)
           \/ Tick
<1>1. ProxyTypeOK /\ \A p \in Procs : Local(p)
  BY DEF HandlerInv
<1>2. ASSUME UNCHANGED <<allowed, answer>> PROVE AllReserved' => AllReserved
  BY <1>2 DEF AllReserved, SentUpstream
<1>3. ASSUME NEW p \in Procs, Arrival(p)
      PROVE  UNCHANGED vars /\ (AllReserved' => AllReserved)
  BY <1>2, <1>3 DEF Arrival, PassThrough, Unmatched, Matched
<1>g. ASSUME NEW p \in Procs, GuardRejected(p) \/ StartReserve(p)
      PROVE  \/ UNCHANGED vars /\ (AllReserved' => AllReserved)
             \/ (\E k, e : CallReserve(p, k, e)) /\ (AllReserved' => AllReserved)
  BY <1>2, <1>g DEF GuardRejected, StartReserve
<1>4. ASSUME NEW p \in Procs, Reserved(p) \/ ReserveFailed(p) \/ Denied(p)
      PROVE  UNCHANGED vars /\ (AllReserved' => AllReserved)
  <2>1. /\ stage[p] = "reserving" /\ UNCHANGED <<vars, answer>>
        /\ allowed' = allowed \/ allowed' = [allowed EXCEPT ![p] = TRUE]
    BY <1>4, DecisionEffect
  <2>2. ~SentUpstream(p)
    BY <1>1, <2>1 DEF Local, Answered, SentUpstream, NoAnswer
  <2>3. \A q \in Procs \ {p} : allowed'[q] = allowed[q]
    BY <1>1, <2>1 DEF ProxyTypeOK
  <2>4. QED
    BY <2>1, <2>2, <2>3 DEF AllReserved, SentUpstream
<1>5. ASSUME NEW p \in Procs,
             \/ UpstreamError(p) \/ Upstream5xx(p) \/ UpstreamSSE(p)
             \/ \E u \in Usages \cup {NoUsage} :
                   UpstreamJSON(p, u) \/ \E complete \in BOOLEAN : StreamEnd(p, u, complete)
      PROVE  /\ UNCHANGED vars \/ \E d : CallRecord(p, d)
             /\ AllReserved' => AllReserved /\ pc[p] = "granted"
  <2>1. stage[p] \in {"upstream", "stream"} /\ allowed' = allowed
    BY <1>1, <1>5, AnswerEffect
  <2>2. PICK k \in {"error", "5xx", "json", "sse"}, u \in Usages \cup {NoUsage} :
          /\ answer' = [answer EXCEPT ![p] = [kind |-> k, usage |-> u]]
          /\ UNCHANGED vars \/ \E d : CallRecord(p, d)
    BY <1>1, <1>5, AnswerEffect
  <2>3. SentUpstream(p)' /\ \A q \in Procs \ {p} : answer'[q] = answer[q]
    BY <1>1, <2>2 DEF ProxyTypeOK, SentUpstream
  <2>4. allowed[p] => pc[p] = "granted"
    BY <1>1, <2>1 DEF Local, Answered, Placed, Decided, Reporting, RecordSteps
  <2>5. QED
    BY <2>1, <2>2, <2>3, <2>4 DEF AllReserved, SentUpstream
<1>6. ASSUME NEW p \in Procs,
             \/ Recover(p)
             \/ \E complete \in BOOLEAN :
                   RecordReturns(p, complete) \/ CopyBody(p, complete) \/ ProxyDirect(p, complete)
      PROVE  UNCHANGED vars /\ (AllReserved' => AllReserved)
  <2>1. UNCHANGED <<vars, allowed>>
    BY <1>6 DEF RecordReturns, Recover, CopyBody, ProxyDirect
  <2>2. CASE UNCHANGED answer
    BY <1>2, <2>1, <2>2
  <2>3. CASE stage[p] = "direct" /\ answer' = [answer EXCEPT ![p].kind = "direct"]
    <3>1. ~SentUpstream(p)
      BY <1>1, <2>3 DEF Local, Answered, SentUpstream, NoAnswer
    <3>2. \A q \in Procs \ {p} : answer'[q] = answer[q]
      BY <1>1, <2>3 DEF ProxyTypeOK
    <3>3. QED
      BY <2>1, <3>1, <3>2 DEF AllReserved, SentUpstream
  <2>4. QED
    BY <1>6, <2>2, <2>3 DEF RecordReturns, Recover, CopyBody, ProxyDirect
<1>7. ASSUME UNCHANGED <<setup, degraded, handler>> PROVE AllReserved' => AllReserved
  BY <1>2, <1>7 DEF handler
<1>8. ASSUME NEW p \in Procs, HandlerStep(p)
      PROVE  \/ UNCHANGED vars /\ (AllReserved' => AllReserved)
             \/ (\E k, e : CallReserve(p, k, e)) /\ (AllReserved' => AllReserved)
             \/ (\E d : CallRecord(p, d)) /\ (AllReserved' => AllReserved /\ pc[p] = "granted")
             \/ TrackerStep(p) /\ (AllReserved' => AllReserved)
  BY <1>4, <1>5, <1>6, <1>7, <1>8, <1>g DEF HandlerStep
<1>9. CASE UNCHANGED pvars
  BY <1>7, <1>9 DEF pvars
<1>10. QED
  BY <1>3, <1>7, <1>8, <1>9 DEF PNext

LEMMA NextAccountInv ==
    ASSUME NEW CONSTANT most, BoundedRequests(most)
    PROVE  AccountInv /\ [PNext]_pvars => AccountInv'
<1>1. HandlerInv /\ NothingSettled => Fits
  BY HandlerFits
<1>2. HandlerInv' /\ NothingSettled' => Fits'
  BY <1>1, PTL
<1> SUFFICES ASSUME AccountInv, [PNext]_pvars PROVE AccountInv'
  OBVIOUS
<1>3. /\ HandlerInv /\ HandlerInv' /\ NothingSettled /\ IsFiniteSet(Procs)
      /\ TypeOK /\ TypeOK' /\ Calling
  BY NextHandlerInv DEF AccountInv, HandlerInv, TrackerInv, BoundedRequests
<1>4. ASSUME UNCHANGED <<now, win, settled>>, AllReserved' => AllReserved,
             AllReserved' => \A k \in Registered : HeldBy(k)' = HeldBy(k)
      PROVE  AccountInv'
  <2>1. NothingSettled'
    BY <1>3, <1>4 DEF NothingSettled
  <2>2. ASSUME now' = 0, AllReserved' PROVE Balanced'
    <3>1. Balanced
      BY <1>4, <2>2 DEF AccountInv
    <3>2. QED
      BY <1>4, <2>2, <3>1 DEF Balanced
  <2>3. QED
    BY <1>3, <2>1, <2>2 DEF AccountInv
<1>5. CASE UNCHANGED vars /\ (AllReserved' => AllReserved)
  <2>1. \A k \in Registered : HeldBy(k)' = HeldBy(k)
    BY <1>5 DEF vars, locals, HeldBy, Holds
  <2>2. QED
    BY <1>4, <1>5, <2>1 DEF vars, shared, history
<1>6. ASSUME NEW p \in Procs, NEW k, NEW e, CallReserve(p, k, e), AllReserved' => AllReserved
      PROVE  AccountInv'
  <2>1. /\ \A q \in Procs : Holds(q)' = Holds(q)
        /\ \A q \in Procs \ {p} : key'[q] = key[q]
        /\ Holds(p) = 0
    BY <1>3, <1>6, HoldsClient
  <2>2. \A j \in Registered : HeldBy(j)' = HeldBy(j)
    BY <2>1 DEF HeldBy
  <2>3. QED
    BY <1>4, <1>6, <2>2 DEF CallReserve, shared
<1>7. ASSUME NEW p \in Procs, NEW d, CallRecord(p, d),
             AllReserved' => AllReserved /\ pc[p] = "granted"
      PROVE  AccountInv'
  <2>1. ASSUME pc[p] = "granted" PROVE \A k \in Registered : HeldBy(k)' = HeldBy(k)
    <3>1. \A q \in Procs : Holds(q)' = Holds(q)
      BY <1>3, <1>7, <2>1, HoldsClient
    <3>2. QED
      BY <1>7, <3>1 DEF HeldBy, CallRecord
  <2>2. QED
    BY <1>4, <1>7, <2>1 DEF CallRecord, shared, history
<1>8. ASSUME NEW p \in Procs, TrackerStep(p), AllReserved' => AllReserved PROVE AccountInv'
  <2>1. UNCHANGED <<now, settled>>
    BY <1>3, <1>8, TrackerStepFrame
  <2>2. NothingSettled'
    BY <1>3, <2>1 DEF NothingSettled
  <2>3. ASSUME now' = 0, AllReserved' PROVE Balanced'
    <3>1. Balanced /\ now = 0 /\ Fits'
      BY <1>2, <1>3, <1>8, <2>1, <2>2, <2>3 DEF AccountInv
    <3>2. QED
      BY <1>3, <1>8, <3>1, StepBalanced
  <2>4. QED
    BY <1>3, <2>2, <2>3 DEF AccountInv
<1>9. ASSUME NEW k \in Registered, Status(k), AllReserved' => AllReserved PROVE AccountInv'
  <2>1. UNCHANGED <<now, settled, pc, key, est, delta>>
    BY <1>9 DEF Status, locals, history
  <2>2. NothingSettled'
    BY <1>3, <2>1 DEF NothingSettled
  <2>3. \A j \in Registered : HeldBy(j)' = HeldBy(j)
    BY <2>1 DEF HeldBy, Holds
  <2>4. ASSUME now' = 0, AllReserved' PROVE Balanced'
    <3>1. Balanced /\ now = 0
      BY <1>9, <2>1, <2>4 DEF AccountInv
    <3>2. UNCHANGED win
      BY <1>3, <1>9, <3>1, StillWindow DEF Status, Balanced
    <3>3. QED
      BY <2>1, <2>3, <3>1, <3>2 DEF Balanced
  <2>5. QED
    BY <1>3, <2>2, <2>4 DEF AccountInv
<1>10. CASE Tick
  <2>1. now' # 0 /\ NothingSettled'
    BY <1>3, <1>10 DEF Tick, TypeOK, NothingSettled, history
  <2>2. QED
    BY <1>3, <2>1 DEF AccountInv
<1>11. QED
  BY <1>3, <1>5, <1>6, <1>7, <1>8, <1>9, <1>10, StepKinds

(* What a finished request holds is what its answer cost. *)
LEMMA HoldsIsCharge ==
    ASSUME HandlerInv, NEW p \in Procs, Done(p), SentUpstream(p) => allowed[p]
    PROVE  Holds(p) = Charge(p)
<1>1. /\ Answered(p) /\ Placed(p) /\ stage[p] = "done" /\ TypeOK
      /\ NoUsage \notin Usages
  BY HandlerAssumption DEF HandlerInv, Local, Done, ProxyTypeOK
<1>2. pc[p] \in Decided \cup {"idle", "recorded"}
  BY <1>1 DEF Placed
<1>3. CASE ~allowed[p]
  <2>1. pc[p] \in {"idle", "denied", "unknown"}
    BY <1>1, <1>2, <1>3 DEF Answered, SentUpstream, Decided, Reporting, RecordSteps
  <2>2. Holds(p) = 0
    BY <2>1 DEF Holds
  <2>3. Charge(p) = 0
    BY <1>3 DEF Charge
  <2>4. QED
    BY <2>2, <2>3
<1>4. CASE allowed[p] /\ pc[p] = "recorded"
  <2>1. key[p] \in Registered /\ Holds(p) = est[p] + delta[p]
    BY <1>1, <1>4 DEF Answered, Holds
  <2>2. CASE answer[p].kind = "5xx"
    <3>1. Charge(p) = 0
      BY <1>4, <2>2 DEF Charge
    <3>2. QED
      BY <1>1, <1>4, <2>1, <2>2, <3>1 DEF Answered, Reporting
  <2>3. CASE answer[p].kind # "5xx"
    <3>1. answer[p].usage \in Usages /\ est[p] + delta[p] = answer[p].usage
      BY <1>1, <1>4, <2>3 DEF Answered, Reporting
    <3>2. Charge(p) = answer[p].usage
      BY <1>1, <1>4, <2>3, <3>1 DEF Charge
    <3>3. QED
      BY <2>1, <3>1, <3>2
  <2>4. QED
    BY <2>2, <2>3
<1>5. CASE allowed[p] /\ pc[p] = "granted"
  <2>1. Holds(p) = est[p] /\ answer[p].kind # "5xx" /\ answer[p].usage = NoUsage
    BY <1>1, <1>5 DEF Answered, Holds, Reporting, RecordSteps
  <2>2. Charge(p) = est[p]
    BY <1>5, <2>1 DEF Charge
  <2>3. QED
    BY <2>1, <2>2
<1>6. QED
  BY <1>1, <1>2, <1>3, <1>4, <1>5 DEF Answered, Decided, Reporting, RecordSteps

(* When all requests are over and none was sent on without a reservation,    *)
(* each window holds exactly what the answers cost, for any number of        *)
(* concurrent requests and whatever errors, streams and disconnects ended    *)
(* them.                                                                     *)
THEOREM AccountsAreRight ==
    ASSUME NEW CONSTANT most, BoundedRequests(most)
    PROVE  PSpec => []AccountsMatchAnswers
<1>1. PInit => AccountInv
  <2> SUFFICES ASSUME PInit PROVE AccountInv
    OBVIOUS
  <2>1. HandlerInv /\ NothingSettled
    BY InitHandlerInv DEF PInit, Init, NothingSettled
  <2>2. ASSUME NEW k \in Registered PROVE SumFunctionOnSet(HeldBy(k), Procs) = 0
    <3>1. PICK z : z = HeldBy(k)
      OBVIOUS
    <3>2. \A p \in Procs : z[p] = 0
      BY <3>1 DEF PInit, Init, HeldBy, Holds
    <3>3. SumFunctionOnSet(z, Procs) = 0
      BY <3>2, SumZero DEF BoundedRequests
    <3>4. QED
      BY <3>1, <3>3
  <2>3. \A k \in Registered : win[k].headTime = 0 /\ win[k].total = 0 /\ settled[k] = 0
    BY DEF PInit, Init, NewRollingWindow
  <2>4. QED
    BY <2>1, <2>2, <2>3 DEF AccountInv, Balanced
<1>2. AccountInv /\ [PNext]_pvars => AccountInv'
  BY NextAccountInv
<1>3. AccountInv => AccountsMatchAnswers
  <2> SUFFICES ASSUME AccountInv, now = 0,
                      \A p \in Procs : Done(p) /\ (SentUpstream(p) => allowed[p]),
                      NEW k \in Registered
               PROVE  win[k].total = TokensOf(k, Charge)
    BY DEF AccountsMatchAnswers
  <2>1. Balanced /\ HandlerInv /\ settled[k] = 0 /\ TypeOK
    BY DEF AccountInv, AllReserved, NothingSettled, HandlerInv, TrackerInv
  <2>2. \A p \in Procs : Holds(p) = Charge(p)
    BY <2>1, HoldsIsCharge
  <2>3. TokensOf(k, Charge) = SumFunctionOnSet(HeldBy(k), Procs)
    BY <2>2 DEF TokensOf, HeldBy, SumFunction
  <2>4. SumFunctionOnSet(HeldBy(k), Procs) \in Int
    BY <2>1, HeldSum DEF BoundedRequests
  <2>5. QED
    BY <2>1, <2>3, <2>4 DEF Balanced
<1>4. QED
  BY <1>1, <1>2, <1>3, PTL DEF PSpec
=============================================================================

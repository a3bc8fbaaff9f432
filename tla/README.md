# TLA+ specifications of the Koshi runtime

Koshi is a Go sidecar proxy that puts token budgets in front of LLM providers.
Every request is identified, matched with a policy, checked against a
per-request guard, *reserved* against a rolling token window, decided on,
proxied, and *reconciled* with the usage the provider reports. A Helm chart
installs a mutating webhook that injects the sidecar into pods, and Jobs that
give the webhook its certificate. This directory models both paths,
model-checks them with TLC on small instances and proves every safety property
that a passing run checks with TLAPS for all instances. `PROJECT.json` lists runs, mutants, the map
from definitions to source lines, findings, hazards and theorems.

## 1. Inventory

| Component | State | Operations | Hard part | Correct if |
|---|---|---|---|---|
| Rolling window (`budget/window.go`) | ring of per-second buckets, head, cached sum, burst pool | `Add`, `Total` (lock), `ConsumeBurst`, `ReplenishBurst` (CAS) | lazy eviction, clamp, clock steps, CAS retries | the ring is the last N seconds; sum and pool keep their bounds |
| Budget tracker (`budget/tracker.go`) | one window per accounting key | `Register`, `Reserve`, `Record`, `Status`, `StatusAll` | `Reserve` and `Record` are several separately locked steps | nothing lost or invented; no grant beyond limit + burst |
| Proxy handler (`proxy/proxy.go`) | `degraded` flag, per-request locals | `ServeHTTP`, `handleWithPolicy`, `proxyWithEnforcement`, `handleNonStreamingResponse`, `proxyDirect`, `ServeStatus` | concurrent requests, upstream failure, aborted copies, one flag for all | checks not bypassed; accounts match answers; listener never blocks; every request answered, unless its own client or upstream stalls |
| Policy engine, resolvers, decider (`policy`, `identity`, `enforce`) | immutable after startup | `Lookup`, `Resolve`, `Evaluate`, `CheckPerRequestGuard` | two tables (policies, registered keys) must agree; verdict on a later total | see the handler |
| SSE extraction (`proxy/sse.go`, `proxy/anthropic_sse.go`, `provider`) | partial-line buffer, accumulator, usage, closed flag | `Read`, `Close` | chunk boundaries, overlong lines, cut streams | usage independent of chunking; reconciled once |
| Event emitter, shutdown (`emit/emitter.go`, `cmd/koshi/main.go`) | channel, drop counter, drain goroutine | `Emit`, `Close`, `drain`, signal handling | full buffer, emit during shutdown | never blocks; nothing lost silently; shutdown ends |
| Configuration, startup (`config`, `main.go`) | environment, file; the wiring they lead to | select, validate, wire, register | four sources of configuration; two tables under different keys; exits and panics | policy and budget of a request are one policy's; annotations win over files |
| Provider registry (`provider/registry.go`) | none | detect, default estimate, parser, upstream URL | routing by `Host` | injected traffic finds its upstream |
| Admission webhook (`inject`) | none per request | decide, build the patch | order of operations, absent fields, resubmission, rollouts | the patch is complete, once, and keeps what is the author's |
| Injector (`cmd/koshi/injector.go`) | the certificate it loaded at its start | start, serve, restart, end | the Secret changes behind it, its mounted copy later | restarts are enough to be trusted again |
| Certificate Jobs (`certgen`) | Kubernetes Secret, caBundle | generate, get, create or update; get, patch | a pod ends between or after writes, retries, leftovers | Secret and bundle agree once Helm succeeds |
| Fanout tracker, metrics, version constants | none that matters | - | - | - |

Interaction: the handler calls resolver, engine, tracker, decider and emitter
directly. Goroutines share only the windows (a mutex each), the burst pools
(an atomic each), the degraded flag (an atomic) and the event channel. The SSE
reader calls back into the tracker from `Close`. `main` shuts the HTTP server
down and then closes the emitter. Webhook and sidecar meet only in the
environment variables of the patched pod; the two certificate Jobs and the
injector only in the Secret; all of them and the API server only in the
webhook configuration.

## 2. Modules

| Module | Models | Built on |
|---|---|---|
| `RollingWindow` | the mutex-guarded part of a window, as operators | - |
| `WindowUsage` | one window under a running clock, with a history as reference | `RollingWindow` |
| `TokenBudget` | abstract promise of the tracker: grant, reconcile, close | - |
| `BudgetTracker` | `Reserve`/`Record` of concurrent goroutines, step by step | `RollingWindow`; instance of `TokenBudget` |
| `PolicyEngine` | lookup, accounting keys, guard, verdict, for any wiring | - |
| `ProviderRegistry` | provider detection, estimates, upstream of a request | - |
| `ProxyHandler` | the request handler, in any of a set of wirings | `BudgetTracker`, `PolicyEngine`, `ProviderRegistry` |
| `Startup` | from environment and file to a wiring, or an exit or a panic; the resolvers | `PolicyEngine`, `ProviderRegistry` |
| `Webhook` | admission decision, patch, owner normalisation | - |
| `CertRotation` | certificate Jobs, Helm's hooks, the injector's certificate | - |
| `Cluster` | admission, sidecar and standalone proxy under a changing certificate | `CertRotation`, `Webhook`, `Startup` |
| `SSEReader` | usage extraction from streams | - |
| `EventEmitter` | emitter, drain goroutine, shutdown | - |
| `MCBudgetTracker`, `MCProxyHandler`, `MCSSEReader`, `MCCluster` | values of constants for TLC | |
| `Sums` | facts about sums over finite sets, for the proofs | - |
| `RollingWindow_proofs`, `WindowUsage_proofs`, `BudgetTracker_proofs`, `ProxyHandler_proofs`, `SSEReader_proofs`, `EventEmitter_proofs`, `Cluster_proofs` | theorems | the module they are about |

**How state and actions correspond to code.**
*Window.* `buckets`, `headIdx`, `headTime`, `total` are the struct's fields;
time is whole seconds, as the code truncates. `advance`, `Add`, `Total` are the
methods. Sums wrap around at `MaxInt64`, a constant that the runs make small,
as two's complement does. `WindowUsage` lets the wall clock jump forward by any
amount and step back by a second; its history variable `wrapped` notes that the
cached sum once left the range.

*Tracker.* `pc[p]` is a goroutine's position; each action is one critical
section or atomic operation: `r_add`, `r_total`, `r_load`, `r_cas`, `r_undo`,
`r_retotal` in `Reserve`; `c_add`, `c_total`, `c_load`, `c_cas` in `Record`.
`seen` and `cur` are the locals that may be stale. `settled` and `reservedAt`
are history variables. `BurstRemaining` reads that only fill the returned
status are left out; nothing decides on them. `ReserveTotal` merges the `Total`
with the comparison that follows, which touches only locals.

*Handler.* `stage[p]` is the position between two points that touch shared
state, or wait for a peer. An arrival performs everything up to the read of the
body (`Matched`), or all of it where no policy applies; `GuardRejected` and
`StartReserve` go on from there to an answer or the call of `Reserve`;
`Reserved`, `ReserveFailed` and `Denied` do everything from its return to the
upstream call; the `Upstream...` actions are `ModifyResponse` and
`ErrorHandler`; `StreamEnd` is the end of a stream, whose body is closed (and
reconciled) before the reverse proxy's abort panic reaches `ServeHTTP`'s
recover; `RecordReturns` is the reverse proxy going on after `Record` has
returned. A failure to read a
JSON body goes through `ErrorHandler` too and is `UpstreamError`. Unlike the
client in `BudgetTracker`, a finished request keeps its locals, so that
properties can speak about all requests of a run at its end. `setup` is the
wiring that `main` leaves behind, one of the set `Setups`; a key that it does not
register is unknown to the tracker. `Copied`, `CopyTo`, `CopyBody` and
`RecordReturns` model `httputil.ReverseProxy` from how the handler uses it.

*SSE reader.* A step is one line end or one unfinished tail of a chunk; every
way of cutting a stream into chunks is a sequence of such steps. A buffer that
overflowed holds only the end of a line, which has no `data: ` prefix.

*Emitter.* The channel is a sequence; the drain goroutine holds at most one
event; `main` goes from serving through shutdown and closing to exited. A
connection that was accepted before the signal may bring its request during the
shutdown still, as `http.Server.Shutdown` leaves new connections alone.

*Startup.* A configuration and an environment are records with the fields and
variables of the code; `SelectConfig` is the chain of `if`s in `main`, `Wire` the
rest of it, `Start` the outcome: serving, exited, or panicked (a window of a
negative number of seconds). IDs and names are sequences of their parts, so that
cutting off a hash or a trailing dash is done and not assumed.

*Webhook.* A patch is the sequence of the operations that `buildPatches` appends,
for each order in which Go may range over its maps: `Orders` chooses, for each
container, the sequence in which the range comes across the variables that are
missing, and `EnvOps` appends one operation for each. `Apply` is RFC 6902 as far
as these operations go: appending to an array that is not there fails.

*Certificates.* A certificate chain is its generation. Each action is one API
call or the computation between two; `PodFails` covers every error return and the
end of a pod anywhere, also between a write and the exit. Helm and the Job
controller are modelled from the chart: hooks run in turn, a Job of the same name
is deleted first, one pod at a time, Helm may stop waiting and leave the Job.
`mount` is the Secret as the injector's pod has it: the current one when the pod
is created (`InjectorStart`), afterwards the one of the kubelet's last sync
(`KubeletSync`). `served` is what `LoadTLSConfig` read, once for each start of the
container; `InjectorRestart` is a restart in place, which may read a mount that
the Secret has moved on from.

*Cluster.* One place for a pod or a standalone proxy; a pod may be replaced by one
of another rollout or controller, resubmitted from its stored form, and its
sidecar restarted with another content of the ConfigMap. `controller` in a
template is what the pod really belongs to, which only the properties see. A
template is any pod that the API server accepts (`Submittable`: it has a
namespace, a name or a prefix of one, a sequence of containers) in which the
author has no container of the name that the webhook uses for its own.

**Abstractions.** Request and response bodies, headers, JSON, labels and log
texts are gone; a request is an identity, `max_tokens`, its host and whether it
streams; an answer is its kind and usage. A host is the set of provider domains
in its name. A policy keeps budget, guard and the tier-3 action, which is all
that the code reads of it. `failurePolicy` is not a variable: what `Fail` admits
is a part of what `Ignore` admits. Pods of a Job that Helm deleted are taken to be
gone. Token counts of a stream are naturals.

## 3. Runs

Deadlock checking is off where the system may legitimately come to rest
(bounded requests all finished, process exited).

| Run | Bounds | Shows |
|---|---|---|
| `window_refunds` | 3-second window, clock 0 to 4, grants of 1 and 3, refunds of 2, sums wrap beyond 3 | the ring equals the history, wraparound included; until a sum wraps the cached sum never under-reports it |
| `tracker_one_second` | 3 goroutines on one key, no tick | conservation, and refinement of `TokenBudget` |
| `tracker_clock` | 2 goroutines, 3 calls, 3 seconds, 2-second window, estimates -1, 1, 2, sums wrap beyond 4 | types, burst pool and grant bounds while seconds pass inside calls and sums overflow |
| `proxy_requests` | 2 concurrent requests; four wirings: strict and lax enforcement, a listener with a policy override and one without a budget; known, unknown and missing identity, below and above the guard, with and without upstream, all kinds of answers | checks not bypassed, one decision per request, the windows hold what the answers cost, a listener rejects nothing, every request is answered or waits for its own client or upstream |
| `emitter_close` | 2 requests of 3 events, a buffer of 2 | events accounted for in order, never blocks, panics only after the grace period, shutdown completes |
| `sse_streams` | both providers, 4 lines of 1 to 4 cells, 2-cell buffer, 2 closes | usage independent of chunking, reconciled once |
| `cluster_injection` | 2 releases, 1 retry per Job; 8 templates of 5 controllers, 5 sidecar files and 10 standalone ones, valid and not; a port that is no default | the patch is complete and made once; mode, policy and port are the annotations'; default sidecars start; policy and budget agree; identities follow controllers; Secret and bundle agree, releases end, restarts restore the trust in the injector |

*Why the bounds suffice.* Two goroutines reach every pair of interleaved steps;
three let a third observe what two did to each other. A window of two or three
buckets has a head, an expired and a live bucket; the clocks run past full
expiry. A budget of two or three tokens is exceeded by two requests. SSE line
sizes lie below, at and above the buffer limit. Two releases are an install and
an upgrade, or an install after an uninstall that left the Secret; one retry
lets a write that went through be repeated. Between them the templates lack each
field that the patch may have to create. Symmetry over goroutines is used for
safety only.

*Fairness.* `proxy_requests` assumes that a request goroutine that can step
does (the Go scheduler), but only while it does not wait for its client or its
upstream (`AwaitsPeer`). Of those nothing is assumed, as nothing in the program
ends such a wait: the server has no `ReadTimeout`, `ResponseHeaderTimeout` runs
only once the request has been written, and `WriteTimeout` fails a write but
does not end the read of a stalled body. `EveryRequestAnswered` says what is left:
a request is answered, or stays in such a wait for ever; the budget's loops end
under contention, and no request is held up by another one's stalled peer. No
fairness is assumed of arrivals, of the clock or of other goroutines' success; a
CAS fails only when another succeeded, and a run has finitely many requests.
`emitter_close` assumes fairness of request goroutines only, so the logger may
block for ever in `EmitNeverBlocks`; `ShutdownCompletes` names the fairness of the
drain goroutine and of `main` as its hypothesis. `cluster_injection` assumes that
a Job's pod goes on, fails or is retried (the Job controller) and that Helm
applies the manifests after a hook; not that any call succeeds, and nothing of the
injector, which as a rule runs for months without a restart.
`RestartRestoresTrust` has the fairness of `InjectorStep` as its hypothesis: that
a missing pod is created, the mount is brought up to date and the container is
restarted as long as one of these would change anything, in any order.

### Disagreements between code and documents

Five runs state what a document says and are refuted by TLC; `PROJECT.json`
quotes the lines.

| Run | What happens |
|---|---|
| `tracker_late_refund` | a refund in a later second than its reservation leaves capacity that is not there |
| `proxy_erased` | a denied reservation is proxied, as the decider sees the total after the undo, and its reconciliation removes other requests' tokens |
| `proxy_unresolved` | a request whose upstream call fails is over with its reservation neither reconciled nor released |
| `proxy_disconnect` | a client that disconnects degrades the handler for good |
| `sidecar_routing` | a request that follows an injected base URL has the sidecar's address as its host; no provider is detected and it is answered 502 |

Observations made with the same modules that have no run of their own:

- The clamp in `Add` leaves a negative bucket, whose expiry adds tokens to the
  sum (`window_refunds` therefore states `>=`, not `=`).
- The undo of a denied `Reserve` that straddles a second boundary has the same
  effect as a late refund.
- Two reservations that each fit can both be refused, so `Reserve` is not
  linearizable as the accounting invariants say; `TokenBudget` leaves open when
  a refusal is allowed.
- In enforcement mode an unknown workload gets the default policy from `Lookup`
  and then 500, as its ID is not registered with the tracker
  (`PolicyAndBudgetAgree` excludes exactly this).
- A workload that is called `_default` is registered before the default policy
  and keeps the key: requests without an identity are checked against the default
  policy and charged to that workload's budget.
- An overflow of the cached sum is clamped to zero: the window looks empty.
- A sidecar file's `default_policy`, called ignored in
  `examples/sidecar-custom-configmap.yaml`, is registered unvalidated: a negative
  window panics at startup; one of zero seconds is never charged
  (`ChargedBudgetsValid`).
- A standalone listener resolves identities from the pod's environment, which it
  does not have: its workloads are never matched, and without a default policy
  nothing is accounted.
- With workloads of both identity modes the first one chooses the resolver for
  all.
- Every upgrade issues a new CA, and nothing restarts the injector, which loads
  its certificate once: after an upgrade that leaves the injector's pod template
  alone the API server does not trust it until it is restarted, on a mount that
  is up to date by then (`RestartRestoresTrust` says that this is enough, and has
  the restart as its hypothesis). With `failurePolicy: Ignore` pods are admitted
  without a sidecar meanwhile. `README.md:48` has operators wait for an injector
  that serves, which such a one does.
- An upgrade that fails between its hooks leaves a Secret that the caBundle does
  not match.
- The patch overwrites `prometheus.io` annotations that a pod already has.
- Pods of a CronJob are named after the Job of one run: each run has an identity
  and a budget of its own.
- Degraded mode proxies; the design documents say that it rejects.
- In listener mode a shadow rejection is also counted as an allow.
- A request that outlives the grace period panics in `Emit`
  (`TelemetryNeverFailsRequests` excludes exactly this case).
- A cut stream is refunded down to its partial usage, which lines 152 to 155 of
  the accounting invariants do not want.
- In listener mode a request without an upstream is still answered 502 by the
  handler itself (`sidecar_routing`); `ListenerNeverRejects` is about the
  answers that refuse a request.

Also seen, and not a property of a run: the fast-path sentinel
`"type":"message_"` in `sse.go` includes a closing quote and so never matches an
event type. It is harmless, as every line that matters contains `"usage"`.

## 4. Proofs

All constants are arbitrary, under the named assumptions of the modules:
`IntAssumption` (the width of integers), `UsageAssumption`, `TrackerAssumption`
(registered keys with positive window lengths and natural limits whose sum with
the burst is an int64; estimates and deltas any integers), `HandlerAssumption`
(wirings as `main` makes them: an override only in listener mode),
`ReaderAssumption`, `EmitterAssumption`, `CertAssumption`,
`ClusterAssumption` (a file has the fields of a configuration, its policies are
not nil, its workload IDs not missing) and `TemplateAssumption` (templates are
`Submittable`; the injector's port is not 0, as `runInjector` takes only a
positive one). TLC evaluates each of them in a run.
Theorems that need more say so in their own hypotheses, named below.

| Theorem | States for all constants | Inductive invariant |
|---|---|---|
| `TypeCorrect`, `BurstPoolBounded`, `GrantsWithinCapacity` | `TypeOK`, `BurstBounded`, `GrantWithinCapacity` of the tracker | `IInv` |
| `TokensConserved` | `ReservationsConserved` | `ConservedInv` |
| `TrackerImplementsBudget` | the tracker refines `TokenBudget` | `RefInv` |
| `UsageTypeCorrect`, `RingIsHistory`, `CachedSumIsSafe` | the three invariants of `window_refunds` | `IInv` |
| `HandlerTypeCorrect`, `HandlerKeepsBudget`, `ChecksAreNotBypassed`, `CountedOnce`, `ListenerForwards` | the handler's invariants, and the tracker's with the handler as its client | `HandlerInv` |
| `AccountsAreRight` | `AccountsMatchAnswers` | `AccountInv` |
| `ReaderTypeCorrect`, `ReconciledOnce` | `TypeOK`, `ReconciledExactlyOnce` | by themselves |
| `UsageIsReported` | `UsageMatchesLines` | `LinesInv` |
| `EmitterTypeCorrect`, `NoEventLost`, `ClosedIsDrained`, `EmitPanicsOnlyOverdue` | the invariants of `emitter_close` | `IInv` |
| `DeployedIsTrusted`, `ReleaseIsTrusted` | `BundleMatchesSecret`, of the certificates and of the deployment | `CertInv` |
| `OnePolicyPerRequest`, `OnlyValidBudgets` | `PolicyAndBudgetAgree`, `ChargedBudgetsValid` | `ProcInv` |
| `ReleaseTyped` | `ClusterTypeOK` | `BoundInv`, and that of `Wired` |
| `Wired` | pods, processes and their variables belong together | `PodInv /\ WiredInv /\ ProcInv` |
| `InjectsOnce`, `PatchComplete` | `OneSidecar`, `InjectionComplete` | `Wired` |
| `ModeFollowsAnnotation`, `PolicyFollowsAnnotation`, `PortFollowsInjector`, `DefaultsStart` | `ModeHonoured`, `PolicyHonoured`, `PortAgrees`, `DefaultSidecarStarts` | `Wired` |
| `OneIdentityPerController` | the action property `IdentityFollowsController` | `Wired`, from it `Named` |

*Induction over data.* The library's induction theorems have an operator as a
parameter, which the provers cannot instantiate. What is needed is proved from a
least counterexample instead: `LeastNatural` and `MinimalSubset` (in `Sums`) say
that a non-empty set of naturals has a least and a non-empty set of subsets of a
finite set a minimal element, and hold for sets, not predicates. That way a fold
over a finite set is shown to be well defined (`SumExists`, `SumUnique`) and to
follow the change of one element (`SumChange`), to be bounded (`SumBounded`) and
monotonic; and the recursive functions of `RollingWindow` to return what they
are called after. In the same way the two folds that the patch goes through,
`FoldLeft` in `Apply` and `FlattenSeq` in `buildPatches`, are shown to be defined
(`FoldExists`, `ConcatExists`) and to be what a reader takes them for: applying a
concatenation is applying its parts in turn.

*Window.* `RollingWindow_proofs`: the ring's operators keep its type, every
bucket and sum stays an int64 (`WrapType`), `Total` is a natural number although
sums wrap, and `advance` and `Add` do to the ring what they do to a history of
all seconds. `WindowUsage_proofs` needs `HeadIsLast` besides the three properties
themselves: nothing is booked after the second the head stands for. Without it
a ring that matches its history could be advanced over seconds that have
tokens.

*Tracker.* `IInv` adds to the three bounds: a goroutine inside a call belongs to
a registered key (`Calling`), and what its locals say about its place (`Locals`):
at `r_load` and `r_cas` the total it saw is above the limit; at `r_cas` the
loaded pool covers the overage; in the replenish loop the total is below the
limit. With these a successful swap moves the pool from the loaded value, which
is the current one, to a value in range (`SwapKeepsBounds`), and a grant after a
swap is on a total of at most limit plus burst.

`TokensConserved` has the hypothesis `HonestClient(most)`: finitely many
goroutines, estimates and actual usages between 0 and `most`, and `MaxCalls *
most` fits an int64. Without it the property is false: the clamp and the
wraparound lose tokens. `ConservedInv` relates the head bucket as well as the
cached sum to what the requests hold, and bounds what they may hold by the calls
made so far. `StepBalanced` does not mention the client and is used for the
handler again.

`TrackerImplementsBudget` has in addition `OnlyRefunds` (no reconciliation takes
more than was reserved) and `MaxTime = 0` (no second expires), the conditions
under which the run checks it; `tracker_late_refund` shows that the second one
cannot be dropped. The difficulty is a goroutine that read a total above the
limit and decides, on the burst pool, only after others have read, booked and
been granted. What is inductive is a statement about *sets* of such goroutines
(`Competing`): for every set S of goroutines of a workload that wait for the
pool, the tokens of the granted requests and of S together are within capacity,
or at most what some member of S has read. A grant on the pool is one for the
singleton; a new reading is at least everything booked so far, so it covers every
set it joins; refunds and refusals only lower the left side.

*Handler.* `HandlerInv` is `TrackerInv` with, for every request, where it is in
the tracker given its stage (`Placed`), which checks are behind it (`Checked`),
what has been counted (`Counted`), that what was reported is what was answered
(`Answered`), and that a listener has not rejected it (`Quiet`). These parts
speak about one request at a time, so a step needs a proof for its own request
only (`OthersLocal` covers the others, also when it enters degraded mode).
`AccountsAreRight` has the hypothesis `BoundedRequests(most)`, the handler's
counterpart of `HonestClient`: finitely many requests, `max_tokens` and usages
between 0 and `most`, all of them together within an int64. `AccountInv` says
that, as long as no second has passed and no request was sent on without a
reservation, the window balances; `proxy_erased` shows what happens otherwise.

*SSE.* `LinesInv` says that some set of overlong lines can be blanked out so that
the usage and Anthropic's accumulator are those of the remaining lines
(`Follows`), and that a buffer that starts where its line starts holds all that
was read of it (`Partial`), hence only an overlong line is cut. `FollowsStep`
compares the one-pass parser with the last-matching-index definition of
`ReportedBy` when one line is added. `ReconciledOnce` is inductive by itself
because no line is read after `Close`.

*Emitter.* `Phases` ties the drain goroutine and the channel to the stage of
`main`, `Overdue` a request that still runs after `close` to the expired grace
period.

*Deployment.* `CertInv` makes `BundleMatchesSecret` inductive: past the Secret
hook no Secret Job runs any more, since the hook's Job has ended and one of an
earlier release was deleted when this one was created; so what the caBundle Job
reads after the manifests is still in the Secret when it patches, and a leftover
caBundle Job is deleted before that. For `OnePolicyPerRequest` and
`OnlyValidBudgets` the invariant is small (`ProcInv`: a process that serves was
started with the environment it has), and the work is in `SelectSelected`: every
way through `SelectConfig` ends in one of three kinds of configuration, one made
for the pod it runs in (`ForPod`), one of a standalone proxy (`Standalone`), or
the built-in listener; each kind agrees for its own reason (`WiringAgrees`). The
hypothesis `Distinct` says that the missing identity is not the ID of a pod's
workload.

`BoundInv` bounds the certificates: those issued, and those that the running
Secret Job may still issue (`Room`, one for each attempt it has left), are at
most one for each attempt of each release. Without `Room` the bound on `issued`
is not inductive, as a retry generates a certificate of its own.

The theorems on injection share one invariant. `PodInv`: the stored pod is its
author's, or `Patched`, that is, it has everything that `buildPatches` adds and
its other fields unchanged. It is kept because the patch applies to every pod
(`PatchApplies`: the operations are followed one by one, each with the fact that
the array or map it appends to is there by then), and because a patched pod that
is submitted again is skipped. `WiredInv`: a process in a pod is its sidecar, with
the variables of its container; hence (`EnvFor`) they say what the annotations
say. `ProcInv`: the process is what `Start` makes of them. With these, mode,
policy and port follow from what `SelectConfig` does for a pod (`Told`, of every
file); and that a default sidecar starts from `Wire` with the two built-in
configurations, whose checks all succeed.

The hypothesis `Apart` of these theorems says that the values which stand for
something missing (`Absent`, `NoPod`, ...) are not functions, so no pod, list or
policy is mistaken for one, and that `NoPod` and `Unpatchable` differ: TLC's
model values are like that. `OneIdentityPerController` has the hypothesis
`Controllers(who)`: pods look as Kubernetes makes them (a Deployment's are owned
by a ReplicaSet whose name is the Deployment's with the hash that labels the pod)
and no two controllers have the same namespace, kind and name. The templates of
`cluster_injection` satisfy it. It is needed: a ReplicaSet of somebody's own whose
name happens to end in its pods' hash would be taken for a Deployment's.

Each invariant was checked by TLC on the instance of a run before it was proved.

*Only model-checked*: the liveness properties, as fairness and `ENABLED` are out
of the prover's reach: `EveryRequestAnswered`, `EmitNeverBlocks`,
`ShutdownCompletes`, `HelmCompletes`, `RestartRestoresTrust`. The five disagreements
of section 3 are counterexamples, for which one instance is enough.

## 5. Not modelled

YAML and JSON parsing, event contents, metric labels, `Retry-After`, health
endpoints, log settings; images, pull policies and resources of the sidecar;
the expiry of certificates, and certificates given in the chart's values; the
no-op fanout tracker and the version constants. A restart of the proxy is a new
start: nothing is persisted, and windows begin empty.

## 6. What could come next

1. `SSEReader` composed with `ProxyHandler`, in place of `StreamEnd`'s choice of
   a usage.
2. A JSON patch with one operation for each scrape annotation; the three are one
   operation here, which is enough as no operation after the first can fail.
3. Several injectors at a time (the chart's `injector.replicaCount`), each with
   the certificate of its own start.

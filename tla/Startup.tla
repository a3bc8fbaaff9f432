------------------------------- MODULE Startup -------------------------------
(***************************************************************************)
(* How main turns its environment and a configuration file into a running  *)
(* proxy: internal/config, cmd/koshi/main.go up to the server's start, and *)
(* the pod resolver, as operators.                                         *)
(*                                                                         *)
(* A configuration is a record                                             *)
(*   [mode, upstreams, policies, default, workloads, strict, sse,          *)
(*    listenAddr]                                                          *)
(* with upstreams a function from provider names to URLs, policies and     *)
(* workloads sequences, default a policy or NoPolicy.  A workload is a     *)
(* record [id, identity, key, refs].  The zero values of Go are "", <<>>   *)
(* for an ID or a name (sequences of parts), and 0 for a listen address,   *)
(* which is a port.  An environment is a record of the KOSHI_ variables;   *)
(* one that is not set has its zero value.                                 *)
(***************************************************************************)
EXTENDS PolicyEngine, ProviderRegistry, Sequences, TLC

CONSTANT NoConfig   \* no configuration: main exits with status 1

RangeOf(s) == {s[i] : i \in DOMAIN s}

Modes == {"listener", "enforcement"}
SidecarPort == 15080

-----------------------------------------------------------------------------
(* internal/config *)

(* Mutant: a window of zero seconds passes. *)
validatePolicyLoosely(p) == p.window >= 0 /\ p.limit > 0 /\ p.burst >= 0 /\ p.guard >= 0

validatePolicy(p) == p.window > 0 /\ p.limit > 0 /\ p.burst >= 0 /\ p.guard >= 0

ValidUpstreams(c) ==
    /\ DOMAIN c.upstreams # {}
    /\ \A n \in DOMAIN c.upstreams : c.upstreams[n] # "" /\ n # "google"

PolicyIDs(c) == {p.id : p \in RangeOf(c.policies)}

ValidPolicies(c) ==
    \A i \in DOMAIN c.policies :
        /\ c.policies[i].id # "" /\ validatePolicy(c.policies[i])
        /\ \A j \in 1 .. (i - 1) : c.policies[j].id # c.policies[i].id

HeaderKeys(c) == {w.key : w \in {w \in RangeOf(c.workloads) : w.identity = "header"}}

ValidWorkloads(c) ==
    /\ \A i \in DOMAIN c.workloads :
          LET w == c.workloads[i] IN
          /\ w.id # <<>> /\ \A j \in 1 .. (i - 1) : c.workloads[j].id # w.id
          /\ w.identity \in {"header", "pod"}
          /\ w.identity = "header" => w.key # ""
          /\ w.refs # <<>> /\ RangeOf(w.refs) \subseteq PolicyIDs(c)
    /\ \A a, b \in HeaderKeys(c) : a = b

\* What Validate makes of the mode and the listen address it leaves behind.
Normalized(c) ==
    LET mode == IF c.mode = "" THEN "enforcement" ELSE c.mode
    IN  [c EXCEPT !.mode = mode,
                  !.listenAddr = IF mode = "listener" /\ @ = 0 THEN SidecarPort ELSE @]

Validate(c) ==
    /\ Normalized(c).mode \in Modes
    /\ ValidUpstreams(c) /\ ValidPolicies(c)
    /\ c.default # NoPolicy => validatePolicy(c.default)
    /\ IF c.mode = "listener" /\ c.workloads = <<>>
       THEN c.default # NoPolicy ELSE ValidWorkloads(c)

\* A sidecar's default_policy is not looked at.
ValidateSidecarConfig(c) ==
    /\ c.mode \in Modes \cup {""}
    /\ ValidUpstreams(c)
    /\ c.policies # <<>> /\ ValidPolicies(c)
    /\ c.workloads = <<>>

CatalogPolicy(id, limit, burst, guard, kill) ==
    [id |-> id, window |-> 3600, limit |-> limit, burst |-> burst,
     guard |-> guard, kill |-> kill]

SidecarPolicyCatalog ==
    <<CatalogPolicy("sidecar-baseline", 100000, 10000, 4096, TRUE),
      CatalogPolicy("sidecar-strict", 25000, 2500, 2048, TRUE),
      CatalogPolicy("sidecar-high-throughput", 500000, 50000, 32768, FALSE)>>

DefaultSidecarPolicyID == "sidecar-baseline"

DefaultEnforcementSidecarConfig ==
    [mode |-> "enforcement", listenAddr |-> SidecarPort,
     upstreams |-> [openai |-> "openai", anthropic |-> "anthropic"],
     policies |-> SidecarPolicyCatalog, default |-> NoPolicy,
     workloads |-> <<>>, strict |-> FALSE, sse |-> TRUE]

DefaultListenerConfig ==
    [DefaultEnforcementSidecarConfig EXCEPT
        !.mode = "listener",
        !.default = CatalogPolicy("_listener_default", 1000000, 0, 32768, FALSE)]

-----------------------------------------------------------------------------
(* main: the choice of the configuration *)

PodID(env) == <<env.KOSHI_POD_NAMESPACE, env.KOSHI_WORKLOAD_KIND, env.KOSHI_WORKLOAD_NAME>>

HasWorkload(env) == env.KOSHI_WORKLOAD_KIND # "" /\ env.KOSHI_WORKLOAD_NAME # <<>>

(* Mutant: the workload is named after the pod, not after its owner. *)
WithPodNameWorkload(c, env, policyID) ==
    [c EXCEPT !.workloads =
        Append(@, [id |-> <<env.KOSHI_POD_NAMESPACE, "Pod", env.KOSHI_POD_NAME>>,
                   identity |-> "pod", key |-> "", refs |-> <<policyID>>])]

\* The workload that main synthesizes for the pod it runs in.
WithPodWorkload(c, env, policyID) ==
    [c EXCEPT !.workloads =
        Append(@, [id |-> PodID(env), identity |-> "pod", key |-> "", refs |-> <<policyID>>])]

(* Mutant: the file's mode wins over the annotation's. *)
SidecarModeFromFile(c, env) ==
    IF c.mode # "" THEN c.mode
    ELSE IF env.KOSHI_MODE = "enforcement" THEN "enforcement" ELSE "listener"

\* The mode of a sidecar with a file is the annotation's, not the file's.
SidecarMode(c, env) == IF env.KOSHI_MODE = "enforcement" THEN "enforcement" ELSE "listener"

SidecarFileConfig(env, file) ==
    IF /\ file # NoConfig /\ ValidateSidecarConfig(file)
       /\ HasWorkload(env)
       /\ env.KOSHI_POLICY_OVERRIDE # "" /\ env.KOSHI_POLICY_OVERRIDE \in PolicyIDs(file)
    THEN WithPodWorkload([file EXCEPT !.mode = SidecarMode(file, env),
                                      !.listenAddr = IF @ = 0 THEN SidecarPort ELSE @],
                         env, env.KOSHI_POLICY_OVERRIDE)
    ELSE NoConfig

Load(file) == IF file # NoConfig /\ Validate(file) THEN Normalized(file) ELSE NoConfig

BuiltInEnforcement(env) ==
    LET c == DefaultEnforcementSidecarConfig
        override == env.KOSHI_POLICY_OVERRIDE
    IN  IF /\ env.KOSHI_POD_NAMESPACE # "" /\ HasWorkload(env)
           /\ override \in PolicyIDs(c) \cup {""}
        THEN WithPodWorkload(c, env, IF override = "" THEN DefaultSidecarPolicyID ELSE override)
        ELSE NoConfig

\* file is what Parse makes of the file, NoConfig if that fails.
SelectConfig(env, file) ==
    IF env.KOSHI_CONFIG_PATH # ""
    THEN IF env.KOSHI_POD_NAMESPACE # "" THEN SidecarFileConfig(env, file) ELSE Load(file)
    ELSE CASE env.KOSHI_MODE = "enforcement" -> BuiltInEnforcement(env)
           [] env.KOSHI_MODE = "" -> DefaultListenerConfig
           [] OTHER -> NoConfig

-----------------------------------------------------------------------------
(* main: the wiring *)

PolicyByID(c, id) == CHOOSE p \in RangeOf(c.policies) : p.id = id

\* NewMapEngine's table: the first policy_ref of each workload, if it exists.
MapEngine(c) ==
    LET resolved == {w \in RangeOf(c.workloads) :
                        w.refs # <<>> /\ w.refs[1] \in PolicyIDs(c)}
    IN  [id \in {w.id : w \in resolved} |->
            PolicyByID(c, (CHOOSE w \in resolved : w.id = id).refs[1])]

\* Where the resolver finds an identity: in the pod's environment, or in the
\* request header that the first workload names.
Resolver(c) ==
    IF c.mode = "listener" \/ (c.workloads # <<>> /\ c.workloads[1].identity = "pod")
    THEN "pod"
    ELSE IF c.workloads # <<>> /\ c.workloads[1].key # "" THEN c.workloads[1].key
    ELSE "x-genops-workload-id"

(* Mutant: the port of the file wins over the injected one. *)
ConfigAddrFirst(cfgAddr, envOverride) ==
    IF cfgAddr # 0 THEN cfgAddr ELSE IF envOverride # 0 THEN envOverride ELSE 8080

resolveListenAddr(cfgAddr, envOverride) ==
    IF envOverride # 0 THEN envOverride ELSE IF cfgAddr # 0 THEN cfgAddr ELSE 8080

Overridden(env, c) == c.mode = "listener" /\ env.KOSHI_POLICY_OVERRIDE # ""

\* What main hands to the handler: the setup of module PolicyEngine, the
\* resolver and the address.
Wire(env, c) ==
    [mode       |-> c.mode,
     policies   |-> MapEngine(c),
     default    |-> c.default,
     strict     |-> c.strict,
     override   |-> IF Overridden(env, c) THEN PolicyByID(c, env.KOSHI_POLICY_OVERRIDE)
                                          ELSE NoPolicy,
     upstreams  |-> DOMAIN c.upstreams,
     sse        |-> c.sse,
     resolver   |-> Resolver(c),
     listenAddr |-> resolveListenAddr(c.listenAddr, env.KOSHI_LISTEN_ADDR)]

\* Exit on an override that names no policy, or a workload without a policy.
WireFails(env, c) ==
    \/ Overridden(env, c) /\ env.KOSHI_POLICY_OVERRIDE \notin PolicyIDs(c)
    \/ c.mode = "enforcement" /\ \E w \in RangeOf(c.workloads) :
           w.id \notin DOMAIN MapEngine(c) /\ (c.strict \/ c.default = NoPolicy)

\* Register makes a window with as many buckets as the policy has seconds: a
\* negative number panics.
RegisterPanics(s) == \E k \in RegisteredKeys(s) : RegisteredPolicy(s, k).window < 0

Stopped(how) == [state |-> how, setup |-> NoConfig]

(* Mutant: main logs that there is no configuration and goes on. *)
StartRegardless(env, file) ==
    [state |-> "serving",
     setup |-> LET c == SelectConfig(env, file) IN IF c = NoConfig THEN NoConfig ELSE Wire(env, c)]

\* What becomes of the process.
Start(env, file) ==
    LET c == SelectConfig(env, file) IN
    IF c = NoConfig \/ (c # NoConfig /\ WireFails(env, c)) THEN Stopped("exited")
    ELSE IF RegisterPanics(Wire(env, c)) THEN Stopped("panicked")
    ELSE [state |-> "serving", setup |-> Wire(env, c)]

-----------------------------------------------------------------------------
(* PodResolver.Resolve: the workload's identity, or the pod's own. *)
PodIdentity(env) ==
    IF env.KOSHI_POD_NAMESPACE = "" THEN Missing
    ELSE IF HasWorkload(env) THEN PodID(env)
    ELSE IF env.KOSHI_POD_NAME = <<>> THEN Missing
    ELSE <<env.KOSHI_POD_NAMESPACE, "Pod", env.KOSHI_POD_NAME>>

\* The identity of a request with the given values of headers, for which a
\* header that is absent, or blank, is Missing.
Resolve(s, env, headers) ==
    IF s.resolver = "pod" THEN PodIdentity(env)
    ELSE IF s.resolver \in DOMAIN headers THEN headers[s.resolver] ELSE Missing
=============================================================================

------------------------------- MODULE Cluster -------------------------------
(***************************************************************************)
(* The deployment: certificate generation, the admission webhook and the   *)
(* process that its patch starts, put together.  There is one place for a  *)
(* workload's pod with its sidecar, or for a standalone proxy.             *)
(*                                                                         *)
(* A template is a record [controller, pod]: the pod as its controller, or *)
(* its author, submits it.  controller is the object that the pod belongs  *)
(* to for its whole life, over all of its rollouts; the code does not see  *)
(* it, the properties compare with it.                                     *)
(***************************************************************************)
EXTENDS CertRotation, Startup, Webhook

CONSTANTS Templates,      \* what may be submitted
          SidecarFiles,   \* what a ConfigMap may hold for a sidecar
          StandaloneFiles,\* what the chart's ConfigMap may hold
          InjectedPort,   \* KOSHI_SIDECAR_PORT of the injector
          HeaderIDs,      \* the identities a request may carry
          NoPod

\* A file has the fields of a configuration; a policy in it is not nil, a
\* workload's ID not a missing one.
ASSUME ClusterAssumption ==
    /\ NoPolicy \notin RangeOf(SidecarPolicyCatalog)
    /\ \A f \in SidecarFiles \cup StandaloneFiles :
          /\ DOMAIN f = {"mode", "upstreams", "policies", "default", "workloads",
                         "strict", "sse", "listenAddr"}
          /\ NoPolicy \notin RangeOf(f.policies)
          /\ \A w \in RangeOf(f.workloads) : w.id # Missing

PodFields == {"namespace", "owner", "hash", "name", "generateName", "annotations", "volumes",
              "containers"}

\* A pod as the API server takes it from its author: in a namespace, with a
\* name or a prefix of one, its owner, volumes and variables spelt out.  The
\* name of the injector's container is not the author's to use.
Submittable(p) ==
    /\ p = [f \in PodFields |-> p[f]]
    /\ p.namespace # "" /\ (p.name # <<>> \/ TrimDash(p.generateName) # <<>>)
    /\ p.owner # NoOwner => /\ DOMAIN p.owner = {"kind", "name"} /\ p.owner.kind # ""
                           /\ p.owner.name \in Seq(RangeOf(p.owner.name)) \ {<<>>}
    /\ p.volumes # Absent => p.volumes \in Seq(RangeOf(p.volumes))
    /\ p.containers \in Seq(RangeOf(p.containers))
    /\ \A c \in RangeOf(p.containers) :
          /\ DOMAIN c = {"name", "env"} /\ c.name # "koshi-listener"
          /\ c.env # Absent => \A n \in DOMAIN c.env : c.env[n] # Absent

\* runInjector takes a KOSHI_SIDECAR_PORT that is positive.
ASSUME TemplateAssumption ==
    /\ InjectedPort # 0 /\ NoPod \notin Templates
    /\ \A t \in Templates : Submittable(t.pod)

VARIABLES origin,         \* the template of the pod, or NoPod
          pod,            \* the pod as the API server stores it, or NoPod
          env,            \* the KOSHI_ variables of the process
          proc            \* the process: Start's result, or NoProc

vars == <<certVars, origin, pod, env, proc>>
podVars == <<origin, pod, env, proc>>

NoProc == [state |-> "none", setup |-> NoConfig]

\* The variables a standalone proxy has: the chart sets one.
StandaloneEnv ==
    [KOSHI_LISTEN_ADDR |-> 0, KOSHI_POD_NAMESPACE |-> "", KOSHI_WORKLOAD_KIND |-> "",
     KOSHI_WORKLOAD_NAME |-> <<>>, KOSHI_POD_NAME |-> <<>>, KOSHI_MODE |-> "",
     KOSHI_POLICY_OVERRIDE |-> "", KOSHI_CONFIG_PATH |-> "/etc/koshi/config.yaml"]

ClusterInit ==
    /\ CertInit
    /\ origin = NoPod /\ pod = NoPod
    /\ env = StandaloneEnv /\ proc = NoProc

-----------------------------------------------------------------------------
\* What the API server may store for a pod that is created: the webhook's
\* patch applied; or the pod as it is, where there is no webhook, or the call
\* failed (no trust, an error, a timeout) and failurePolicy is Ignore, the
\* chart's default.  With Fail the pod is refused, which changes nothing.
Outcomes(p) ==
    {p} \cup (IF applied /\ Trusted
              THEN {Apply(p, patch) : patch \in
                       UNION {HandleMutate(InjectedPort, p, d) : d \in BOOLEAN}}
              ELSE {})

\* A pod is created; the one before it, of this or another controller, ends.
Admit(t) ==
    /\ pod' \in Outcomes(t.pod)
    /\ origin' = t
    /\ env' = StandaloneEnv /\ proc' = NoProc
    /\ UNCHANGED certVars

\* The stored pod is exported and created again.
Resubmit ==
    /\ pod # NoPod
    /\ pod' \in Outcomes(pod)
    /\ env' = StandaloneEnv /\ proc' = NoProc
    /\ UNCHANGED <<certVars, origin>>

Evict ==
    /\ pod # NoPod
    /\ origin' = NoPod /\ pod' = NoPod
    /\ env' = StandaloneEnv /\ proc' = NoProc
    /\ UNCHANGED certVars

SidecarEnv(p) == (CHOOSE c \in {p.containers[i] : i \in DOMAIN p.containers} :
                     c.name = "koshi-listener").env

\* The kubelet starts the sidecar, at first and after an exit, with what the
\* mounted ConfigMap holds by then.
StartSidecar(file) ==
    /\ pod \notin {NoPod, Unpatchable} /\ HasSidecar(pod)
    /\ proc.state # "serving"
    /\ env' = SidecarEnv(pod)
    /\ env'.KOSHI_CONFIG_PATH = "" => file = NoConfig
    /\ proc' = Start(env', file)
    /\ UNCHANGED <<certVars, origin, pod>>

\* The chart's Deployment, or one by hand.
StartStandalone(file) ==
    /\ pod = NoPod /\ proc.state # "serving"
    /\ env' = StandaloneEnv
    /\ proc' = Start(StandaloneEnv, file)
    /\ UNCHANGED <<certVars, origin, pod>>

\* The process ends: a signal, a crash.
Stop ==
    /\ proc.state = "serving"
    /\ proc' = NoProc
    /\ UNCHANGED <<certVars, origin, pod, env>>

-----------------------------------------------------------------------------
ClusterNext ==
    \/ CertNext /\ UNCHANGED podVars
    \/ \E t \in Templates : Admit(t)
    \/ Resubmit \/ Evict \/ Stop
    \/ \E f \in SidecarFiles \cup {NoConfig} : StartSidecar(f)
    \/ \E f \in StandaloneFiles \cup {NoConfig} : StartStandalone(f)

ClusterSpec == ClusterInit /\ [][ClusterNext]_vars

\* The Job controller goes on with a Job, Helm with its hooks.
ClusterFairSpec ==
    /\ ClusterSpec
    /\ WF_vars(JobStep /\ UNCHANGED podVars)
    /\ WF_vars(Manifests /\ UNCHANGED podVars)

-----------------------------------------------------------------------------
(* Properties *)

Injected(p) == p \notin {NoPod, Unpatchable} /\ HasSidecar(p)
Serving == proc.state = "serving"
SidecarServes == Serving /\ pod # NoPod
Author == origin.pod

\* The identities that requests to the process may resolve to.
Identities == {Resolve(proc.setup, env, [k \in {proc.setup.resolver} |-> id]) : id \in HeaderIDs}

\* Requests of these identities get past the policy lookup.
Accepted == {id \in Identities : Lookup(proc.setup, id) # NoPolicy}

(* The state of the release is well formed; a process that runs belongs to *)
(* an injected pod or to no pod at all, and only a process that serves has *)
(* a setup.                                                                *)
ClusterTypeOK ==
    /\ CertTypeOK
    /\ origin \in Templates \cup {NoPod} /\ (origin = NoPod <=> pod = NoPod)
    /\ proc.state \in {"none", "serving", "exited", "panicked"}
    /\ proc.setup # NoConfig <=> Serving
    /\ proc.state # "none" => pod = NoPod \/ Injected(pod)

(* The patch of buildPatches always applies and gives the pod all it needs, *)
(* whatever the order in which Go ranges over the maps and whichever of     *)
(* env, volumes and annotations the pod came without: each container sends  *)
(* its traffic to the sidecar, unless its author set the variable; nothing  *)
(* of the author's is lost; the ConfigMap is mounted exactly if it is asked *)
(* for.                                                                     *)
InjectionComplete ==
    /\ pod # Unpatchable
    /\ Injected(pod) =>
        /\ \A i \in DOMAIN Author.containers :
              LET was == Author.containers[i].env
                  is == pod.containers[i].env
              IN  /\ \A n \in ProviderEnvs : ValueOf(is, n, Absent) = ValueOf(was, n, InjectedPort)
                  /\ was # Absent => \A n \in DOMAIN was : ValueOf(is, n, Absent) = was[n]
        /\ Author.annotations # Absent =>
              \A k \in DOMAIN Author.annotations \ {"scrape", "port", "path"} :
                  pod.annotations[k] = Author.annotations[k]
        /\ LET own == IF Author.volumes = Absent THEN <<>> ELSE Author.volumes
                mounted == IF pod.volumes = Absent THEN <<>> ELSE pod.volumes
                config == Annotation(Author, "configmap")
            IN  mounted = own \o (IF config = "" THEN <<>>
                                  ELSE <<[name |-> ConfigVolume, configMap |-> config]>>)

(* A pod that was injected and is created again from what the API server    *)
(* stored (HandleMutate's "Idempotency") gets no second sidecar.            *)
OneSidecar ==
    Injected(pod) => Len(pod.containers) = Len(Author.containers) + 1

(* A sidecar enforces if and only if its pod is annotated for enforcement:  *)
(* no ConfigMap, whatever its mode.type, turns enforcement on or off.       *)
ModeHonoured ==
    SidecarServes =>
        (proc.setup.mode = "enforcement" <=> Annotation(Author, "mode") = "enforcement")

(* The policy that a sidecar applies to its pod's requests is the one that  *)
(* the policy annotation names, and without one the documented preset: the  *)
(* identity that main put into the policy table is the one that PodResolver *)
(* resolves each request to.                                                *)
PolicyHonoured ==
    SidecarServes =>
        \A id \in Identities :
            LET annotated == Annotation(Author, "policy")
                pol == Lookup(proc.setup, id)
            IN  /\ pol # NoPolicy
                /\ pol.id = IF annotated # "" THEN annotated
                            ELSE IF Annotation(Author, "mode") = "enforcement"
                                 THEN DefaultSidecarPolicyID ELSE "_listener_default"

(* The sidecar listens where the containers' base URLs and the scrape       *)
(* annotation point, whatever its file says of the address.                 *)
PortAgrees ==
    SidecarServes => proc.setup.listenAddr = InjectedPort /\ pod.annotations["port"] = InjectedPort

(* A pod that names neither a policy nor a ConfigMap gets a sidecar that    *)
(* starts: no mode annotation, owner or name makes main exit.               *)
DefaultSidecarStarts ==
    Injected(pod) /\ Annotation(Author, "policy") = "" /\ Annotation(Author, "configmap") = ""
        => proc.state \notin {"exited", "panicked"}

(* The policy a request is checked against and the budget it is charged to  *)
(* are one policy's: policy lookup and budget registration are two tables,  *)
(* filled by two pieces of main and indexed by different keys.  Left out    *)
(* are, in enforcement mode, workload IDs that are not configured (they     *)
(* fall back to the default policy and have no budget), and requests        *)
(* without an identity if there is a workload called "_default".            *)
PolicyAndBudgetAgree ==
    Serving =>
        LET s == proc.setup
            own == IF DefaultKey \in DOMAIN s.policies THEN DOMAIN s.policies
                                                       ELSE DOMAIN s.policies \cup {Missing}
        IN  \A id \in (IF Listener(s) THEN Accepted ELSE Accepted \cap own) :
                LET k == accountingKey(s, WorkloadID(id)) IN
                k \in RegisteredKeys(s) /\ RegisteredPolicy(s, k) = Lookup(s, id)

(* No request is charged to a window without buckets or a budget without    *)
(* tokens, although a sidecar's default_policy is registered unvalidated    *)
(* (a window of 0 seconds would be indexed out of range by the first Add).  *)
ChargedBudgetsValid ==
    Serving =>
        \A id \in Accepted :
            LET k == accountingKey(proc.setup, WorkloadID(id)) IN
            k \in RegisteredKeys(proc.setup) =>
                RegisteredPolicy(proc.setup, k).window > 0 /\ RegisteredPolicy(proc.setup, k).limit > 0

(* All pods of one controller, over all of its rollouts, resolve to one     *)
(* identity, and pods of different controllers to different ones: what      *)
(* NormalizeOwner cuts off is exactly what a rollout changes.               *)
IdentityFollowsController ==
    [][Injected(pod) /\ Injected(pod)' =>
        (origin.controller = origin'.controller
            <=> PodIdentity(SidecarEnv(pod)) = PodIdentity(SidecarEnv(pod))')]_vars

(* An install or an upgrade ends: the hooks neither wait for each other nor *)
(* retry for ever.                                                          *)
HelmCompletes == (release \in {"pre", "manifests", "post"}) ~> (release \in {"deployed", "failed"})

(* An injector that runs through an upgrade keeps the certificate it loaded, *)
(* which the new caBundle does not trust.  Starting it again is all it       *)
(* takes: if pods are replaced, containers restarted and mounts brought up   *)
(* to date, each at any time, the injector of a standing release comes to be *)
(* trusted, also one that was restarted in place on a mount of before.       *)
RestartRestoresTrust ==
    WF_vars(InjectorStep /\ UNCHANGED podVars)
        => (release = "deployed" ~> (Trusted \/ release # "deployed"))

(* What README.md says of a workload that honours the injected base URLs:   *)
(* "proxies the request to the real upstream transparently".  Such a        *)
(* request has the sidecar's own address for its host, and a path for its   *)
(* URL.                                                                     *)
InjectedTrafficReachesUpstream == SidecarServes => resolveUpstream(proc.setup, {}, FALSE)
=============================================================================

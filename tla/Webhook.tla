------------------------------- MODULE Webhook -------------------------------
(***************************************************************************)
(* The mutating admission webhook: internal/inject and the settings        *)
(* cmd/koshi/injector.go gives it, as operators.                           *)
(*                                                                         *)
(* A pod is a record [namespace, owner, hash, name, generateName,          *)
(* annotations, volumes, containers].  Names are sequences of the parts    *)
(* that dashes separate, <<>> if empty; a trailing dash is a last part "". *)
(* hash is the pod-template-hash label.  annotations and each container's  *)
(* env are functions, volumes is a sequence; each is Absent if the pod's   *)
(* JSON has no such field.  Annotation keys are cut to their last part.    *)
(* A patch is a sequence of operations [path, at, value].                  *)
(***************************************************************************)
EXTENDS Integers, SequencesExt

CONSTANTS Absent,       \* a field that the JSON document does not have
          NoOwner,      \* no owner reference
          Unpatchable   \* the result of a JSON patch that cannot be applied

\* A map's entry, or Go's zero value.
ValueOf(f, k, zero) == IF f = Absent \/ (f # Absent /\ k \notin DOMAIN f) THEN zero ELSE f[k]

\* A map with one entry, and a map with the entries of another added.
Entry(k, v) == [x \in {k} |-> v]
Added(f, more) == [x \in DOMAIN f \cup DOMAIN more |-> IF x \in DOMAIN more THEN more[x] ELSE f[x]]

Annotation(pod, k) == ValueOf(pod.annotations, k, "")

-----------------------------------------------------------------------------
(* NormalizeOwner: a stable kind and name *)

(* Mutant: the hash is cut off without looking whether it is there. *)
AlwaysCutsHash(owner, hash, podName) ==
    IF owner = NoOwner THEN [kind |-> "Pod", name |-> podName]
    ELSE IF owner.kind = "ReplicaSet"
    THEN [kind |-> "Deployment", name |-> Front(owner.name)]
    ELSE owner

NormalizeOwner(owner, hash, podName) ==
    IF owner = NoOwner THEN [kind |-> "Pod", name |-> podName]
    ELSE IF owner.kind = "ReplicaSet" /\ hash # "" /\ Len(owner.name) > 1 /\ Last(owner.name) = hash
    THEN [kind |-> "Deployment", name |-> Front(owner.name)]
    ELSE owner

-----------------------------------------------------------------------------
(* buildPatches *)

TrimDash(name) == IF name # <<>> /\ Last(name) = "" THEN Front(name) ELSE name

\* The identity the sidecar is told: a pod that has only a generateName and
\* no owner goes by that.
Workload(pod) ==
    LET o == NormalizeOwner(pod.owner, pod.hash, pod.name)
    IN  IF pod.name = <<>> /\ pod.generateName # <<>> /\ o.kind = "Pod"
        THEN [o EXCEPT !.name = TrimDash(pod.generateName)] ELSE o

(* Mutant: any mode annotation is handed to the sidecar. *)
ModeAsAnnotated(pod) == Annotation(pod, "mode")

\* KOSHI_MODE is set for the annotation "enforcement" only.
ModeVar(pod) == IF Annotation(pod, "mode") = "enforcement" THEN "enforcement" ELSE ""

ConfigVolume == "koshi-sidecar-config"

Sidecar(port, pod) ==
    [name |-> "koshi-listener",
     env  |-> [KOSHI_LISTEN_ADDR     |-> port,
               KOSHI_POD_NAMESPACE   |-> pod.namespace,
               KOSHI_WORKLOAD_KIND   |-> Workload(pod).kind,
               KOSHI_WORKLOAD_NAME   |-> Workload(pod).name,
               KOSHI_POD_NAME        |-> IF pod.name = <<>> THEN pod.generateName ELSE pod.name,
               KOSHI_MODE            |-> ModeVar(pod),
               KOSHI_POLICY_OVERRIDE |-> Annotation(pod, "policy"),
               KOSHI_CONFIG_PATH     |-> IF Annotation(pod, "configmap") = "" THEN ""
                                         ELSE "/etc/koshi-sidecar/config.yaml"]]

Op(path, at, value) == [path |-> path, at |-> at, value |-> value]

VolumeOps(pod) ==
    IF Annotation(pod, "configmap") = "" THEN <<>>
    ELSE (IF pod.volumes \in {Absent, <<>>} THEN <<Op("volumes", 0, <<>>)>> ELSE <<>>)
         \o <<Op("volumes/-", 0, [name |-> ConfigVolume, configMap |-> Annotation(pod, "configmap")])>>

ProviderEnvs == {"OPENAI_BASE_URL", "ANTHROPIC_BASE_URL"}

NoEnv(env) == env = Absent \/ (env # Absent /\ DOMAIN env = {})

\* The base-URL variables that a container does not have.
MissingEnvs(env) == {n \in ProviderEnvs : ValueOf(env, n, Absent) = Absent}

\* Go ranges over a map in any order, a new one for each container: the
\* sequences in which it may come across the missing variables.
Orders(pod) ==
    {order \in [DOMAIN pod.containers -> UNION {SetToSeqs(S) : S \in SUBSET ProviderEnvs}] :
        \A i \in DOMAIN order : order[i] \in SetToSeqs(MissingEnvs(pod.containers[i].env))}

(* Mutant: the array is created anew for each variable. *)
EnvOpsEachInit(port, pod, i, missing) ==
    FlattenSeq([j \in DOMAIN missing |->
        (IF NoEnv(pod.containers[i].env) THEN <<Op("env", i, <<>>)>> ELSE <<>>)
        \o <<Op("env/-", i, Entry(missing[j], port))>>])

\* Container i gets the missing variables; an env array that is not there is
\* created before the first of them is appended.
EnvOps(port, pod, i, missing) ==
    (IF missing # <<>> /\ NoEnv(pod.containers[i].env) THEN <<Op("env", i, <<>>)>> ELSE <<>>)
    \o [j \in DOMAIN missing |-> Op("env/-", i, Entry(missing[j], port))]

\* The three prometheus annotations as one operation.
AnnotationOps(port, pod) ==
    (IF pod.annotations = Absent THEN <<Op("annotations", 0, <<>>)>> ELSE <<>>)
    \o <<Op("annotations/*", 0, [scrape |-> "true", port |-> port, path |-> "/metrics"])>>

buildPatches(port, pod, order) ==
    VolumeOps(pod)
    \o <<Op("containers/-", 0, Sidecar(port, pod))>>
    \o FlattenSeq([i \in DOMAIN pod.containers |-> EnvOps(port, pod, i, order[i])])
    \o AnnotationOps(port, pod)

-----------------------------------------------------------------------------
(* HandleMutate *)

HasSidecar(pod) == \E i \in DOMAIN pod.containers : pod.containers[i].name = "koshi-listener"

(* Mutant: the webhook does not look for a sidecar that is there already. *)
SkipsOptOutOnly(pod) == Annotation(pod, "inject") = "false"

Skips(pod) == Annotation(pod, "inject") = "false" \/ HasSidecar(pod)

\* The patches with which a pod may be allowed, one for each order of the
\* ranges over maps.  An object that cannot be decoded is allowed as it is.
HandleMutate(port, pod, decoded) ==
    IF ~decoded \/ Skips(pod) THEN {<<>>}
    ELSE {buildPatches(port, pod, order) : order \in Orders(pod)}

-----------------------------------------------------------------------------
(* The API server applies the patch (RFC 6902): to append to an array, or   *)
(* to add a member to an object, it has to exist; "add" of a field that     *)
(* exists replaces it.                                                      *)

ApplyOp(pod, op) ==
    IF pod = Unpatchable THEN Unpatchable
    ELSE CASE op.path = "volumes" -> [pod EXCEPT !.volumes = op.value]
           [] op.path = "volumes/-" ->
                IF pod.volumes = Absent THEN Unpatchable
                ELSE [pod EXCEPT !.volumes = Append(@, op.value)]
           [] op.path = "containers/-" -> [pod EXCEPT !.containers = Append(@, op.value)]
           [] op.path = "env" -> [pod EXCEPT !.containers[op.at].env = op.value]
           [] op.path = "env/-" ->
                IF pod.containers[op.at].env = Absent THEN Unpatchable
                ELSE [pod EXCEPT !.containers[op.at].env = Added(@, op.value)]
           [] op.path = "annotations" -> [pod EXCEPT !.annotations = op.value]
           [] op.path = "annotations/*" ->
                IF pod.annotations = Absent THEN Unpatchable
                ELSE [pod EXCEPT !.annotations = Added(@, op.value)]

Apply(pod, patch) == FoldLeft(ApplyOp, pod, patch)
=============================================================================

--------------------------- MODULE Cluster_proofs ---------------------------
(***************************************************************************)
(* The deployment.  The certificates, for any number of releases and       *)
(* retries; the wiring of the processes, for any configuration files and   *)
(* environments; the patch and the pods it is applied to, for any pods and *)
(* in whatever order the operations come; what the sidecar then does with  *)
(* its variables; and the identities of the pods of one controller.        *)
(***************************************************************************)
EXTENDS Cluster, Sums, SequenceTheorems, TLAPS

-----------------------------------------------------------------------------
(* The certificates *)

\* What makes BundleMatchesSecret inductive.  A Secret Job has a certificate
\* once it generated one; only a release that waits for it has one running,
\* apart from one that was given up on; and what the caBundle Job read after
\* the manifests is what the Secret still holds.
CertInv ==
    /\ issued \in Nat /\ secret \in Nat
    /\ jobs \in [Hooks -> [pc : Steps, cert : Nat, fails : Nat]]
    /\ jobs["secret"].pc \in {"read", "update", "create"} => jobs["secret"].cert # 0
    /\ release = "pre" /\ At("secret", "done") => secret # 0
    /\ release \in {"manifests", "post", "deployed"} => At("secret", "idle") /\ secret # 0
    /\ release = "post" /\ At("cabundle", "patch") => jobs["cabundle"].cert = secret
    /\ release = "post" /\ At("cabundle", "done") => bundle = secret
    /\ release = "deployed" => At("cabundle", "idle")
    /\ BundleMatchesSecret

-----------------------------------------------------------------------------
(* Nothing is deployed in the initial state. *)
LEMMA CertInvInit == CertInit => CertInv
BY DEF CertInit, CertInv, BundleMatchesSecret, At, NoJob, Hooks, Steps

(* RunSecretPhase: a Job that waits, or one left over from a release that   *)
(* was given up, while no release has got past its Secret hook.             *)
LEMMA SecretJobKeeps ==
    ASSUME CertInv, SecretGenerate \/ SecretWrite \/ \E ok \in BOOLEAN : SecretGet(ok)
    PROVE  CertInv'
<1> USE DEF CertInv, BundleMatchesSecret, At, GoTo, Hooks, Steps
<1>1. CASE SecretGenerate
  <2>1. issued' \in Nat /\ issued' # 0
    BY <1>1 DEF SecretGenerate
  <2>2. jobs'["secret"] = [jobs["secret"] EXCEPT !.pc = "read", !.cert = issued']
    BY <1>1 DEF SecretGenerate
  <2>3. jobs'["cabundle"] = jobs["cabundle"]
    BY <1>1 DEF SecretGenerate
  <2>4. jobs' \in [Hooks -> [pc : Steps, cert : Nat, fails : Nat]]
    BY <1>1, <2>1 DEF SecretGenerate
  <2> QED BY <1>1, <2>1, <2>2, <2>3, <2>4 DEF SecretGenerate
<1>2. CASE SecretWrite
    BY <1>2 DEF SecretWrite
<1>3. CASE \E ok \in BOOLEAN : SecretGet(ok)
    BY <1>3 DEF SecretGet
<1> QED BY <1>1, <1>2, <1>3

(* RunCABundlePhase: after the manifests nothing writes the Secret, so what *)
(* is patched in is what the Secret holds.                                  *)
LEMMA BundleJobKeeps ==
    ASSUME CertInv, BundleGet \/ BundlePatch
    PROVE  CertInv'
<1> USE DEF CertInv, BundleMatchesSecret, At, GoTo, Hooks, Steps
<1>1. CASE BundleGet
    BY <1>1 DEF BundleGet
<1>2. CASE BundlePatch
    BY <1>2 DEF BundlePatch
<1> QED BY <1>1, <1>2

(* A pod that fails or ends. *)
LEMMA JobEndKeeps ==
    ASSUME CertInv, NEW h \in Hooks, PodFails(h) \/ JobDone(h)
    PROVE  CertInv'
<1> USE CertAssumption DEF CertInv, BundleMatchesSecret, At, NoJob, NewJob, Hooks, Steps
<1>1. CASE PodFails(h)
  <2>1. jobs[h].fails + 1 \in Nat
    OBVIOUS
  <2>2. CASE jobs[h].fails < BackoffLimit
    <3>1. jobs' = [jobs EXCEPT ![h] = [pc |-> "start", cert |-> 0, fails |-> jobs[h].fails + 1]]
      BY <1>1, <2>2 DEF PodFails
    <3>2. jobs' \in [Hooks -> [pc : Steps, cert : Nat, fails : Nat]]
      BY <2>1, <3>1
    <3> QED BY <1>1, <2>2, <3>1, <3>2 DEF PodFails
  <2>3. CASE ~(jobs[h].fails < BackoffLimit)
    BY <1>1, <2>3 DEF PodFails
  <2> QED BY <2>2, <2>3
<1>2. CASE JobDone(h)
    BY <1>2 DEF JobDone
<1> QED BY <1>1, <1>2

(* Helm's own steps. *)
LEMMA HelmKeeps ==
    ASSUME CertInv, Manifests \/ HelmOp \/ HelmTimeout \/ \E d \in BOOLEAN : Uninstall(d)
    PROVE  CertInv'
<1> USE DEF CertInv, BundleMatchesSecret, At, NoJob, NewJob, Hooks, Steps
<1>1. CASE Manifests
    BY <1>1 DEF Manifests
<1>2. CASE HelmOp
    BY <1>2 DEF HelmOp
<1>3. CASE HelmTimeout
    BY <1>3 DEF HelmTimeout
<1>4. CASE \E d \in BOOLEAN : Uninstall(d)
    BY <1>4 DEF Uninstall
<1> QED BY <1>1, <1>2, <1>3, <1>4

(* Every step of the certificate's life keeps the invariant. *)
LEMMA CertInvStep == CertInv /\ [CertNext]_certVars => CertInv'
<1> SUFFICES ASSUME CertInv, [CertNext]_certVars PROVE CertInv'
    OBVIOUS
<1>1. CASE JobStep
    BY <1>1, SecretJobKeeps, BundleJobKeeps, JobEndKeeps DEF JobStep
<1>2. CASE Manifests \/ HelmOp \/ HelmTimeout \/ \E d \in BOOLEAN : Uninstall(d)
    BY <1>2, HelmKeeps
<1>3. CASE InjectorStep \/ InjectorDown \/ UNCHANGED certVars
    BY <1>3 DEF InjectorStep, InjectorStart, InjectorRestart, KubeletSync, InjectorDown,
                certVars, CertInv, BundleMatchesSecret, At
<1> QED BY <1>1, <1>2, <1>3 DEF CertNext

(* After every successful install or upgrade, however often its hooks were  *)
(* retried and whatever earlier releases left behind, the webhook trusts    *)
(* the CA of the certificate in the Secret.                                 *)
THEOREM DeployedIsTrusted == CertSpec => []BundleMatchesSecret
<1>1. CertInv => BundleMatchesSecret
    BY DEF CertInv
<1> QED BY <1>1, CertInvInit, CertInvStep, PTL DEF CertSpec

(* The other steps of the deployment leave the certificates alone. *)
LEMMA CertStep == [ClusterNext]_vars => [CertNext]_certVars
BY DEF ClusterNext, vars, Admit, Resubmit, Evict, Stop, StartSidecar, StartStandalone

(* The same in the whole deployment, whose other steps leave the            *)
(* certificates alone.                                                      *)
THEOREM ReleaseIsTrusted == ClusterSpec => []BundleMatchesSecret
<1>1. CertInv => BundleMatchesSecret
  BY DEF CertInv
<1>2. QED
  BY <1>1, CertStep, CertInvInit, CertInvStep, PTL DEF ClusterSpec, ClusterInit

-----------------------------------------------------------------------------
\* How many certificates the running Secret Job may still generate: a pod
\* that fails leads to a retry, which generates one more.
Room == IF At("secret", "idle") THEN 0
        ELSE IF At("secret", "start") THEN BackoffLimit + 1 - jobs["secret"].fails
        ELSE BackoffLimit - jobs["secret"].fails

\* No more certificates were issued than the Jobs of all releases had
\* attempts, and every certificate in use is one that was issued.
BoundInv ==
    /\ release \in {"absent", "pre", "manifests", "post", "deployed", "failed"}
    /\ applied \in BOOLEAN /\ ops \in 0 .. MaxOps
    /\ issued \in Nat /\ secret \in 0 .. issued /\ bundle \in 0 .. issued
    /\ mount \in 0 .. issued /\ served \in 0 .. issued
    /\ jobs \in [Hooks -> [pc : Steps, cert : 0 .. issued, fails : 0 .. BackoffLimit]]
    /\ issued + Room <= ops * (BackoffLimit + 1)

(* A Job starts without a certificate and without failures. *)
LEMMA NewJobIs == NewJob = [pc |-> "start", cert |-> 0, fails |-> 0]
BY DEF NewJob, NoJob

(* Nothing is issued in the initial state. *)
LEMMA BoundInvInit == CertInit => BoundInv
<1> SUFFICES ASSUME CertInit PROVE BoundInv
  OBVIOUS
<1>1. jobs["secret"].pc = "idle"
        /\ jobs \in [Hooks -> [pc : Steps, cert : 0 .. 0, fails : 0 .. BackoffLimit]]
  BY CertAssumption DEF CertInit, Hooks, Steps, NoJob
<1>2. Room = 0 /\ 0 * (BackoffLimit + 1) = 0
  BY <1>1, CertAssumption DEF Room, At
<1>3. issued = 0 /\ 0 \in 0 .. 0 /\ 0 \in 0 .. MaxOps /\ 0 \in Nat /\ ops = 0
  BY CertAssumption DEF CertInit
<1>4. issued + Room <= ops * (BackoffLimit + 1)
  BY <1>2, <1>3
<1>5. QED
  BY <1>1, <1>3, <1>4 DEF CertInit, BoundInv

(* RunSecretPhase takes one attempt for each certificate it generates, and  *)
(* writes no other.                                                         *)
LEMMA BoundSecretJob ==
    ASSUME BoundInv, SecretGenerate \/ SecretWrite \/ \E ok \in BOOLEAN : SecretGet(ok)
    PROVE  BoundInv'
<1>1. BackoffLimit \in Nat /\ ops \in Nat /\ ops * (BackoffLimit + 1) \in Nat
  BY CertAssumption DEF BoundInv
<1>2. PICK total : total = ops * (BackoffLimit + 1)
  OBVIOUS
<1>3. total \in Nat /\ issued + Room <= total
  BY <1>1, <1>2 DEF BoundInv
<1>4. CASE SecretGenerate
  <2>1. issued' = issued + 1 /\ issued \in Nat
    BY <1>4 DEF SecretGenerate, BoundInv
  <2>2. jobs' = [jobs EXCEPT !["secret"] = [jobs["secret"] EXCEPT !.pc = "read", !.cert = issued']]
    BY <1>4, <2>1 DEF SecretGenerate, BoundInv, Hooks
  <2>3. jobs' \in [Hooks -> [pc : Steps, cert : 0 .. issued', fails : 0 .. BackoffLimit]]
    <3>1. \A x \in 0 .. issued : x \in 0 .. issued'
      BY <2>1
    <3>2. issued' \in 0 .. issued'
      BY <2>1
    <3>3. jobs \in [Hooks -> [pc : Steps, cert : 0 .. issued', fails : 0 .. BackoffLimit]]
      BY <3>1 DEF BoundInv
    <3>4. QED
      BY <2>2, <3>2, <3>3 DEF Steps
  <2>4. jobs'["secret"].pc = "read" /\ jobs'["secret"].fails = jobs["secret"].fails
    BY <2>2 DEF BoundInv, Hooks
  <2>5. Room = BackoffLimit + 1 - jobs["secret"].fails
          /\ Room' = BackoffLimit - jobs["secret"].fails
    BY <1>4, <2>4 DEF Room, At, SecretGenerate
  <2>6. jobs["secret"].fails \in 0 .. BackoffLimit
    BY DEF BoundInv, Hooks
  <2>7. issued' + Room' <= total
    BY <1>1, <1>3, <2>1, <2>5, <2>6
  <2>8. QED
    BY <1>2, <1>4, <2>1, <2>3, <2>7 DEF SecretGenerate, BoundInv
<1>5. CASE SecretWrite \/ \E ok \in BOOLEAN : SecretGet(ok)
  <2>1. PICK pc \in {"update", "create", "done"} : jobs' = [jobs EXCEPT !["secret"].pc = pc]
    BY <1>5 DEF SecretWrite, SecretGet, GoTo
  <2>2. issued' = issued /\ UNCHANGED <<release, applied, ops, bundle, mount, served>>
    BY <1>5 DEF SecretWrite, SecretGet
  <2>3. secret' \in 0 .. issued
    BY <1>5 DEF SecretWrite, SecretGet, BoundInv, Hooks
  <2>4. jobs' \in [Hooks -> [pc : Steps, cert : 0 .. issued, fails : 0 .. BackoffLimit]]
    BY <2>1 DEF BoundInv, Hooks, Steps
  <2>5. jobs'["secret"].pc = pc /\ jobs'["secret"].fails = jobs["secret"].fails
    BY <2>1 DEF BoundInv, Hooks
  <2>6. jobs["secret"].pc \in {"read", "update", "create"}
    BY <1>5 DEF SecretWrite, SecretGet, At
  <2>7. Room' = Room
    BY <2>1, <2>5, <2>6 DEF Room, At
  <2>8. QED
    BY <2>2, <2>3, <2>4, <2>7 DEF BoundInv
<1>6. QED
  BY <1>4, <1>5

(* RunCABundlePhase only hands on the certificate of the Secret. *)
LEMMA BoundBundleJob ==
    ASSUME BoundInv, BundleGet \/ BundlePatch
    PROVE  BoundInv'
<1>1. jobs' \in [Hooks -> [pc : Steps, cert : 0 .. issued, fails : 0 .. BackoffLimit]]
  BY DEF BundleGet, BundlePatch, BoundInv, Hooks, Steps, GoTo
<1>2. jobs'["secret"] = jobs["secret"]
  BY DEF BundleGet, BundlePatch, BoundInv, Hooks, GoTo
<1>3. Room' = Room
  BY <1>2 DEF Room, At
<1>4. bundle' \in 0 .. issued
  BY DEF BundleGet, BundlePatch, BoundInv, Hooks
<1>5. UNCHANGED <<release, applied, ops, issued, secret, mount, served>>
  BY DEF BundleGet, BundlePatch
<1>6. QED
  BY <1>1, <1>3, <1>4, <1>5 DEF BoundInv

(* A Job never has a negative number of attempts left. *)
LEMMA RoomLeft == ASSUME BoundInv PROVE Room \in Nat
BY CertAssumption DEF BoundInv, Room, At, Hooks

(* A retry has one attempt less than the pod before it, also where that     *)
(* failed before it had generated anything.                                 *)
LEMMA BoundJobEnd ==
    ASSUME BoundInv, NEW h \in Hooks, PodFails(h) \/ JobDone(h)
    PROVE  BoundInv'
<1>1. BackoffLimit \in Nat /\ jobs["secret"].fails \in 0 .. BackoffLimit
  BY CertAssumption DEF BoundInv, Hooks
<1>2. UNCHANGED <<applied, ops, issued, secret, bundle, mount, served>>
  BY DEF PodFails, JobDone
<1>3. release' \in {"absent", "pre", "manifests", "post", "deployed", "failed"}
  BY DEF PodFails, JobDone, BoundInv
<1>4. jobs[h].fails \in 0 .. BackoffLimit
  BY DEF BoundInv
<1>5. \/ jobs' = [jobs EXCEPT ![h] = NoJob]
      \/ /\ jobs' = [jobs EXCEPT ![h] = [pc |-> "start", cert |-> 0, fails |-> jobs[h].fails + 1]]
         /\ jobs[h].fails < BackoffLimit /\ jobs[h].pc # "idle"
  BY DEF PodFails, JobDone, NewJob, NoJob, At
<1>6. jobs' \in [Hooks -> [pc : Steps, cert : 0 .. issued, fails : 0 .. BackoffLimit]]
  <2>1. issued \in Nat /\ 0 \in 0 .. issued /\ 0 \in 0 .. BackoffLimit
    BY <1>1 DEF BoundInv
  <2>2. CASE jobs' = [jobs EXCEPT ![h] = NoJob]
    BY <2>1, <2>2 DEF BoundInv, NoJob, Steps
  <2>3. CASE /\ jobs' = [jobs EXCEPT ![h] =
                         [pc |-> "start", cert |-> 0, fails |-> jobs[h].fails + 1]]
             /\ jobs[h].fails < BackoffLimit
    <3>1. jobs[h].fails + 1 \in 0 .. BackoffLimit
      BY <1>1, <1>4, <2>3
    <3>2. QED
      BY <2>1, <2>3, <3>1 DEF BoundInv, Steps
  <2>4. QED
    BY <1>5, <2>2, <2>3
<1>7. Room' <= Room /\ Room' \in Int /\ Room \in Int
  <2>1. CASE h # "secret"
    <3>1. jobs'["secret"] = jobs["secret"]
      BY <1>5, <2>1 DEF BoundInv, Hooks
    <3>2. Room' = Room
      BY <3>1 DEF Room, At
    <3>3. QED
      BY <3>2, RoomLeft
  <2>2. CASE h = "secret" /\ jobs' = [jobs EXCEPT ![h] = NoJob]
    <3>1. jobs'["secret"].pc = "idle"
      BY <2>2 DEF BoundInv, NoJob
    <3>2. Room' = 0
      BY <3>1 DEF Room, At
    <3>3. QED
      BY <3>2, RoomLeft
  <2>3. CASE /\ h = "secret"
             /\ jobs' = [jobs EXCEPT ![h] =
                         [pc |-> "start", cert |-> 0, fails |-> jobs[h].fails + 1]]
             /\ jobs[h].pc # "idle"
    <3>1. jobs'["secret"].pc = "start" /\ jobs'["secret"].fails = jobs["secret"].fails + 1
      BY <2>3 DEF BoundInv
    <3>2. Room' = BackoffLimit + 1 - (jobs["secret"].fails + 1)
      BY <3>1 DEF Room, At
    <3>3. QED
      BY <1>1, <2>3, <3>2, RoomLeft DEF Room, At
  <2>4. QED
    BY <1>5, <2>1, <2>2, <2>3
<1>8. issued' + Room' <= ops' * (BackoffLimit + 1)
  <2>1. PICK total : total = ops * (BackoffLimit + 1)
    OBVIOUS
  <2>2. total \in Int /\ issued + Room <= total /\ issued \in Int
    BY <1>1, <2>1 DEF BoundInv
  <2>3. issued + Room' <= total
    <3>1. PICK r, s : r = Room' /\ s = Room
      OBVIOUS
    <3>2. r \in Int /\ s \in Int /\ r <= s /\ issued + s <= total
      BY <1>7, <2>2, <3>1, Zenon
    <3>3. issued + r <= total
      BY <2>2, <3>2
    <3>4. QED
      BY <3>1, <3>3, Zenon
  <2>4. QED
    BY <1>2, <2>1, <2>3
<1>9. QED
  BY <1>2, <1>3, <1>6, <1>8 DEF BoundInv

(* Each install or upgrade allows for BackoffLimit + 1 attempts more. *)
LEMMA BoundHelm ==
    ASSUME BoundInv, Manifests \/ HelmOp \/ HelmTimeout \/ \E d \in BOOLEAN : Uninstall(d)
    PROVE  BoundInv'
<1>1. BackoffLimit \in Nat /\ issued \in Nat /\ 0 \in 0 .. issued /\ 0 \in 0 .. BackoffLimit
  BY CertAssumption DEF BoundInv
<1>2. CASE Manifests
  <2>1. jobs' = [jobs EXCEPT !["cabundle"] = [pc |-> "start", cert |-> 0, fails |-> 0]]
    BY <1>2, NewJobIs, Zenon DEF Manifests
  <2>2. jobs' \in [Hooks -> [pc : Steps, cert : 0 .. issued, fails : 0 .. BackoffLimit]]
    BY <1>1, <2>1 DEF BoundInv, Steps
  <2>3. jobs'["secret"] = jobs["secret"]
    BY <2>1 DEF BoundInv, Hooks
  <2>4. Room' = Room
    BY <2>3 DEF Room, At
  <2>5. QED
    BY <1>2, <2>2, <2>4 DEF Manifests, BoundInv
<1>3. CASE HelmOp
  <2>1. jobs' = [jobs EXCEPT !["secret"] = [pc |-> "start", cert |-> 0, fails |-> 0]]
    BY <1>3, NewJobIs, Zenon DEF HelmOp
  <2>2. jobs' \in [Hooks -> [pc : Steps, cert : 0 .. issued, fails : 0 .. BackoffLimit]]
    BY <1>1, <2>1 DEF BoundInv, Steps
  <2>3. jobs'["secret"].pc = "start" /\ jobs'["secret"].fails = 0
    BY <2>1 DEF BoundInv, Hooks
  <2>4. Room' = BackoffLimit + 1
    BY <1>1, <2>3 DEF Room, At
  <2>5. ops \in Nat /\ ops' = ops + 1 /\ ops' \in 0 .. MaxOps
    BY <1>3, CertAssumption DEF HelmOp, BoundInv
  <2>6. ops' * (BackoffLimit + 1) = ops * (BackoffLimit + 1) + (BackoffLimit + 1)
    BY <1>1, <2>5
  <2>7. PICK total : total = ops * (BackoffLimit + 1)
    OBVIOUS
  <2>8. total \in Int /\ issued + Room <= total
    BY <1>1, <2>5, <2>7 DEF BoundInv
  <2>9. issued <= total
    BY <1>1, <2>8, RoomLeft
  <2>10. issued + Room' <= total + (BackoffLimit + 1)
    BY <1>1, <2>4, <2>8, <2>9
  <2>11. QED
    BY <1>3, <2>2, <2>5, <2>6, <2>7, <2>10 DEF HelmOp, BoundInv
<1>4. CASE HelmTimeout \/ \E d \in BOOLEAN : Uninstall(d)
  <2>1. UNCHANGED <<ops, issued, jobs>>
    BY <1>4 DEF HelmTimeout, Uninstall
  <2>2. Room' = Room
    BY <2>1 DEF Room, At
  <2>3. /\ release' \in {"absent", "failed"} /\ applied' \in BOOLEAN
        /\ secret' \in 0 .. issued /\ bundle' \in 0 .. issued
        /\ mount' \in 0 .. issued /\ served' \in 0 .. issued
    BY <1>1, <1>4 DEF HelmTimeout, Uninstall, BoundInv
  <2>4. QED
    BY <2>1, <2>2, <2>3 DEF BoundInv
<1>5. QED
  BY <1>2, <1>3, <1>4

(* Every step keeps to the bound. *)
LEMMA BoundInvStep == BoundInv /\ [CertNext]_certVars => BoundInv'
<1> SUFFICES ASSUME BoundInv, [CertNext]_certVars PROVE BoundInv'
  OBVIOUS
<1>1. CASE JobStep
  BY <1>1, BoundSecretJob, BoundBundleJob, BoundJobEnd DEF JobStep
<1>2. CASE Manifests \/ HelmOp \/ HelmTimeout \/ \E d \in BOOLEAN : Uninstall(d)
  BY <1>2, BoundHelm
<1>3. CASE InjectorStep \/ InjectorDown
  <2> USE DEF InjectorStep, InjectorStart, InjectorRestart, KubeletSync, InjectorDown
  <2>1. UNCHANGED <<release, applied, ops, issued, secret, bundle, jobs>>
    BY <1>3
  <2>2. mount' \in 0 .. issued /\ served' \in 0 .. issued
    BY <1>3 DEF BoundInv
  <2>3. Room' = Room
    BY <2>1 DEF Room, At
  <2>4. QED
    BY <2>1, <2>2, <2>3 DEF BoundInv
<1>4. CASE UNCHANGED certVars
  <2>1. Room' = Room
    BY <1>4 DEF Room, At, certVars
  <2>2. QED
    BY <1>4, <2>1 DEF BoundInv, certVars
<1>5. QED
  BY <1>1, <1>2, <1>3, <1>4 DEF CertNext

(* The bound of the model, Certs, is never reached from outside: the        *)
(* counters stay in it by themselves.                                       *)
LEMMA BoundTypeOK == BoundInv => CertTypeOK
<1> SUFFICES ASSUME BoundInv PROVE CertTypeOK
  OBVIOUS
<1>1. BackoffLimit \in Nat /\ MaxOps \in Nat /\ ops \in 0 .. MaxOps
        /\ issued \in Nat /\ Room \in Nat
  BY CertAssumption, RoomLeft DEF BoundInv
<1>2. PICK most : most = MaxOps * (BackoffLimit + 1)
  OBVIOUS
<1>3. ops * (BackoffLimit + 1) <= most /\ most \in Nat /\ ops * (BackoffLimit + 1) \in Nat
  <2>1. PICK b \in Nat : b = BackoffLimit + 1
    BY <1>1
  <2>2. MaxOps - ops \in Nat
    BY <1>1
  <2>3. (MaxOps - ops) * b \in Nat
    BY <2>1, <2>2
  <2>4. MaxOps * b = ops * b + (MaxOps - ops) * b
    BY <1>1, <2>1
  <2>5. ops * b \in Nat /\ MaxOps * b \in Nat
    BY <1>1, <2>1
  <2>6. QED
    BY <1>2, <2>1, <2>3, <2>4, <2>5
<1>4. issued <= most
  BY <1>1, <1>3 DEF BoundInv
<1>5. 0 .. issued \subseteq Certs /\ issued \in Certs
  BY <1>1, <1>2, <1>3, <1>4 DEF Certs
<1>6. QED
  BY <1>5 DEF BoundInv, CertTypeOK

-----------------------------------------------------------------------------
(* The wiring *)

\* f is a function: records and sequences are.
IsFcn(f) == f = [x \in DOMAIN f |-> f[x]]

\* What a process may be given for a file.
Files == SidecarFiles \cup StandaloneFiles \cup {NoConfig}

\* The empty string is the zero value of an environment variable.  It gets
\* a name where the SMT solver must not see it.
InPod(e) == e.KOSHI_POD_NAMESPACE # ""
HasOverride(e) == e.KOSHI_POLICY_OVERRIDE # ""

\* The workload that main makes up for the pod it runs in.
OwnWorkload(e, key, policyID) ==
    [id |-> PodID(e), identity |-> "pod", key |-> key, refs |-> <<policyID>>]

\* A process that runs in a pod and was told its workload: this one workload
\* is configured, and in listener mode there is an override.
ForPod(e, c) ==
    /\ PodIdentity(e) = PodID(e)
    /\ \E policyID \in PolicyIDs(c) : \E key : c.workloads = <<OwnWorkload(e, key, policyID)>>
    /\ c.mode = "listener" => HasOverride(e)

\* A process outside of a pod, with a file that was validated as a whole.
Standalone(e, c) ==
    /\ PodIdentity(e) = Missing
    /\ \A w \in RangeOf(c.workloads) : w.id # Missing
    /\ c.default # NoPolicy => validatePolicy(c.default)

\* A listener without a file: only its default policy counts.
BuiltInListener(c) ==
    /\ c.mode = "listener" /\ c.workloads = <<>>
    /\ validatePolicy(c.default)

\* What main goes on with once it has a configuration.
Selected(e, c) ==
    /\ c.mode \in Modes
    /\ \A p \in RangeOf(c.policies) : p # NoPolicy /\ validatePolicy(p)
    /\ ForPod(e, c) \/ Standalone(e, c) \/ BuiltInListener(c)

\* What the environment asks for.
WantedMode(e) == IF e.KOSHI_MODE = "enforcement" THEN "enforcement" ELSE "listener"
WantedPolicy(e) == IF HasOverride(e) THEN e.KOSHI_POLICY_OVERRIDE ELSE DefaultSidecarPolicyID

\* A sidecar's configuration has this mode, and this policy for its pod; a
\* listener without a file has a default policy.
OwnPolicy(e, c) ==
    /\ HasOverride(e) \/ c.mode = "enforcement"
    /\ WantedPolicy(e) \in PolicyIDs(c)
    /\ \E key : c.workloads = <<OwnWorkload(e, key, WantedPolicy(e))>>
\* The default policy of the listener without a file.
ListenerPolicy == CatalogPolicy("_listener_default", 1000000, 0, 32768, FALSE)
DefaultOnly(c) ==
    c.mode = "listener" /\ c.workloads = <<>> /\ ~c.strict /\ c.default = ListenerPolicy
Told(e, c) == c.mode = WantedMode(e) /\ (OwnPolicy(e, c) \/ DefaultOnly(c))

(* The catalog's policies are valid. *)
LEMMA CatalogValid ==
    \A p \in RangeOf(SidecarPolicyCatalog) :
        p # NoPolicy /\ validatePolicy(p) /\ p.window = 3600
<1>1. SUFFICES ASSUME NEW p \in RangeOf(SidecarPolicyCatalog)
               PROVE  p # NoPolicy /\ validatePolicy(p) /\ p.window = 3600
  OBVIOUS
<1>2. PICK i \in 1 .. 3 : p = SidecarPolicyCatalog[i]
  <2>1. DOMAIN SidecarPolicyCatalog = 1 .. 3
    BY SMT DEF SidecarPolicyCatalog
  <2>2. QED
    BY <2>1 DEF RangeOf
<1>3. validatePolicy(SidecarPolicyCatalog[1]) /\ SidecarPolicyCatalog[1].window = 3600
  BY SMT DEF SidecarPolicyCatalog, CatalogPolicy, validatePolicy
<1>4. validatePolicy(SidecarPolicyCatalog[2]) /\ SidecarPolicyCatalog[2].window = 3600
  BY SMT DEF SidecarPolicyCatalog, CatalogPolicy, validatePolicy
<1>5. validatePolicy(SidecarPolicyCatalog[3]) /\ SidecarPolicyCatalog[3].window = 3600
  BY SMT DEF SidecarPolicyCatalog, CatalogPolicy, validatePolicy
<1>6. i = 1 \/ i = 2 \/ i = 3
  OBVIOUS
<1>7. QED
  BY <1>2, <1>3, <1>4, <1>5, <1>6, ClusterAssumption

(* Setting some fields of a file leaves the others. *)
LEMMA FieldsKept ==
    ASSUME NEW f \in SidecarFiles \cup StandaloneFiles, NEW m, NEW a, NEW w
    PROVE  LET c == [f EXCEPT !.mode = m, !.listenAddr = a]
               d == [c EXCEPT !.workloads = w]
           IN  /\ c.mode = m /\ c.policies = f.policies /\ c.default = f.default
               /\ c.workloads = f.workloads
               /\ d.mode = m /\ d.policies = f.policies /\ d.workloads = w
BY ClusterAssumption

(* A sidecar with a ConfigMap (main's sidecar branch) has the mode that its *)
(* annotation asks for, and the policy that it names for its own workload.  *)
LEMMA FileSelected ==
    ASSUME NEW e, NEW f \in Files, NEW c, c = SidecarFileConfig(e, f), c # NoConfig, InPod(e)
    PROVE  Selected(e, c) /\ Told(e, c)
<1>1. PICK key : key = ""
  BY Zenon
<1>2. PICK id : id = e.KOSHI_POLICY_OVERRIDE
  OBVIOUS
<1>3. PICK a : a = IF f.listenAddr = 0 THEN SidecarPort ELSE f.listenAddr
  OBVIOUS
<1>4. PICK g : g = [f EXCEPT !.mode = SidecarMode(f, e), !.listenAddr = a]
  OBVIOUS
<1>5. /\ f # NoConfig /\ ValidateSidecarConfig(f) /\ HasWorkload(e)
      /\ HasOverride(e) /\ id \in PolicyIDs(f)
      /\ c = WithPodWorkload(g, e, id)
  BY <1>2, <1>3, <1>4, Zenon DEF SidecarFileConfig, HasOverride
<1>6. f \in SidecarFiles \cup StandaloneFiles
  BY <1>5 DEF Files
<1>7. f.workloads = <<>> /\ ValidPolicies(f)
  BY <1>5, Zenon DEF ValidateSidecarConfig
<1>8. \A p \in RangeOf(f.policies) : validatePolicy(p)
  BY <1>7, Zenon DEF ValidPolicies, RangeOf
<1>9. c = [g EXCEPT !.workloads = Append(g.workloads, OwnWorkload(e, key, id))]
  BY <1>1, <1>5, Zenon DEF WithPodWorkload, OwnWorkload
<1>10. /\ c.mode = SidecarMode(f, e) /\ c.policies = f.policies
       /\ c.workloads = Append(f.workloads, OwnWorkload(e, key, id))
  <2>1. g.workloads = f.workloads
    BY <1>4, <1>6, FieldsKept
  <2>2. QED
    BY <1>4, <1>6, <1>9, <2>1, FieldsKept
<1>11. c.mode \in Modes
  BY <1>10 DEF SidecarMode, Modes
<1>12. \A p \in RangeOf(c.policies) : p # NoPolicy /\ validatePolicy(p)
  BY <1>6, <1>8, <1>10, ClusterAssumption
<1>13. ForPod(e, c)
  <2>1. PodIdentity(e) = PodID(e)
    BY <1>5, Zenon DEF PodIdentity, InPod
  <2>2. c.workloads = <<OwnWorkload(e, key, id)>>
    BY <1>7, <1>10
  <2>3. id \in PolicyIDs(c)
    BY <1>5, <1>10 DEF PolicyIDs
  <2>4. QED
    BY <1>5, <2>1, <2>2, <2>3 DEF ForPod
<1>14. Selected(e, c)
  BY <1>11, <1>12, <1>13 DEF Selected
<1>15. OwnPolicy(e, c)
  <2>1. c.workloads = <<OwnWorkload(e, key, id)>>
    BY <1>7, <1>10
  <2>2. id \in PolicyIDs(c) /\ id = WantedPolicy(e)
    BY <1>2, <1>5, <1>10 DEF PolicyIDs, WantedPolicy
  <2>3. QED
    BY <1>5, <2>1, <2>2 DEF OwnPolicy
<1>16. QED
  BY <1>10, <1>14, <1>15 DEF Told, SidecarMode, WantedMode

(* A process outside of a pod has a file that Validate took as a whole. *)
LEMMA LoadSelected ==
    ASSUME NEW e, NEW f \in Files, NEW c, c = Load(f), c # NoConfig, ~InPod(e)
    PROVE  Selected(e, c)
<1>1. PICK m : m = IF f.mode = "" THEN "enforcement" ELSE f.mode
  BY Zenon
<1>2. PICK a : a = IF m = "listener" /\ f.listenAddr = 0 THEN SidecarPort ELSE f.listenAddr
  OBVIOUS
<1>3. f # NoConfig /\ Validate(f) /\ c = Normalized(f)
  BY DEF Load
<1>4. f \in SidecarFiles \cup StandaloneFiles
  BY <1>3 DEF Files
<1>5. c = [f EXCEPT !.mode = m, !.listenAddr = a]
  BY <1>1, <1>2, <1>3, Zenon DEF Normalized
<1>6. /\ c.policies = f.policies /\ c.default = f.default /\ c.workloads = f.workloads
  BY <1>4, <1>5, FieldsKept
<1>7. /\ c.mode \in Modes /\ ValidPolicies(f)
      /\ f.default # NoPolicy => validatePolicy(f.default)
  BY <1>3, Zenon DEF Validate
<1>8. \A p \in RangeOf(f.policies) : validatePolicy(p)
  BY <1>7, Zenon DEF ValidPolicies, RangeOf
<1>9. \A p \in RangeOf(c.policies) : p # NoPolicy /\ validatePolicy(p)
  BY <1>4, <1>6, <1>8, ClusterAssumption
<1>10. PodIdentity(e) = Missing
  BY Zenon DEF PodIdentity, InPod
<1>11. Standalone(e, c)
  BY <1>4, <1>6, <1>7, <1>10, ClusterAssumption DEF Standalone
<1>12. QED
  BY <1>7, <1>9, <1>11 DEF Selected

(* The built-in enforcement configuration has the policies of the catalog,  *)
(* one of them for the pod's workload.                                      *)
LEMMA BuiltInSelected ==
    ASSUME NEW e, NEW c, c = BuiltInEnforcement(e), c # NoConfig, WantedMode(e) = "enforcement"
    PROVE  /\ Selected(e, c) /\ Told(e, c)
           /\ c.default = NoPolicy /\ c.policies = SidecarPolicyCatalog
<1>1. PICK key : key = ""
  BY Zenon
<1>2. PICK d : d = DefaultEnforcementSidecarConfig
  OBVIOUS
<1>3. PICK id : id = IF e.KOSHI_POLICY_OVERRIDE = "" THEN DefaultSidecarPolicyID
                                                      ELSE e.KOSHI_POLICY_OVERRIDE
  BY Zenon
<1>4. /\ InPod(e) /\ HasWorkload(e)
      /\ id \in PolicyIDs(d) \cup {DefaultSidecarPolicyID}
      /\ c = WithPodWorkload(d, e, id)
  BY <1>2, <1>3, Zenon DEF BuiltInEnforcement, InPod
<1>5. c = [d EXCEPT !.workloads = Append(d.workloads, OwnWorkload(e, key, id))]
  BY <1>1, <1>4, Zenon DEF WithPodWorkload, OwnWorkload
<1>6. /\ d.mode = "enforcement" /\ d.policies = SidecarPolicyCatalog /\ d.workloads = <<>>
      /\ d.default = NoPolicy
      /\ \A w : LET x == [d EXCEPT !.workloads = w]
                IN  /\ x.mode = d.mode /\ x.policies = d.policies /\ x.workloads = w
                    /\ x.default = d.default
  BY <1>2, SMT DEF DefaultEnforcementSidecarConfig
<1>7. /\ c.mode = "enforcement" /\ c.policies = SidecarPolicyCatalog
      /\ c.workloads = <<OwnWorkload(e, key, id)>> /\ c.default = NoPolicy
  BY <1>5, <1>6, SMT
<1>8. DefaultSidecarPolicyID \in PolicyIDs(d)
  <2>1. SidecarPolicyCatalog[1] \in RangeOf(SidecarPolicyCatalog)
    <3>1. 1 \in DOMAIN SidecarPolicyCatalog
      BY SMT DEF SidecarPolicyCatalog
    <3>2. QED
      BY <3>1, SMT DEF RangeOf
  <2>2. SidecarPolicyCatalog[1].id = DefaultSidecarPolicyID
    BY SMT DEF SidecarPolicyCatalog, CatalogPolicy, DefaultSidecarPolicyID
  <2>3. QED
    BY <1>6, <2>1, <2>2, SMT DEF PolicyIDs
<1>9. id \in PolicyIDs(c)
  BY <1>4, <1>6, <1>7, <1>8, SMT DEF PolicyIDs
<1>10. PodIdentity(e) = PodID(e)
  BY <1>4, Zenon DEF PodIdentity, InPod
<1>11. ForPod(e, c)
  BY <1>7, <1>9, <1>10, SMT DEF ForPod
<1>12. Selected(e, c)
  BY <1>7, <1>11, CatalogValid, SMT DEF Selected, Modes
<1>13. OwnPolicy(e, c)
  <2>1. id = WantedPolicy(e)
    BY <1>3, Zenon DEF WantedPolicy, HasOverride
  <2>2. QED
    BY <1>7, <1>9, <2>1, SMT DEF OwnPolicy
<1>14. QED
  BY <1>7, <1>12, <1>13, SMT DEF Told

(* The built-in listener has nothing but its default policy. *)
LEMMA ListenerSelected ==
    ASSUME NEW e
    PROVE  /\ Selected(e, DefaultListenerConfig) /\ DefaultOnly(DefaultListenerConfig)
           /\ IsFcn(DefaultListenerConfig)
<1> DEFINE d == DefaultEnforcementSidecarConfig
           l == ListenerPolicy
           c == [d EXCEPT !.mode = "listener", !.default = l]
<1>1. validatePolicy(l)
  BY SMT DEF ListenerPolicy, CatalogPolicy, validatePolicy
<1>2. DefaultListenerConfig = c
  BY SMT DEF DefaultListenerConfig, ListenerPolicy
<1> HIDE DEF l
<1>3. /\ c.mode = "listener" /\ c.policies = SidecarPolicyCatalog /\ c.workloads = <<>>
      /\ c.default = l /\ ~c.strict
  BY SMT DEF DefaultEnforcementSidecarConfig
<1>4. IsFcn(c)
  <2>1. \A b : IsFcn([b EXCEPT !.default = l])
    BY SMT DEF IsFcn
  <2>2. QED
    BY <2>1, Zenon
<1> HIDE DEF c
<1>5. Selected(e, c)
  BY <1>1, <1>3, CatalogValid, SMT DEF Selected, BuiltInListener, Modes
<1>6. DefaultOnly(c)
  BY <1>3, SMT DEF DefaultOnly, l
<1>7. QED
  BY <1>2, <1>4, <1>5, <1>6, SMT

(* Every way to a configuration leads to one of the three kinds, and in a    *)
(* pod to what its environment asks for.                                     *)
LEMMA SelectSelected ==
    ASSUME NEW e, NEW f \in Files, NEW c, c = SelectConfig(e, f), c # NoConfig
    PROVE  Selected(e, c) /\ (InPod(e) => Told(e, c))
<1>1. CASE e.KOSHI_CONFIG_PATH # "" /\ InPod(e)
  <2>1. c = SidecarFileConfig(e, f)
    BY <1>1, Zenon DEF SelectConfig, InPod
  <2>2. QED
    BY <1>1, <2>1, FileSelected, Zenon
<1>2. CASE e.KOSHI_CONFIG_PATH # "" /\ ~InPod(e)
  BY <1>2, LoadSelected, Zenon DEF SelectConfig, InPod
<1>3. CASE e.KOSHI_CONFIG_PATH = "" /\ e.KOSHI_MODE = "enforcement"
  BY <1>3, BuiltInSelected, Zenon DEF SelectConfig, WantedMode
<1>4. CASE e.KOSHI_CONFIG_PATH = "" /\ e.KOSHI_MODE = ""
  <2>1. c = DefaultListenerConfig /\ "" # "enforcement"
    BY <1>4, Zenon DEF SelectConfig
  <2>2. WantedMode(e) = "listener"
    BY <1>4, <2>1, Zenon DEF WantedMode
  <2>3. DefaultOnly(c) /\ Selected(e, c)
    BY <2>1, ListenerSelected, Zenon
  <2>4. DefaultOnly(c) => c.mode = "listener"
    BY SMT DEF DefaultOnly
  <2>5. QED
    BY <2>2, <2>3, <2>4, Zenon DEF Told
<1>5. CASE e.KOSHI_CONFIG_PATH = "" /\ e.KOSHI_MODE \notin {"enforcement", ""}
  BY <1>5, Zenon DEF SelectConfig
<1>6. QED
  BY <1>1, <1>2, <1>3, <1>4, <1>5, Zenon

(* The map engine's table holds configured policies of configured workloads. *)
LEMMA EngineTable ==
    ASSUME NEW c, NEW id \in DOMAIN MapEngine(c)
    PROVE  /\ MapEngine(c)[id] \in RangeOf(c.policies)
           /\ \E w \in RangeOf(c.workloads) : w.id = id
<1> DEFINE resolved == {w \in RangeOf(c.workloads) :
                           w.refs # <<>> /\ w.refs[1] \in PolicyIDs(c)}
           chosen == CHOOSE w \in resolved : w.id = id
<1>1. DOMAIN MapEngine(c) = {w.id : w \in resolved}
  BY DEF MapEngine
<1>2. chosen \in resolved /\ chosen.id = id
  BY <1>1
<1>3. MapEngine(c)[id] = PolicyByID(c, chosen.refs[1])
  BY <1>1 DEF MapEngine
<1>4. \A n \in PolicyIDs(c) : PolicyByID(c, n) \in RangeOf(c.policies)
  BY DEF PolicyIDs, PolicyByID
<1>5. QED
  BY <1>2, <1>3, <1>4

(* A process that made up its own workload has exactly this one in it. *)
LEMMA OwnTable ==
    ASSUME NEW e, NEW c, ForPod(e, c)
    PROVE  DOMAIN MapEngine(c) = {PodID(e)} /\ Resolver(c) = "pod"
<1>1. PICK policyID \in PolicyIDs(c) : \E key : c.workloads = <<OwnWorkload(e, key, policyID)>>
  BY DEF ForPod
<1>2. PICK key : c.workloads = <<OwnWorkload(e, key, policyID)>>
  BY <1>1
<1>3. PICK w : w = OwnWorkload(e, key, policyID)
  OBVIOUS
<1>4. w.id = PodID(e) /\ w.identity = "pod" /\ w.refs = <<policyID>>
  BY <1>3 DEF OwnWorkload
<1>5. c.workloads = <<w>>
  BY <1>2, <1>3
<1>6. RangeOf(c.workloads) = {w} /\ c.workloads # <<>> /\ c.workloads[1] = w
  BY <1>5 DEF RangeOf
<1>7. w.refs # <<>> /\ w.refs[1] = policyID
  BY <1>4
<1>8. DOMAIN MapEngine(c) = {w.id}
  BY <1>1, <1>6, <1>7 DEF MapEngine
<1>9. Resolver(c) = "pod"
  BY <1>4, <1>6, Zenon DEF Resolver
<1>10. QED
  BY <1>4, <1>8, <1>9

\* The identity of a request with this header value.
IdentityOf(s, e, h) == Resolve(s, e, [k \in {s.resolver} |-> h])

\* An identity that is missing is not a pod's.
Distinct == \A a, b, c : Missing # <<a, b, c>>

(* What main does with the override. *)
LEMMA OverrideWired ==
    ASSUME NEW e, NEW c, Selected(e, c), ~WireFails(e, c)
    PROVE  IF c.mode = "listener" /\ HasOverride(e)
           THEN Wire(e, c).override \in RangeOf(c.policies)
           ELSE Wire(e, c).override = NoPolicy
<1>1. Overridden(e, c) <=> c.mode = "listener" /\ HasOverride(e)
  BY Zenon DEF Overridden, HasOverride
<1>2. Wire(e, c).override = IF Overridden(e, c) THEN PolicyByID(c, e.KOSHI_POLICY_OVERRIDE)
                                                ELSE NoPolicy
  BY DEF Wire
<1>3. Overridden(e, c) => e.KOSHI_POLICY_OVERRIDE \in PolicyIDs(c)
  BY DEF WireFails
<1>4. \A n \in PolicyIDs(c) : PolicyByID(c, n) \in RangeOf(c.policies)
  BY DEF PolicyIDs, PolicyByID
<1>5. QED
  BY <1>1, <1>2, <1>3, <1>4

\* What the two theorems below say of one request.
OneBudget(s, id) ==
    LET k == accountingKey(s, WorkloadID(id))
        own == IF DefaultKey \in DOMAIN s.policies THEN DOMAIN s.policies
                                                   ELSE DOMAIN s.policies \cup {Missing}
    IN  /\ Listener(s) \/ id \in own =>
              k \in RegisteredKeys(s) /\ RegisteredPolicy(s, k) = Lookup(s, id)
        /\ k \in RegisteredKeys(s) => validatePolicy(RegisteredPolicy(s, k))

(* Whatever main selected, the key that accountingKey makes of a request's  *)
(* identity is one that it registered, with the policy that the engine      *)
(* looks up.                                                                *)
LEMMA WiringAgrees ==
    ASSUME Distinct, NEW e, NEW c, Selected(e, c), ~WireFails(e, c), NEW h, NEW s, NEW id,
           s = Wire(e, c), id = IdentityOf(s, e, h), Lookup(s, id) # NoPolicy
    PROVE  OneBudget(s, id)
<1>1. /\ s.mode = c.mode /\ s.policies = MapEngine(c) /\ s.default = c.default
      /\ s.strict = c.strict /\ s.resolver = Resolver(c)
  BY DEF Wire
<1>2. s.resolver = "pod" => id = PodIdentity(e)
  BY DEF IdentityOf, Resolve
<1>3. \A p \in RangeOf(c.policies) : p # NoPolicy /\ validatePolicy(p)
  BY DEF Selected
<1>4. \A i \in DOMAIN s.policies : s.policies[i] \in RangeOf(c.policies)
  BY <1>1, EngineTable
<1>5. CASE s.override # NoPolicy
  <2>1. c.mode = "listener" /\ s.override \in RangeOf(c.policies)
    BY <1>5, OverrideWired
  <2>2. QED
    BY <1>1, <1>3, <1>5, <2>1
    DEF OneBudget, accountingKey, Listener, RegisteredKeys, RegisteredPolicy, Lookup
<1>6. CASE s.override = NoPolicy /\ ForPod(e, c)
  <2>1. c.mode # "listener"
    BY <1>3, <1>6, OverrideWired DEF ForPod
  <2>2. DOMAIN s.policies = {PodID(e)} /\ id = PodID(e)
    BY <1>1, <1>2, <1>6, OwnTable DEF ForPod
  <2>3. id # Missing
    BY <2>2 DEF Distinct, PodID
  <2>4. accountingKey(s, WorkloadID(id)) = id /\ id \in DOMAIN s.policies
    BY <1>1, <2>1, <2>2, <2>3 DEF accountingKey, WorkloadID, Listener
  <2>5. RegisteredPolicy(s, id) = s.policies[id] /\ id \in RegisteredKeys(s)
    BY <1>1, <1>6, <2>1, <2>4 DEF RegisteredPolicy, RegisteredKeys, Listener
  <2>6. Lookup(s, id) = s.policies[id]
    BY <1>6, <2>4 DEF Lookup
  <2>7. QED
    BY <1>3, <1>4, <2>4, <2>5, <2>6 DEF OneBudget
<1>7. CASE s.override = NoPolicy /\ c.mode = "listener" /\ ~ForPod(e, c)
  <2>1. id \notin DOMAIN s.policies /\ (c.default # NoPolicy => validatePolicy(c.default))
    <3>1. CASE Standalone(e, c)
      <4>1. Resolver(c) = "pod"
        BY <1>7, Zenon DEF Resolver
      <4>2. id = Missing
        BY <1>1, <1>2, <3>1, <4>1 DEF Standalone
      <4>3. QED
        BY <1>1, <3>1, <4>2, EngineTable DEF Standalone
    <3>2. CASE BuiltInListener(c)
      <4>1. RangeOf(c.workloads) = {}
        BY <3>2 DEF BuiltInListener, RangeOf
      <4>2. QED
        BY <1>1, <3>2, <4>1, EngineTable DEF BuiltInListener
    <3>3. QED
      BY <1>7, <3>1, <3>2 DEF Selected
  <2>2. Lookup(s, id) = c.default /\ c.default # NoPolicy
    BY <1>1, <1>7, <2>1 DEF Lookup
  <2>3. /\ accountingKey(s, WorkloadID(id)) = DefaultKey /\ DefaultKey \in RegisteredKeys(s)
        /\ RegisteredPolicy(s, DefaultKey) = c.default
    BY <1>1, <1>7, <2>2
    DEF accountingKey, Listener, RegisteredKeys, DefaultKeys, RegisteredPolicy
  <2>4. QED
    BY <2>1, <2>2, <2>3 DEF OneBudget
<1>8. CASE s.override = NoPolicy /\ c.mode = "enforcement" /\ ~ForPod(e, c)
  <2>1. Standalone(e, c)
    BY <1>8 DEF Selected, BuiltInListener
  <2>2. Missing \notin DOMAIN s.policies
    BY <1>1, <2>1, EngineTable DEF Standalone
  <2>3. accountingKey(s, WorkloadID(id)) = WorkloadID(id)
    BY <1>1, <1>8 DEF accountingKey, Listener
  <2>4. /\ RegisteredKeys(s) = DOMAIN s.policies \cup DefaultKeys(s)
        /\ \A k : RegisteredPolicy(s, k) = IF k \in DOMAIN s.policies THEN s.policies[k]
                                                                      ELSE s.default
    BY <1>1, <1>8 DEF RegisteredKeys, RegisteredPolicy, Listener
  <2>5. \A k \in RegisteredKeys(s) : validatePolicy(RegisteredPolicy(s, k))
    BY <1>1, <1>3, <1>4, <2>1, <2>4 DEF Standalone, DefaultKeys
  <2>6. CASE id \in DOMAIN s.policies
    <3>1. WorkloadID(id) = id /\ Lookup(s, id) = s.policies[id]
      BY <1>8, <2>2, <2>6 DEF WorkloadID, Lookup
    <3>2. QED
      BY <2>3, <2>4, <2>5, <2>6, <3>1 DEF OneBudget
  <2>7. CASE id = Missing /\ DefaultKey \notin DOMAIN s.policies
    <3>1. WorkloadID(id) = DefaultKey /\ Lookup(s, id) = s.default
      BY <1>8, <2>2, <2>7 DEF WorkloadID, Lookup
    <3>2. DefaultKey \in RegisteredKeys(s)
      BY <2>4, <3>1 DEF DefaultKeys
    <3>3. QED
      BY <2>3, <2>4, <2>5, <2>7, <3>1, <3>2 DEF OneBudget
  <2>8. CASE id \notin DOMAIN s.policies /\ ~(id = Missing /\ DefaultKey \notin DOMAIN s.policies)
    BY <1>1, <1>8, <2>3, <2>5, <2>8 DEF OneBudget, Listener
  <2>9. QED
    BY <2>6, <2>7, <2>8
<1>9. c.mode \in {"listener", "enforcement"}
  BY DEF Selected, Modes
<1>10. QED
  BY <1>5, <1>6, <1>7, <1>8, <1>9

\* A process was started with the environment it has.
ProcInv == proc = NoProc \/ \E f \in Files : proc = Start(env, f)

(* There is no process in the initial state. *)
LEMMA ProcInvInit == ClusterInit => ProcInv
BY DEF ClusterInit, ProcInv

(* A process is always one that Start made, with the environment that       *)
(* stays.                                                                   *)
LEMMA ProcInvStep == ProcInv /\ [ClusterNext]_vars => ProcInv'
<1> SUFFICES ASSUME ProcInv, [ClusterNext]_vars PROVE ProcInv'
  OBVIOUS
<1>1. CASE UNCHANGED <<env, proc>>
  BY <1>1 DEF ProcInv, NoProc
<1>2. CASE proc' = NoProc
  BY <1>2 DEF ProcInv, NoProc
<1>3. ASSUME NEW f \in Files, proc' = Start(env', f) PROVE ProcInv'
  BY <1>3 DEF ProcInv
<1>4. CASE CertNext /\ UNCHANGED podVars
  BY <1>1, <1>4 DEF podVars
<1>5. ASSUME NEW t \in Templates, Admit(t) PROVE ProcInv'
  BY <1>2, <1>5 DEF Admit
<1>6. CASE Resubmit \/ Evict \/ Stop
  BY <1>2, <1>6 DEF Resubmit, Evict, Stop
<1>7. ASSUME NEW f \in SidecarFiles \cup {NoConfig}, StartSidecar(f) PROVE ProcInv'
  <2>1. proc' = Start(env', f) /\ f \in Files
    BY <1>7, Zenon DEF StartSidecar, Files
  <2>2. QED
    BY <1>3, <2>1, Zenon
<1>8. ASSUME NEW f \in StandaloneFiles \cup {NoConfig}, StartStandalone(f) PROVE ProcInv'
  <2>1. proc' = Start(env', f) /\ f \in Files
    BY <1>8, Zenon DEF StartStandalone, Files
  <2>2. QED
    BY <1>3, <2>1, Zenon
<1>9. CASE UNCHANGED vars
  BY <1>1, <1>9 DEF vars
<1>10. QED
  BY <1>4, <1>5, <1>6, <1>7, <1>8, <1>9 DEF ClusterNext

(* Every request that is accepted by a process that serves. *)
LEMMA ServedAgree ==
    ASSUME Distinct
    PROVE  ProcInv => (Serving => \A id \in Accepted : OneBudget(proc.setup, id))
<1> SUFFICES ASSUME ProcInv, Serving, NEW id \in Accepted PROVE OneBudget(proc.setup, id)
  OBVIOUS
<1>1. PICK f \in Files : proc = Start(env, f)
  BY DEF ProcInv, Serving, NoProc
<1>2. PICK c : c = SelectConfig(env, f)
  OBVIOUS
<1>3. c # NoConfig /\ ~WireFails(env, c) /\ proc.setup = Wire(env, c)
  BY <1>1, <1>2 DEF Start, Stopped, Serving
<1>4. PICK h \in HeaderIDs : id = IdentityOf(proc.setup, env, h)
  BY DEF Accepted, Identities, IdentityOf
<1>5. Lookup(proc.setup, id) # NoPolicy
  BY DEF Accepted
<1>6. Selected(env, c)
  BY <1>2, <1>3, SelectSelected
<1>7. QED
  BY <1>3, <1>4, <1>5, <1>6, WiringAgrees

(* Whatever file and environment a process is started with, a request is     *)
(* charged to the budget of the policy it is checked against (main's         *)
(* registration loop, NewMapEngine, accountingKey).                          *)
THEOREM OnePolicyPerRequest == ASSUME Distinct PROVE ClusterSpec => []PolicyAndBudgetAgree
<1>1. ProcInv => PolicyAndBudgetAgree
  BY ServedAgree DEF PolicyAndBudgetAgree, OneBudget
<1>2. QED
  BY <1>1, ProcInvInit, ProcInvStep, PTL DEF ClusterSpec

(* No accepted request is charged to a budget that no validation has seen.   *)
THEOREM OnlyValidBudgets == ASSUME Distinct PROVE ClusterSpec => []ChargedBudgetsValid
<1>1. ProcInv => ChargedBudgetsValid
  BY ServedAgree DEF ChargedBudgetsValid, OneBudget, validatePolicy
<1>2. QED
  BY <1>1, ProcInvInit, ProcInvStep, PTL DEF ClusterSpec

-----------------------------------------------------------------------------
(* Applying a patch *)

(* Max, which is a CHOOSE, is the greatest of some positions. *)
LEMMA MaxIn ==
    ASSUME NEW n \in Nat, NEW s \in SUBSET (1 .. n), s # {}
    PROVE  Max(s) \in s /\ \A y \in s : Max(s) >= y
<1> DEFINE T == {n - x : x \in s}
<1>1. T \subseteq Nat /\ T # {}
  <2>1. \A x \in s : n - x \in Nat
    OBVIOUS
  <2>2. QED
    BY <2>1
<1>2. PICK z \in T : \A y \in T : z <= y
  BY <1>1, LeastNatural
<1>3. PICK x \in s : z = n - x
  BY <1>2
<1>4. \A y \in s : y \in Int /\ n - y \in T
  OBVIOUS
<1> HIDE DEF T
<1>5. \A y \in s : x >= y
  <2> SUFFICES ASSUME NEW y \in s PROVE x >= y
    OBVIOUS
  <2>1. n - x <= n - y /\ x \in Int /\ y \in Int
    BY <1>2, <1>3, <1>4
  <2> QED BY <2>1
<1>6. \E w \in s : \A y \in s : w >= y
  BY <1>5
<1> QED BY <1>6 DEF Max

\* What the fold makes of the operations at the positions s.
FoldStep(it, p, patch, s) ==
    IF s = {} THEN p ELSE ApplyOp(it[s \ {Max(s)}], patch[Max(s)])

\* it is the function that the recursion of FoldLeft defines.
IsFold(it, n, p, patch) == it = [s \in SUBSET (1 .. n) |-> FoldStep(it, p, patch, s)]

(* FoldLeft is a CHOOSE of a recursive function on sets of positions: there *)
(* is one.                                                                  *)
LEMMA FoldExists ==
    ASSUME NEW n \in Nat, NEW p, NEW patch
    PROVE  \E it : IsFold(it, n, p, patch)
<1> DEFINE D == SUBSET (1 .. n)
           Upto(g, m) == /\ g = [s \in D |-> g[s]]
                         /\ \A s \in D : s \subseteq 1 .. m => g[s] = FoldStep(g, p, patch, s)
           Bad == {m \in Nat : ~ \E g : Upto(g, m)}
<1>1. ASSUME Bad # {} PROVE FALSE
  <2>1. PICK m \in Bad : \A y \in Bad : m <= y
    BY <1>1, LeastNatural
  <2>2. m \in Nat /\ ~ \E g : Upto(g, m)
    BY <2>1
  <2>3. m # 0
    <3>1. SUFFICES ASSUME m = 0 PROVE FALSE
      OBVIOUS
    <3> DEFINE z == [s \in D |-> p]
    <3>2. \A s \in D : s \subseteq 1 .. 0 => s = {}
      OBVIOUS
    <3>3. Upto(z, 0)
      BY <3>2 DEF FoldStep
    <3>4. QED
      BY <2>2, <3>1, <3>3
  <2>4. m - 1 \in Nat /\ m - 1 \notin Bad
    <3> HIDE DEF Bad
    <3>1. m - 1 \in Nat /\ ~(m <= m - 1)
      BY <2>2, <2>3
    <3>2. QED
      BY <2>1, <3>1
  <2>5. PICK g : Upto(g, m - 1)
    BY <2>4
  <2> DEFINE h == [s \in D |-> IF m \in s THEN FoldStep(g, p, patch, s) ELSE g[s]]
  <2>6. h = [s \in D |-> h[s]]
    OBVIOUS
  <2>7. ASSUME NEW s \in D, s \subseteq 1 .. m PROVE h[s] = FoldStep(h, p, patch, s)
    <3>1. CASE s = {}
      <4>1. g[s] = p
        BY <2>5, <3>1 DEF FoldStep
      <4>2. QED
        BY <3>1, <4>1 DEF FoldStep
    <3>2. CASE s # {}
      <4>1. PICK x : x = Max(s)
        OBVIOUS
      <4>2. x \in s /\ \A y \in s : x >= y
        BY <3>2, <4>1, MaxIn
      <4>3. m \notin s \ {x}
        <5>1. ASSUME m \in s PROVE x = m
          <6>1. x >= m /\ x \in 1 .. m
            BY <2>7, <4>2, <5>1
          <6>2. QED
            BY <2>2, <6>1
        <5>2. QED
          BY <5>1
      <4>4. h[s \ {x}] = g[s \ {x}]
        BY <4>3
      <4>5. FoldStep(h, p, patch, s) = FoldStep(g, p, patch, s)
        BY <3>2, <4>1, <4>4 DEF FoldStep
      <4>6. CASE m \in s
        BY <4>5, <4>6
      <4>7. CASE m \notin s
        <5>1. s \subseteq 1 .. (m - 1)
          BY <2>2, <2>7, <4>7
        <5>2. g[s] = FoldStep(g, p, patch, s)
          BY <2>5, <5>1
        <5>3. QED
          BY <4>5, <4>7, <5>2
      <4>8. QED
        BY <4>6, <4>7
    <3>3. QED
      BY <3>1, <3>2
  <2> HIDE DEF h
  <2>8. Upto(h, m)
    BY <2>6, <2>7
  <2>9. QED
    BY <2>2, <2>8
<1>2. PICK g : Upto(g, n)
  BY <1>1
<1>3. \A s \in D : g[s] = FoldStep(g, p, patch, s)
  BY <1>2
<1>4. IsFold(g, n, p, patch)
  BY <1>2, <1>3 DEF IsFold
<1>5. QED
  BY <1>4

\* g runs through the pods that the operations make one after the other.
IsRun(g, p, patch) ==
    g[0] = p /\ \A k \in 1 .. Len(patch) : g[k] = ApplyOp(g[k - 1], patch[k])

(* Apply goes through the patch in its order. *)
LEMMA ApplyRun ==
    ASSUME NEW S, NEW patch \in Seq(S), NEW p
    PROVE  \E g : IsRun(g, p, patch) /\ Apply(p, patch) = g[Len(patch)]
<1>1. PICK n \in Nat : n = Len(patch) /\ DOMAIN patch = 1 .. n
  OBVIOUS
<1> DEFINE it == CHOOSE f : IsFold(f, n, p, patch)
<1>2. IsFold(it, n, p, patch)
  BY FoldExists
<1>3. Apply(p, patch) = it[1 .. n]
  BY <1>1 DEF Apply, FoldLeft, MapThenFoldSet, IsFold, FoldStep
<1> HIDE DEF it
<1> DEFINE g == [k \in 0 .. n |-> it[1 .. k]]
<1>4. g[0] = p
  BY <1>2 DEF IsFold, FoldStep
<1>5. ASSUME NEW k \in 1 .. n PROVE g[k] = ApplyOp(g[k - 1], patch[k])
  <2>1. k \in Nat /\ k \in 1 .. k /\ k \in 0 .. n /\ k - 1 \in 0 .. n
    OBVIOUS
  <2>2. 1 .. k \in SUBSET (1 .. n) /\ 1 .. k # {}
    <3>1. \A x \in 1 .. k : x \in 1 .. n
      BY <2>1
    <3>2. QED
      BY <2>1, <3>1, Zenon
  <2>3. Max(1 .. k) = k
    <3>1. Max(1 .. k) \in 1 .. k /\ Max(1 .. k) >= k
      BY <2>1, <2>2, MaxIn
    <3>2. QED
      BY <3>1
  <2>4. (1 .. k) \ {k} = 1 .. (k - 1)
    OBVIOUS
  <2>5. it[1 .. k] = ApplyOp(it[1 .. (k - 1)], patch[k])
    BY <1>2, <2>1, <2>2, <2>3, <2>4 DEF IsFold, FoldStep
  <2>6. QED
    BY <2>1, <2>5
<1>6. g[n] = it[1 .. n]
  OBVIOUS
<1> HIDE DEF g
<1>7. QED
  BY <1>1, <1>3, <1>4, <1>5, <1>6 DEF IsRun

(* The last of any such run is what Apply returns. *)
LEMMA RunEnd ==
    ASSUME NEW S, NEW patch \in Seq(S), NEW p, NEW h, IsRun(h, p, patch)
    PROVE  Apply(p, patch) = h[Len(patch)]
<1>1. PICK g : IsRun(g, p, patch) /\ Apply(p, patch) = g[Len(patch)]
  BY ApplyRun
<1>2. PICK n \in Nat : n = Len(patch)
  OBVIOUS
<1> DEFINE Bad == {k \in 0 .. n : g[k] # h[k]}
<1>3. ASSUME Bad # {} PROVE FALSE
  <2>1. Bad \subseteq Nat
    OBVIOUS
  <2>2. PICK k \in Bad : \A y \in Bad : k <= y
    BY <1>3, <2>1, LeastNatural
  <2>3. k \in 0 .. n /\ g[k] # h[k]
    BY <2>2
  <2>4. k # 0
    BY <1>1, <2>3 DEF IsRun
  <2>5. k \in 1 .. n /\ k - 1 \in 0 .. n /\ ~(k <= k - 1)
    BY <2>3, <2>4
  <2>6. g[k - 1] = h[k - 1]
    BY <2>2, <2>5
  <2>7. QED
    BY <1>1, <1>2, <2>3, <2>5, <2>6 DEF IsRun
<1>4. n \notin Bad /\ n \in 0 .. n
  BY <1>3
<1>5. QED
  BY <1>1, <1>2, <1>4

(* An empty patch changes nothing. *)
LEMMA ApplyEmpty == ASSUME NEW p PROVE Apply(p, <<>>) = p
<1>1. PICK g : IsRun(g, p, <<>>) /\ Apply(p, <<>>) = g[Len(<<>>)]
  <2>1. <<>> \in Seq({})
    OBVIOUS
  <2>2. QED
    BY <2>1, ApplyRun
<1>2. QED
  BY <1>1 DEF IsRun

(* A patch of one operation. *)
LEMMA ApplyOne == ASSUME NEW p, NEW op PROVE Apply(p, <<op>>) = ApplyOp(p, op)
<1>1. PICK g : IsRun(g, p, <<op>>) /\ Apply(p, <<op>>) = g[Len(<<op>>)]
  <2>1. <<op>> \in Seq({op})
    OBVIOUS
  <2>2. QED
    BY <2>1, ApplyRun
<1>2. Len(<<op>>) = 1 /\ <<op>>[1] = op /\ 1 \in 1 .. 1 /\ 1 - 1 = 0
  OBVIOUS
<1>3. g[1] = ApplyOp(g[1 - 1], <<op>>[1])
  BY <1>1, <1>2 DEF IsRun
<1>4. g[0] = p
  BY <1>1 DEF IsRun
<1>5. QED
  BY <1>1, <1>2, <1>3, <1>4

(* A patch made of two applies the second to what the first makes. *)
LEMMA ApplyConcat ==
    ASSUME NEW S, NEW a \in Seq(S), NEW b \in Seq(S), NEW p
    PROVE  Apply(p, a \o b) = Apply(Apply(p, a), b)
<1>1. PICK m \in Nat, n \in Nat : m = Len(a) /\ n = Len(b)
  OBVIOUS
<1>2. /\ a \o b \in Seq(S) /\ Len(a \o b) = m + n
      /\ \A k \in 1 .. m : (a \o b)[k] = a[k]
      /\ \A k \in 1 .. n : (a \o b)[m + k] = b[k]
  BY <1>1
<1>3. PICK g : IsRun(g, p, a \o b) /\ Apply(p, a \o b) = g[Len(a \o b)]
  BY <1>2, ApplyRun
<1>4. IsRun(g, p, a)
  <2>1. \A k \in 1 .. m : k \in 1 .. (m + n)
    OBVIOUS
  <2>2. QED
    BY <1>1, <1>2, <1>3, <2>1 DEF IsRun
<1>5. Apply(p, a) = g[m]
  BY <1>1, <1>4, RunEnd
<1> DEFINE h == [k \in 0 .. n |-> g[m + k]]
<1>6. IsRun(h, g[m], b)
  <2>1. h[0] = g[m]
    OBVIOUS
  <2>2. ASSUME NEW k \in 1 .. n PROVE h[k] = ApplyOp(h[k - 1], b[k])
    <3>1. /\ k \in 0 .. n /\ k - 1 \in 0 .. n /\ m + k \in 1 .. (m + n)
          /\ (m + k) - 1 = m + (k - 1)
      OBVIOUS
    <3>2. g[m + k] = ApplyOp(g[(m + k) - 1], (a \o b)[m + k])
      BY <1>2, <1>3, <3>1 DEF IsRun
    <3>3. QED
      BY <1>2, <3>1, <3>2
  <2> HIDE DEF h
  <2>3. QED
    BY <1>1, <2>1, <2>2 DEF IsRun
<1>7. h[n] = g[m + n]
  OBVIOUS
<1> HIDE DEF h
<1>8. Apply(g[m], b) = h[n]
  BY <1>1, <1>6, RunEnd
<1>9. QED
  BY <1>2, <1>3, <1>5, <1>7, <1>8

\* f[i] is the concatenation of the first i sequences.
ConcatStep(f, seqs, i) == IF i = 1 THEN seqs[i] ELSE f[i - 1] \o seqs[i]
IsConcat(f, seqs) == f = [i \in 1 .. Len(seqs) |-> ConcatStep(f, seqs, i)]

(* FlattenSeq is a CHOOSE of a recursive function, too: there is one. *)
LEMMA ConcatExists ==
    ASSUME NEW S, NEW seqs \in Seq(S)
    PROVE  \E f : IsConcat(f, seqs)
<1>1. PICK n \in Nat : n = Len(seqs)
  OBVIOUS
<1> DEFINE Upto(g, m) == /\ g = [i \in 1 .. n |-> g[i]]
                         /\ \A i \in 1 .. n : i <= m => g[i] = ConcatStep(g, seqs, i)
           Bad == {m \in Nat : ~ \E g : Upto(g, m)}
<1>2. ASSUME Bad # {} PROVE FALSE
  <2>1. PICK m \in Bad : \A y \in Bad : m <= y
    BY <1>2, LeastNatural
  <2>2. m \in Nat /\ ~ \E g : Upto(g, m)
    BY <2>1
  <2>3. m # 0
    <3> DEFINE z == [i \in 1 .. n |-> <<>>]
    <3>1. z = [i \in 1 .. n |-> z[i]] /\ \A i \in 1 .. n : ~(i <= 0)
      OBVIOUS
    <3> HIDE DEF z
    <3>2. Upto(z, 0)
      BY <3>1
    <3>3. QED
      BY <2>2, <3>2
  <2>4. m - 1 \in Nat /\ m - 1 \notin Bad
    <3> HIDE DEF Bad
    <3>1. m - 1 \in Nat /\ ~(m <= m - 1)
      BY <2>2, <2>3
    <3>2. QED
      BY <2>1, <3>1
  <2>5. PICK g : Upto(g, m - 1)
    BY <2>4
  <2> DEFINE h == [i \in 1 .. n |-> IF i = m THEN ConcatStep(g, seqs, i) ELSE g[i]]
  <2>6. h = [i \in 1 .. n |-> h[i]]
    OBVIOUS
  <2>7. ASSUME NEW i \in 1 .. n, i <= m PROVE h[i] = ConcatStep(h, seqs, i)
    <3>1. i # 1 => i - 1 \in 1 .. n /\ i - 1 # m
      BY <2>2, <2>7
    <3>2. ConcatStep(h, seqs, i) = ConcatStep(g, seqs, i)
      BY <3>1 DEF ConcatStep
    <3>3. CASE i = m
      BY <3>2, <3>3
    <3>4. CASE i # m
      <4>1. i <= m - 1
        BY <2>2, <2>7, <3>4
      <4>2. g[i] = ConcatStep(g, seqs, i)
        BY <2>5, <4>1
      <4>3. QED
        BY <3>2, <3>4, <4>2
    <3>5. QED
      BY <3>3, <3>4
  <2> HIDE DEF h
  <2>8. Upto(h, m)
    BY <2>6, <2>7
  <2>9. QED
    BY <2>2, <2>8
<1>3. PICK g : Upto(g, n)
  BY <1>2
<1>4. \A i \in 1 .. n : g[i] = ConcatStep(g, seqs, i)
  <2>1. \A i \in 1 .. n : i <= n
    OBVIOUS
  <2>2. QED
    BY <1>3, <2>1
<1>5. IsConcat(g, seqs)
  BY <1>1, <1>3, <1>4 DEF IsConcat
<1>6. QED
  BY <1>5

(* A patch made of a row of patches applies one after the other. *)
LEMMA ApplyFlatten ==
    ASSUME NEW S, NEW seqs \in Seq(Seq(S)), NEW q
    PROVE  /\ FlattenSeq(seqs) \in Seq(S)
           /\ \E g : /\ g[0] = q
                     /\ \A i \in 1 .. Len(seqs) : g[i] = Apply(g[i - 1], seqs[i])
                     /\ Apply(q, FlattenSeq(seqs)) = g[Len(seqs)]
<1>1. PICK n \in Nat : n = Len(seqs)
  OBVIOUS
<1>2. CASE n = 0
  <2>1. seqs = <<>> /\ FlattenSeq(seqs) = <<>>
    BY <1>1, <1>2, EmptySeq, Zenon DEF FlattenSeq
  <2> DEFINE g == [i \in {0} |-> q]
  <2>2. g[0] = q
    OBVIOUS
  <2>3. \A i \in 1 .. Len(seqs) : FALSE
    BY <1>1, <1>2
  <2>4. Apply(q, FlattenSeq(seqs)) = g[Len(seqs)]
    BY <1>1, <1>2, <2>1, ApplyEmpty
  <2> HIDE DEF g
  <2>5. FlattenSeq(seqs) \in Seq(S)
    BY <2>1, EmptySeq, Zenon
  <2>6. QED
    BY <2>2, <2>3, <2>4, <2>5
<1>3. CASE n # 0
  <2> DEFINE fl == CHOOSE f : IsConcat(f, seqs)
  <2>1. IsConcat(fl, seqs)
    BY ConcatExists
  <2>2. FlattenSeq(seqs) = fl[n]
    BY <1>1, <1>3 DEF FlattenSeq, IsConcat, ConcatStep
  <2> HIDE DEF fl
  <2>3. \A i \in 1 .. n : fl[i] = IF i = 1 THEN seqs[i] ELSE fl[i - 1] \o seqs[i]
    BY <1>1, <2>1 DEF IsConcat, ConcatStep
  <2>4. \A i \in 1 .. n : fl[i] \in Seq(S)
    <3> DEFINE Bad == {i \in 1 .. n : fl[i] \notin Seq(S)}
    <3>1. ASSUME Bad # {} PROVE FALSE
      <4>1. Bad \subseteq Nat
        OBVIOUS
      <4>2. PICK i \in Bad : \A y \in Bad : i <= y
        BY <3>1, <4>1, LeastNatural
      <4>3. i \in 1 .. n /\ fl[i] \notin Seq(S) /\ seqs[i] \in Seq(S)
        BY <1>1, <4>2
      <4>4. i # 1
        BY <2>3, <4>3
      <4>5. i - 1 \in 1 .. n /\ ~(i <= i - 1)
        BY <4>3, <4>4
      <4>6. fl[i - 1] \in Seq(S)
        BY <4>2, <4>5
      <4>7. fl[i] = fl[i - 1] \o seqs[i]
        BY <2>3, <4>3, <4>4
      <4>8. QED
        BY <4>3, <4>6, <4>7
    <3>2. QED
      BY <3>1
  <2> DEFINE g == [i \in 0 .. n |-> IF i = 0 THEN q ELSE Apply(q, fl[i])]
  <2>5. g[0] = q
    OBVIOUS
  <2>6. ASSUME NEW i \in 1 .. n PROVE g[i] = Apply(g[i - 1], seqs[i])
    <3>1. i \in 0 .. n /\ i # 0 /\ i - 1 \in 0 .. n /\ seqs[i] \in Seq(S)
      BY <1>1
    <3>2. CASE i = 1
      BY <2>3, <3>1, <3>2
    <3>3. CASE i # 1
      <4>1. i - 1 \in 1 .. n /\ i - 1 # 0
        BY <3>3
      <4>2. fl[i] = fl[i - 1] \o seqs[i] /\ fl[i - 1] \in Seq(S)
        BY <2>3, <2>4, <3>3, <4>1
      <4>3. PICK a \in Seq(S), b \in Seq(S) : a = fl[i - 1] /\ b = seqs[i]
        BY <3>1, <4>2
      <4>4. Apply(q, a \o b) = Apply(Apply(q, a), b)
        BY ApplyConcat
      <4>5. Apply(q, fl[i]) = Apply(Apply(q, fl[i - 1]), seqs[i])
        BY <4>2, <4>3, <4>4
      <4>6. QED
        BY <3>1, <4>1, <4>5
    <3>4. QED
      BY <3>2, <3>3
  <2>7. Apply(q, FlattenSeq(seqs)) = g[n]
    BY <1>3, <2>2
  <2> HIDE DEF g
  <2>8. FlattenSeq(seqs) \in Seq(S)
    BY <1>3, <2>2, <2>4
  <2>9. QED
    BY <1>1, <2>5, <2>6, <2>7, <2>8
<1>4. QED
  BY <1>2, <1>3

\* s is a sequence, of whatever it holds.
IsSeq(s) == s \in Seq(RangeOf(s))

(* A sequence of a set's elements is one in this sense. *)
LEMMA SeqIsSeq == ASSUME NEW S, NEW s \in Seq(S)
    PROVE IsSeq(s) /\ DOMAIN s = 1 .. Len(s) /\ Len(s) \in Nat /\ IsFcn(s)
<1>1. PICK n \in Nat : n = Len(s) /\ s \in [1 .. n -> S] /\ DOMAIN s = 1 .. n
  BY LenProperties
<1>2. s \in [1 .. n -> RangeOf(s)]
  BY <1>1 DEF RangeOf
<1>3. s \in Seq(RangeOf(s))
  BY <1>2, SeqDef
<1>4. IsFcn(s)
  BY <1>1 DEF IsFcn
<1> QED BY <1>1, <1>3, <1>4 DEF IsSeq

(* A function on 1 .. n is a sequence of length n. *)
LEMMA FcnIsSeq ==
    ASSUME NEW n \in Nat, NEW f, IsFcn(f), DOMAIN f = 1 .. n
    PROVE  IsSeq(f) /\ Len(f) = n
<1>1. f \in [1 .. n -> RangeOf(f)]
  BY DEF RangeOf, IsFcn
<1>2. f \in Seq(RangeOf(f))
  BY <1>1, SeqDef
<1>3. DOMAIN f = 1 .. Len(f) /\ Len(f) \in Nat
  BY <1>2, LenProperties
<1> QED BY <1>2, <1>3 DEF IsSeq

(* The same for sequences that need not be of the same elements. *)
LEMMA Concat ==
    ASSUME NEW a, NEW b, IsSeq(a), IsSeq(b), NEW p
    PROVE  IsSeq(a \o b) /\ Apply(p, a \o b) = Apply(Apply(p, a), b)
<1> DEFINE S == RangeOf(a) \cup RangeOf(b)
<1>1. a \in Seq(S) /\ b \in Seq(S)
  <2>1. RangeOf(a) \subseteq S /\ RangeOf(b) \subseteq S
    OBVIOUS
  <2>2. QED
    BY <2>1, SeqMonotonic DEF IsSeq
<1> HIDE DEF S
<1>2. a \o b \in Seq(S)
  BY <1>1, ConcatProperties
<1>3. IsSeq(a \o b)
  BY <1>2, SeqIsSeq
<1>4. Apply(p, a \o b) = Apply(Apply(p, a), b)
  BY <1>1, ApplyConcat
<1> QED BY <1>3, <1>4

(* The short sequences. *)
LEMMA OneIsSeq == ASSUME NEW x PROVE IsSeq(<<x>>) /\ IsSeq(<<>>)
<1>1. <<x>> \in Seq({x}) /\ <<>> \in Seq({x})
  OBVIOUS
<1> QED BY <1>1, SeqIsSeq

(* What Append does to a sequence. *)
LEMMA Appended ==
    ASSUME NEW s, IsSeq(s), NEW x
    PROVE  LET t == Append(s, x)
           IN  /\ IsSeq(t) /\ IsFcn(t) /\ Len(s) \in Nat
               /\ Len(t) = Len(s) + 1 /\ DOMAIN s = 1 .. Len(s) /\ DOMAIN t = 1 .. Len(t)
               /\ \A i \in 1 .. Len(s) : t[i] = s[i]
               /\ t[Len(s) + 1] = x
<1> DEFINE S == RangeOf(s) \cup {x}
<1>1. s \in Seq(S)
  <2>1. RangeOf(s) \subseteq S
    OBVIOUS
  <2>2. QED
    BY <2>1, SeqMonotonic DEF IsSeq
<1>2. x \in S
  OBVIOUS
<1> HIDE DEF S
<1>3. Append(s, x) \in Seq(S)
  BY <1>1, <1>2, AppendProperties
<1>4. /\ IsSeq(Append(s, x)) /\ IsFcn(Append(s, x))
      /\ DOMAIN s = 1 .. Len(s) /\ Len(s) \in Nat
      /\ DOMAIN Append(s, x) = 1 .. Len(Append(s, x))
  BY <1>1, <1>3, SeqIsSeq
<1>5. /\ Len(Append(s, x)) = Len(s) + 1
      /\ \A i \in 1 .. Len(s) : Append(s, x)[i] = s[i]
      /\ Append(s, x)[Len(s) + 1] = x
  BY <1>1, <1>2, AppendProperties
<1> QED BY <1>4, <1>5

\* g goes from q through the patches seqs, one after the other.
Through(g, q, seqs, n) == g[0] = q /\ \A i \in 1 .. n : g[i] = Apply(g[i - 1], seqs[i])

(* The same for ApplyFlatten. *)
LEMMA Flattened ==
    ASSUME NEW n \in Nat, NEW seqs, IsFcn(seqs), DOMAIN seqs = 1 .. n,
           \A i \in 1 .. n : IsSeq(seqs[i]), NEW q
    PROVE  /\ IsSeq(FlattenSeq(seqs))
           /\ \E g : Through(g, q, seqs, n) /\ Apply(q, FlattenSeq(seqs)) = g[n]
<1> DEFINE S == UNION {RangeOf(seqs[i]) : i \in 1 .. n}
<1>1. ASSUME NEW i \in 1 .. n PROVE seqs[i] \in Seq(S)
  <2>1. RangeOf(seqs[i]) \subseteq S
    OBVIOUS
  <2>2. seqs[i] \in Seq(RangeOf(seqs[i]))
    BY DEF IsSeq
  <2>3. QED
    BY <2>1, <2>2, SeqMonotonic
<1> HIDE DEF S
<1>2. seqs \in [1 .. n -> Seq(S)]
  BY <1>1 DEF IsFcn
<1>3. seqs \in Seq(Seq(S))
  BY <1>2, SeqDef
<1>4. Len(seqs) = n
  BY FcnIsSeq
<1>5. FlattenSeq(seqs) \in Seq(S)
  BY <1>3, ApplyFlatten
<1>6. IsSeq(FlattenSeq(seqs))
  BY <1>5, SeqIsSeq
<1>7. \E g : Through(g, q, seqs, n) /\ Apply(q, FlattenSeq(seqs)) = g[n]
  <2>1. PICK g : /\ g[0] = q
                 /\ \A i \in 1 .. Len(seqs) : g[i] = Apply(g[i - 1], seqs[i])
                 /\ Apply(q, FlattenSeq(seqs)) = g[Len(seqs)]
    BY <1>3, ApplyFlatten
  <2>2. QED
    BY <1>4, <2>1 DEF Through
<1> QED BY <1>6, <1>7

-----------------------------------------------------------------------------
\* The values that stand for something missing are none of the values that
\* they are told from: no pod, configuration, policy, owner, identity or
\* list, all of which are functions.  TLC's model values are like that.
Apart ==
    /\ \A v \in {Absent, NoOwner, NoPod, Unpatchable, NoConfig, NoPolicy, Missing} : ~IsFcn(v)
    /\ NoPod # Unpatchable

\* p has the fields of a pod.
IsPod(p) == IsFcn(p) /\ DOMAIN p = PodFields

\* q is a pod that differs from p in field f at most.
SameBut(q, p, f) == IsPod(q) /\ \A g \in PodFields : g # f => q[g] = p[g]

(* A pod is neither missing nor the result of a patch that failed. *)
LEMMA PodApart == ASSUME Apart, NEW p, IsPod(p) PROVE p # NoPod /\ p # Unpatchable
BY DEF Apart, IsPod

(* Replacing a field leaves the others. *)
LEMMA FieldSet ==
    ASSUME NEW p, IsPod(p), NEW f \in PodFields, NEW v, NEW q, q = [p EXCEPT ![f] = v]
    PROVE  SameBut(q, p, f) /\ q[f] = v
BY DEF IsPod, SameBut, IsFcn

\* The volumes of a pod, and with the ConfigMap that it asks for.
OwnVolumes(p) == IF p.volumes = Absent THEN <<>> ELSE p.volumes
HasConfig(p) == Annotation(p, "configmap") # ""
ConfigEntry(p) == [name |-> ConfigVolume, configMap |-> Annotation(p, "configmap")]
Mounts(p) == IF HasConfig(p) THEN Append(OwnVolumes(p), ConfigEntry(p)) ELSE OwnVolumes(p)

(* VolumeOps without the empty string in it. *)
LEMMA VolumeOpsCases ==
    ASSUME NEW p, NEW last, last = Op("volumes/-", 0, ConfigEntry(p))
    PROVE  VolumeOps(p) = IF ~HasConfig(p) THEN <<>>
                          ELSE (IF p.volumes \in {Absent, <<>>} THEN <<Op("volumes", 0, <<>>)>> ELSE <<>>)
                               \o <<last>>
BY Zenon DEF VolumeOps, HasConfig, ConfigEntry

(* The volume operations apply, also to a pod without volumes, and mount    *)
(* the ConfigMap after the pod's own volumes if it is asked for.            *)
LEMMA VolumesPatched ==
    ASSUME Apart, NEW p, IsPod(p), p.volumes # Absent => IsSeq(p.volumes)
    PROVE  /\ IsSeq(VolumeOps(p))
           /\ SameBut(Apply(p, VolumeOps(p)), p, "volumes")
           /\ OwnVolumes(Apply(p, VolumeOps(p))) = Mounts(p)
<1>1. Absent # <<>> /\ p # Unpatchable
  <2>1. IsFcn(<<>>)
    BY DEF IsFcn
  <2>2. QED
    BY <2>1, PodApart DEF Apart
<1>2. "volumes" \in PodFields
  BY DEF PodFields
<1>3. PICK last, init : last = Op("volumes/-", 0, ConfigEntry(p)) /\ init = Op("volumes", 0, <<>>)
  OBVIOUS
<1>4. CASE ~HasConfig(p)
  <2>1. VolumeOps(p) = <<>>
    BY <1>3, <1>4, VolumeOpsCases
  <2>2. Apply(p, VolumeOps(p)) = p
    BY <2>1, ApplyEmpty
  <2>3. QED
    BY <1>4, <2>1, <2>2, OneIsSeq DEF SameBut, Mounts
<1>5. CASE HasConfig(p) /\ p.volumes \in {Absent, <<>>}
  <2>1. VolumeOps(p) = <<init>> \o <<last>>
    BY <1>3, <1>5, VolumeOpsCases
  <2>2. PICK q : q = ApplyOp(p, init)
    OBVIOUS
  <2>3. q = [p EXCEPT !.volumes = <<>>]
    BY <1>1, <1>3, <2>2 DEF ApplyOp, Op
  <2>4. SameBut(q, p, "volumes") /\ q.volumes = <<>>
    BY <1>2, <2>3, FieldSet
  <2>5. PICK r : r = ApplyOp(q, last)
    OBVIOUS
  <2>6. q # Unpatchable /\ q.volumes # Absent
    BY <1>1, <2>4, PodApart DEF SameBut
  <2>7. r = [q EXCEPT !.volumes = Append(q.volumes, ConfigEntry(p))]
    BY <1>3, <2>5, <2>6 DEF ApplyOp, Op
  <2>8. SameBut(r, q, "volumes") /\ r.volumes = Append(<<>>, ConfigEntry(p))
    BY <1>2, <2>4, <2>7, FieldSet DEF SameBut
  <2>9. Apply(p, VolumeOps(p)) = r /\ IsSeq(VolumeOps(p))
    <3>1. PICK a, b : a = <<init>> /\ b = <<last>>
      OBVIOUS
    <3>2. IsSeq(a) /\ IsSeq(b) /\ Apply(p, a) = q /\ Apply(q, b) = r
      BY <2>2, <2>5, <3>1, ApplyOne, OneIsSeq
    <3>3. VolumeOps(p) = a \o b
      BY <2>1, <3>1, Zenon
    <3>4. QED
      BY <3>2, <3>3, Concat
  <2>10. r.volumes # Absent
    <3>1. IsFcn(r.volumes)
      BY <2>8 DEF IsFcn
    <3>2. QED
      BY <3>1 DEF Apart
  <2>11. OwnVolumes(p) = <<>>
    BY <1>5 DEF OwnVolumes
  <2>12. QED
    BY <1>5, <2>4, <2>8, <2>9, <2>10, <2>11 DEF SameBut, Mounts, OwnVolumes
<1>6. CASE HasConfig(p) /\ p.volumes \notin {Absent, <<>>}
  <2>1. VolumeOps(p) = <<>> \o <<last>>
    BY <1>3, <1>6, VolumeOpsCases
  <2>2. PICK r : r = ApplyOp(p, last)
    OBVIOUS
  <2>3. r = [p EXCEPT !.volumes = Append(p.volumes, ConfigEntry(p))]
    BY <1>1, <1>3, <1>6, <2>2 DEF ApplyOp, Op
  <2>4. SameBut(r, p, "volumes") /\ r.volumes = Append(p.volumes, ConfigEntry(p))
    <3>1. PICK v : v = Append(p.volumes, ConfigEntry(p))
      OBVIOUS
    <3>2. r = [p EXCEPT !.volumes = v]
      BY <2>3, <3>1, Zenon
    <3>3. SameBut(r, p, "volumes") /\ r.volumes = v
      BY <1>2, <3>2, FieldSet
    <3>4. QED
      BY <3>1, <3>3
  <2>5. Apply(p, VolumeOps(p)) = r /\ IsSeq(VolumeOps(p))
    <3>1. PICK a, b : a = <<>> /\ b = <<last>>
      OBVIOUS
    <3>2. IsSeq(a) /\ IsSeq(b) /\ Apply(p, a) = p /\ Apply(p, b) = r
      BY <2>2, <3>1, ApplyEmpty, ApplyOne, OneIsSeq
    <3>3. VolumeOps(p) = a \o b
      BY <2>1, <3>1, Zenon
    <3>4. QED
      BY <3>2, <3>3, Concat
  <2>6. r.volumes # Absent
    <3>1. IsFcn(r.volumes)
      BY <1>6, <2>4, Appended
    <3>2. QED
      BY <3>1 DEF Apart
  <2>7. QED
    BY <1>6, <2>4, <2>5, <2>6 DEF Mounts, OwnVolumes
<1> QED BY <1>4, <1>5, <1>6

-----------------------------------------------------------------------------
(* The containers *)

\* The fields of a container.
ContainerFields == {"name", "env"}
(* The sidecar is appended to the containers. *)
LEMMA SidecarPatched ==
    ASSUME Apart, NEW p, IsPod(p), IsSeq(p.containers), NEW c
    PROVE  LET q == Apply(p, <<Op("containers/-", 0, c)>>)
           IN  SameBut(q, p, "containers") /\ q.containers = Append(p.containers, c)
<1>1. PICK op : op = Op("containers/-", 0, c)
  OBVIOUS
<1>2. PICK q : q = Apply(p, <<op>>)
  OBVIOUS
<1>3. PICK v : v = Append(p.containers, c)
  OBVIOUS
<1>4. q = ApplyOp(p, op)
  BY <1>2, ApplyOne
<1>5. p # Unpatchable
  BY PodApart
<1>6. q = [p EXCEPT !.containers = v]
  BY <1>1, <1>3, <1>4, <1>5 DEF ApplyOp, Op
<1>7. SameBut(q, p, "containers") /\ q.containers = v
  <2>1. "containers" \in PodFields
    BY DEF PodFields
  <2>2. QED
    BY <1>6, <2>1, FieldSet
<1>8. QED
  BY <1>1, <1>2, <1>3, <1>7

\* q is p with another env for container i.
EnvSet(q, p, i, e) ==
    /\ SameBut(q, p, "containers")
    /\ IsFcn(q.containers) /\ DOMAIN q.containers = DOMAIN p.containers
    /\ \A j \in DOMAIN p.containers : j # i => q.containers[j] = p.containers[j]
    /\ DOMAIN q.containers[i] = DOMAIN p.containers[i]
    /\ q.containers[i].name = p.containers[i].name
    /\ q.containers[i].env = e

(* What replacing a container's env does. *)
LEMMA EnvExcept ==
    ASSUME NEW p, IsPod(p), NEW i \in DOMAIN p.containers,
           DOMAIN p.containers[i] = ContainerFields, NEW e, NEW q,
           q = [p EXCEPT !.containers[i].env = e]
    PROVE  EnvSet(q, p, i, e)
<1>1. PICK cs : cs = [p.containers EXCEPT ![i].env = e]
  OBVIOUS
<1>2. q = [p EXCEPT !.containers = cs]
  BY <1>1
<1>3. SameBut(q, p, "containers") /\ q.containers = cs
  <2>1. "containers" \in PodFields
    BY DEF PodFields
  <2>2. QED
    BY <1>2, <2>1, FieldSet
<1>4. PICK c : c = [p.containers[i] EXCEPT !.env = e]
  OBVIOUS
<1>5. DOMAIN c = ContainerFields /\ c.name = p.containers[i].name /\ c.env = e
  BY <1>4 DEF ContainerFields
<1>6. cs = [p.containers EXCEPT ![i] = c]
  BY <1>1, <1>4
<1>7. /\ IsFcn(cs) /\ DOMAIN cs = DOMAIN p.containers /\ cs[i] = c
      /\ \A j \in DOMAIN p.containers : j # i => cs[j] = p.containers[j]
  BY <1>6 DEF IsFcn
<1>8. QED
  BY <1>3, <1>5, <1>7 DEF EnvSet

(* Two of these after one another are the second. *)
LEMMA EnvTwice ==
    ASSUME NEW p, NEW q, NEW r, NEW i, NEW d, NEW e, EnvSet(q, p, i, d), EnvSet(r, q, i, e)
    PROVE  EnvSet(r, p, i, e)
BY DEF EnvSet, SameBut

(* The operation that creates an env array. *)
LEMMA EnvCreated ==
    ASSUME Apart, NEW p, IsPod(p), NEW i \in DOMAIN p.containers,
           DOMAIN p.containers[i] = ContainerFields
    PROVE  EnvSet(ApplyOp(p, Op("env", i, <<>>)), p, i, <<>>)
<1>1. PICK e : e = <<>>
  OBVIOUS
<1>2. PICK op : op = Op("env", i, e)
  OBVIOUS
<1>3. ApplyOp(p, op) = [p EXCEPT !.containers[i].env = e]
  BY <1>2, PodApart DEF ApplyOp, Op
<1>4. EnvSet(ApplyOp(p, op), p, i, e)
  BY <1>3, EnvExcept
<1> QED BY <1>1, <1>2, <1>4

(* The operation that appends to one. *)
LEMMA EnvAppended ==
    ASSUME Apart, NEW p, IsPod(p), NEW i \in DOMAIN p.containers,
           DOMAIN p.containers[i] = ContainerFields, p.containers[i].env # Absent, NEW v
    PROVE  EnvSet(ApplyOp(p, Op("env/-", i, v)), p, i, Added(p.containers[i].env, v))
<1>1. PICK e : e = Added(p.containers[i].env, v)
  OBVIOUS
<1>2. PICK op : op = Op("env/-", i, v)
  OBVIOUS
<1>3. op.path = "env/-" /\ op.at = i /\ op.value = v
  BY <1>2 DEF Op
<1>4. ApplyOp(p, op) = [p EXCEPT !.containers[i].env = e]
  BY <1>1, <1>3, PodApart DEF ApplyOp
<1>5. EnvSet(ApplyOp(p, op), p, i, e)
  BY <1>4, EnvExcept
<1> QED BY <1>1, <1>2, <1>5

\* The env b after the first k of the missing variables are appended.
EnvAfter(b, port, missing, k) ==
    LET added == {missing[j] : j \in 1 .. k}
    IN  [n \in DOMAIN b \cup added |-> IF n \in added THEN port ELSE b[n]]

(* One more variable. *)
LEMMA EnvGrows ==
    ASSUME NEW b, NEW port, NEW missing, NEW k \in Nat
    PROVE  /\ Added(EnvAfter(b, port, missing, k), Entry(missing[k + 1], port))
                = EnvAfter(b, port, missing, k + 1)
           /\ Added(b, Entry(missing[1], port)) = EnvAfter(b, port, missing, 1)
<1> DEFINE A(n) == {missing[j] : j \in 1 .. n}
<1>1. A(k + 1) = A(k) \cup {missing[k + 1]}
  <2>1. 1 .. (k + 1) = (1 .. k) \cup {k + 1}
    OBVIOUS
  <2>2. QED
    BY <2>1
<1>2. A(1) = {missing[1]}
  <2>1. 1 .. 1 = {1}
    OBVIOUS
  <2>2. QED
    BY <2>1
<1>3. PICK E, F, G : /\ E = EnvAfter(b, port, missing, k) /\ F = EnvAfter(b, port, missing, k + 1)
                     /\ G = EnvAfter(b, port, missing, 1)
  OBVIOUS
<1> HIDE DEF A
<1>4. /\ E = [n \in DOMAIN b \cup A(k) |-> IF n \in A(k) THEN port ELSE b[n]]
      /\ F = [n \in DOMAIN b \cup A(k + 1) |-> IF n \in A(k + 1) THEN port ELSE b[n]]
      /\ G = [n \in DOMAIN b \cup A(1) |-> IF n \in A(1) THEN port ELSE b[n]]
  BY <1>3 DEF EnvAfter, A
<1>5. PICK m, v : m = missing[k + 1] /\ v = missing[1]
  OBVIOUS
<1>6. Added(E, Entry(m, port)) = F
  BY <1>1, <1>4, <1>5 DEF Added, Entry
<1>7. Added(b, Entry(v, port)) = G
  BY <1>2, <1>4, <1>5 DEF Added, Entry
<1> QED BY <1>3, <1>5, <1>6, <1>7

(* The operations of one container, after the array is there, add its       *)
(* missing variables in their order.                                        *)
LEMMA EnvRun ==
    ASSUME Apart, NEW q, IsPod(q), NEW i \in DOMAIN q.containers,
           DOMAIN q.containers[i] = ContainerFields, NEW b, b = q.containers[i].env, b # Absent,
           NEW port, NEW missing, IsSeq(missing), NEW n \in Nat, n = Len(missing), n # 0,
           NEW patch, patch = [j \in DOMAIN missing |-> Op("env/-", i, Entry(missing[j], port))]
    PROVE  /\ IsSeq(patch)
           /\ EnvSet(Apply(q, patch), q, i, EnvAfter(b, port, missing, n))
<1>1. DOMAIN missing = 1 .. n
  BY SeqIsSeq DEF IsSeq
<1>2. IsFcn(patch) /\ DOMAIN patch = 1 .. n
  BY <1>1 DEF IsFcn
<1>3. IsSeq(patch) /\ Len(patch) = n
  BY <1>2, FcnIsSeq
<1>4. PICK g : IsRun(g, q, patch) /\ Apply(q, patch) = g[Len(patch)]
  BY <1>3, ApplyRun DEF IsSeq
<1>5. \A k \in 1 .. n : patch[k] = Op("env/-", i, Entry(missing[k], port))
  BY <1>1
<1>6. \A k \in 1 .. n : g[k] = ApplyOp(g[k - 1], patch[k])
  BY <1>3, <1>4 DEF IsRun
<1> DEFINE Done(k) == EnvSet(g[k], q, i, EnvAfter(b, port, missing, k))
           Bad == {k \in 1 .. n : ~Done(k)}
<1>7. ASSUME Bad # {} PROVE FALSE
  <2>1. Bad \subseteq Nat
    OBVIOUS
  <2>2. PICK k \in Bad : \A y \in Bad : k <= y
    BY <1>7, <2>1, LeastNatural
  <2>3. k \in 1 .. n /\ ~Done(k)
    BY <2>2
  <2>4. CASE k = 1
    <3>1. g[1] = ApplyOp(q, Op("env/-", i, Entry(missing[1], port)))
      <4>1. g[0] = q /\ g[1] = ApplyOp(g[1 - 1], patch[1]) /\ 1 - 1 = 0
        BY <1>4, <1>6, <2>3, <2>4 DEF IsRun
      <4>2. QED
        BY <1>5, <2>3, <2>4, <4>1
    <3>2. EnvSet(g[1], q, i, Added(b, Entry(missing[1], port)))
      BY <3>1, EnvAppended
    <3>3. Done(1)
      BY <3>2, EnvGrows
    <3>4. QED
      BY <2>3, <2>4, <3>3
  <2>5. CASE k # 1
    <3>1. k - 1 \in 1 .. n /\ ~(k <= k - 1) /\ (k - 1) + 1 = k /\ k - 1 \in Nat
      BY <2>3, <2>5
    <3>2. Done(k - 1)
      BY <2>2, <3>1
    <3>3. PICK r, e : r = g[k - 1] /\ e = EnvAfter(b, port, missing, k - 1)
      OBVIOUS
    <3>4. EnvSet(r, q, i, e)
      BY <3>2, <3>3
    <3>5. e # Absent
      <4>1. IsFcn(e)
        BY <3>3 DEF EnvAfter, IsFcn
      <4>2. QED
        BY <4>1 DEF Apart
    <3>6. /\ IsPod(r) /\ i \in DOMAIN r.containers /\ r.containers[i].env = e
          /\ DOMAIN r.containers[i] = ContainerFields
      BY <3>4 DEF EnvSet, SameBut
    <3>7. g[k] = ApplyOp(r, Op("env/-", i, Entry(missing[k], port)))
      BY <1>5, <1>6, <2>3, <3>3
    <3>8. EnvSet(g[k], r, i, Added(e, Entry(missing[k], port)))
      BY <3>5, <3>6, <3>7, EnvAppended
    <3>9. Added(e, Entry(missing[k], port)) = EnvAfter(b, port, missing, k)
      <4>1. Added(EnvAfter(b, port, missing, k - 1), Entry(missing[(k - 1) + 1], port))
                = EnvAfter(b, port, missing, (k - 1) + 1)
        BY <3>1, EnvGrows
      <4>2. QED
        BY <3>1, <3>3, <4>1
    <3>10. Done(k)
      BY <3>4, <3>8, <3>9, EnvTwice
    <3>11. QED
      BY <2>3, <3>10
  <2>6. QED
    BY <2>4, <2>5
<1>8. n \in 1 .. n
  OBVIOUS
<1>9. Done(n)
  BY <1>7, <1>8
<1> QED BY <1>3, <1>4, <1>9

(* Go's range over a map comes across each of its keys, in whatever order. *)
LEMMA OrderIsAll ==
    ASSUME NEW S, IsFiniteSet(S), NEW s \in SetToSeqs(S)
    PROVE  IsSeq(s) /\ {s[j] : j \in 1 .. Len(s)} = S
<1>1. PICK n \in Nat : n = Cardinality(S)
  BY FS_CardinalityType
<1>2. s \in [1 .. n -> S] /\ \A i, j \in 1 .. n : i # j => s[i] # s[j]
  BY <1>1 DEF SetToSeqs
<1>3. s \in Seq(S)
  BY <1>2, SeqDef
<1>4. IsSeq(s) /\ Len(s) = n
  BY <1>2, <1>3, SeqIsSeq, FcnIsSeq
<1>5. s \in Injection(1 .. n, S)
  BY <1>2 DEF Injection, IsInjective
<1>6. Cardinality(1 .. n) = n
  BY FS_Interval
<1>7. s \in Surjection(1 .. n, S)
  BY <1>1, <1>5, <1>6, FS_Injection
<1>8. {s[j] : j \in 1 .. n} = S
  BY <1>2, <1>7 DEF Surjection
<1> QED BY <1>4, <1>8

\* Variables have values.
EnvOK(e) == e # Absent => \A n \in DOMAIN e : e[n] # Absent

\* A container's env after the patch: each base URL is the author's or leads
\* to the sidecar, and all else is the author's.
EnvDone(port, was, is) ==
    /\ is # Absent
    /\ \A n \in ProviderEnvs : ValueOf(is, n, Absent) = ValueOf(was, n, port)
    /\ was # Absent => \A n \in DOMAIN was : ValueOf(is, n, Absent) = was[n]

(* Adding the missing variables to the author's env gives this. *)
LEMMA EnvAfterDone ==
    ASSUME Apart, NEW e, EnvOK(e), NEW b, NEW port, NEW missing, NEW n,
           {missing[j] : j \in 1 .. n} = MissingEnvs(e),
           IF NoEnv(e) THEN b = <<>> ELSE b = e
    PROVE  EnvDone(port, e, EnvAfter(b, port, missing, n))
<1>1. PICK is : is = EnvAfter(b, port, missing, n)
  OBVIOUS
<1>2. PICK M : M = MissingEnvs(e)
  OBVIOUS
<1>3. is = [x \in DOMAIN b \cup M |-> IF x \in M THEN port ELSE b[x]]
  BY <1>1, <1>2 DEF EnvAfter
<1>4. IsFcn(is)
  BY <1>3 DEF IsFcn
<1>5. is # Absent
  BY <1>4 DEF Apart
<1>6. \A x : x \in M <=> x \in ProviderEnvs /\ ValueOf(e, x, Absent) = Absent
  BY <1>2 DEF MissingEnvs
<1>7. CASE NoEnv(e)
  <2>1. DOMAIN b = {}
    BY <1>7
  <2>2. \A x \in ProviderEnvs : x \in M /\ ValueOf(e, x, port) = port
    BY <1>6, <1>7 DEF NoEnv, ValueOf
  <2>3. \A x \in ProviderEnvs : ValueOf(is, x, Absent) = port
    BY <1>3, <1>5, <2>2 DEF ValueOf
  <2>4. e # Absent => DOMAIN e = {}
    BY <1>7 DEF NoEnv
  <2> QED BY <1>1, <1>5, <2>2, <2>3, <2>4 DEF EnvDone
<1>8. CASE ~NoEnv(e)
  <2>1. e # Absent /\ b = e
    BY <1>8 DEF NoEnv
  <2>2. \A x \in ProviderEnvs : x \in M <=> x \notin DOMAIN e
    BY <1>6, <2>1 DEF ValueOf, EnvOK
  <2>3. \A x \in ProviderEnvs : ValueOf(is, x, Absent) = ValueOf(e, x, port)
    BY <1>3, <1>5, <2>1, <2>2 DEF ValueOf
  <2>4. \A x \in DOMAIN e : x \notin M
    BY <1>6, <2>2
  <2>5. \A x \in DOMAIN e : ValueOf(is, x, Absent) = e[x]
    BY <1>3, <1>5, <2>1, <2>4 DEF ValueOf
  <2> QED BY <1>1, <1>5, <2>3, <2>5 DEF EnvDone
<1> QED BY <1>7, <1>8

(* The operations of one container apply, whichever of the variables it has *)
(* and whether or not it has an env array.                                  *)
LEMMA EnvPatched ==
    ASSUME Apart, NEW p, NEW q, IsPod(q), IsFcn(q.containers), NEW i \in DOMAIN q.containers,
           DOMAIN q.containers[i] = ContainerFields, q.containers[i] = p.containers[i],
           NEW e, e = p.containers[i].env, EnvOK(e), NEW port,
           NEW missing \in SetToSeqs(MissingEnvs(e))
    PROVE  /\ IsSeq(EnvOps(port, p, i, missing))
           /\ \E d : /\ EnvSet(Apply(q, EnvOps(port, p, i, missing)), q, i, d)
                     /\ EnvDone(port, e, d)
<1>1. IsFiniteSet(MissingEnvs(e))
  <2>1. IsFiniteSet(ProviderEnvs)
    <3>1. ProviderEnvs = {"OPENAI_BASE_URL"} \cup {"ANTHROPIC_BASE_URL"}
      BY DEF ProviderEnvs
    <3>2. IsFiniteSet({"OPENAI_BASE_URL"})
      BY FS_Singleton
    <3>3. QED
      BY <3>1, <3>2, FS_AddElement
  <2>2. MissingEnvs(e) \in SUBSET ProviderEnvs
    BY DEF MissingEnvs
  <2>3. QED
    BY <2>1, <2>2, FS_Subset
<1>2. IsSeq(missing) /\ {missing[j] : j \in 1 .. Len(missing)} = MissingEnvs(e)
  BY <1>1, OrderIsAll
<1>3. PICK n \in Nat : n = Len(missing) /\ DOMAIN missing = 1 .. n
  BY <1>2, SeqIsSeq DEF IsSeq
<1>4. n = 0 <=> missing = <<>>
  BY <1>2, <1>3, EmptySeq DEF IsSeq
<1>5. PICK a, b, init : /\ a = <<>> /\ init = Op("env", i, <<>>)
                        /\ b = [j \in DOMAIN missing |-> Op("env/-", i, Entry(missing[j], port))]
  OBVIOUS
<1>6. IsSeq(b) /\ Len(b) = n
  <2>1. IsFcn(b) /\ DOMAIN b = 1 .. n
    BY <1>3, <1>5 DEF IsFcn
  <2> QED BY <2>1, FcnIsSeq
<1>7. IsSeq(a) /\ IsSeq(<<init>>) /\ Apply(q, a) = q
  BY <1>5, OneIsSeq, ApplyEmpty
<1>8. CASE missing = <<>>
  <2>1. EnvOps(port, p, i, missing) = a \o b
    BY <1>5, <1>8, Zenon DEF EnvOps
  <2>2. Apply(q, b) = q
    <3>1. PICK g : IsRun(g, q, b) /\ Apply(q, b) = g[Len(b)]
      BY <1>6, ApplyRun DEF IsSeq
    <3>2. QED
      BY <1>4, <1>6, <1>8, <3>1 DEF IsRun
  <2>3. IsSeq(a \o b) /\ Apply(q, a \o b) = q
    BY <1>6, <1>7, <2>2, Concat
  <2>4. EnvSet(q, q, i, e)
    BY DEF EnvSet, SameBut
  <2>5. MissingEnvs(e) = {}
    BY <1>2, <1>3, <1>4, <1>8
  <2>6. e # Absent /\ \A x \in ProviderEnvs : x \in DOMAIN e
    <3>1. \A x \in ProviderEnvs : ValueOf(e, x, Absent) # Absent
      BY <2>5 DEF MissingEnvs
    <3>2. \E x : x \in ProviderEnvs
      BY DEF ProviderEnvs
    <3>3. QED
      BY <3>1, <3>2 DEF ValueOf
  <2>7. EnvDone(port, e, e)
    BY <2>6 DEF EnvDone, ValueOf
  <2>8. QED
    BY <2>1, <2>3, <2>4, <2>7
<1>9. CASE missing # <<>> /\ NoEnv(e)
  <2>1. EnvOps(port, p, i, missing) = <<init>> \o b
    BY <1>5, <1>9, Zenon DEF EnvOps
  <2>2. PICK r, z : r = ApplyOp(q, init) /\ z = <<>>
    OBVIOUS
  <2>3. EnvSet(r, q, i, z)
    BY <1>5, <2>2, EnvCreated
  <2>4. z # Absent
    <3>1. IsFcn(<<>>)
      BY DEF IsFcn
    <3>2. QED
      BY <2>2, <3>1 DEF Apart
  <2>5. /\ IsPod(r) /\ i \in DOMAIN r.containers /\ DOMAIN r.containers[i] = ContainerFields
        /\ z = r.containers[i].env
    BY <2>3 DEF EnvSet, SameBut
  <2>6. EnvSet(Apply(r, b), r, i, EnvAfter(z, port, missing, n))
    BY <1>2, <1>3, <1>4, <1>5, <1>9, <2>4, <2>5, EnvRun
  <2>7. EnvSet(Apply(r, b), q, i, EnvAfter(z, port, missing, n))
    BY <2>3, <2>6, EnvTwice
  <2>8. EnvDone(port, e, EnvAfter(z, port, missing, n))
    BY <1>2, <1>3, <1>9, <2>2, EnvAfterDone
  <2>9. PICK o : o = <<init>>
    OBVIOUS
  <2>10. IsSeq(o \o b) /\ Apply(q, o \o b) = Apply(r, b)
    <3>1. Apply(q, o) = r
      BY <2>2, <2>9, ApplyOne
    <3>2. IsSeq(o)
      BY <1>7, <2>9
    <3>3. QED
      BY <1>6, <3>1, <3>2, Concat
  <2>11. EnvOps(port, p, i, missing) = o \o b
    BY <2>1, <2>9, Zenon
  <2>12. QED
    BY <2>7, <2>8, <2>10, <2>11
<1>10. CASE missing # <<>> /\ ~NoEnv(e)
  <2>1. EnvOps(port, p, i, missing) = a \o b
    BY <1>5, <1>10, Zenon DEF EnvOps
  <2>2. e # Absent /\ e = q.containers[i].env
    BY <1>10 DEF NoEnv
  <2>3. EnvSet(Apply(q, b), q, i, EnvAfter(e, port, missing, n))
    BY <1>2, <1>3, <1>4, <1>5, <1>10, <2>2, EnvRun
  <2>4. EnvDone(port, e, EnvAfter(e, port, missing, n))
    BY <1>2, <1>3, <1>10, EnvAfterDone
  <2>5. IsSeq(a \o b) /\ Apply(q, a \o b) = Apply(q, b)
    BY <1>6, <1>7, Concat
  <2>6. QED
    BY <2>1, <2>3, <2>4, <2>5
<1> QED BY <1>8, <1>9, <1>10

Scrape(port) == [scrape |-> "true", port |-> port, path |-> "/metrics"]

\* The annotations after the patch: the sidecar's port, and all that was
\* there but for the three that are set.
NotesDone(port, was, is) ==
    /\ is["port"] = port
    /\ was # Absent =>
          \A k \in DOMAIN was \ {"scrape", "port", "path"} : k \in DOMAIN is /\ is[k] = was[k]

(* Adding the three annotations to what was there gives this. *)
LEMMA NotesAdded ==
    ASSUME NEW port, NEW was, NEW b, was # Absent => b = was
    PROVE  NotesDone(port, was, Added(b, Scrape(port)))
<1>1. PICK m : m = Scrape(port)
  OBVIOUS
<1>2. DOMAIN m = {"scrape", "port", "path"} /\ m["port"] = port
  BY <1>1 DEF Scrape
<1>3. PICK is : is = Added(b, m)
  OBVIOUS
<1>4. is = [x \in DOMAIN b \cup DOMAIN m |-> IF x \in DOMAIN m THEN m[x] ELSE b[x]]
  BY <1>3 DEF Added
<1>5. is["port"] = port
  BY <1>2, <1>4
<1>6. was # Absent => \A k \in DOMAIN was \ {"scrape", "port", "path"}
        : k \in DOMAIN is /\ is[k] = was[k]
  BY <1>2, <1>4
<1> QED BY <1>1, <1>3, <1>5, <1>6 DEF NotesDone

(* The annotation operations apply, also to a pod without annotations. *)
LEMMA AnnotationsPatched ==
    ASSUME Apart, NEW p, NEW q, IsPod(q), q.annotations = p.annotations, NEW port
    PROVE  /\ IsSeq(AnnotationOps(port, p))
           /\ SameBut(Apply(q, AnnotationOps(port, p)), q, "annotations")
           /\ NotesDone(port, p.annotations, Apply(q, AnnotationOps(port, p)).annotations)
<1>1. PICK add, init : /\ add = Op("annotations/*", 0, Scrape(port))
                       /\ init = Op("annotations", 0, <<>>)
  OBVIOUS
<1>2. PICK a, b, z : a = <<init>> /\ b = <<add>> /\ z = <<>>
  OBVIOUS
<1>3. AnnotationOps(port, p) = (IF p.annotations = Absent THEN a ELSE z) \o b
  BY <1>1, <1>2, Zenon DEF AnnotationOps, Scrape
<1>4. IsSeq(a) /\ IsSeq(b) /\ IsSeq(z)
  BY <1>2, OneIsSeq
<1>5. "annotations" \in PodFields
  BY DEF PodFields
<1>6. ASSUME NEW r, IsPod(r), r.annotations # Absent
      PROVE  /\ SameBut(Apply(r, b), r, "annotations")
             /\ Apply(r, b).annotations = Added(r.annotations, Scrape(port))
  <2>1. PICK v : v = Added(r.annotations, Scrape(port))
    OBVIOUS
  <2>2. add.path = "annotations/*" /\ add.value = Scrape(port)
    BY <1>1 DEF Op
  <2>3. r # Unpatchable
    BY <1>6, PodApart
  <2>4. ApplyOp(r, add) = [r EXCEPT !.annotations = v]
    BY <1>6, <2>1, <2>2, <2>3 DEF ApplyOp
  <2>5. Apply(r, b) = ApplyOp(r, add)
    BY <1>2, ApplyOne
  <2>6. SameBut(ApplyOp(r, add), r, "annotations") /\ ApplyOp(r, add).annotations = v
    BY <1>5, <1>6, <2>4, FieldSet
  <2>7. QED
    BY <2>1, <2>5, <2>6
<1>7. CASE p.annotations = Absent
  <2>1. PICK r : r = ApplyOp(q, init)
    OBVIOUS
  <2>2. init.path = "annotations" /\ init.value = z
    BY <1>1, <1>2 DEF Op
  <2>3. r = [q EXCEPT !.annotations = z]
    BY <2>1, <2>2, PodApart DEF ApplyOp
  <2>4. SameBut(r, q, "annotations") /\ r.annotations = z
    BY <1>5, <2>3, FieldSet
  <2>5. z # Absent
    <3>1. IsFcn(z)
      BY <1>2 DEF IsFcn
    <3>2. QED
      BY <3>1 DEF Apart
  <2>6. PICK t : t = Apply(r, b)
    OBVIOUS
  <2>7. SameBut(t, r, "annotations") /\ t.annotations = Added(z, Scrape(port))
    BY <1>6, <2>4, <2>5, <2>6 DEF SameBut
  <2>8. Apply(q, a) = r
    BY <1>2, <2>1, ApplyOne
  <2>9. IsSeq(a \o b) /\ Apply(q, a \o b) = t
    BY <1>4, <2>6, <2>8, Concat
  <2>10. NotesDone(port, p.annotations, t.annotations)
    BY <1>7, <2>7, NotesAdded
  <2>11. SameBut(t, q, "annotations")
    BY <2>4, <2>7 DEF SameBut
  <2>12. AnnotationOps(port, p) = a \o b
    BY <1>3, <1>7, Zenon
  <2>13. QED
    BY <2>9, <2>10, <2>11, <2>12
<1>8. CASE p.annotations # Absent
  <2>1. PICK t : t = Apply(q, b)
    OBVIOUS
  <2>2. SameBut(t, q, "annotations") /\ t.annotations = Added(p.annotations, Scrape(port))
    BY <1>6, <1>8, <2>1
  <2>3. Apply(q, z) = q
    BY <1>2, ApplyEmpty
  <2>4. IsSeq(z \o b) /\ Apply(q, z \o b) = t
    BY <1>4, <2>1, <2>3, Concat
  <2>5. NotesDone(port, p.annotations, t.annotations)
    BY <2>2, NotesAdded
  <2>6. AnnotationOps(port, p) = z \o b
    BY <1>3, <1>8, Zenon
  <2>7. QED
    BY <2>2, <2>4, <2>5, <2>6
<1> QED BY <1>7, <1>8

-----------------------------------------------------------------------------
\* The containers of a pod that is not injected yet.
ContainersOK(cs) ==
    /\ IsSeq(cs)
    /\ \A i \in DOMAIN cs : DOMAIN cs[i] = ContainerFields /\ EnvOK(cs[i].env)

\* Containers cs once the sidecar c is appended to those that were there, and
\* the first k of them got their variables.
Staged(port, cs, was, c, k) ==
    /\ IsFcn(cs) /\ DOMAIN cs = 1 .. (Len(was) + 1)
    /\ cs[Len(was) + 1] = c
    /\ \A j \in 1 .. Len(was) :
          IF j <= k
          THEN cs[j].name = was[j].name /\ EnvDone(port, was[j].env, cs[j].env)
          ELSE cs[j] = was[j]

(* The operations of all containers apply one after the other, and none of  *)
(* them touches the sidecar or a container twice.                           *)
LEMMA AllEnvsPatched ==
    ASSUME Apart, NEW p, ContainersOK(p.containers), NEW q, IsPod(q), NEW port, NEW c,
           NEW order \in Orders(p), Staged(port, q.containers, p.containers, c, 0),
           NEW patch,
           patch = FlattenSeq([i \in DOMAIN p.containers |-> EnvOps(port, p, i, order[i])])
    PROVE  /\ IsSeq(patch)
           /\ SameBut(Apply(q, patch), q, "containers")
           /\ Staged(port, Apply(q, patch).containers, p.containers, c, Len(p.containers))
<1>1. PICK n \in Nat : n = Len(p.containers) /\ DOMAIN p.containers = 1 .. n
  BY SeqIsSeq DEF ContainersOK, IsSeq
<1>2. PICK seqs : seqs = [i \in 1 .. n |-> EnvOps(port, p, i, order[i])]
  OBVIOUS
<1>3. patch = FlattenSeq(seqs)
  BY <1>1, <1>2
<1>4. ASSUME NEW i \in 1 .. n
      PROVE  /\ order[i] \in SetToSeqs(MissingEnvs(p.containers[i].env))
             /\ DOMAIN p.containers[i] = ContainerFields /\ EnvOK(p.containers[i].env)
  BY <1>1 DEF Orders, ContainersOK
<1>5. ASSUME NEW i \in 1 .. n, NEW r, IsPod(r), IsFcn(r.containers), i \in DOMAIN r.containers,
             r.containers[i] = p.containers[i]
      PROVE  /\ IsSeq(seqs[i])
             /\ \E d : /\ EnvSet(Apply(r, seqs[i]), r, i, d)
                       /\ EnvDone(port, p.containers[i].env, d)
  <2>1. PICK m \in SetToSeqs(MissingEnvs(p.containers[i].env)) : m = order[i]
    BY <1>4
  <2>2. seqs[i] = EnvOps(port, p, i, m)
    BY <1>2, <2>1
  <2>3. PICK e : e = p.containers[i].env
    OBVIOUS
  <2>4. EnvOK(e) /\ DOMAIN r.containers[i] = ContainerFields /\ m \in SetToSeqs(MissingEnvs(e))
    BY <1>4, <1>5, <2>1, <2>3
  <2>5. /\ IsSeq(EnvOps(port, p, i, m))
        /\ \E d : EnvSet(Apply(r, EnvOps(port, p, i, m)), r, i, d) /\ EnvDone(port, e, d)
    BY <1>5, <2>3, <2>4, EnvPatched
  <2>6. QED
    BY <2>2, <2>3, <2>5
<1>6. /\ IsFcn(q.containers) /\ DOMAIN q.containers = 1 .. (n + 1)
      /\ \A i \in 1 .. n : q.containers[i] = p.containers[i] /\ i \in 1 .. (n + 1)
  <2>1. \A i \in 1 .. n : ~(i <= 0) /\ i \in 1 .. (n + 1)
    OBVIOUS
  <2>2. QED
    BY <1>1, <2>1 DEF Staged
<1>7. IsFcn(seqs) /\ DOMAIN seqs = 1 .. n /\ \A i \in 1 .. n : IsSeq(seqs[i])
  <2>1. IsFcn(seqs) /\ DOMAIN seqs = 1 .. n
    BY <1>2 DEF IsFcn
  <2>2. QED
    BY <1>5, <1>6, <2>1
<1>8. /\ IsSeq(FlattenSeq(seqs))
      /\ \E g : Through(g, q, seqs, n) /\ Apply(q, FlattenSeq(seqs)) = g[n]
  BY <1>7, Flattened
<1>9. PICK g : Through(g, q, seqs, n) /\ Apply(q, patch) = g[n]
  BY <1>3, <1>8
<1>10. g[0] = q /\ \A i \in 1 .. n : g[i] = Apply(g[i - 1], seqs[i])
  BY <1>9 DEF Through
<1> DEFINE Good(k) == /\ SameBut(g[k], q, "containers")
                      /\ Staged(port, g[k].containers, p.containers, c, k)
           Bad == {k \in 0 .. n : ~Good(k)}
<1>11. ASSUME Bad # {} PROVE FALSE
  <2>1. Bad \subseteq Nat
    OBVIOUS
  <2>2. PICK k \in Bad : \A y \in Bad : k <= y
    BY <1>11, <2>1, LeastNatural
  <2>3. k \in 0 .. n /\ ~Good(k)
    BY <2>2
  <2>4. k # 0
    BY <1>10, <2>3 DEF SameBut
  <2>5. k \in 1 .. n /\ k - 1 \in 0 .. n /\ ~(k <= k - 1) /\ k \in 1 .. (n + 1) /\ k # n + 1
    BY <2>3, <2>4
  <2>6. Good(k - 1)
    BY <2>2, <2>5
  <2>7. PICK r, t : r = g[k - 1] /\ t = g[k]
    OBVIOUS
  <2>8. SameBut(r, q, "containers") /\ Staged(port, r.containers, p.containers, c, k - 1)
    BY <2>6, <2>7
  <2>9. t = Apply(r, seqs[k])
    BY <1>10, <2>5, <2>7
  <2>10. /\ IsPod(r) /\ IsFcn(r.containers) /\ k \in DOMAIN r.containers
         /\ r.containers[k] = p.containers[k]
    BY <1>1, <2>5, <2>8 DEF SameBut, Staged
  <2>11. PICK d : EnvSet(t, r, k, d) /\ EnvDone(port, p.containers[k].env, d)
    BY <1>5, <2>5, <2>9, <2>10
  <2>12. SameBut(t, q, "containers")
    BY <2>8, <2>11 DEF SameBut, EnvSet
  <2>13. Staged(port, t.containers, p.containers, c, k)
    <3>1. IsFcn(t.containers) /\ DOMAIN t.containers = 1 .. (n + 1)
            /\ DOMAIN r.containers = 1 .. (n + 1)
      BY <1>1, <2>8, <2>11 DEF EnvSet, Staged
    <3>2. \A j \in 1 .. (n + 1) : j # k => t.containers[j] = r.containers[j]
      BY <2>11, <3>1 DEF EnvSet
    <3>3. /\ t.containers[k].name = p.containers[k].name
          /\ t.containers[k].env = d
      BY <2>10, <2>11 DEF EnvSet
    <3>4. t.containers[n + 1] = c
      BY <1>1, <2>5, <2>8, <3>2 DEF Staged
    <3>5. ASSUME NEW j \in 1 .. n
          PROVE  IF j <= k
                 THEN t.containers[j].name = p.containers[j].name
                      /\ EnvDone(port, p.containers[j].env, t.containers[j].env)
                 ELSE t.containers[j] = p.containers[j]
      <4>1. CASE j = k
        BY <2>5, <2>11, <3>3, <4>1
      <4>2. CASE j # k
        <5>1. j \in 1 .. (n + 1) /\ (j <= k <=> j <= k - 1)
          BY <2>5, <4>2
        <5>2. t.containers[j] = r.containers[j]
          BY <3>2, <4>2, <5>1
        <5>3. QED
          BY <1>1, <2>8, <5>1, <5>2 DEF Staged
      <4>3. QED
        BY <4>1, <4>2
    <3>6. QED
      BY <1>1, <3>1, <3>4, <3>5 DEF Staged
  <2>14. QED
    BY <2>3, <2>7, <2>12, <2>13
<1>12. n \in 0 .. n
  OBVIOUS
<1>13. Good(n)
  BY <1>11, <1>12
<1> QED BY <1>1, <1>3, <1>8, <1>9, <1>13

\* q is p with all that buildPatches adds.
Patched(port, q, p) ==
    /\ IsPod(q)
    /\ \A f \in PodFields \ {"annotations", "volumes", "containers"} : q[f] = p[f]
    /\ Staged(port, q.containers, p.containers, Sidecar(port, p), Len(p.containers))
    /\ NotesDone(port, p.annotations, q.annotations)
    /\ OwnVolumes(q) = Mounts(p)

(* buildPatches makes a patch that applies to every pod the API server may  *)
(* send, and adds all that it is to add, for every order of Go's ranges     *)
(* over maps.                                                               *)
LEMMA PatchApplies ==
    ASSUME Apart, NEW p, IsPod(p), ContainersOK(p.containers),
           p.volumes # Absent => IsSeq(p.volumes), NEW port, NEW order \in Orders(p)
    PROVE  Patched(port, Apply(p, buildPatches(port, p, order)), p)
<1>1. PICK c, o, f : /\ c = Sidecar(port, p) /\ o = <<Op("containers/-", 0, c)>>
                     /\ f = FlattenSeq([i \in DOMAIN p.containers |-> EnvOps(port, p, i, order[i])])
  OBVIOUS
<1>2. PICK v, a : v = VolumeOps(p) /\ a = AnnotationOps(port, p)
  OBVIOUS
<1>3. buildPatches(port, p, order) = ((v \o o) \o f) \o a
  BY <1>1, <1>2, Zenon DEF buildPatches
<1>4. PICK q1 : q1 = Apply(p, v)
  OBVIOUS
<1>5. IsSeq(v) /\ SameBut(q1, p, "volumes") /\ OwnVolumes(q1) = Mounts(p)
  BY <1>2, <1>4, VolumesPatched
<1>6. IsPod(q1) /\ q1.containers = p.containers /\ q1.annotations = p.annotations
  BY <1>5 DEF SameBut, PodFields
<1>7. PICK q2 : q2 = Apply(q1, o)
  OBVIOUS
<1>8. SameBut(q2, q1, "containers") /\ q2.containers = Append(p.containers, c)
  BY <1>1, <1>6, <1>7, SidecarPatched DEF ContainersOK
<1>9. Staged(port, q2.containers, p.containers, c, 0)
  <2>1. IsSeq(p.containers)
    BY DEF ContainersOK
  <2>2. PICK t : t = Append(p.containers, c)
    OBVIOUS
  <2>3. /\ IsFcn(t) /\ Len(p.containers) \in Nat
        /\ DOMAIN t = 1 .. (Len(p.containers) + 1)
        /\ \A i \in 1 .. Len(p.containers) : t[i] = p.containers[i]
        /\ t[Len(p.containers) + 1] = c
    BY <2>1, <2>2, Appended
  <2>4. \A i \in 1 .. Len(p.containers) : ~(i <= 0)
    BY <2>3
  <2>5. Staged(port, t, p.containers, c, 0)
    BY <2>3, <2>4 DEF Staged
  <2>6. QED
    BY <1>8, <2>2, <2>5
<1>10. PICK q3 : q3 = Apply(q2, f)
  OBVIOUS
<1>11. IsPod(q2)
  BY <1>8 DEF SameBut
<1>12. /\ IsSeq(f) /\ SameBut(q3, q2, "containers")
       /\ Staged(port, q3.containers, p.containers, c, Len(p.containers))
  BY <1>1, <1>9, <1>10, <1>11, AllEnvsPatched
<1>13. IsPod(q3) /\ q3.annotations = p.annotations
  BY <1>6, <1>8, <1>12 DEF SameBut, PodFields
<1>14. PICK q4 : q4 = Apply(q3, a)
  OBVIOUS
<1>15. /\ IsSeq(a) /\ SameBut(q4, q3, "annotations")
       /\ NotesDone(port, p.annotations, q4.annotations)
  BY <1>2, <1>13, <1>14, AnnotationsPatched
<1>16. IsSeq(o)
  BY <1>1, OneIsSeq
<1>17. IsSeq(v \o o) /\ Apply(p, v \o o) = q2
  BY <1>4, <1>5, <1>7, <1>16, Concat
<1>18. IsSeq((v \o o) \o f) /\ Apply(p, (v \o o) \o f) = q3
  BY <1>10, <1>12, <1>17, Concat
<1>19. Apply(p, ((v \o o) \o f) \o a) = q4
  BY <1>14, <1>15, <1>18, Concat
<1>20. q4.containers = q3.containers /\ q4.volumes = q1.volumes
  BY <1>8, <1>12, <1>15 DEF SameBut, PodFields
<1>21. \A x \in PodFields \ {"annotations", "volumes", "containers"} : q4[x] = p[x]
  BY <1>5, <1>8, <1>12, <1>15 DEF SameBut
<1>22. OwnVolumes(q4) = Mounts(p)
  BY <1>5, <1>20 DEF OwnVolumes
<1>23. Patched(port, q4, p)
  BY <1>1, <1>12, <1>15, <1>20, <1>21, <1>22 DEF Patched, SameBut
<1> QED BY <1>3, <1>19, <1>23

-----------------------------------------------------------------------------
(* Admission *)

\* A pod that the webhook may be sent for the first time.
Usable(p) ==
    /\ IsPod(p) /\ ContainersOK(p.containers)
    /\ p.volumes # Absent => IsSeq(p.volumes)
    /\ \A i \in DOMAIN p.containers : p.containers[i].name # "koshi-listener"

(* A template is such a pod. *)
LEMMA SubmittableUsable == ASSUME NEW p, Submittable(p) PROVE Usable(p)
<1>1. /\ p = [f \in PodFields |-> p[f]]
      /\ p.volumes # Absent => p.volumes \in Seq(RangeOf(p.volumes))
      /\ p.containers \in Seq(RangeOf(p.containers))
      /\ \A c \in RangeOf(p.containers) :
            /\ DOMAIN c = {"name", "env"} /\ c.name # "koshi-listener"
            /\ c.env # Absent => \A n \in DOMAIN c.env : c.env[n] # Absent
  BY Zenon DEF Submittable
<1>2. DOMAIN p = PodFields
  BY <1>1, Zenon
<1>3. IsPod(p)
  BY <1>1, <1>2, Zenon DEF IsPod, IsFcn
<1>4. \A i \in DOMAIN p.containers : p.containers[i] \in RangeOf(p.containers)
  BY Zenon DEF RangeOf
<1>5. ContainersOK(p.containers)
  BY <1>1, <1>4 DEF ContainersOK, ContainerFields, EnvOK, IsSeq
<1>6. QED
  BY <1>1, <1>3, <1>4, <1>5 DEF Usable, IsSeq

(* It has no sidecar. *)
LEMMA NotInjectedYet == ASSUME NEW p, Usable(p) PROVE ~HasSidecar(p)
BY DEF Usable, HasSidecar

(* The sidecar has the name that HandleMutate looks for. *)
LEMMA SidecarName == ASSUME NEW port, NEW p PROVE Sidecar(port, p).name = "koshi-listener"
<1>1. PICK e : Sidecar(port, p) = [name |-> "koshi-listener", env |-> e]
  BY Zenon DEF Sidecar
<1>2. QED
  BY <1>1

(* A patched pod has exactly one sidecar more than its author's, and it is  *)
(* the container that the kubelet starts.                                   *)
LEMMA PatchedInjected ==
    ASSUME Apart, NEW p, Usable(p), NEW port, NEW q, Patched(port, q, p)
    PROVE  /\ HasSidecar(q) /\ SidecarEnv(q) = Sidecar(port, p).env
           /\ Len(q.containers) = Len(p.containers) + 1
           /\ q # NoPod /\ q # Unpatchable
<1>1. PICK n \in Nat : n = Len(p.containers) /\ DOMAIN p.containers = 1 .. n
  BY SeqIsSeq DEF Usable, ContainersOK, IsSeq
<1>2. PICK c : c = Sidecar(port, p)
  OBVIOUS
<1>3. c.name = "koshi-listener"
  BY <1>2, SidecarName
<1>4. PICK cs : cs = q.containers
  OBVIOUS
<1>5. /\ IsFcn(cs) /\ DOMAIN cs = 1 .. (n + 1) /\ cs[n + 1] = c
      /\ \A j \in 1 .. n : cs[j].name = p.containers[j].name
  BY <1>1, <1>2, <1>4 DEF Patched, Staged
<1>6. \A j \in 1 .. n : cs[j].name # "koshi-listener"
  BY <1>1, <1>5 DEF Usable
<1>7. n + 1 \in 1 .. (n + 1) /\ \A j \in 1 .. (n + 1) : j = n + 1 \/ j \in 1 .. n
  BY <1>1
<1>8. HasSidecar(q)
  BY <1>3, <1>4, <1>5, <1>7 DEF HasSidecar
<1>9. SidecarEnv(q) = c.env
  <2> DEFINE S == {cs[i] : i \in DOMAIN cs}
  <2>1. c \in S /\ \A x \in S : x.name = "koshi-listener" => x = c
    BY <1>5, <1>6, <1>7
  <2>2. (CHOOSE x \in S : x.name = "koshi-listener") = c
    BY <1>3, <2>1
  <2>3. QED
    BY <1>4, <2>2 DEF SidecarEnv
<1>10. Len(cs) = n + 1
  BY <1>1, <1>5, FcnIsSeq
<1>11. QED
  BY <1>1, <1>2, <1>4, <1>8, <1>9, <1>10, PodApart DEF Patched

(* What the API server stores for a pod that comes from its author. *)
LEMMA OutcomesOf ==
    ASSUME Apart, NEW p, Usable(p), NEW q \in Outcomes(p)
    PROVE  q = p \/ Patched(InjectedPort, q, p)
<1>1. q = p \/ \E d \in BOOLEAN : \E patch \in HandleMutate(InjectedPort, p, d)
        : q = Apply(p, patch)
  BY Zenon DEF Outcomes
<1>2. ASSUME NEW d \in BOOLEAN, NEW patch \in HandleMutate(InjectedPort, p, d), q = Apply(p, patch)
      PROVE  q = p \/ Patched(InjectedPort, q, p)
  <2>1. patch = <<>> \/ \E order \in Orders(p) : patch = buildPatches(InjectedPort, p, order)
    BY <1>2, Zenon DEF HandleMutate
  <2>2. CASE patch = <<>>
    BY <1>2, <2>2, ApplyEmpty
  <2>3. ASSUME NEW order \in Orders(p), patch = buildPatches(InjectedPort, p, order)
        PROVE  Patched(InjectedPort, q, p)
    BY <1>2, <2>3, PatchApplies DEF Usable
  <2>4. QED
    BY <2>1, <2>2, <2>3
<1>3. QED
  BY <1>1, <1>2

(* A pod that has a sidecar is stored as it is (HandleMutate's              *)
(* idempotency).                                                            *)
LEMMA OutcomesOfInjected ==
    ASSUME NEW p, HasSidecar(p), NEW q \in Outcomes(p)
    PROVE  q = p
<1>1. q = p \/ \E d \in BOOLEAN : \E patch \in HandleMutate(InjectedPort, p, d)
        : q = Apply(p, patch)
  BY Zenon DEF Outcomes
<1>2. \A d \in BOOLEAN : HandleMutate(InjectedPort, p, d) = {<<>>}
  BY Zenon DEF HandleMutate, Skips
<1>3. QED
  BY <1>1, <1>2, ApplyEmpty, Zenon

\* What the environment of p's sidecar says.
EnvFor(port, p, e) ==
    /\ e.KOSHI_LISTEN_ADDR = port
    /\ InPod(e) /\ HasWorkload(e)
    /\ PodID(e) = <<p.namespace, Workload(p).kind, Workload(p).name>>
    /\ WantedMode(e) = "enforcement" <=> Annotation(p, "mode") = "enforcement"
    /\ e.KOSHI_MODE = IF Annotation(p, "mode") = "enforcement" THEN "enforcement" ELSE ""
    /\ e.KOSHI_POLICY_OVERRIDE = Annotation(p, "policy")
    /\ ~HasConfig(p) => e.KOSHI_CONFIG_PATH = ""

\* What NormalizeOwner is sure to return.
Known(o) == DOMAIN o = {"kind", "name"} /\ o.kind # "" /\ o.name # <<>>

(* A name of several parts has something left without its last one. *)
LEMMA FrontLeft ==
    ASSUME NEW s, IsSeq(s), Len(s) > 1
    PROVE  Front(s) # <<>>
<1>1. Len(s) \in Nat /\ \A i \in 1 .. (Len(s) - 1) : s[i] \in RangeOf(s)
  BY SeqIsSeq DEF IsSeq, RangeOf
<1>2. Len(SubSeq(s, 1, Len(s) - 1)) = Len(s) - 1
  BY <1>1, SubSeqProperties
<1>3. PICK t : t = Front(s)
  OBVIOUS
<1>4. Len(t) = Len(s) - 1
  BY <1>2, <1>3, Zenon DEF Front
<1>5. Len(t) # 0 /\ Len(<<>>) = 0
  BY <1>1, <1>4
<1>6. QED
  BY <1>3, <1>5, Zenon

(* NormalizeOwner never cuts an owner's name down to nothing. *)
LEMMA OwnerKnown ==
    ASSUME NEW p, Submittable(p), p.owner # NoOwner
    PROVE  Known(NormalizeOwner(p.owner, p.hash, p.name))
<1>1. /\ DOMAIN p.owner = {"kind", "name"} /\ p.owner.kind # ""
      /\ p.owner.name \in Seq(RangeOf(p.owner.name)) /\ p.owner.name # <<>>
  BY Zenon DEF Submittable
<1>2. PICK a, s : a = NormalizeOwner(p.owner, p.hash, p.name) /\ s = Front(p.owner.name)
  OBVIOUS
<1>3. \/ a = p.owner
      \/ a = [kind |-> "Deployment", name |-> s] /\ Len(p.owner.name) > 1
  BY <1>2, Zenon DEF NormalizeOwner
<1>4. CASE a = p.owner
  BY <1>1, <1>2, <1>4, Zenon DEF Known
<1>5. CASE a = [kind |-> "Deployment", name |-> s] /\ Len(p.owner.name) > 1
  <2>1. s # <<>>
    BY <1>1, <1>2, <1>5, FrontLeft, Zenon DEF IsSeq
  <2>2. DOMAIN a = {"kind", "name"} /\ a.kind = "Deployment" /\ a.name = s
    BY <1>5, SMT
  <2>3. "Deployment" # ""
    BY Zenon
  <2>4. QED
    BY <1>2, <2>1, <2>2, <2>3, Zenon DEF Known
<1>6. QED
  BY <1>3, <1>4, <1>5

(* The webhook always has a kind and a name for the workload: a pod without *)
(* an owner and a name goes by the prefix of its name.                      *)
LEMMA WorkloadKnown ==
    ASSUME NEW p, Submittable(p)
    PROVE  Workload(p).kind # "" /\ Workload(p).name # <<>>
<1>1. p.name # <<>> \/ TrimDash(p.generateName) # <<>>
  BY Zenon DEF Submittable
<1>2. PICK o, t : o = NormalizeOwner(p.owner, p.hash, p.name) /\ t = TrimDash(p.generateName)
  OBVIOUS
<1>3. p.generateName = <<>> => t = <<>>
  BY <1>2, Zenon DEF TrimDash
<1>4. /\ DOMAIN o = {"kind", "name"} /\ o.kind # ""
      /\ o.name # <<>> \/ (p.name = <<>> /\ o.kind = "Pod")
  <2>1. CASE p.owner = NoOwner
    <3>1. o = [kind |-> "Pod", name |-> p.name]
      BY <1>2, <2>1, Zenon DEF NormalizeOwner
    <3>2. DOMAIN o = {"kind", "name"} /\ o.kind = "Pod" /\ o.name = p.name
      BY <3>1, SMT
    <3>3. "Pod" # ""
      BY Zenon
    <3>4. QED
      BY <3>2, <3>3, Zenon
  <2>2. CASE p.owner # NoOwner
    BY <1>2, <2>2, OwnerKnown, Zenon DEF Known
  <2>3. QED
    BY <2>1, <2>2
<1>5. PICK w : w = Workload(p)
  OBVIOUS
<1>6. CASE p.name = <<>> /\ p.generateName # <<>> /\ o.kind = "Pod"
  <2>1. w = [o EXCEPT !.name = t]
    BY <1>2, <1>5, <1>6, Zenon DEF Workload
  <2>2. DOMAIN o = {"kind", "name"}
    BY <1>4, Zenon
  <2>3. w.kind = o.kind /\ w.name = t
    BY <2>1, <2>2, SMT
  <2>4. QED
    BY <1>1, <1>2, <1>4, <1>5, <1>6, <2>3, Zenon
<1>7. CASE ~(p.name = <<>> /\ p.generateName # <<>> /\ o.kind = "Pod")
  <2>1. w = o
    BY <1>2, <1>5, <1>7, Zenon DEF Workload
  <2>2. QED
    BY <1>1, <1>2, <1>3, <1>4, <1>5, <1>7, <2>1, Zenon
<1>8. QED
  BY <1>6, <1>7

(* The sidecar's variables, as buildPatches sets them, say this. *)
LEMMA SidecarFields ==
    ASSUME NEW p, Submittable(p), NEW port
    PROVE  EnvFor(port, p, Sidecar(port, p).env)
<1>1. PICK name, mode, policyID, path :
         /\ name = IF p.name = <<>> THEN p.generateName ELSE p.name
         /\ mode = ModeVar(p) /\ policyID = Annotation(p, "policy")
         /\ path = IF Annotation(p, "configmap") = "" THEN "" ELSE "/etc/koshi-sidecar/config.yaml"
  BY Zenon
<1>2. PICK ns, w, wk, wn : ns = p.namespace /\ w = Workload(p) /\ wk = w.kind /\ wn = w.name
  OBVIOUS
<1>3. Sidecar(port, p) =
        [name |-> "koshi-listener",
         env |-> [KOSHI_LISTEN_ADDR |-> port, KOSHI_POD_NAMESPACE |-> ns,
                  KOSHI_WORKLOAD_KIND |-> wk, KOSHI_WORKLOAD_NAME |-> wn,
                  KOSHI_POD_NAME |-> name, KOSHI_MODE |-> mode,
                  KOSHI_POLICY_OVERRIDE |-> policyID, KOSHI_CONFIG_PATH |-> path]]
  BY <1>1, <1>2, Zenon DEF Sidecar
<1>4. PICK e : e = Sidecar(port, p).env
  OBVIOUS
<1>5. /\ e.KOSHI_LISTEN_ADDR = port /\ e.KOSHI_POD_NAMESPACE = ns
      /\ e.KOSHI_WORKLOAD_KIND = wk /\ e.KOSHI_WORKLOAD_NAME = wn
      /\ e.KOSHI_MODE = mode /\ e.KOSHI_POLICY_OVERRIDE = policyID
      /\ e.KOSHI_CONFIG_PATH = path
  BY <1>3, <1>4, SMT
<1>6. wk # "" /\ wn # <<>>
  BY <1>2, WorkloadKnown, Zenon
<1>7. ns # ""
  BY <1>2, Zenon DEF Submittable
<1>8. InPod(e) /\ HasWorkload(e)
  BY <1>5, <1>6, <1>7, Zenon DEF InPod, HasWorkload
<1>9. mode = IF Annotation(p, "mode") = "enforcement" THEN "enforcement" ELSE ""
  BY <1>1, Zenon DEF ModeVar
<1>10. WantedMode(e) = "enforcement" <=> Annotation(p, "mode") = "enforcement"
  <2>1. "listener" # "enforcement" /\ "" # "enforcement"
    BY Zenon
  <2>2. CASE Annotation(p, "mode") = "enforcement"
    BY <1>5, <1>9, <2>2, Zenon DEF WantedMode
  <2>3. CASE Annotation(p, "mode") # "enforcement"
    BY <1>5, <1>9, <2>1, <2>3, Zenon DEF WantedMode
  <2>4. QED
    BY <2>2, <2>3
<1>11. ~HasConfig(p) => path = ""
  BY <1>1, Zenon DEF HasConfig
<1>12. PodID(e) = <<p.namespace, Workload(p).kind, Workload(p).name>>
  BY <1>2, <1>5, Zenon DEF PodID
<1>13. QED
  BY <1>1, <1>4, <1>5, <1>8, <1>9, <1>10, <1>11, <1>12, Zenon DEF EnvFor

-----------------------------------------------------------------------------
\* The pod is the author's, or has all of the patch.
PodInv ==
    IF origin = NoPod THEN pod = NoPod
    ELSE /\ origin \in Templates
         /\ pod = Author \/ Patched(InjectedPort, pod, Author)

\* A process in a pod is its sidecar, started with what its container says.
WiredInv == pod # NoPod /\ proc # NoProc => Injected(pod) /\ env = SidecarEnv(pod)

(* There is no pod in the initial state. *)
LEMMA PodInvInit == ClusterInit => PodInv /\ WiredInv
BY DEF ClusterInit, PodInv, WiredInv

(* A pod is stored as its author made it or with the whole patch, and stays *)
(* so when it is exported and created again.                                *)
LEMMA PodInvStep == ASSUME Apart PROVE PodInv /\ [ClusterNext]_vars => PodInv'
<1> SUFFICES ASSUME PodInv, [ClusterNext]_vars PROVE PodInv'
  OBVIOUS
<1>1. ASSUME NEW t \in Templates, Admit(t) PROVE PodInv'
  <2>1. Usable(t.pod) /\ t # NoPod
    BY SubmittableUsable, TemplateAssumption
  <2>2. origin' = t /\ pod' \in Outcomes(t.pod)
    BY <1>1, Zenon DEF Admit
  <2>3. pod' = t.pod \/ Patched(InjectedPort, pod', t.pod)
    BY <2>1, <2>2, OutcomesOf
  <2>4. QED
    BY <2>1, <2>2, <2>3 DEF PodInv, Author
<1>2. CASE Resubmit
  <2>1. origin' = origin /\ pod # NoPod /\ pod' \in Outcomes(pod)
    BY <1>2, Zenon DEF Resubmit
  <2>2. origin \in Templates /\ origin # NoPod
    BY <2>1 DEF PodInv
  <2>3. Usable(Author)
    BY <2>2, SubmittableUsable, TemplateAssumption DEF Author
  <2>4. CASE pod = Author
    <3>1. pod' = Author \/ Patched(InjectedPort, pod', Author)
      BY <2>1, <2>3, <2>4, OutcomesOf
    <3>2. QED
      BY <2>1, <2>2, <3>1 DEF PodInv, Author
  <2>5. CASE Patched(InjectedPort, pod, Author)
    <3>1. pod' = pod
      BY <2>1, <2>3, <2>5, PatchedInjected, OutcomesOfInjected
    <3>2. QED
      BY <2>1, <2>2, <2>5, <3>1 DEF PodInv, Author
  <2>6. QED
    BY <2>2, <2>4, <2>5 DEF PodInv
<1>3. CASE Evict
  BY <1>3, Zenon DEF Evict, PodInv
<1>4. CASE UNCHANGED <<origin, pod>>
  BY <1>4 DEF PodInv, Author
<1>5. CASE Stop
  BY <1>4, <1>5, Zenon DEF Stop
<1>6. CASE CertNext /\ UNCHANGED podVars
  BY <1>4, <1>6, Zenon DEF podVars
<1>7. ASSUME NEW f \in SidecarFiles \cup {NoConfig}, StartSidecar(f) PROVE PodInv'
  BY <1>4, <1>7, Zenon DEF StartSidecar
<1>8. ASSUME NEW f \in StandaloneFiles \cup {NoConfig}, StartStandalone(f) PROVE PodInv'
  BY <1>4, <1>8, Zenon DEF StartStandalone
<1>9. CASE UNCHANGED vars
  BY <1>4, <1>9, Zenon DEF vars
<1>10. QED
  BY <1>1, <1>2, <1>3, <1>5, <1>6, <1>7, <1>8, <1>9 DEF ClusterNext

(* Only the kubelet starts a process in a pod, and with its sidecar's       *)
(* variables.                                                               *)
LEMMA WiredInvStep == WiredInv /\ [ClusterNext]_vars => WiredInv'
<1> SUFFICES ASSUME WiredInv, [ClusterNext]_vars PROVE WiredInv'
  OBVIOUS
<1>1. CASE UNCHANGED <<pod, env, proc>>
  BY <1>1 DEF WiredInv, NoProc, Injected, HasSidecar, SidecarEnv
<1>2. CASE proc' = NoProc
  BY <1>2 DEF WiredInv, NoProc
<1>3. CASE pod' = NoPod
  BY <1>3 DEF WiredInv
<1>4. CASE CertNext /\ UNCHANGED podVars
  BY <1>1, <1>4, Zenon DEF podVars
<1>5. ASSUME NEW t \in Templates, Admit(t) PROVE WiredInv'
  BY <1>2, <1>5, Zenon DEF Admit
<1>6. CASE Resubmit \/ Evict \/ Stop
  BY <1>2, <1>6, Zenon DEF Resubmit, Evict, Stop
<1>7. ASSUME NEW f \in SidecarFiles \cup {NoConfig}, StartSidecar(f) PROVE WiredInv'
  <2>1. pod' = pod /\ pod \notin {NoPod, Unpatchable} /\ HasSidecar(pod) /\ env' = SidecarEnv(pod)
    BY <1>7, Zenon DEF StartSidecar
  <2>2. QED
    BY <2>1, Zenon DEF WiredInv, Injected, HasSidecar, SidecarEnv
<1>8. ASSUME NEW f \in StandaloneFiles \cup {NoConfig}, StartStandalone(f) PROVE WiredInv'
  BY <1>3, <1>8, Zenon DEF StartStandalone
<1>9. CASE UNCHANGED vars
  BY <1>1, <1>9, Zenon DEF vars
<1>10. QED
  BY <1>4, <1>5, <1>6, <1>7, <1>8, <1>9 DEF ClusterNext

-----------------------------------------------------------------------------
(* Properties of the pod *)

(* What the invariant says of a pod that has a sidecar. *)
LEMMA OriginKnown ==
    ASSUME Apart
    PROVE  PodInv =>
              /\ pod # NoPod => origin \in Templates /\ Submittable(Author) /\ Usable(Author)
              /\ origin = NoPod <=> pod = NoPod
              /\ Injected(pod) => Patched(InjectedPort, pod, Author)
              /\ pod # Unpatchable
<1> SUFFICES ASSUME PodInv
             PROVE  /\ pod # NoPod => origin \in Templates /\ Submittable(Author) /\ Usable(Author)
                    /\ origin = NoPod <=> pod = NoPod
                    /\ Injected(pod) => Patched(InjectedPort, pod, Author)
                    /\ pod # Unpatchable
  OBVIOUS
<1>1. CASE origin = NoPod
  BY <1>1 DEF PodInv, Injected, Apart
<1>2. CASE origin # NoPod
  <2>1. origin \in Templates /\ (pod = Author \/ Patched(InjectedPort, pod, Author))
    BY <1>2 DEF PodInv
  <2>2. Submittable(Author) /\ Usable(Author)
    BY <2>1, SubmittableUsable, TemplateAssumption DEF Author
  <2>3. IsPod(pod)
    BY <2>1, <2>2 DEF Usable, Patched
  <2>4. pod # NoPod /\ pod # Unpatchable
    BY <2>3, PodApart
  <2>5. QED
    BY <1>2, <2>1, <2>2, <2>4, NotInjectedYet DEF Injected
<1>3. QED
  BY <1>1, <1>2

(* HandleMutate adds one container, once. *)
LEMMA OneSidecarHolds == ASSUME Apart PROVE PodInv => OneSidecar
BY OriginKnown, PatchedInjected DEF OneSidecar, Injected

(* The volumes as InjectionComplete writes them. *)
LEMMA MountsConcat ==
    ASSUME NEW p, p.volumes # Absent => IsSeq(p.volumes)
    PROVE  Mounts(p) = OwnVolumes(p) \o (IF Annotation(p, "configmap") = "" THEN <<>>
                                         ELSE <<[name |-> ConfigVolume,
                                                 configMap |-> Annotation(p, "configmap")]>>)
<1>1. PICK o, x : o = OwnVolumes(p) /\ x = ConfigEntry(p)
  OBVIOUS
<1>2. IsSeq(o)
  BY <1>1, OneIsSeq DEF OwnVolumes
<1>3. o \o <<>> = o /\ Append(o, x) = o \o <<x>>
  <2>1. PICK S : S = RangeOf(o) \cup {x}
    OBVIOUS
  <2>2. o \in Seq(S) /\ x \in S
    <3>1. RangeOf(o) \subseteq S
      BY <2>1
    <3>2. QED
      BY <1>2, <2>1, <3>1, SeqMonotonic DEF IsSeq
  <2>3. QED
    BY <2>2, AppendIsConcat, ConcatEmptySeq
<1>4. CASE HasConfig(p)
  BY <1>1, <1>3, <1>4, Zenon DEF HasConfig, Mounts, ConfigEntry
<1>5. CASE ~HasConfig(p)
  BY <1>1, <1>3, <1>5, Zenon DEF HasConfig, Mounts
<1>6. QED
  BY <1>4, <1>5

(* A pod with a sidecar has all of the patch. *)
LEMMA InjectionCompleteHolds == ASSUME Apart PROVE PodInv => InjectionComplete
<1> SUFFICES ASSUME PodInv PROVE InjectionComplete
  OBVIOUS
<1>1. pod # Unpatchable
  BY OriginKnown
<1>2. CASE ~Injected(pod)
  BY <1>1, <1>2, Zenon DEF InjectionComplete
<1>3. CASE Injected(pod)
  <2>1. Usable(Author) /\ Patched(InjectedPort, pod, Author)
    BY <1>3, OriginKnown DEF Injected
  <2>2. DOMAIN Author.containers = 1 .. Len(Author.containers) /\ Len(Author.containers) \in Nat
    BY <2>1, SeqIsSeq DEF Usable, ContainersOK, IsSeq
  <2>3. \A i \in DOMAIN Author.containers :
           EnvDone(InjectedPort, Author.containers[i].env, pod.containers[i].env)
    BY <2>1, <2>2 DEF Patched, Staged
  <2>4. Author.annotations # Absent =>
              \A k \in DOMAIN Author.annotations \ {"scrape", "port", "path"} :
                  pod.annotations[k] = Author.annotations[k]
    BY <2>1 DEF Patched, NotesDone
  <2>5. OwnVolumes(pod) = Mounts(Author)
    BY <2>1 DEF Patched
  <2>6. Author.volumes # Absent => IsSeq(Author.volumes)
    BY <2>1 DEF Usable
  <2>7. OwnVolumes(pod) = OwnVolumes(Author)
                  \o (IF Annotation(Author, "configmap") = "" THEN <<>>
                      ELSE <<[name |-> ConfigVolume,
                              configMap |-> Annotation(Author, "configmap")]>>)
    BY <2>5, <2>6, MountsConcat, Zenon
  <2>8. QED
    BY <1>1, <2>3, <2>4, <2>7, Zenon DEF InjectionComplete, EnvDone, OwnVolumes
<1>4. QED
  BY <1>2, <1>3

-----------------------------------------------------------------------------
(* Properties of the sidecar's process *)

\* A sidecar serves with configuration c.
Runs(c) ==
    /\ Selected(env, c) /\ Told(env, c) /\ ~WireFails(env, c)
    /\ proc.setup = Wire(env, c)
    /\ EnvFor(InjectedPort, Author, env)
    /\ Patched(InjectedPort, pod, Author)

(* A sidecar that serves has the configuration that its pod's annotations   *)
(* ask for.                                                                 *)
LEMMA SidecarRuns ==
    ASSUME Apart
    PROVE  PodInv /\ WiredInv /\ ProcInv /\ SidecarServes => \E c : Runs(c)
<1> SUFFICES ASSUME PodInv, WiredInv, ProcInv, SidecarServes PROVE \E c : Runs(c)
  OBVIOUS
<1>1. proc # NoProc /\ pod # NoPod /\ Serving
  BY DEF SidecarServes, Serving, NoProc
<1>2. Injected(pod) /\ env = SidecarEnv(pod)
  BY <1>1 DEF WiredInv
<1>3. Submittable(Author) /\ Usable(Author) /\ Patched(InjectedPort, pod, Author)
  BY <1>1, <1>2, OriginKnown
<1>4. EnvFor(InjectedPort, Author, env)
  BY <1>2, <1>3, PatchedInjected, SidecarFields
<1>5. PICK f \in Files : proc = Start(env, f)
  BY <1>1 DEF ProcInv
<1>6. PICK c : c = SelectConfig(env, f)
  OBVIOUS
<1>7. c # NoConfig /\ ~WireFails(env, c) /\ proc.setup = Wire(env, c)
  BY <1>1, <1>5, <1>6 DEF Start, Stopped, Serving
<1>8. InPod(env)
  BY <1>4, Zenon DEF EnvFor
<1>9. Selected(env, c) /\ Told(env, c)
  BY <1>6, <1>7, <1>8, SelectSelected
<1>10. QED
  BY <1>3, <1>4, <1>7, <1>9 DEF Runs

(* Its mode is the annotation's. *)
LEMMA ModeHolds == ASSUME NEW c PROVE Runs(c) => ModeHonoured
<1> SUFFICES ASSUME Runs(c) PROVE ModeHonoured
  OBVIOUS
<1>1. proc.setup.mode = c.mode
  BY DEF Wire, Runs
<1>2. c.mode = WantedMode(env)
  BY DEF Runs, Told
<1>3. WantedMode(env) = "enforcement" <=> Annotation(Author, "mode") = "enforcement"
  BY Zenon DEF Runs, EnvFor
<1>4. QED
  BY <1>1, <1>2, <1>3, Zenon DEF ModeHonoured

(* It listens on the port that the injector gave it. *)
LEMMA PortHolds == ASSUME NEW c PROVE Runs(c) => PortAgrees
<1> SUFFICES ASSUME Runs(c) PROVE PortAgrees
  OBVIOUS
<1>1. proc.setup.listenAddr = resolveListenAddr(c.listenAddr, env.KOSHI_LISTEN_ADDR)
  BY DEF Wire, Runs
<1>2. env.KOSHI_LISTEN_ADDR = InjectedPort
  BY Zenon DEF Runs, EnvFor
<1>3. pod.annotations["port"] = InjectedPort
  BY DEF Runs, Patched, NotesDone
<1>4. QED
  BY <1>1, <1>2, <1>3, TemplateAssumption DEF PortAgrees, resolveListenAddr

(* A policy that is looked up by its ID has this ID. *)
LEMMA ByID ==
    ASSUME NEW c, NEW n \in PolicyIDs(c)
    PROVE  PolicyByID(c, n) \in RangeOf(c.policies) /\ PolicyByID(c, n).id = n
BY DEF PolicyIDs, PolicyByID

(* The map engine's table of a process that made up its own workload holds  *)
(* the policy that was asked for.                                           *)
LEMMA OwnEngine ==
    ASSUME NEW e, NEW c, PodIdentity(e) = PodID(e), OwnPolicy(e, c)
    PROVE  /\ DOMAIN MapEngine(c) = {PodID(e)} /\ Resolver(c) = "pod"
           /\ MapEngine(c)[PodID(e)] = PolicyByID(c, WantedPolicy(e))
           /\ \A w \in RangeOf(c.workloads) : w.id = PodID(e)
<1>1. PICK id : id = WantedPolicy(e)
  OBVIOUS
<1>2. PICK key : c.workloads = <<OwnWorkload(e, key, id)>>
  BY <1>1 DEF OwnPolicy
<1>3. ForPod(e, c)
  BY <1>1, <1>2 DEF ForPod, OwnPolicy
<1>4. PICK w : w = OwnWorkload(e, key, id)
  OBVIOUS
<1>5. w.id = PodID(e) /\ w.refs = <<id>>
  BY <1>4 DEF OwnWorkload
<1>6. RangeOf(c.workloads) = {w}
  BY <1>2, <1>4 DEF RangeOf
<1>7. w.refs # <<>> /\ w.refs[1] = id
  BY <1>5
<1>8. id \in PolicyIDs(c)
  BY <1>1 DEF OwnPolicy
<1>9. MapEngine(c)[PodID(e)] = PolicyByID(c, id)
  <2> DEFINE resolved == {x \in RangeOf(c.workloads) :
                             x.refs # <<>> /\ x.refs[1] \in PolicyIDs(c)}
  <2>1. resolved = {w}
    BY <1>6, <1>7, <1>8
  <2>2. (CHOOSE x \in resolved : x.id = PodID(e)) = w
    BY <1>5, <2>1
  <2>3. MapEngine(c)[PodID(e)] = PolicyByID(c, (CHOOSE x \in resolved : x.id = PodID(e)).refs[1])
    BY <1>3, <2>1, <1>5 DEF MapEngine
  <2>4. QED
    BY <1>7, <2>2, <2>3
<1>10. QED
  BY <1>1, <1>3, <1>5, <1>6, <1>9, OwnTable

\* The policy a sidecar is to apply.
ServedPolicy(e) ==
    IF HasOverride(e) THEN e.KOSHI_POLICY_OVERRIDE
    ELSE IF WantedMode(e) = "enforcement" THEN DefaultSidecarPolicyID ELSE "_listener_default"

(* The default policy of a listener without a file. *)
LEMMA DefaultPolicyID ==
    ASSUME NEW c, DefaultOnly(c)
    PROVE  c.default.id = "_listener_default" /\ c.default.window = 3600 /\ IsFcn(c.default)
<1>1. LET l == ListenerPolicy IN l.id = "_listener_default" /\ l.window = 3600 /\ IsFcn(l)
  BY SMT DEF ListenerPolicy, CatalogPolicy, IsFcn
<1>2. QED
  BY <1>1, SMT DEF DefaultOnly

(* Each request to a sidecar is checked against the policy that its         *)
(* environment asks for, whichever of the two engines main set up.          *)
LEMMA OwnLookup ==
    ASSUME Apart, NEW e, NEW c, InPod(e), HasWorkload(e), Selected(e, c), Told(e, c),
           ~WireFails(e, c), NEW s, s = Wire(e, c), NEW h, NEW id, id = IdentityOf(s, e, h)
    PROVE  Lookup(s, id) # NoPolicy /\ Lookup(s, id).id = ServedPolicy(e)
<1>1. /\ s.mode = c.mode /\ s.policies = MapEngine(c) /\ s.default = c.default
      /\ s.strict = c.strict /\ s.resolver = Resolver(c)
      /\ s.override = IF Overridden(e, c) THEN PolicyByID(c, e.KOSHI_POLICY_OVERRIDE) ELSE NoPolicy
  BY DEF Wire
<1>2. Overridden(e, c) <=> c.mode = "listener" /\ HasOverride(e)
  BY Zenon DEF Overridden, HasOverride
<1>3. PodIdentity(e) = PodID(e)
  BY Zenon DEF PodIdentity, InPod
<1>4. \A p \in RangeOf(c.policies) : p # NoPolicy
  BY DEF Selected
<1>5. c.mode = WantedMode(e)
  BY DEF Told
<1>6. CASE c.mode = "listener" /\ HasOverride(e)
  <2>1. e.KOSHI_POLICY_OVERRIDE \in PolicyIDs(c)
    BY <1>2, <1>6 DEF WireFails
  <2>2. s.override = PolicyByID(c, e.KOSHI_POLICY_OVERRIDE)
    BY <1>1, <1>2, <1>6
  <2>3. s.override # NoPolicy /\ s.override.id = e.KOSHI_POLICY_OVERRIDE
    BY <1>4, <2>1, <2>2, ByID
  <2>4. QED
    BY <1>6, <2>3 DEF Lookup, ServedPolicy
<1>7. CASE c.mode = "enforcement" /\ OwnPolicy(e, c)
  <2>1. s.override = NoPolicy
    BY <1>1, <1>2, <1>7
  <2>2. id = PodID(e)
    BY <1>1, <1>3, <1>7, OwnEngine DEF IdentityOf, Resolve
  <2>3. Lookup(s, id) = PolicyByID(c, WantedPolicy(e))
    BY <1>1, <1>3, <1>7, <2>1, <2>2, OwnEngine DEF Lookup
  <2>4. WantedPolicy(e) \in PolicyIDs(c)
    BY <1>7 DEF OwnPolicy
  <2>5. ServedPolicy(e) = WantedPolicy(e)
    BY <1>5, <1>7 DEF ServedPolicy, WantedPolicy
  <2>6. QED
    BY <1>4, <2>3, <2>4, <2>5, ByID
<1>8. CASE DefaultOnly(c) /\ ~HasOverride(e)
  <2>1. c.mode = "listener" /\ c.workloads = <<>> /\ ~c.strict
    BY <1>8, SMT DEF DefaultOnly
  <2>2. c.default.id = "_listener_default" /\ c.default # NoPolicy
    BY <1>8, DefaultPolicyID, SMT DEF Apart
  <2>3. RangeOf(c.workloads) = {}
    BY <2>1, SMT DEF RangeOf
  <2>4. id \notin DOMAIN s.policies
    BY <1>1, <2>3, EngineTable, SMT
  <2>5. Lookup(s, id) = c.default
    <3>1. s.override = NoPolicy
      BY <1>1, <1>2, <1>8, Zenon
    <3>2. ~s.strict /\ s.default = c.default
      BY <1>1, <2>1, Zenon
    <3>3. QED
      BY <2>4, <3>1, <3>2, Zenon DEF Lookup
  <2>6. ServedPolicy(e) = "_listener_default"
    BY <1>5, <1>8, <2>1, SMT DEF ServedPolicy
  <2>7. QED
    BY <2>2, <2>5, <2>6, SMT
<1>9. QED
  <2>1. c.mode \in {"listener", "enforcement"}
    BY DEF Selected, Modes
  <2>2. DefaultOnly(c) => c.mode = "listener"
    BY SMT DEF DefaultOnly
  <2>3. QED
    BY <1>6, <1>7, <1>8, <2>1, <2>2 DEF Told, OwnPolicy

(* This is the policy that the annotations name. *)
LEMMA PolicyHolds == ASSUME Apart, NEW c PROVE Runs(c) => PolicyHonoured
<1> SUFFICES ASSUME Runs(c), NEW id \in Identities
             PROVE  LET annotated == Annotation(Author, "policy")
                        pol == Lookup(proc.setup, id)
                    IN  /\ pol # NoPolicy
                        /\ pol.id = IF annotated # "" THEN annotated
                                    ELSE IF Annotation(Author, "mode") = "enforcement"
                                         THEN DefaultSidecarPolicyID ELSE "_listener_default"
  BY Zenon DEF PolicyHonoured
<1>1. PICK h \in HeaderIDs : id = IdentityOf(proc.setup, env, h)
  BY DEF Identities, IdentityOf
<1>2. /\ InPod(env) /\ HasWorkload(env)
      /\ WantedMode(env) = "enforcement" <=> Annotation(Author, "mode") = "enforcement"
      /\ env.KOSHI_POLICY_OVERRIDE = Annotation(Author, "policy")
  BY Zenon DEF Runs, EnvFor
<1>3. /\ Selected(env, c) /\ Told(env, c) /\ ~WireFails(env, c)
      /\ proc.setup = Wire(env, c)
  BY DEF Runs
<1>4. /\ Lookup(proc.setup, id) # NoPolicy
      /\ Lookup(proc.setup, id).id = ServedPolicy(env)
  BY <1>1, <1>2, <1>3, OwnLookup
<1>5. QED
  BY <1>2, <1>4, Zenon DEF ServedPolicy, HasOverride

-----------------------------------------------------------------------------
(* The built-in enforcement configuration passes all of main's checks. *)
LEMMA EnforcementStarts ==
    ASSUME Apart, NEW e, NEW c, InPod(e), HasWorkload(e), ~HasOverride(e),
           WantedMode(e) = "enforcement", c = BuiltInEnforcement(e)
    PROVE  c # NoConfig /\ ~WireFails(e, c) /\ ~RegisterPanics(Wire(e, c))
<1>1. PICK d : d = DefaultEnforcementSidecarConfig
  OBVIOUS
<1>2. c = WithPodWorkload(d, e, DefaultSidecarPolicyID)
  BY <1>1, Zenon DEF BuiltInEnforcement, InPod, HasOverride
<1>3. PICK ws : c = [d EXCEPT !.workloads = ws]
  BY <1>2, Zenon DEF WithPodWorkload
<1>4. c # NoConfig
  <2>1. IsFcn(c)
    BY <1>3, SMT DEF IsFcn
  <2>2. QED
    BY <2>1 DEF Apart
<1>5. /\ Selected(e, c) /\ Told(e, c) /\ c.default = NoPolicy /\ c.policies = SidecarPolicyCatalog
  BY <1>4, BuiltInSelected, Zenon
<1>6. c.mode = "enforcement" /\ OwnPolicy(e, c)
  BY <1>5, SMT DEF Told, DefaultOnly
<1>7. PodIdentity(e) = PodID(e)
  BY Zenon DEF PodIdentity, InPod
<1>8. ~WireFails(e, c)
  <2>1. \A w \in RangeOf(c.workloads) : w.id \in DOMAIN MapEngine(c)
    <3>1. DOMAIN MapEngine(c) = {PodID(e)} /\ \A w \in RangeOf(c.workloads) : w.id = PodID(e)
      BY <1>6, <1>7, OwnEngine, Zenon
    <3>2. QED
      BY <3>1, Zenon
  <2>2. ~Overridden(e, c)
    BY <1>6, SMT DEF Overridden
  <2>3. QED
    BY <2>1, <2>2, Zenon DEF WireFails
<1>9. PICK s : s = Wire(e, c)
  OBVIOUS
<1>10. s.mode = "enforcement" /\ s.policies = MapEngine(c)
         /\ s.default = NoPolicy /\ s.override = NoPolicy
  BY <1>5, <1>6, <1>9, SMT DEF Wire, Overridden
<1>11. \A k \in RegisteredKeys(s) : RegisteredPolicy(s, k).window = 3600
  <2>1. ASSUME NEW k \in RegisteredKeys(s) PROVE RegisteredPolicy(s, k).window = 3600
    <3>1. k \in DOMAIN MapEngine(c) /\ RegisteredPolicy(s, k) = MapEngine(c)[k]
      BY <1>10, <2>1, SMT DEF RegisteredKeys, DefaultKeys, RegisteredPolicy, Listener
    <3>2. MapEngine(c)[k] \in RangeOf(SidecarPolicyCatalog)
      BY <1>5, <3>1, EngineTable, SMT
    <3>3. QED
      BY <3>1, <3>2, CatalogValid, SMT
  <2>2. QED
    BY <2>1
<1>12. ~RegisterPanics(s)
  BY <1>11, SMT DEF RegisterPanics
<1>13. QED
  BY <1>4, <1>8, <1>9, <1>12

(* The built-in listener configuration does. *)
LEMMA ListenerStarts ==
    ASSUME Apart, NEW e, NEW c, ~HasOverride(e), c = DefaultListenerConfig
    PROVE  c # NoConfig /\ ~WireFails(e, c) /\ ~RegisterPanics(Wire(e, c))
<1>1. c # NoConfig
  BY ListenerSelected DEF Apart
<1>2. DefaultOnly(c)
  BY ListenerSelected, Zenon
<1>3. c.mode = "listener" /\ c.default.window = 3600
  BY <1>2, DefaultPolicyID, SMT DEF DefaultOnly
<1>4. ~Overridden(e, c)
  BY Zenon DEF Overridden, HasOverride
<1>5. ~WireFails(e, c)
  BY <1>3, <1>4, SMT DEF WireFails
<1>6. PICK s : s = Wire(e, c)
  OBVIOUS
<1>7. s.mode = "listener" /\ s.override = NoPolicy /\ s.default = c.default
  BY <1>3, <1>4, <1>6, SMT DEF Wire
<1>8. ~RegisterPanics(s)
  BY <1>3, <1>7, SMT DEF RegisterPanics, RegisteredPolicy, Listener
<1>9. QED
  BY <1>1, <1>5, <1>6, <1>8

(* A sidecar that is told neither a policy nor a file starts, in both       *)
(* modes.                                                                   *)
LEMMA DefaultStarts ==
    ASSUME Apart, NEW port, NEW p, NEW e, EnvFor(port, p, e), ~HasOverride(e), ~HasConfig(p), NEW f
    PROVE  Start(e, f).state = "serving"
<1>1. /\ InPod(e) /\ HasWorkload(e) /\ e.KOSHI_CONFIG_PATH = ""
      /\ e.KOSHI_MODE = "enforcement" \/ e.KOSHI_MODE = ""
  BY Zenon DEF EnvFor
<1>2. PICK c : c = SelectConfig(e, f)
  OBVIOUS
<1>3. c # NoConfig /\ ~WireFails(e, c) /\ ~RegisterPanics(Wire(e, c))
  <2>1. CASE e.KOSHI_MODE = "enforcement"
    <3>1. c = BuiltInEnforcement(e) /\ WantedMode(e) = "enforcement"
      BY <1>1, <1>2, <2>1, Zenon DEF SelectConfig, WantedMode
    <3>2. QED
      BY <1>1, <3>1, EnforcementStarts, Zenon
  <2>2. CASE e.KOSHI_MODE = ""
    <3>1. "" # "enforcement"
      BY Zenon
    <3>2. c = DefaultListenerConfig
      BY <1>1, <1>2, <2>2, <3>1, Zenon DEF SelectConfig
    <3>3. QED
      BY <3>2, ListenerStarts, Zenon
  <2>3. QED
    BY <1>1, <2>1, <2>2, Zenon
<1>4. QED
  BY <1>2, <1>3 DEF Start

(* A pod without a policy and a ConfigMap has a sidecar that does not exit. *)
LEMMA DefaultSidecarHolds ==
    ASSUME Apart PROVE PodInv /\ WiredInv /\ ProcInv => DefaultSidecarStarts
<1>1. NoProc.state = "none"
  BY SMT DEF NoProc
<1> SUFFICES ASSUME PodInv, WiredInv, ProcInv, Injected(pod),
                    Annotation(Author, "policy") = "", Annotation(Author, "configmap") = ""
             PROVE  proc.state \notin {"exited", "panicked"}
  BY Zenon DEF DefaultSidecarStarts
<1>2. CASE proc = NoProc
  BY <1>1, <1>2, Zenon
<1>3. CASE proc # NoProc
  <2>1. pod # NoPod /\ env = SidecarEnv(pod)
    BY <1>3, Zenon DEF WiredInv, Injected
  <2>2. Submittable(Author) /\ Usable(Author) /\ Patched(InjectedPort, pod, Author)
    BY <2>1, OriginKnown, Zenon
  <2>3. EnvFor(InjectedPort, Author, env)
    BY <2>1, <2>2, PatchedInjected, SidecarFields, Zenon
  <2>4. ~HasOverride(env) /\ ~HasConfig(Author)
    BY <2>3, Zenon DEF EnvFor, HasOverride, HasConfig
  <2>5. PICK f \in Files : proc = Start(env, f)
    BY <1>3, Zenon DEF ProcInv
  <2>6. proc.state = "serving"
    BY <2>3, <2>4, <2>5, DefaultStarts, Zenon
  <2>7. QED
    BY <2>6, Zenon
<1>4. QED
  BY <1>2, <1>3, Zenon

(* The parts of the type invariant that are not the certificates'. *)
LEMMA ProcTyped ==
    ASSUME Apart
    PROVE  PodInv /\ WiredInv /\ ProcInv =>
              /\ origin \in Templates \cup {NoPod} /\ (origin = NoPod <=> pod = NoPod)
              /\ proc.state \in {"none", "serving", "exited", "panicked"}
              /\ proc.setup # NoConfig <=> Serving
              /\ proc.state # "none" => pod = NoPod \/ Injected(pod)
<1> SUFFICES ASSUME PodInv, WiredInv, ProcInv
             PROVE  /\ origin \in Templates \cup {NoPod} /\ (origin = NoPod <=> pod = NoPod)
                    /\ proc.state \in {"none", "serving", "exited", "panicked"}
                    /\ proc.setup # NoConfig <=> Serving
                    /\ proc.state # "none" => pod = NoPod \/ Injected(pod)
  OBVIOUS
<1>1. origin \in Templates \cup {NoPod} /\ (origin = NoPod <=> pod = NoPod)
  BY OriginKnown DEF PodInv
<1>2. CASE proc = NoProc
  BY <1>1, <1>2 DEF NoProc, Serving
<1>3. CASE proc # NoProc
  <2>1. pod = NoPod \/ Injected(pod)
    BY <1>3 DEF WiredInv
  <2>2. PICK f \in Files : proc = Start(env, f)
    BY <1>3 DEF ProcInv
  <2>3. PICK s : s = Wire(env, SelectConfig(env, f))
    OBVIOUS
  <2>4. s # NoConfig
    <3>1. IsFcn(s)
      BY <2>3, Zenon DEF Wire, IsFcn
    <3>2. QED
      BY <3>1 DEF Apart
  <2>5. \/ proc = [state |-> "exited", setup |-> NoConfig]
        \/ proc = [state |-> "panicked", setup |-> NoConfig]
        \/ proc = [state |-> "serving", setup |-> s]
    BY <2>2, <2>3 DEF Start, Stopped
  <2>6. QED
    BY <1>1, <2>1, <2>4, <2>5 DEF Serving
<1>4. QED
  BY <1>2, <1>3

-----------------------------------------------------------------------------
(* Identities *)

\* How the pods of a controller look in Kubernetes.  A Deployment owns its
\* pods through ReplicaSets, whose names end in the hash that labels the
\* pods; a ReplicaSet of somebody's own does not end in it.
Makes(ns, kind, name, p) ==
    /\ p.namespace = ns /\ name \in Seq(RangeOf(name)) \ {<<>>}
    /\ CASE kind = "Deployment" ->
              p.hash # "" /\ p.owner = [kind |-> "ReplicaSet", name |-> Append(name, p.hash)]
         [] kind = "Pod" ->
              /\ p.owner = NoOwner
              /\ name = IF p.name = <<>> THEN TrimDash(p.generateName) ELSE p.name
         [] OTHER ->
              /\ p.owner = [kind |-> kind, name |-> name]
              /\ kind = "ReplicaSet" => p.hash = "" \/ Last(name) # p.hash

\* who says for each controller where and what it is, by what name: no two
\* controllers are the same in all of it.
Controllers(who) ==
    /\ \A t, u \in Templates :
          who[t.controller] = who[u.controller] => t.controller = u.controller
    /\ \A t \in Templates : \E ns, kind, name :
          who[t.controller] = <<ns, kind, name>> /\ Makes(ns, kind, name, t.pod)

(* NormalizeOwner undoes what a Deployment does to its name. *)
LEMMA CutBack ==
    ASSUME NEW s, IsSeq(s), s # <<>>, NEW x, NEW t, t = Append(s, x)
    PROVE  Len(t) > 1 /\ Last(t) = x /\ Front(t) = s
<1>1. PICK S : S = RangeOf(s) \cup {x}
  OBVIOUS
<1>2. s \in Seq(S) /\ x \in S
  <2>1. RangeOf(s) \subseteq S
    BY <1>1
  <2>2. QED
    BY <1>1, <2>1, SeqMonotonic DEF IsSeq
<1>3. Len(s) \in Nat /\ Len(s) # 0 /\ Len(t) = Len(s) + 1 /\ t[Len(s) + 1] = x
  BY <1>2, Appended, EmptySeq
<1>4. SubSeq(t, 1, Len(t) - 1) = s
  BY <1>2, <1>3
<1>5. QED
  BY <1>3, <1>4 DEF Last, Front

(* The kind and the name that the webhook finds out are the controller's. *)
LEMMA WorkloadIs ==
    ASSUME Apart, NEW p, NEW ns, NEW kind, NEW name, Makes(ns, kind, name, p)
    PROVE  Workload(p).kind = kind /\ Workload(p).name = name
<1>1. PICK o : o = NormalizeOwner(p.owner, p.hash, p.name)
  OBVIOUS
<1>2. ASSUME NEW r, NEW k, NEW n, r = [kind |-> k, name |-> n]
      PROVE  r.kind = k /\ r.name = n /\ r # NoOwner
  <2>1. r.kind = k /\ r.name = n /\ IsFcn(r)
    BY <1>2, SMT DEF IsFcn
  <2>2. QED
    BY <2>1, SMT DEF Apart
<1>3. CASE kind = "Deployment"
  <2>1. PICK s : s = Append(name, p.hash)
    OBVIOUS
  <2>2. p.hash # "" /\ p.owner = [kind |-> "ReplicaSet", name |-> s]
    BY <1>3, <2>1, Zenon DEF Makes
  <2>3. IsSeq(name) /\ name # <<>>
    BY Zenon DEF Makes, IsSeq
  <2>4. Len(s) > 1 /\ Last(s) = p.hash /\ Front(s) = name
    BY <2>1, <2>3, CutBack, Zenon
  <2>5. PICK r : r = p.owner
    OBVIOUS
  <2>6. r.kind = "ReplicaSet" /\ r.name = s /\ r # NoOwner
    BY <1>2, <2>2, <2>5, Zenon
  <2>7. o = [kind |-> "Deployment", name |-> name]
    BY <1>1, <2>2, <2>4, <2>5, <2>6, Zenon DEF NormalizeOwner
  <2>8. o.kind = "Deployment" /\ o.name = name
    BY <2>7, Zenon
  <2>9. "Deployment" # "Pod"
    BY Zenon
  <2>10. QED
    BY <1>1, <1>3, <2>8, <2>9, Zenon DEF Workload
<1>4. CASE kind = "Pod"
  <2>1. "Pod" # "Deployment"
    BY Zenon
  <2>2. p.owner = NoOwner /\ name = IF p.name = <<>> THEN TrimDash(p.generateName) ELSE p.name
    BY <1>4, <2>1, Zenon DEF Makes
  <2>3. o = [kind |-> "Pod", name |-> p.name]
    BY <1>1, <2>2, Zenon DEF NormalizeOwner
  <2>4. o.kind = "Pod" /\ o.name = p.name /\ DOMAIN o = {"kind", "name"}
    BY <2>3, Zenon
  <2>5. p.generateName = <<>> => TrimDash(p.generateName) = <<>>
    BY Zenon DEF TrimDash
  <2>6. CASE p.name = <<>> /\ p.generateName # <<>>
    <3>1. Workload(p) = [o EXCEPT !.name = name]
      BY <1>1, <2>2, <2>4, <2>6, Zenon DEF Workload
    <3>2. QED
      BY <1>4, <2>4, <3>1, Zenon
  <2>7. CASE ~(p.name = <<>> /\ p.generateName # <<>>)
    <3>1. Workload(p) = o
      BY <1>1, <2>7, Zenon DEF Workload
    <3>2. QED
      BY <1>4, <2>2, <2>4, <2>5, <2>7, <3>1, Zenon
  <2>8. QED
    BY <2>6, <2>7
<1>5. CASE kind # "Deployment" /\ kind # "Pod"
  <2>1. /\ p.owner = [kind |-> kind, name |-> name]
        /\ kind = "ReplicaSet" => p.hash = "" \/ Last(name) # p.hash
    BY <1>5, Zenon DEF Makes
  <2>2. p.owner.kind = kind /\ p.owner.name = name /\ p.owner # NoOwner
    BY <1>2, <2>1, Zenon
  <2>3. o = p.owner
    BY <1>1, <2>1, <2>2, Zenon DEF NormalizeOwner
  <2>4. Workload(p) = o
    BY <1>1, <1>5, <2>2, <2>3, Zenon DEF Workload
  <2>5. QED
    BY <2>2, <2>3, <2>4, Zenon
<1>6. QED
  BY <1>3, <1>4, <1>5

\* The identity of an injected pod is its controller's.
Named(who) ==
    Injected(pod) =>
        origin \in Templates /\ PodIdentity(SidecarEnv(pod)) = who[origin.controller]

(* The identity that PodResolver makes of the sidecar's variables is the    *)
(* controller's own.                                                        *)
LEMMA NamedHolds == ASSUME Apart, NEW who, Controllers(who) PROVE PodInv => Named(who)
<1> SUFFICES ASSUME PodInv, Injected(pod)
             PROVE  origin \in Templates /\ PodIdentity(SidecarEnv(pod)) = who[origin.controller]
  BY DEF Named
<1>1. /\ origin \in Templates /\ Submittable(Author) /\ Usable(Author)
      /\ Patched(InjectedPort, pod, Author)
  BY OriginKnown DEF Injected
<1>2. PICK e : e = SidecarEnv(pod)
  OBVIOUS
<1>3. EnvFor(InjectedPort, Author, e)
  BY <1>1, <1>2, PatchedInjected, SidecarFields
<1>4. PodIdentity(e) = PodID(e)
  BY <1>3, Zenon DEF PodIdentity, EnvFor, InPod
<1>5. PodID(e) = <<Author.namespace, Workload(Author).kind, Workload(Author).name>>
  BY <1>3, Zenon DEF EnvFor
<1>6. PICK ns, kind, name : who[origin.controller] = <<ns, kind, name>>
             /\ Makes(ns, kind, name, Author)
  BY <1>1, Zenon DEF Controllers, Author
<1>7. Workload(Author).kind = kind /\ Workload(Author).name = name /\ Author.namespace = ns
  <2>1. Author.namespace = ns
    BY <1>6, Zenon DEF Makes
  <2>2. QED
    BY <1>6, <2>1, WorkloadIs, Zenon
<1>8. QED
  BY <1>1, <1>2, <1>4, <1>5, <1>6, <1>7, Zenon

-----------------------------------------------------------------------------
(* The deployment keeps its promises *)

(* The invariant of pods and processes: a stored pod is its author's or has *)
(* the whole patch, a process in a pod is its sidecar with the sidecar's    *)
(* variables, and every process is what main's Start makes of them.         *)
THEOREM Wired == ASSUME Apart PROVE ClusterSpec => [](PodInv /\ WiredInv /\ ProcInv)
<1>1. ClusterInit => PodInv /\ WiredInv /\ ProcInv
  BY PodInvInit, ProcInvInit
<1>2. PodInv /\ WiredInv /\ ProcInv /\ [ClusterNext]_vars => (PodInv /\ WiredInv /\ ProcInv)'
  BY PodInvStep, WiredInvStep, ProcInvStep
<1>3. QED
  BY <1>1, <1>2, PTL DEF ClusterSpec

(* The type invariant of the deployment: the certificates are within what   *)
(* the retries of all releases allow, a process in a pod is an injected     *)
(* sidecar, and exactly the processes that serve have a setup.              *)
THEOREM ReleaseTyped == ASSUME Apart PROVE ClusterSpec => []ClusterTypeOK
<1>1. ClusterSpec => []BoundInv
  BY BoundInvInit, BoundInvStep, CertStep, PTL DEF ClusterSpec, ClusterInit
<1>2. BoundInv /\ PodInv /\ WiredInv /\ ProcInv => ClusterTypeOK
  BY BoundTypeOK, ProcTyped DEF ClusterTypeOK
<1>3. QED
  BY <1>1, <1>2, Wired, PTL

(* However often a pod is exported and created again, and whatever the      *)
(* webhook's failures in between, it has at most one sidecar.               *)
THEOREM InjectsOnce == ASSUME Apart PROVE ClusterSpec => []OneSidecar
BY Wired, OneSidecarHolds, PTL

(* For every pod that the API server may send, the patch of buildPatches    *)
(* applies as a whole, whichever fields the pod lacks and in whichever      *)
(* order Go ranges over its maps; the author's variables, annotations and   *)
(* volumes are kept.                                                        *)
THEOREM PatchComplete == ASSUME Apart PROVE ClusterSpec => []InjectionComplete
BY Wired, InjectionCompleteHolds, PTL

(* For every ConfigMap, a sidecar enforces if and only if its pod is        *)
(* annotated for it.                                                        *)
THEOREM ModeFollowsAnnotation == ASSUME Apart PROVE ClusterSpec => []ModeHonoured
<1>1. PodInv /\ WiredInv /\ ProcInv => ModeHonoured
  BY SidecarRuns, ModeHolds DEF ModeHonoured
<1>2. QED
  BY <1>1, Wired, PTL

(* For every ConfigMap and every identity that a request may carry, a       *)
(* sidecar applies the policy that its pod's annotation names, or the       *)
(* documented preset.                                                       *)
THEOREM PolicyFollowsAnnotation == ASSUME Apart PROVE ClusterSpec => []PolicyHonoured
<1>1. PodInv /\ WiredInv /\ ProcInv => PolicyHonoured
  <2>1. ~SidecarServes => PolicyHonoured
    BY Zenon DEF PolicyHonoured
  <2>2. QED
    BY <2>1, SidecarRuns, PolicyHolds
<1>2. QED
  BY <1>1, Wired, PTL

(* Every sidecar listens where the patch sent its pod's traffic. *)
THEOREM PortFollowsInjector == ASSUME Apart PROVE ClusterSpec => []PortAgrees
<1>1. PodInv /\ WiredInv /\ ProcInv => PortAgrees
  BY SidecarRuns, PortHolds DEF PortAgrees
<1>2. QED
  BY <1>1, Wired, PTL

(* A pod that asks for no policy and no ConfigMap never gets a sidecar that *)
(* exits: main's checks accept all that the webhook may have told it.       *)
THEOREM DefaultsStart == ASSUME Apart PROVE ClusterSpec => []DefaultSidecarStarts
BY Wired, DefaultSidecarHolds, PTL

(* For all controllers that make their pods the way Kubernetes does, two    *)
(* pods have the same identity if and only if they are of the same          *)
(* controller, over all of its rollouts.                                    *)
THEOREM OneIdentityPerController ==
    ASSUME Apart, NEW who, Controllers(who)
    PROVE  ClusterSpec => IdentityFollowsController
<1>1. PodInv => Named(who)
  BY NamedHolds
<1>2. Named(who) /\ Named(who)' =>
         [Injected(pod) /\ Injected(pod)' =>
            (origin.controller = origin'.controller
                <=> PodIdentity(SidecarEnv(pod)) = PodIdentity(SidecarEnv(pod))')]_vars
  <2> SUFFICES ASSUME Named(who), Named(who)', Injected(pod), Injected(pod)'
               PROVE  origin.controller = origin'.controller
                         <=> PodIdentity(SidecarEnv(pod)) = PodIdentity(SidecarEnv(pod))'
    OBVIOUS
  <2>1. origin \in Templates /\ PodIdentity(SidecarEnv(pod)) = who[origin.controller]
    BY DEF Named
  <2>2. origin' \in Templates /\ PodIdentity(SidecarEnv(pod))' = who[origin'.controller]
    BY DEF Named
  <2>3. who[origin.controller] = who[origin'.controller] => origin.controller = origin'.controller
    BY <2>1, <2>2, Zenon DEF Controllers
  <2>4. QED
    BY <2>1, <2>2, <2>3
<1>3. QED
  BY <1>1, <1>2, Wired, PTL DEF IdentityFollowsController
=============================================================================

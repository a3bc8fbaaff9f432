---------------------------- MODULE CertRotation ----------------------------
(***************************************************************************)
(* The certificate of the admission webhook: internal/certgen, the two     *)
(* Helm hooks that run it, and the injector that serves with it.           *)
(*                                                                         *)
(* A certificate chain (CA, serving certificate and key) is the number of  *)
(* its generation, 0 for none: the API server trusts the injector if the   *)
(* CA bundle of the webhook configuration and the certificate the injector *)
(* loaded at its start are of one generation.  Helm, the Job controller,   *)
(* the kubelet and the API server are external: the chart's hooks run one  *)
(* after the other, a hook's Job is deleted before a new one of its name   *)
(* is created, a Job runs one pod at a time, a fresh one after a failure,  *)
(* until BackoffLimit is exceeded, and the kubelet brings the Secret that  *)
(* the injector's pod mounts up to date some time after it has changed.    *)
(***************************************************************************)
EXTENDS Integers

CONSTANTS MaxOps,        \* bound: installs and upgrades
          BackoffLimit   \* retries of a failed Job

ASSUME CertAssumption == MaxOps \in Nat /\ BackoffLimit \in Nat

VARIABLES release,  \* where Helm is with the chart
          applied,  \* are the chart's manifests in the cluster?
          ops,      \* installs and upgrades so far
          issued,   \* certificates generated so far
          secret,   \* the TLS Secret
          bundle,   \* caBundle of the webhook configuration
          mount,    \* the Secret as the injector's pod has it mounted, 0 without a pod
          served,   \* what the injector serves, 0 while it is down
          jobs      \* the two hooks' Jobs: [pc, cert, fails]

certVars == <<release, applied, ops, issued, secret, bundle, mount, served, jobs>>

Hooks == {"secret", "cabundle"}
Steps == {"idle", "start", "read", "update", "create", "patch", "done"}
Certs == 0 .. MaxOps * (BackoffLimit + 1)
NoJob == [pc |-> "idle", cert |-> 0, fails |-> 0]
NewJob == [NoJob EXCEPT !.pc = "start"]

CertTypeOK ==
    /\ release \in {"absent", "pre", "manifests", "post", "deployed", "failed"}
    /\ applied \in BOOLEAN /\ ops \in 0 .. MaxOps
    /\ {issued, secret, bundle, mount, served} \subseteq Certs
    /\ jobs \in [Hooks -> [pc : Steps, cert : Certs, fails : 0 .. BackoffLimit]]

CertInit == /\ release = "absent" /\ applied = FALSE /\ ops = 0 /\ issued = 0
            /\ secret = 0 /\ bundle = 0 /\ mount = 0 /\ served = 0
            /\ jobs = [h \in Hooks |-> NoJob]

At(h, pc) == jobs[h].pc = pc
GoTo(h, pc) == jobs' = [jobs EXCEPT ![h].pc = pc]

-----------------------------------------------------------------------------
(* RunSecretPhase *)

\* generateCA and generateServingCert.
SecretGenerate ==
    /\ At("secret", "start")
    /\ issued' = issued + 1
    /\ jobs' = [jobs EXCEPT !["secret"].pc = "read", !["secret"].cert = issued + 1]
    /\ UNCHANGED <<release, applied, ops, secret, bundle, mount, served>>

\* ensureSecret's Get: any error, not only NotFound, leads to Create.
SecretGet(ok) ==
    /\ At("secret", "read")
    /\ ok => secret # 0
    /\ GoTo("secret", IF ok THEN "update" ELSE "create")
    /\ UNCHANGED <<release, applied, ops, issued, secret, bundle, mount, served>>

\* Update wants the Secret that Get returned, Create wants none; otherwise
\* the API server refuses and the pod fails (PodFails).
SecretWrite ==
    /\ \/ At("secret", "update") /\ secret # 0
       \/ At("secret", "create") /\ secret = 0
    /\ secret' = jobs["secret"].cert
    /\ GoTo("secret", "done")
    /\ UNCHANGED <<release, applied, ops, issued, bundle, mount, served>>

-----------------------------------------------------------------------------
(* RunCABundlePhase *)

BundleGet ==
    /\ At("cabundle", "start") /\ secret # 0
    /\ jobs' = [jobs EXCEPT !["cabundle"].pc = "patch", !["cabundle"].cert = secret]
    /\ UNCHANGED <<release, applied, ops, issued, secret, bundle, mount, served>>

(* Mutant: the phase goes on reading and patching, and never returns. *)
BundlePatchLoops ==
    /\ At("cabundle", "patch") /\ applied
    /\ bundle' = jobs["cabundle"].cert
    /\ GoTo("cabundle", "start")
    /\ UNCHANGED <<release, applied, ops, issued, secret, mount, served>>

\* patchWebhookCABundle, which wants the webhook configuration.
BundlePatch ==
    /\ At("cabundle", "patch") /\ applied
    /\ bundle' = jobs["cabundle"].cert
    /\ GoTo("cabundle", "done")
    /\ UNCHANGED <<release, applied, ops, issued, secret, mount, served>>

-----------------------------------------------------------------------------
(* Jobs *)

\* An error, or the end of the pod at any point: also after its write went
\* through.  A Job out of retries fails the release that waits for it.
PodFails(h) ==
    /\ ~At(h, "idle")
    /\ IF jobs[h].fails < BackoffLimit
       THEN /\ jobs' = [jobs EXCEPT ![h] = [NewJob EXCEPT !.fails = jobs[h].fails + 1]]
            /\ UNCHANGED release
       ELSE /\ jobs' = [jobs EXCEPT ![h] = NoJob]
            /\ release' = IF release = (IF h = "secret" THEN "pre" ELSE "post")
                          THEN "failed" ELSE release
    /\ UNCHANGED <<applied, ops, issued, secret, bundle, mount, served>>

\* The pod exits with 0: Helm goes on, unless it gave up on the hook before.
JobDone(h) ==
    /\ At(h, "done")
    /\ jobs' = [jobs EXCEPT ![h] = NoJob]
    /\ release' = CASE h = "secret" /\ release = "pre" -> "manifests"
                    [] h = "cabundle" /\ release = "post" -> "deployed"
                    [] OTHER -> release
    /\ UNCHANGED <<applied, ops, issued, secret, bundle, mount, served>>

-----------------------------------------------------------------------------
(* Helm *)

\* install or upgrade: the Secret hook runs before anything else.
HelmOp ==
    /\ release \in {"absent", "deployed", "failed"} /\ ops < MaxOps
    /\ release' = "pre" /\ ops' = ops + 1
    /\ jobs' = [jobs EXCEPT !["secret"] = NewJob]
    /\ UNCHANGED <<applied, issued, secret, bundle, mount, served>>

(* Mutant: the caBundle hook is one of the installation only. *)
ManifestsInstallHookOnly ==
    /\ release = "manifests"
    /\ applied' = TRUE /\ release' = IF bundle = 0 THEN "post" ELSE "deployed"
    /\ jobs' = [jobs EXCEPT !["cabundle"] = IF bundle = 0 THEN NewJob ELSE NoJob]
    /\ UNCHANGED <<ops, issued, secret, bundle, mount, served>>

\* The manifests name no caBundle: an upgrade keeps the one that was patched
\* in.  The hook that patches it comes next.
Manifests ==
    /\ release = "manifests"
    /\ applied' = TRUE /\ release' = "post"
    /\ jobs' = [jobs EXCEPT !["cabundle"] = NewJob]
    /\ UNCHANGED <<ops, issued, secret, bundle, mount, served>>

\* Helm stops waiting for a hook; its Job stays.
HelmTimeout ==
    /\ release \in {"pre", "post"}
    /\ release' = "failed"
    /\ UNCHANGED <<applied, ops, issued, secret, bundle, mount, served, jobs>>

\* The hooks' Secret and Jobs survive an uninstall, which an operator may
\* follow up by deleting the Secret.
Uninstall(deleteSecret) ==
    /\ release \in {"deployed", "failed"}
    /\ release' = "absent" /\ applied' = FALSE
    /\ bundle' = 0 /\ mount' = 0 /\ served' = 0
    /\ secret' = IF deleteSecret THEN 0 ELSE secret
    /\ UNCHANGED <<ops, issued, jobs>>

-----------------------------------------------------------------------------
(* runInjector *)

\* The API server's TLS handshake with the injector succeeds.
Trusted == served # 0 /\ served = bundle

\* A new pod mounts the Secret as it is, and LoadTLSConfig reads it once.
InjectorStart ==
    /\ applied /\ mount = 0 /\ secret # 0
    /\ mount' = secret /\ served' = secret
    /\ UNCHANGED <<release, applied, ops, issued, secret, bundle, jobs>>

(* Mutant: the files are copied once for each pod, and a restart reads the copy. *)
InjectorRestartFromCopy ==
    /\ mount # 0
    /\ UNCHANGED certVars

\* The container ends and is started again in its pod, where LoadTLSConfig
\* reads what the mount has by then: the current Secret, or one before it.
InjectorRestart ==
    /\ mount # 0
    /\ served' = mount
    /\ UNCHANGED <<release, applied, ops, issued, secret, bundle, mount, jobs>>

\* The kubelet brings the mounted Secret up to date; nobody reads it again.
KubeletSync ==
    /\ mount # 0 /\ secret # 0
    /\ mount' = secret
    /\ UNCHANGED <<release, applied, ops, issued, secret, bundle, served, jobs>>

\* The pod ends: an eviction or a rollout.
InjectorDown ==
    /\ mount # 0
    /\ mount' = 0 /\ served' = 0
    /\ UNCHANGED <<release, applied, ops, issued, secret, bundle, jobs>>

-----------------------------------------------------------------------------
JobStep == \/ SecretGenerate \/ SecretWrite \/ BundleGet \/ BundlePatch
           \/ \E ok \in BOOLEAN : SecretGet(ok)
           \/ \E h \in Hooks : PodFails(h) \/ JobDone(h)

InjectorStep == InjectorStart \/ InjectorRestart \/ KubeletSync

CertNext == \/ JobStep \/ Manifests \/ HelmOp \/ HelmTimeout
            \/ \E d \in BOOLEAN : Uninstall(d)
            \/ InjectorStep \/ InjectorDown

CertSpec == CertInit /\ [][CertNext]_certVars

(* Once Helm reports success, the API server trusts the CA of the Secret    *)
(* that an injector will serve with: through retries after a write that     *)
(* went through, Jobs left over from a release that timed out, and an       *)
(* uninstall that left the Secret behind.                                   *)
BundleMatchesSecret == release = "deployed" => bundle = secret /\ secret # 0
=============================================================================

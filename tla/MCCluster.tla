------------------------------ MODULE MCCluster ------------------------------
(* A small instance of Cluster for TLC: pods of five controllers that lack, *)
(* between them, each field the patch may have to create.                   *)
EXTENDS Cluster

CONSTANT userValue   \* what a pod's author put into a variable

Container(name, variables) == [name |-> name, env |-> variables]
Bare == Container("app", Absent)
Named == Container("app", [OPENAI_BASE_URL |-> userValue, HOME |-> userValue])
Empty == Container("aux", <<>>)

Template(controller, owner, hash, name, generateName, annotations, volumes, containers) ==
    [controller |-> controller,
     pod |-> [namespace |-> "prod", owner |-> owner, hash |-> hash, name |-> name,
              generateName |-> generateName, annotations |-> annotations,
              volumes |-> volumes, containers |-> containers]]

Owner(kind, name) == [kind |-> kind, name |-> name]

\* A pod of Deployment web in the rollout with the given hash.
Web(hash, annotations, volumes, containers) ==
    Template("web", Owner("ReplicaSet", <<"web", hash>>), hash, <<>>, <<"web", hash, "">>,
             annotations, volumes, containers)

MCTemplates ==
    {Web("h1", Absent, Absent, <<Bare>>),
     Web("h2", [mode |-> "enforcement"], <<"data">>, <<Named, Bare>>),
     Web("h1", [inject |-> "false"], Absent, <<Bare>>),
     \* a ReplicaSet of its own, whose name looks like a Deployment's
     Template("web-7", Owner("ReplicaSet", <<"web", "7">>), "", <<>>, <<"web", "7", "">>,
              [mode |-> "listener"], Absent, <<Empty>>),
     Template("db", Owner("StatefulSet", <<"db">>), "", <<"db", "0">>, <<"db", "">>,
              [mode |-> "enforcement", configmap |-> "cm", policy |-> "gold"], Absent, <<Bare>>),
     Template("db", Owner("StatefulSet", <<"db">>), "", <<"db", "1">>, <<"db", "">>,
              [configmap |-> "cm", policy |-> "gold", port |-> userValue], <<"data">>, <<Empty>>),
     Template("tool", NoOwner, "", <<>>, <<"tool", "">>,
              [policy |-> "sidecar-strict", mode |-> "enforcement"], Absent, <<Bare>>),
     Template("web-pod", NoOwner, "", <<"web">>, <<>>,
              [policy |-> "sidecar-strict"], Absent, <<Bare>>)}

Policy(id, window) ==
    [id |-> id, window |-> window, limit |-> 5, burst |-> 0, guard |-> 0, kill |-> FALSE]

Config(mode, policies, default, workloads, strict, listenAddr) ==
    [mode |-> mode, upstreams |-> [openai |-> "openai"], policies |-> policies,
     default |-> default, workloads |-> workloads, strict |-> strict, sse |-> FALSE,
     listenAddr |-> listenAddr]

Gold == Policy("gold", 60)
Iron == Policy("iron", 60)
Zero == Policy("gold", 0)

MCSidecarFiles ==
    {Config("", <<Iron, Gold>>, NoPolicy, <<>>, FALSE, 0),
     Config("enforcement", <<Gold, Iron>>, Policy("default", 0), <<>>, FALSE, 9999),
     Config("listener", <<Gold>>, Policy("default", -1), <<>>, TRUE, 0),
     Config("", <<Zero>>, NoPolicy, <<>>, FALSE, 0),
     Config("", <<Iron>>, NoPolicy, <<>>, FALSE, 0)}

Mapped(id, identity, key, refs) == [id |-> <<id>>, identity |-> identity, key |-> key, refs |-> refs]
Header(id, refs) == Mapped(id, "header", "x-id", refs)

MCStandaloneFiles ==
    {Config("", <<Gold, Iron>>, NoPolicy, <<Header("w1", <<"gold", "iron">>)>>, TRUE, 0),
     Config("enforcement", <<Gold, Iron>>, Policy("default", 30),
            <<Header("w1", <<"iron">>), Header("w2", <<"gold">>)>>, FALSE, 8000),
     Config("enforcement", <<Gold>>, Policy("default", 30),
            <<Header("_default", <<"gold">>)>>, FALSE, 0),
     Config("enforcement", <<Gold>>, Policy("default", 30),
            <<Mapped("w1", "pod", "", <<"gold">>)>>, FALSE, 0),
     Config("listener", <<Gold>>, Policy("default", 30), <<>>, FALSE, 0),
     Config("listener", <<Gold>>, Policy("default", 30), <<Header("w1", <<"gold">>)>>, FALSE, 0),
     Config("listener", <<Gold>>, NoPolicy, <<Header("w1", <<"gold">>)>>, FALSE, 0),
     Config("enforcement", <<Zero>>, NoPolicy, <<Header("w1", <<"gold">>)>>, FALSE, 0),
     Config("enforcement", <<Gold>>, NoPolicy, <<Header("w1", <<"gold">>), Header("w1", <<"gold">>)>>, FALSE, 0),
     Config("listener", <<>>, NoPolicy, <<>>, FALSE, 0)}

MCHeaderIDs == {Missing, DefaultKey, <<"w1">>, <<"w2">>, <<"w3">>}
=============================================================================

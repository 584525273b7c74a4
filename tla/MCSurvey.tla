------------------------------ MODULE MCSurvey ------------------------------
(***************************************************************************)
(* Survey on small inputs.                                                 *)
(***************************************************************************)
EXTENDS Survey, MCAssessment

-----------------------------------------------------------------------------
(* Clusters: a Deployment with a sidecar and an init container, a Job, a   *)
(* few pods, and one way or two to reach them.                             *)

App(name) == [name |-> name, type |-> "container", image |-> name, hostPort |-> FALSE]

Workload(kind, ns, name, labels) ==
  [kind |-> kind, ns |-> ns, name |-> name, base |-> name, owner |-> "", of |-> "",
   podLabels |-> labels, labels |-> {}, hostNetwork |-> FALSE, containers |-> {App(name)},
   secrets |-> {}, desired |-> 1, pullFailures |-> {}, pending |-> FALSE]

Web == [Workload("Deployment", "app", "web", {"web"}) EXCEPT
          !.containers = @ \cup {[App("wait") EXCEPT !.type = "init"],
                                 [App("mesh") EXCEPT !.type = "sidecar"]},
          !.secrets = {"one", "two"}]
Night == [Workload("Job", "app", "night", {"web"}) EXCEPT !.owner = "CronJob"]
Nightly == Workload("CronJob", "app", "night", {"web"})
Idle_ == [Workload("DaemonSet", "edge", "idle", {"idle"}) EXCEPT !.desired = 0]

WebPod == [Workload("Pod", "app", "web-1", {"web"}) EXCEPT
             !.owner = "ReplicaSet", !.of = "web", !.containers = {App("web")}, !.pending = TRUE]
NightPod == [Workload("Pod", "app", "night-1", {"web"}) EXCEPT
               !.owner = "Job", !.of = "night", !.containers = {App("night")}]
OperatorPod == [Workload("Pod", "edge", "shard", {"shard"}) EXCEPT
                  !.owner = "Operator", !.pullFailures = {"shard"}]
ProxyPod(node, image) ==
  [Workload("Pod", "edge", "proxy", {"proxy"}) EXCEPT
     !.name = node, !.owner = "Node", !.hostNetwork = TRUE, !.containers = {App(image)}]
RolloutPod == [Workload("Pod", "app", "canary", {"canary"}) EXCEPT !.owner = "ReplicaSet"]

Service(ns, name, labels, type) ==
  [ns |-> ns, name |-> name, selector |-> labels, type |-> type, provisioned |-> TRUE,
   internal |-> FALSE, label |-> "", nodePortLabel |-> "", externalIPs |-> FALSE,
   ports |-> {[name |-> "http", number |-> "80"]},
   configOf |-> [p \in {"http"} |-> "own"], defaultConfig |-> "iap"]

Ingress(class) ==
  [ns |-> "app", class |-> class, provisioned |-> TRUE, internetFacing |-> TRUE,
   authenticates |-> FALSE,
   refs |-> <<[service |-> "web", portName |-> "", portNumber |-> "80"]>>]

Route(kind, ns) ==
  [ns |-> ns, kind |-> kind, parents |-> <<[ns |-> "edge", name |-> "gw"]>>,
   backends |-> <<[ns |-> "app", service |-> "web"]>>]

Gateway(class, protocol) ==
  [ns |-> "edge", name |-> "gw", class |-> class, params |-> <<"", "">>,
   listeners |-> {[protocol |-> protocol, kinds |-> {}]}]

Grant(ns) == [ns |-> ns, from |-> {[kind |-> "HTTPRoute", ns |-> "edge"]}, to |-> ""]

Policy(service, attaches) == [ns |-> "app", service |-> service, attaches |-> attaches]

InternetFacing == [ns |-> "edge", name |-> "lb", internetFacing |-> TRUE, target |-> "gw"]

Plain == [Nothing EXCEPT !.services = <<Service("app", "web", {"web"}, "ClusterIP")>>]

\* A Gateway of a class that the operator has declared not to be public, whose
\* routes are served at an older version only.
Closed == [Plain EXCEPT !.gateways = {Gateway("private", "TCP")},
                        !.lbConfigs = {InternetFacing},
                        !.negativeGateway = {"private"}, !.routes = <<Route("TCPRoute", "app")>>]
\* A public Gateway whose route needs a grant, and has one of another namespace.
Granted_ == [Plain EXCEPT !.gateways = {Gateway("gke-l7-gxlb", "HTTPS")},
                          !.grants = {Grant("app")}, !.routes = <<Route("HTTPRoute", "edge")>>]
NotGranted == [Granted_ EXCEPT !.grants = {Grant("edge")}]
\* An Ingress whose backend is protected, next to a node port.
Protected == [Nothing EXCEPT
                !.services = <<Service("app", "web", {"web"}, "ClusterIP"),
                               Service("app", "node", {"web"}, "NodePort")>>,
                !.ingresses = <<Ingress("gce")>>,
                !.iapConfigs = {<<"app", "own">>}]
\* An Ingress of a class with a label, and a load balancer that a label closes.
Labelled == [Plain EXCEPT
               !.services = Append(@, [Service("app", "lb", {"web"}, "LoadBalancer") EXCEPT
                                         !.label = "false"]),
               !.ingresses = <<Ingress("nginx")>>,
               !.classes = [c \in {"nginx"} |-> [label |-> "true", alb |-> FALSE, params |-> ""]]]
\* A Gateway that would take any route, and a class on both lists.
Open == [Plain EXCEPT !.gateways = {Gateway("both", "example.com/quic")},
                      !.positiveGateway = {"both"}, !.negativeGateway = {"both"},
                      !.routes = <<Route("HTTPRoute", "app")>>]
\* Two node ports, one of which the operator has declared public.
NodePorts == [Nothing EXCEPT
                !.services = <<[Service("app", "node", {"web"}, "NodePort") EXCEPT
                                  !.nodePortLabel = "true"],
                               Service("app", "other", {"web"}, "NodePort")>>]

\* A public Gateway before two Services, of which one has an IAP policy and then
\* one that attaches Cloud Armor only; the first route leads to the other one.
Armored ==
  [Plain EXCEPT !.services = Append(@, Service("app", "api", {"web"}, "ClusterIP")),
                !.gateways = {Gateway("gke-l7-gxlb", "HTTPS")},
                !.routes = <<[Route("HTTPRoute", "app") EXCEPT
                                !.backends = <<[ns |-> "", service |-> "api"]>>],
                             Route("HTTPRoute", "app")>>,
                !.backendPolicies = <<Policy("api", {"auth"}), Policy("web", {"auth"}),
                                      Policy("web", {"armor"}), Policy("web", {})>>]

Versions == [r \in Range(OptionalResources) |->
               IF r = "TCPRoute" THEN {"v1alpha2"} ELSE IF r = "UDPRoute" THEN {} ELSE {"v1"}]

Cluster(o) ==
  [workloads |-> {Web, Night, Nightly, Idle_},
   pods |-> {WebPod, NightPod, OperatorPod, RolloutPod, ProxyPod("a", "proxy"), ProxyPod("b", "proxy")},
   objects |-> o, versions |-> Versions,
   policies |-> {[ns |-> "app", selector |-> {}, facts |-> {"ingress"}]},
   budgets |-> {[ns |-> "app", selector |-> {"web"}]},
   nodes |-> <<Evidence("gcp", "project", {"east"}), Evidence("aws", "other", {"west"})>>,
   hints |-> <<Evidence("gcp", "", {"south"})>>,
   secrets |-> {[ns |-> "app", name |-> "one", hosts |-> {"docker"}, usable |-> TRUE],
                [ns |-> "app", name |-> "two", hosts |-> {"docker", "quay"}, usable |-> TRUE]}]

\* The static pod of one node has been upgraded, that of the other not yet.
Upgrading == [Cluster(Nothing) EXCEPT !.pods = (@ \ {ProxyPod("b", "proxy")}) \cup {ProxyPod("b", "next")}]

MCClusters ==
  {Upgrading} \cup
  {Cluster(o) : o \in {Plain, Closed, Granted_, NotGranted, Protected, Labelled, Open,
                        NodePorts, Armored}}
Whole ==
  [all |-> TRUE, namespaces |-> <<>>, excluded |-> {}, override |-> FALSE, skipExposure |-> FALSE,
   reachabilityOnly |-> TRUE, skipRegistryAuth |-> FALSE, zeroDaemonSets |-> FALSE]
Some == [Whole EXCEPT !.all = FALSE, !.namespaces = <<"app", "edge", "app">>, !.override = TRUE,
                      !.excluded = {"edge"}, !.reachabilityOnly = FALSE, !.zeroDaemonSets = TRUE]
AllButEdge == [Whole EXCEPT !.excluded = {"edge"}]
ScansOnly == [Whole EXCEPT !.skipExposure = TRUE, !.skipRegistryAuth = TRUE, !.reachabilityOnly = FALSE]
NoScope == [Whole EXCEPT !.all = FALSE]

MCOptionSets == {Whole, Some, AllButEdge, ScansOnly, NoScope}
-----------------------------------------------------------------------------
(* Swarms: a service with nothing, one with a port, one behind the proxy,  *)
(* and two on host networks, of which the manager knows one; the document  *)
(* lists the networks or does not.                                         *)

SwarmService(name, networks) ==
  [name |-> name, stack |-> "shop", image |-> name, labels |-> {}, reachable |-> "",
   justification |-> "", endpoint |-> {}, spec |-> {}, networks |-> networks]

SwarmServices ==
  {SwarmService("store", {"overlay"}), [SwarmService("api", {"overlay"}) EXCEPT !.spec = {"80"}],
   [SwarmService("front", {}) EXCEPT !.labels = {"traefik"}],
   [SwarmService("queue", {}) EXCEPT !.labels = {"caddy"}],
   SwarmService("agent", {"local"}), SwarmService("other", {"elsewhere"}),
   [SwarmService("denied", {"host"}) EXCEPT !.reachable = "false"],
   [SwarmService("closed", {}) EXCEPT !.reachable = "false", !.justification = "vpn",
                                      !.endpoint = {"443"}],
   [SwarmService("open", {}) EXCEPT !.reachable = "true"],
   [SwarmService("empty", {}) EXCEPT !.image = ""]}

Network(id, name, driver) == [id |-> id, name |-> name, driver |-> driver]
MCSwarms ==
  {[form |-> form, services |-> SwarmServices, hosts |-> {"local", "elsewhere"},
    networks |-> {Network("overlay", "shop_net", "overlay"), Network("local", "host", "host")}] :
      form \in {"array", "wrapped", "other"}}

Reach(name, reachable, justification) ==
  [stack |-> {"shop"}, name |-> name, image |-> {}, reachable |-> reachable,
   justification |-> justification]
MCFedRAMPConfigs ==
  {[usable |-> TRUE, prefixes |-> {}, rules |-> <<>>],
   [usable |-> TRUE, prefixes |-> {"caddy"},
    rules |-> <<Reach({"store"}, FALSE, ""), Reach({"api", "other"}, FALSE, "lb"), Reach({}, TRUE, "")>>],
   [usable |-> FALSE, prefixes |-> {}, rules |-> <<>>]}

MCSwarmOptionSets ==
  {[ssm |-> s, configFile |-> c, skipExposure |-> FALSE] : s, c \in BOOLEAN}
    \cup {[ssm |-> FALSE, configFile |-> FALSE, skipExposure |-> TRUE]}

-----------------------------------------------------------------------------
(* Estates: web runs in both regions under one name, api and batch in one  *)
(* each; the cluster of a third region has more services than ECS would    *)
(* describe at once.                                                       *)

Port(n) == [number |-> n, protocol |-> "tcp"]
Container(name, host, secret, ports) ==
  [name |-> name, image |-> name, host |-> host, secret |-> secret, ports |-> ports]
Revision(arn, name, containers) == [arn |-> arn, name |-> name, containers |-> containers]
ECSService(arn, groups, desired, running) ==
  [cluster |-> "main", arn |-> arn, targetGroups |-> groups, desired |-> desired, running |-> running]
Task(arn, public) == [arn |-> arn, public |-> public, groups |-> {"sg"}]
IngressRule(protocol, ports) == [group |-> "sg", world |-> TRUE, protocol |-> protocol, ports |-> ports]
Balancer(group, facing) == [targetGroup |-> group, internetFacing |-> facing]

East ==
  [definitions |-> <<Revision("web-east", "web", <<Container("app", "quay", TRUE, {Port(80)}),
                                                   [Container("mesh", "quay", TRUE, {}) EXCEPT !.image = ""]>>),
                     Revision("api-east", "api", <<Container("app", "docker", TRUE, {Port(443)}),
                                                   Container("log", "", TRUE, {})>>)>>,
   services |-> {ECSService("api-east", {"inner", "outer"}, 1, 0), ECSService("web-east", {}, 0, 0)},
   tasks |-> {}, balancers |-> {Balancer("inner", FALSE), Balancer("outer", TRUE)}, rules |-> {}]
West ==
  [definitions |-> <<Revision("web-west", "web", <<Container("app", "quay", TRUE, {Port(8080)})>>),
                     Revision("batch-west", "batch", <<Container("app", "docker", TRUE, {Port(22)}),
                                                       Container("side", "", FALSE, {Port(9)})>>),
                     Revision("idle-west", "idle", <<Container("app", "docker", FALSE, {Port(22)})>>)>>,
   services |-> {ECSService("web-west", {"front"}, 1, 1)},
   tasks |-> {Task("batch-west", TRUE), Task("web-west", FALSE)},
   balancers |-> {Balancer("front", TRUE)}, rules |-> {IngressRule("tcp", 20..25), IngressRule("-1", {})}]
Crowded == [West EXCEPT !.services = @ \cup {ECSService("batch-west", {}, n, 0) : n \in 0..1}]

MCEstates ==
  {[regions |-> <<"east", "west">>, in |-> [r \in {"east", "west"} |-> IF r = "east" THEN East ELSE w]] :
     w \in {West, Crowded}}
MCECSOptionSets ==
  {[skipExposure |-> s, reachabilityOnly |-> FALSE, skipRegistryAuth |-> s] : s \in BOOLEAN}
    \cup {[skipExposure |-> FALSE, reachabilityOnly |-> TRUE, skipRegistryAuth |-> FALSE]}

-----------------------------------------------------------------------------
(* Projects: a service of each ingress and a function, behind a load       *)
(* balancer some of whose backends are protected.                          *)

RunService(kind, name, ingress) ==
  [kind |-> kind, name |-> name, image |-> name, ingress |-> ingress,
   invokerIAMDisabled |-> FALSE, allUsers |-> FALSE]
Behind == RunService("Service", "shop", ByLoadBalancer)
RunEast ==
  [services |-> {Behind, [RunService("Service", "open", "") EXCEPT !.allUsers = TRUE],
                 [RunService("Service", "free", "all") EXCEPT !.invokerIAMDisabled = TRUE],
                 RunService("Service", "inner", "internal"),
                 [RunService("Function", "hook", "all") EXCEPT !.allUsers = TRUE],
                 [RunService("Service", "blank", "all") EXCEPT !.image = ""]},
   jobs |-> {RunService("Job", "open", "")}]
RunWest == [services |-> {Behind}, jobs |-> {}]

Group(region, service, serviceRegion) ==
  [region |-> region, serverless |-> TRUE, service |-> service, serviceRegion |-> serviceRegion]
Backend(iap, groups) == [iap |-> iap, groups |-> groups]

RunBackends(iap) ==
  [b \in {"main", "second", "other"} |->
     CASE b = "main" -> Backend(TRUE, {Group("east", "shop", ""), Group("", "shop", "west")})
       [] b = "second" -> Backend(iap, {Group("east", "shop", "east"), Group("east", "", "")})
       [] b = "other" -> Backend(FALSE, {Group("west", "shop", "west"), Group("east", "", "")})]

ForwardingRule(external, map) == [external |-> external, map |-> map]
MCProjects ==
  {[regions |-> <<"east", "west">>,
    in |-> [r \in {"east", "west"} |-> IF r = "east" THEN RunEast ELSE RunWest],
    rules |-> {ForwardingRule(TRUE, "https"), ForwardingRule(external, "old"), ForwardingRule(TRUE, "")},
    maps |-> [m \in {"https", "old"} |->
                IF m = "https" THEN [default |-> "main", paths |-> {}, rules |-> {""}, weighted |-> {"second"},
                      actions |-> IF iap THEN {"other"} ELSE {}]
                ELSE [default |-> "", paths |-> {"other"}, rules |-> {"main"}, weighted |-> {}, actions |-> {}]],
    backends |-> RunBackends(iap)] : iap, external \in BOOLEAN}
    \cup {[regions |-> <<"east">>,
           in |-> [r \in {"east"} |-> [RunEast EXCEPT !.services = @ \ {Behind}]],
           rules |-> {}, maps |-> <<>>, backends |-> <<>>]}
MCRunOptionSets ==
  {[includeFunctions |-> f, skipExposure |-> FALSE] : f \in BOOLEAN}
    \cup {[includeFunctions |-> FALSE, skipExposure |-> TRUE]}

-----------------------------------------------------------------------------
(* Registries: three attestation manifests and one of another kind.  One   *)
(* image is pinned or not, listed or tagged; another asks for tokens.      *)

Purl(base, version) == [base |-> base, version |-> version]
Affects(kind, purl) == [kind |-> kind, purl |-> purl]
Mine == Affects("purl", Purl("lib", "1"))
MineAny == Affects("bom-ref", Purl("lib", ""))
Theirs == Affects("purl", Purl("other", "1"))

Said(ids, analysed, affects) == [ids |-> ids, analysed |-> analysed, affects |-> affects]
Blob(envelope, predicate, entries, time) ==
  [envelope |-> envelope, payload |-> "in-toto", predicate |-> predicate,
   entries |-> entries, time |-> time]
Layer(declared, blob) == [attestation |-> TRUE, declared |-> declared, blob |-> blob]

Wide == Layer("none", Blob("dsse", "vex", <<Said({"CVE"}, TRUE, {}), Said({"X"}, TRUE, {})>>, 2))
Scoped == Layer("cyclonedx", Blob("bundle", "bom",
            <<Said({"GHSA"}, TRUE, {Theirs}), Said({"GHSA"}, TRUE, {Theirs, MineAny})>>, 1))
Older == Layer("none", Blob("dsse", "vex", <<Said({"CVE"}, FALSE, {Mine}), Said({"CVE"}, TRUE, {Mine})>>, 0))
Foreign == Layer("none", Blob("dsse", "foreign", <<>>, 0))
Broken == Layer("cyclonedx", Blob("dsse", "broken", <<>>, 0))
NoEnvelope == Layer("none", Blob("none", "vex", <<>>, 0))
Provenance == Layer("other", Blob("dsse", "foreign", <<>>, 0))
NoAttestation == [Wide EXCEPT !.attestation = FALSE]

MCManifests == {"m1", "m2", "m3", "m4"}
MCContent ==
  [m \in MCManifests |->
     CASE m = "m1" -> <<Wide>> [] m = "m2" -> <<Scoped, Foreign, Older>>
       [] m = "m3" -> <<Broken, NoEnvelope>> [] m = "m4" -> <<Provenance, NoAttestation>>]

OpenRegistries ==
  [pinned : {"tag", "sha256", "sha512"}, image : {TRUE}, referrersAPI : BOOLEAN,
   referrers : {<<>>, <<"m1">>, <<"m2", "m2">>, <<"m4", "m1", "m2">>, <<"m3">>},
   page : {3}, artifacts : {{}, {"m4"}}, deleted : {{}, {"m1"}}, att : {"none", "m1", "m2"},
   challenge : {"none"}, credentials : {FALSE}, public : {FALSE}, shortLived : {FALSE}]
GuardedRegistries ==
  [pinned : {"tag"}, image : BOOLEAN, referrersAPI : {TRUE}, referrers : {<<"m1">>},
   page : {3}, artifacts : {{}}, deleted : {{}}, att : {"m1", "m2"},
   challenge : {"basic", "bearer", "odd"}, credentials : BOOLEAN, public : BOOLEAN,
   shortLived : BOOLEAN]
\* One that lists its referrers on pages.
Paging == {[r EXCEPT !.page = 1] : r \in {x \in OpenRegistries : Len(x.referrers) > 1 /\ x.pinned = "tag"}}
MCRegistries == OpenRegistries \cup GuardedRegistries \cup Paging

MCFindings ==
  {[ids |-> {"CVE", "GHSA"}, base |-> "lib", version |-> v] : v \in {"1", "2"}}
    \cup {[ids |-> {"CVE"}, base |-> "", version |-> ""]}

=============================================================================

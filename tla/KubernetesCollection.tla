------------------------ MODULE KubernetesCollection ------------------------
(***************************************************************************)
(* runK8s of cmd/vdr/main.go up to the image scans: the inventory of the   *)
(* workloads, the runtime issues, the discovery of what exposes them, the  *)
(* verdicts, and the credentials of the pull secrets.  Every list is a     *)
(* request of its own, made in the order of the code, and any of them may  *)
(* be refused; what the code then does differs from list to list.          *)
(*                                                                         *)
(* The cluster does not change while it is read.  The security facts of    *)
(* the pod templates are left out; those that need a list of their own     *)
(* (network policies, disruption budgets) are kept.                        *)
(***************************************************************************)
EXTENDS Exposure

CONSTANTS
  Clusters,     \* the clusters a run may find
  OptionSets,   \* the flags it may be given
  MaxFailures   \* how many requests of one run are refused

ASSUME MaxFailuresAssumption == MaxFailures \in Nat
ASSUME OptionSetsAssumption == \A o \in OptionSets : IsList(o.namespaces)

VARIABLES
  cluster,      \* what the API server would list
  options,
  phase,        \* "start", "inventory", "runtime", "exposure", "pullSecrets",
                \* "secrets", "collected" or "error"
  calls,        \* the requests of the phase that are still to be made
  failures,     \* requests refused so far
  inventory,    \* the workloads found
  issues,       \* runtime issues of pods
  cloud,        \* the account the cluster belongs to
  configMap,    \* is the cluster's ConfigMap known?
  objects,      \* what was found that may expose a workload
  warnings,     \* the exposure warnings
  held,         \* kinds of routes whose list was forbidden
  ignored,      \* those of them no Gateway listener accepts
  gatewaysComplete,
  verdicts,     \* <<resource, container>> to its exposure
  secretRefs,   \* <<namespace, name>> of the secrets still to be fetched
  auths         \* host to the secret whose credentials are used

k8sVars == <<cluster, options, phase, calls, failures, inventory, issues, cloud, configMap,
             objects, warnings, held, ignored, gatewaysComplete, verdicts, secretRefs, auths>>

found == <<inventory, issues, cloud, configMap>>
discovery == <<objects, warnings, held, ignored, gatewaysComplete, verdicts>>
credentials == <<secretRefs, auths>>

-----------------------------------------------------------------------------
(* The requests of each phase                                              *)

\* namespacesForCollection: all of them at once, or the given ones that are not
\* excluded, each once.
Scopes ==
  IF options.all THEN <<"">>
  ELSE LET kept == Only(options.namespaces, Range(options.namespaces) \ options.excluded)
       IN  FirstOfEach(kept, [n \in Range(kept) |-> n])

ScopesRejected ==
  \/ options.all <=> options.namespaces # <<>>
  \/ "" \in Range(options.namespaces)

Request(op, ns, versions) == [op |-> op, ns |-> ns, versions |-> versions]

\* One request of each kind for each namespace.
PerNamespace(ops) ==
  FlattenSeq([n \in DOMAIN Scopes |->
                [m \in DOMAIN ops |-> Request(ops[m], Scopes[n], <<"v1">>)]])

WorkloadOps == <<"Pod", "Deployment", "StatefulSet", "DaemonSet", "Job", "CronJob">>

InventoryCalls ==
  PerNamespace(WorkloadOps \o <<"networkpolicies", "budgets">>)
    \o (IF options.override THEN <<>> ELSE <<Request("configmap", "", <<"v1">>)>>)
    \o <<Request("nodes", "", <<"v1">>)>>

RouteVersions(kind) ==
  CASE kind = "TLSRoute" -> <<"v1", "v1alpha3", "v1alpha2">>
    [] kind \in {"TCPRoute", "UDPRoute"} -> <<"v1", "v1alpha2">>
    [] OTHER -> <<"v1">>

RouteOrder == <<"HTTPRoute", "GRPCRoute", "TCPRoute", "TLSRoute", "UDPRoute">>
OptionalResources ==
  <<"gateways">> \o RouteOrder
    \o <<"grants", "backendPolicies", "iapConfigs", "params", "lbConfigs", "targetGroups">>

\* Services of a namespace have different names, and what there is of an optional
\* resource is served at one of the versions that are tried.
ASSUME ClustersAssumption ==
  \A c \in Clusters :
    LET t == c.objects
    IN  /\ IsList(t.services) /\ IsList(t.ingresses) /\ IsList(t.routes)
        /\ \A s, other \in Range(t.services) : KeyOf(s) = KeyOf(other) => s = other
        /\ \A i \in Range(t.ingresses) : IsList(i.refs)
        /\ \A r \in Range(t.routes) :
             /\ IsList(r.parents) /\ IsList(r.backends)
             /\ r.kind \in RouteKinds
             /\ Range(RouteVersions(r.kind)) \cap c.versions[r.kind] # {}
        /\ t.gateways # {} => "v1" \in c.versions["gateways"]

\* exposureResources: a cluster-scoped one is listed once, the others in every
\* namespace.
OptionalCalls ==
  FlattenSeq([m \in DOMAIN OptionalResources |->
    LET op == OptionalResources[m]
        scopes == IF op = "params" THEN <<"">> ELSE Scopes
    IN  [n \in DOMAIN scopes |-> Request(op, scopes[n], RouteVersions(op))]])

ExposureCalls ==
  PerNamespace(<<"services", "ingresses">>)
    \o <<Request("classes", "", <<"v1">>)>> \o OptionalCalls

Call == Head(calls)

\* What a list returns: the objects of the namespace that are not excluded.
InScope(object) ==
  Call.ns \in {"", object.ns} /\ object.ns \notin options.excluded

\* A request fails if it may still do so.
Refused == failures < MaxFailures /\ failures' = failures + 1
Proceed(rest) == calls' = rest /\ UNCHANGED <<cluster, options, phase>>
Answered == calls # <<>> /\ Proceed(Tail(calls))

-----------------------------------------------------------------------------
(* The inventory                                                           *)

\* Mutant: a pod with any controller is thought to be covered by it.
Covered_Any(pod) == pod.owner # ""

\* collectedControllerKinds: the pods of these are covered by their templates.
Covered(pod) == pod.owner \in {"ReplicaSet", "StatefulSet", "DaemonSet", "Job"}

\* A DaemonSet that runs nowhere counts only on demand, and a Job of a CronJob is
\* covered by it.
Collected(op) ==
  IF op = "Pod" THEN {p \in cluster.pods : ~Covered(p)}
  ELSE {w \in cluster.workloads :
          /\ w.kind = op
          /\ op = "DaemonSet" => w.desired > 0 \/ options.zeroDaemonSets
          /\ op = "Job" => w.owner # "CronJob"}

\* addResource and addContainer: containers without an image count only for
\* their host ports.
Resource(w) ==
  [kind |-> w.kind, ns |-> w.ns, name |-> w.base,
   labels |-> w.podLabels, merged |-> w.podLabels \cup w.labels,
   direct |-> w.hostNetwork \/ \E c \in w.containers : c.hostPort,
   containers |-> {[name |-> c.name, type |-> c.type, image |-> c.image] :
                     c \in {x \in w.containers : x.image # ""}},
   posture |-> {}]

Resources(kept) == {r \in {Resource(w) : w \in kept} : r.containers # {}}

\* staticPodBaseName: the mirror pods of a namespace whose names differ by their
\* nodes only are taken for one manifest.
IsMirror(p) == p.kind = "Pod" /\ p.owner = "Node"
SameManifest(p, q) == IsMirror(p) /\ IsMirror(q) /\ p.ns = q.ns /\ p.base = q.base

\* Of those the first in the list is kept, whichever it is and whatever the others
\* run (seenStaticPods).
OnePerManifest(listed) ==
  {kept \in SUBSET listed :
     /\ \A p \in listed : p \in kept \/ \E q \in kept : SameManifest(p, q)
     /\ \A p, q \in kept : SameManifest(p, q) => p = q}

\* collectNetworkPolicyPosture, collectPodDisruptionBudgetPosture: what the
\* policies and the budgets say of the workloads they select by their labels.
PostureOf(r, op) ==
  IF op = "budgets"
  THEN {"budget" : b \in {x \in cluster.budgets :
          InScope(x) /\ x.ns = r.ns /\ x.selector # {} /\ x.selector \subseteq r.merged}}
  ELSE UNION {p.facts : p \in {x \in cluster.policies :
          InScope(x) /\ x.ns = r.ns /\ x.selector \subseteq r.merged}}

Evidence(provider, account, regions) ==
  [provider |-> provider, account |-> account, regions |-> regions]

\* mergeCloudEvidence: the first provider and the first account of its; what
\* names another provider is ignored.
MergeEvidence(evidence) ==
  LET named == SelectSeq(evidence, LAMBDA e : e.provider # "")
      provider == IF named = <<>> THEN "" ELSE named[1].provider
      mine == SelectSeq(evidence, LAMBDA e : e.provider \in {"", provider})
      accounts == SelectSeq(mine, LAMBDA e : e.account # "")
  IN  Evidence(provider, IF accounts = <<>> THEN "" ELSE accounts[1].account,
               UNION {e.regions : e \in Range(mine)})

\* podRuntimeIssues: the containers whose image cannot be pulled, or the pod
\* itself if it is pending for another reason.
IssuesOf(pod) ==
  IF pod.pullFailures # {} THEN {<<pod.ns, pod.name, c>> : c \in pod.pullFailures}
  ELSE IF pod.pending THEN {<<pod.ns, pod.name, "">>} ELSE {}

Start ==
  /\ phase = "start"
  /\ IF ScopesRejected THEN phase' = "error" /\ calls' = <<>>
     ELSE phase' = "inventory" /\ calls' = InventoryCalls
  /\ UNCHANGED <<cluster, options, failures, found, discovery, credentials>>

ListWorkloads ==
  /\ phase = "inventory" /\ Answered /\ Call.op \in Range(WorkloadOps)
  /\ \E kept \in OnePerManifest({w \in Collected(Call.op) : InScope(w)}) :
       inventory' = inventory \cup Resources(kept)
  /\ UNCHANGED <<failures, issues, cloud, configMap, discovery, credentials>>

\* A list of workloads that fails ends the run.
ListWorkloadsFails ==
  /\ phase = "inventory" /\ calls # <<>> /\ Call.op \in Range(WorkloadOps) /\ Refused
  /\ phase' = "error" /\ calls' = <<>>
  /\ UNCHANGED <<cluster, options, found, discovery, credentials>>

ListPosture ==
  /\ phase = "inventory" /\ Answered /\ Call.op \in {"networkpolicies", "budgets"}
  /\ inventory' = {[r EXCEPT !.posture = @ \cup PostureOf(r, Call.op)] : r \in inventory}
  /\ UNCHANGED <<failures, issues, cloud, configMap, discovery, credentials>>

ReadConfigMap ==
  /\ phase = "inventory" /\ Answered /\ Call.op = "configmap"
  /\ configMap' = TRUE
  /\ UNCHANGED <<failures, inventory, issues, cloud, discovery, credentials>>

ListNodes ==
  /\ phase = "inventory" /\ Answered /\ Call.op = "nodes"
  /\ cloud' = MergeEvidence(cluster.nodes \o cluster.hints)
  /\ UNCHANGED <<failures, inventory, issues, configMap, discovery, credentials>>

\* The other requests of the inventory are made for what they give: a missing
\* answer is not an error.
DoWithout ==
  /\ phase = "inventory" /\ Answered /\ Call.op \notin Range(WorkloadOps) /\ Refused
  /\ cloud' = IF Call.op = "nodes" THEN MergeEvidence(cluster.hints) ELSE cloud
  /\ UNCHANGED <<inventory, issues, configMap, discovery, credentials>>

EndInventory ==
  /\ phase = "inventory" /\ calls = <<>>
  /\ phase' = "runtime" /\ calls' = PerNamespace(<<"Pod">>)
  /\ UNCHANGED <<cluster, options, failures, found, discovery, credentials>>

ListRuntime ==
  /\ phase = "runtime" /\ Answered
  /\ issues' = issues \cup UNION {IssuesOf(p) : p \in {x \in cluster.pods : InScope(x)}}
  /\ UNCHANGED <<failures, inventory, cloud, configMap, discovery, credentials>>

\* The issues are operational context: a list that fails drops them all, and the
\* run goes on.
ListRuntimeFails ==
  /\ phase = "runtime" /\ calls # <<>> /\ Refused
  /\ issues' = {} /\ Proceed(<<>>)
  /\ UNCHANGED <<inventory, cloud, configMap, discovery, credentials>>

\* --skip-exposure, --reachability-only and --skip-registry-auth
AfterExposure ==
  IF options.reachabilityOnly \/ options.skipRegistryAuth
  THEN phase' = "collected" /\ calls' = <<>>
  ELSE phase' = "pullSecrets" /\ calls' = PerNamespace(WorkloadOps)

EndRuntime ==
  /\ phase = "runtime" /\ calls = <<>>
  /\ IF options.skipExposure THEN AfterExposure
     ELSE phase' = "exposure" /\ calls' = ExposureCalls
  /\ UNCHANGED <<cluster, options, failures, found, discovery, credentials>>

-----------------------------------------------------------------------------
(* What may expose the workloads                                           *)

NoClasses == [c \in {} |-> [label |-> "", alb |-> FALSE, params |-> ""]]

Nothing ==
  [services |-> <<>>, ingresses |-> <<>>, routes |-> <<>>, gateways |-> {}, lbConfigs |-> {},
   grants |-> {}, classes |-> NoClasses, internetFacingParams |-> {},
   iapConfigs |-> {}, backendPolicies |-> <<>>,
   positive |-> {}, negative |-> {}, positiveGateway |-> {}, negativeGateway |-> {},
   negativeServices |-> {}, complete |-> FALSE]

Kept(all) == {x \in all : InScope(x)}
KeptKeys(all) == {k \in all : InScope([ns |-> k[1]])}

\* What the request at hand lists.
Listing ==
  IF Call.op \in RouteKinds THEN "routes"
  ELSE IF Call.op = "params" THEN "internetFacingParams" ELSE Call.op

\* The objects with the answer added; a class or a parameter has no namespace.
\* A target group only names the protocol of a route.
Take(o) ==
  LET all == cluster.objects[Listing]
  IN  IF Listing \notin DOMAIN o THEN o
      ELSE [o EXCEPT ![Listing] =
              CASE Listing \in {"services", "ingresses", "backendPolicies"} -> @ \o Only(all, Kept(Range(all)))
                [] Listing = "routes" -> @ \o Only(all, {r \in Kept(Range(all)) : r.kind = Call.op})
                [] Listing \in {"gateways", "grants", "lbConfigs"} -> @ \cup Kept(all)
                [] Listing = "iapConfigs" -> @ \cup KeptKeys(all)
                [] OTHER -> all]

Core == {"services", "ingresses", "classes"}

\* Is the resource at hand served at the version that is tried?
Served == Call.op \notin Core => Head(Call.versions) \in cluster.versions[Call.op]

ListExposure ==
  /\ phase = "exposure" /\ Answered /\ Served
  /\ objects' = Take(objects)
  /\ UNCHANGED <<failures, found, warnings, held, ignored, gatewaysComplete, verdicts, credentials>>

\* The next version is tried, for this namespace and the remaining ones; one that
\* is served at none is not installed.
NextVersion ==
  IF Len(Call.versions) = 1 THEN Only(calls, {c \in Range(calls) : c.op # Call.op})
  ELSE [n \in DOMAIN calls |->
          IF calls[n].op = Call.op THEN [calls[n] EXCEPT !.versions = Tail(@)] ELSE calls[n]]

TryVersion ==
  /\ phase = "exposure" /\ calls # <<>> /\ ~Served
  /\ Proceed(NextVersion)
  /\ UNCHANGED <<failures, found, discovery, credentials>>

\* A failed list is a warning.  That of a kind of routes, if it is forbidden, is
\* held back until the Gateways are known.
ListExposureFails(forbidden) ==
  /\ phase = "exposure" /\ Answered /\ (Served \/ forbidden) /\ Refused
  /\ IF Call.op \in RouteKinds /\ forbidden
     THEN held' = held \cup {Call.op} /\ UNCHANGED <<warnings, gatewaysComplete>>
     ELSE /\ warnings' = warnings \cup {<<Call.op, Call.ns>>}
          /\ gatewaysComplete' = (gatewaysComplete /\ Call.op # "gateways")
          /\ UNCHANGED held
  /\ UNCHANGED <<found, objects, ignored, verdicts, credentials>>

Standard == {"HTTP", "HTTPS", "TLS", "TCP", "UDP"}

\* listenerProtocolRouteKinds
KindsOf(protocol) ==
  CASE protocol \in {"HTTP", "HTTPS"} -> {"HTTPRoute", "GRPCRoute"}
    [] protocol = "TLS" -> {"TLSRoute"}
    [] protocol = "TCP" -> {"TCPRoute"}
    [] protocol = "UDP" -> {"UDPRoute"}
    [] OTHER -> RouteKinds

\* acceptedRouteKinds: by the protocol of a listener and the kinds it names.
AcceptedKinds(gateways) ==
  UNION {KindsOf(l.protocol) \cup (IF l.protocol \in Standard THEN l.kinds ELSE {}) :
           l \in UNION {g.listeners : g \in gateways}}

\* The forbidden kinds that matter: a listener accepts them, or the Gateways are
\* not all known.
StillForbidden ==
  IF gatewaysComplete THEN held \cap AcceptedKinds(objects.gateways) ELSE held

\* The lists of the ConfigMap, or of the file given in its stead.
WithOverrides(o) ==
  LET t == cluster.objects
  IN  IF ~(configMap \/ options.override) THEN o
      ELSE [o EXCEPT !.positive = t.positive, !.negative = t.negative,
                     !.positiveGateway = t.positiveGateway,
                     !.negativeGateway = t.negativeGateway,
                     !.negativeServices = t.negativeServices]

\* Mutant: discovery counts as complete although namespaces were left out.
Complete_Scoped(all) == all = {}

\* CollectionComplete: a list of some namespaces misses the routes of the others.
Complete(all) == all = {} /\ options.all /\ options.excluded = {}

Analyze ==
  /\ phase = "exposure" /\ calls = <<>>
  /\ warnings' = warnings \cup {<<kind, "">> : kind \in StillForbidden}
  /\ ignored' = held \ StillForbidden
  /\ objects' = [WithOverrides(objects) EXCEPT !.complete = Complete(warnings')]
  /\ verdicts' = [a \in UNION {{r} \X r.containers : r \in inventory} |->
                    AnalyzeContainer(a[1], a[2].type, objects', FALSE)]
  /\ AfterExposure
  /\ UNCHANGED <<cluster, options, failures, found, held, gatewaysComplete, credentials>>

-----------------------------------------------------------------------------
(* The pull secrets                                                        *)

\* collectPullSecretRefs: of every pod and template, covered or not.
ListPullSecrets ==
  /\ phase = "pullSecrets" /\ Answered
  /\ secretRefs' = secretRefs \cup
       UNION {{Key(w.ns, s) : s \in w.secrets} :
                w \in {x \in cluster.pods \cup cluster.workloads : x.kind = Call.op /\ InScope(x)}}
  /\ UNCHANGED <<failures, found, discovery, auths>>

ListPullSecretsFails ==
  /\ phase = "pullSecrets" /\ Answered /\ Refused
  /\ UNCHANGED <<found, discovery, credentials>>

EndPullSecrets ==
  /\ phase = "pullSecrets" /\ calls = <<>>
  /\ phase' = "secrets"
  /\ UNCHANGED <<cluster, options, calls, failures, found, discovery, credentials>>

\* CollectPullSecretAuths: the secrets come in no particular order, and the first
\* that has credentials for a host keeps it.  One that is missing, is of another
\* type or cannot be parsed gives none.
FetchSecret(key) ==
  /\ phase = "secrets" /\ key \in secretRefs
  /\ secretRefs' = secretRefs \ {key}
  /\ LET hosts == UNION {s.hosts : s \in {x \in cluster.secrets : KeyOf(x) = key /\ x.usable}}
     IN  auths' = [h \in DOMAIN auths \cup hosts |-> IF h \in DOMAIN auths THEN auths[h] ELSE key]
  /\ UNCHANGED <<cluster, options, phase, calls, failures, found, discovery>>

EndSecrets ==
  /\ phase = "secrets" /\ secretRefs = {}
  /\ phase' = "collected"
  /\ UNCHANGED <<cluster, options, calls, failures, found, discovery, credentials>>

-----------------------------------------------------------------------------

K8sInit(clusters, optionSets) ==
  /\ cluster \in clusters /\ options \in optionSets
  /\ phase = "start" /\ calls = <<>> /\ failures = 0
  /\ inventory = {} /\ issues = {} /\ cloud = Evidence("", "", {}) /\ configMap = FALSE
  /\ objects = Nothing /\ warnings = {} /\ held = {} /\ ignored = {}
  /\ gatewaysComplete = TRUE
  /\ verdicts = <<>>
  /\ secretRefs = {} /\ auths = <<>>

K8sNext ==
  \/ Start \/ ListWorkloads \/ ListWorkloadsFails \/ ListPosture \/ ReadConfigMap \/ ListNodes
  \/ DoWithout \/ EndInventory \/ ListRuntime \/ ListRuntimeFails \/ EndRuntime
  \/ ListExposure \/ TryVersion \/ \E forbidden \in BOOLEAN : ListExposureFails(forbidden)
  \/ Analyze
  \/ ListPullSecrets \/ ListPullSecretsFails \/ EndPullSecrets
  \/ (\E key \in secretRefs : FetchSecret(key)) \/ EndSecrets

K8sEnded == phase \in {"collected", "error"}

-----------------------------------------------------------------------------
(* Properties                                                              *)

\* Something in the cluster may lead to the Service from outside: its own type,
\* an Ingress, or a route of a kind that some listener accepts.
Fronted(s) ==
  LET t == cluster.objects
  IN  \/ s.type \in {"LoadBalancer", "NodePort"} \/ s.externalIPs
      \/ \E i \in Range(t.ingresses) :
           i.ns = s.ns /\ \E ref \in Range(i.refs) : ref.service = s.name
      \/ \E r \in Range(t.routes) :
           /\ \E g \in t.gateways : \E l \in g.listeners :
                r.kind \in KindsOf(l.protocol) \cup l.kinds
           /\ \E b \in Range(r.backends) : BackendKey(r, b) = KeyOf(s)

(***************************************************************************)
(* "Completed cluster-wide Kubernetes exposure discovery: no supported     *)
(* external Ingress, Gateway route, or LoadBalancer Service targets this   *)
(* workload" (AnalyzeWithOptions): whenever that is said of a container,   *)
(* nothing in the cluster may lead to it, whatever lists were refused,     *)
(* held back or not served.                                                *)
(***************************************************************************)
NegativeIsProved ==
  \A a \in DOMAIN verdicts : verdicts[a].basis = "observed" =>
    /\ ~a[1].direct
    /\ \A s \in Range(cluster.objects.services) : SelectsWorkload(s, a[1]) => ~Fronted(s)

\* Ways to a Service that the operator has not closed.
OpenService(s, o) ==
  \/ s.label = "true"
  \/ s.label = "" /\ KeyOf(s) \notin o.negativeServices
OpenIngress(i, o) ==
  IF i.class \in DOMAIN o.classes /\ o.classes[i.class].label # ""
  THEN o.classes[i.class].label = "true"
  ELSE i.class \in o.positive \/ i.class \notin o.negative
OpenGateway(g, o) ==
  g.class \in o.positiveGateway \/ g.class \notin o.negativeGateway

OpenWayTo(s, o) ==
  \/ OpenService(s, o) /\ (s.type \in {"LoadBalancer", "NodePort"} \/ s.label = "true")
  \/ \E i \in Range(o.ingresses) :
       OpenIngress(i, o) /\ i.ns = s.ns /\ \E ref \in Range(i.refs) : ref.service = s.name
  \/ \E r \in Range(o.routes), g \in o.gateways :
       /\ OpenGateway(g, o)
       /\ \E b \in Range(r.backends) :
            /\ BackendKey(r, b) = KeyOf(s)
            /\ r.ns = s.ns \/ \E x \in o.grants : x.ns = s.ns /\ x.to \in {"", s.name}

(***************************************************************************)
(* The operator has the last word: a container is reachable only by a way  *)
(* that neither a label nor the ConfigMap has closed, and only through a   *)
(* route that may refer to a Service of another namespace.                 *)
(***************************************************************************)
OperatorHasTheLastWord ==
  \A a \in DOMAIN verdicts : verdicts[a].reachable =>
    \E s \in Range(objects.services) : SelectsWorkload(s, a[1]) /\ OpenWayTo(s, objects)

\* What a verdict says of the way to a container, from none to an open one.
Standing(v) ==
  CASE v.basis # "route" -> 0
    [] v.basis = "route" /\ ~v.reachable /\ v.protection = {} -> 1
    [] v.basis = "route" /\ ~v.reachable /\ v.protection # {} -> 2
    [] v.basis = "route" /\ v.reachable -> 3

(***************************************************************************)
(* The API lists objects in no order that means anything, and what is      *)
(* merged first must not decide (mergeExposure): whether a container is    *)
(* reachable, not reachable behind a protection, or just not reachable     *)
(* does not depend on the order of the Services, Ingresses and routes, and *)
(* neither does whether authentication is what keeps the internet out.     *)
(* Which protection is told does: of two ways that are both open the first *)
(* one, with its Cloud Armor policy or without, and for an init container  *)
(* the first that has any.  Of two policies of one Service the last one    *)
(* listed decides, so their order is not varied.                           *)
(***************************************************************************)
VerdictIgnoresOrder ==
  \A a \in DOMAIN verdicts :
    LET other == AnalyzeContainer(a[1], a[2].type,
          [objects EXCEPT !.services = Reverse(@), !.ingresses = Reverse(@), !.routes = Reverse(@)],
          FALSE)
    IN  /\ verdicts[a].basis = other.basis
        /\ Standing(verdicts[a]) = Standing(other)
        /\ ~other.reachable /\ a[2].type # "init" =>
             ("auth" \in verdicts[a].protection <=> "auth" \in other.protection)

Selected(pod) ==
  pod.ns \notin options.excluded /\ (options.all \/ pod.ns \in Range(options.namespaces))

Images(p) == {c.image : c \in p.containers} \ {""}
\* `of` is the workload behind the controller: it made the pod as it is now.
HasTemplate(p) ==
  \E w \in cluster.workloads :
    /\ w.ns = p.ns /\ w.name = p.of /\ Images(p) \subseteq Images(w)
    /\ w.kind \in {"Deployment", "StatefulSet", "DaemonSet", "Job", "CronJob"}
    /\ w.kind = "DaemonSet" => w.desired > 0
    /\ w.kind = "Job" => w.owner # "CronJob"
InventoryImages == UNION {{c.image : c \in r.containers} : r \in inventory}

(***************************************************************************)
(* "Pods owned by other controllers (e.g. operators/CRDs) are kept so      *)
(* their images are not missed" (collectPods): the image of every running  *)
(* pod in scope is in the inventory that a run goes on with.  Templates    *)
(* stand for their pods, every other pod for itself; left out are the pods *)
(* of a ReplicaSet that no Deployment made, and those whose template has   *)
(* changed since.  Of static pods of one name on several nodes it is only  *)
(* the images of some one of them: those of the others are there if they   *)
(* run the same, and may be missed while an upgrade is under way.          *)
(***************************************************************************)
PodsCovered ==
  phase \notin {"start", "inventory", "error"} =>
    \A p \in cluster.pods :
      Selected(p) /\ (p.owner \in {"ReplicaSet", "StatefulSet", "DaemonSet", "Job"} => HasTemplate(p))
        => \E q \in cluster.pods :
             (q = p \/ SameManifest(p, q)) /\ Images(q) \subseteq InventoryImages
=============================================================================

------------------------------ MODULE Exposure ------------------------------
(***************************************************************************)
(* Analyze of internal/exposure/exposure.go: which containers of a cluster *)
(* are reachable from the internet, from the Services, Ingresses, Gateway  *)
(* API objects and operator declarations collected from it.                *)
(*                                                                         *)
(* Objects are records of what the analysis looks at.  A label that is     *)
(* absent or not a boolean is "", a port name or number that is not given  *)
(* too.  Evidence texts and the metadata of routes are left out.           *)
(***************************************************************************)
EXTENDS Integers, FiniteSets, SequencesExt, Lists

\* What is said of a container: `basis` tells whether nothing was said, whether
\* some route or declaration decided, or whether the absence of any did.  The
\* `protection` is what the code attaches to an exposure: "auth", an enabled IAP
\* or ALB authentication, "armor", a Cloud Armor policy, both, or {} for nil.
Verdict(basis, reachable, protection) ==
  [basis |-> basis, reachable |-> reachable, protection |-> protection]

Unassessed == Verdict("none", FALSE, {})
Absent == Verdict("observed", FALSE, {})

Key(ns, name) == <<ns, name>>
KeyOf(object) == Key(object.ns, object.name)

\* One exposure of one Service.
Entry(key, reachable, protection) ==
  [service |-> key, reachable |-> reachable, protection |-> protection]

\* Only authentication keeps the internet out.
EntryBehind(key, protection) == Entry(key, "auth" \notin protection, protection)

-----------------------------------------------------------------------------
(* Services and the workloads they select                                  *)

Serving == {"Pod", "Deployment", "StatefulSet", "DaemonSet"}
Batch == {"Job", "CronJob"}

\* labelsMatchSelector: a Service without a selector selects nothing, and
\* neither does a workload without labels match one.
SelectsWorkload(s, w) ==
  /\ s.selector # {}
  /\ w.ns = s.ns
  /\ w.kind \in Serving
  /\ w.labels # {}
  /\ s.selector \subseteq w.labels

\* A later Service of the same name would replace an earlier one; names are
\* unique in a namespace.
ServiceAt(key, objects) ==
  {s \in Range(objects.services) : KeyOf(s) = key}

-----------------------------------------------------------------------------
(* Operator declarations                                                   *)

\* positiveWinsClassConflicts: a class on both lists is taken off the negative.
EffectiveNegative(positive, negative) == negative \ positive

-----------------------------------------------------------------------------
(* Ingresses                                                               *)

\* classifyIngress: the provider of a public Ingress, or "none".  The label of
\* the class, then the negative list, then the positive list, then the classes
\* with a meaning of their own.
IngressProvider(i, objects) ==
  LET class == i.class
      known == class \in DOMAIN objects.classes
      kind == objects.classes[class]
  IN  IF known /\ kind.label # ""
      THEN IF kind.label = "true" THEN "custom" ELSE "none"
      ELSE IF class \in EffectiveNegative(objects.positive, objects.negative) THEN "none"
      ELSE IF class \in objects.positive THEN "custom"
      ELSE IF class = "gce" THEN "gke"
      ELSE IF /\ class = "alb"
              /\ \/ i.internetFacing
                 \/ known /\ kind.alb /\ kind.params \in objects.internetFacingParams
           THEN "aws" ELSE "none"

\* servicePortMatchesRef: the key of a backend config names the port that the
\* Ingress refers to.
PortMatches(s, portKey, ref) ==
  /\ portKey # ""
  /\ \E p \in s.ports :
       /\ ref.portName \in {"", p.name}
       /\ ref.portNumber \in {"", p.number}
       /\ portKey \in {p.name, p.number}

\* backendConfigForServicePort: the configs of the port, or the default one.
BackendConfigs(s, ref) ==
  LET own == {s.configOf[k] : k \in {p \in DOMAIN s.configOf : PortMatches(s, p, ref)}}
  IN  IF \E k \in DOMAIN s.configOf : PortMatches(s, k, ref) THEN own ELSE {s.defaultConfig}

\* backendConfigProtection and awsALBProtection: the authentication in front of
\* a backend.
IngressProtection(i, provider, s, ref, objects) ==
  IF \/ provider = "gke" /\ \E c \in BackendConfigs(s, ref) : Key(s.ns, c) \in objects.iapConfigs
     \/ provider = "aws" /\ i.authenticates
  THEN {"auth"} ELSE {}

\* An Ingress without a load balancer serves nothing, unless its deployment is
\* only declared; its backends in the order of their names.
IngressEntries(i, objects, declared) ==
  LET provider == IngressProvider(i, objects)
      there == Only(i.refs, {ref \in Range(i.refs) : ServiceAt(Key(i.ns, ref.service), objects) # {}})
  IN  IF (declared \/ i.provisioned) /\ provider # "none"
      THEN [n \in DOMAIN there |->
              LET s == CHOOSE x \in ServiceAt(Key(i.ns, there[n].service), objects) : TRUE
              IN  EntryBehind(KeyOf(s), IngressProtection(i, provider, s, there[n], objects))]
      ELSE <<>>

-----------------------------------------------------------------------------
(* Gateways and routes                                                     *)

PublicGatewayClasses == {"gke-l7-global-external-managed", "gke-l7-regional-external-managed",
                         "gke-l7-gxlb", "gke-l7-gxlb-mc"}

ForcedOff(g, objects) ==
  g.class \in EffectiveNegative(objects.positiveGateway, objects.negativeGateway)

\* indexAWSGatewayLoadBalancers: an internet-facing LoadBalancerConfiguration
\* targets the Gateway, or the Gateway refers to one.
AWSPublic(g, objects) ==
  \E c \in {x \in objects.lbConfigs : x.internetFacing} :
    \/ Key(c.ns, IF c.target = "" THEN c.name ELSE c.target) = KeyOf(g)
    \/ g.params = KeyOf(c)

\* Mutant: an internet-facing configuration overrides the operator.
GatewayProvider_ConfigFirst(g, objects) ==
  IF AWSPublic(g, objects) THEN "aws"
  ELSE IF ForcedOff(g, objects) THEN "none"
  ELSE IF g.class \in PublicGatewayClasses THEN "gke"
  ELSE IF g.class \in objects.positiveGateway THEN "custom" ELSE "none"

\* indexGateways, classifyGatewayClass: the provider of a public Gateway.
GatewayProvider(g, objects) ==
  IF ForcedOff(g, objects) THEN "none"
  ELSE IF AWSPublic(g, objects) THEN "aws"
  ELSE IF g.class \in PublicGatewayClasses THEN "gke"
  ELSE IF g.class \in objects.positiveGateway THEN "custom" ELSE "none"

BackendKey(r, b) == Key(IF b.ns = "" THEN r.ns ELSE b.ns, b.service)

\* referenceGrantAllows: a grant in the namespace of the Service.
Granted(r, b, objects) ==
  \E g \in objects.grants :
    /\ g.ns = BackendKey(r, b)[1]
    /\ \E f \in g.from : f.kind = r.kind /\ f.ns = r.ns
    /\ g.to \in {"", b.service}

\* indexGCPBackendPolicies: what a policy attaches to a Service.  One that attaches
\* nothing is skipped, and a later one replaces an earlier one.
PolicyProtection(key, objects) ==
  LET attached == {p \in Range(objects.backendPolicies) :
                     Key(p.ns, p.service) = key /\ p.attaches # {}}
      mine == Only(objects.backendPolicies, attached)
  IN  IF mine = <<>> THEN {} ELSE Last(mine).attaches

RouteKinds == {"HTTPRoute", "GRPCRoute", "TCPRoute", "TLSRoute", "UDPRoute"}

\* A route and one of its parents: an entry for each backend it may refer to.
ParentEntries(r, parent, objects) ==
  LET key == Key(IF parent.ns = "" THEN r.ns ELSE parent.ns, parent.name)
      gateways == {g \in objects.gateways : KeyOf(g) = key}
      provider == IF gateways = {} THEN "none"
                  ELSE GatewayProvider(CHOOSE g \in gateways : TRUE, objects)
      allowed == Only(r.backends, {b \in Range(r.backends) :
                                     BackendKey(r, b)[1] = r.ns \/ Granted(r, b, objects)})
      protection(to) == IF provider = "gke" THEN PolicyProtection(to, objects) ELSE {}
      entry(to) == EntryBehind(to, protection(to))
  IN  IF provider = "none" THEN <<>>
      ELSE [n \in DOMAIN allowed |-> entry(BackendKey(r, allowed[n]))]

\* analyzeGatewayRoutes
RouteEntries(r, objects) ==
  IF r.kind \notin RouteKinds THEN <<>>
  ELSE FlattenSeq([n \in DOMAIN r.parents |-> ParentEntries(r, r.parents[n], objects)])

-----------------------------------------------------------------------------
(* Services of their own                                                   *)

\* analyzeServiceExposure: the label of the Service, the list of the operator,
\* and then its type.  A node port counts only if its own label says so.
ServiceEntries(s, objects, declared) ==
  IF s.label # "" THEN <<Entry(KeyOf(s), s.label = "true", {})>>
  ELSE IF KeyOf(s) \in objects.negativeServices THEN <<Entry(KeyOf(s), FALSE, {})>>
  ELSE IF s.type = "LoadBalancer" /\ (declared \/ s.provisioned) /\ ~s.internal
       THEN <<Entry(KeyOf(s), TRUE, {})>>
  ELSE IF s.type = "NodePort" THEN <<Entry(KeyOf(s), s.nodePortLabel = "true", {})>>
  ELSE <<>>

-----------------------------------------------------------------------------
(* The verdict on a container                                              *)

Flat(all, F(_)) == FlattenSeq([n \in DOMAIN all |-> F(all[n])])

\* Everything that is said of any Service, in the order of the analysis.
Entries(objects, declared) ==
  Flat(objects.ingresses, LAMBDA i : IngressEntries(i, objects, declared))
    \o Flat(objects.routes, LAMBDA r : RouteEntries(r, objects))
    \o Flat(objects.services, LAMBDA s : ServiceEntries(s, objects, declared))

\* Mutant: what comes later replaces what was said before.
MergeExposure_Last(existing, entry) == entry

\* mergeExposure: reachable over anything, and what has a protection over what is
\* not reachable for another reason.  The first of those alike stays, whatever
\* its protection.
MergeExposure(existing, entry) ==
  IF \/ existing.basis = "none"
     \/ ~existing.reachable /\ (entry.reachable \/ (entry.protection # {} /\ existing.protection = {}))
  THEN entry ELSE existing

\* applyWorkloadExposure: an init container that ends is not reachable; whatever
\* protection there is stays attached.
EntryFor(container, e) ==
  Verdict("route", e.reachable /\ container # "init", e.protection)

IsAbout(e, w, objects) == \E s \in ServiceAt(e.service, objects) : SelectsWorkload(s, w)

Merged(w, container, objects, declared) ==
  LET all == Entries(objects, declared)
      merged[n \in 0..Len(all)] ==
        IF n = 0 THEN Unassessed
        ELSE IF IsAbout(all[n], w, objects)
             THEN MergeExposure(merged[n - 1], EntryFor(container, all[n])) ELSE merged[n - 1]
  IN  merged[Len(all)]

\* workloadsWithRouteDeclarations: the Services something may yet expose, whether
\* or not it does so now.
DeclaredServices(objects) ==
  UNION {
    {KeyOf(s) : s \in {x \in Range(objects.services) :
                         x.type \in {"LoadBalancer", "NodePort"} \/ x.externalIPs}},
    UNION {{Key(i.ns, ref.service) : ref \in Range(i.refs)} : i \in Range(objects.ingresses)},
    UNION {{BackendKey(r, b) : b \in Range(r.backends)} :
             r \in {x \in Range(objects.routes) : x.kind \in RouteKinds}}}

MayBeRouted(w, objects) ==
  \E s \in Range(objects.services) :
    KeyOf(s) \in DeclaredServices(objects) /\ SelectsWorkload(s, w)

\* AnalyzeWithOptions for one container: what its Services are said to be, or,
\* if the discovery was complete and found no route at all, that it is not
\* reachable.
AnalyzeContainer(w, container, objects, declared) ==
  LET merged == Merged(w, container, objects, declared)
  IN  IF merged.basis # "none"
      THEN IF declared THEN [merged EXCEPT !.basis = "declared"] ELSE merged
      ELSE IF /\ objects.complete /\ ~declared
              /\ ~w.direct /\ ~MayBeRouted(w, objects)
              /\ w.kind \in Serving \cup Batch
           THEN Absent ELSE Unassessed
=============================================================================

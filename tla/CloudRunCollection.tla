-------------------------- MODULE CloudRunCollection --------------------------
(***************************************************************************)
(* runCloudRun of cmd/vdr/main.go up to the image scans, with              *)
(* internal/cloudrun: the services and jobs of a project, and for every    *)
(* service whether its ingress, its policy or an external load balancer    *)
(* lets the internet in.                                                   *)
(*                                                                         *)
(* A list of requests that is given up at the first one that fails is one  *)
(* request.  The hosts, paths and headers of a route are left out.  A URL  *)
(* map has the backends it names itself or for paths, those of its route   *)
(* rules and of their actions, and those of its other actions.             *)
(***************************************************************************)
EXTENDS Naturals, Sequences

CONSTANTS
  Projects,      \* what may be found in the project
  RunOptionSets  \* the flags a run may be given

\* Some region is named; a region has one service of a name; and a URL map refers
\* to the backends there are, or with "" to none.
ASSUME ProjectsAssumption ==
  \A p \in Projects :
    /\ p.regions # <<>> /\ p.regions \in Seq(DOMAIN p.in)
    /\ \A region \in DOMAIN p.in :
         /\ \A s \in p.in[region].services : s.kind \in {"Service", "Function"} /\ s.name # ""
         /\ \A s, t \in p.in[region].services : s.name = t.name => s = t
         /\ \A j \in p.in[region].jobs : j.kind = "Job"
    /\ "" \notin DOMAIN p.backends
    /\ \A map \in {p.maps[rule.map] : rule \in {x \in p.rules : x.map # ""}} :
         {map.default} \cup map.paths \cup map.rules \cup map.weighted \cup map.actions
           \subseteq {""} \cup DOMAIN p.backends

VARIABLES
  runOptions,
  project,
  runStage,      \* "labels", "services", "jobs", "routes", "policies", "collected", "failed"
  toList,        \* the regions that have not been read, in their order
  resources,     \* the services and jobs of the inventory
  toJudge,       \* the services that have no verdict
  routes,        \* the routes of the load balancers
  runExposureOf, \* kind, region and name to verdict
  runWarned      \* what a warning names

runInputs == <<runOptions, project>>
runVars == <<runInputs, runStage, toList, resources, toJudge, routes, runExposureOf, runWarned>>

RunInit(projects, optionSets) ==
  /\ runOptions \in optionSets /\ project \in projects
  /\ runStage = "labels" /\ toList = project.regions
  /\ resources = {} /\ toJudge = {} /\ routes = {} /\ runExposureOf = <<>> /\ runWarned = {}

-----------------------------------------------------------------------------
(* The routes of the load balancers                                        *)

\* backendServiceURLsFromURLMap: of the actions it reads those of route rules, not
\* those of path rules and of defaults.
BackendsOf(map) == ({map.default} \cup map.paths \cup map.rules \cup map.weighted) \ {""}

\* regionFromURL and cloudRunServiceFromNEG: a network endpoint group of a zone is
\* none of a service, and one with a URL mask names no service and matches none.
TargetsOf(backend) ==
  {[service |-> g.service, region |-> IF g.serviceRegion = "" THEN g.region ELSE g.serviceRegion,
    iap |-> backend.iap] :
     g \in {x \in backend.groups : x.region # "" /\ x.serverless /\ x.service # ""}}

\* listGlobalLoadBalancerRoutes and listRegionalLoadBalancerRoutes: a rule whose
\* target is no HTTP proxy has no URL map.
RoutesOf(p) ==
  UNION {TargetsOf(p.backends[b]) :
           b \in UNION {BackendsOf(p.maps[rule.map]) :
                          rule \in {x \in p.rules : x.external /\ x.map # ""}}}

-----------------------------------------------------------------------------
(* The exposure of a service                                               *)

\* The evidence of a verdict tells the ingress.
Judged(ingress, reachable, protection) ==
  [ingress |-> ingress, reachable |-> reachable, protection |-> protection]

RoutesTo(s) == {r \in routes : r.service = s.name /\ r.region = s.region}

\* Mutant: the first route that is found decides, and may be a protected one.
LoadBalanced_First(s) ==
  IF \E r \in RoutesTo(s) : r.iap THEN Judged(s.ingress, FALSE, "iap")
  ELSE Judged(s.ingress, RoutesTo(s) # {}, "none")

\* applyLoadBalancerExposure: a protected route counts when there is no other.
LoadBalanced(s) ==
  IF \E r \in RoutesTo(s) : ~r.iap THEN Judged(s.ingress, TRUE, "none")
  ELSE Judged(s.ingress, FALSE, IF RoutesTo(s) = {} THEN "none" ELSE "iap")

\* ingressFromAnnotation and ingressFromPB: a service that says nothing takes any
\* traffic by the first version of the API; by the second its ingress is read as
\* "unspecified", which is none that the program knows.
SaysNothing(s) == s.ingress = ""
IngressOf(s, version) ==
  IF ~SaysNothing(s) THEN s.ingress ELSE IF version = "v1" THEN "all" ELSE "unspecified"
ByLoadBalancer == "internal-and-cloud-load-balancing"

\* hasAllUsersInvoker, when the policy was read.
ByPolicy(s, answered) ==
  Judged(s.ingress, s.invokerIAMDisabled \/ (answered /\ s.allUsers), "none")

NeedsPolicy(s) == s.ingress = "all" /\ ~s.invokerIAMDisabled

Judge(s, answered) ==
  IF s.ingress = "all" THEN ByPolicy(s, answered)
  ELSE IF s.ingress = ByLoadBalancer THEN LoadBalanced(s)
  ELSE Judged(s.ingress, FALSE, "none")

\* The verdict is entered under the kind Service: what is listed as a Function
\* has none under it.
KeyedAs(kind, r) == [kind |-> kind, region |-> r.region, name |-> r.name]
Enter(exposures, key, verdict) ==
  [k \in DOMAIN exposures \cup ({key} \cap resources) |->
     IF k = key THEN verdict ELSE exposures[k]]

-----------------------------------------------------------------------------
(* runCloudRun                                                             *)

\* Without the labels of the project the rating falls back on its defaults.
GetProjectLabels(ok) ==
  /\ runStage = "labels"
  /\ runStage' = "services"
  /\ runWarned' = runWarned \cup (IF ok THEN {} ELSE {<<"labels">>})
  /\ UNCHANGED <<runInputs, toList, resources, toJudge, routes, runExposureOf>>

\* A resource is one of the region, with its containers that name an image.
Inventoried(found, region) ==
  {KeyedAs(r.kind, [region |-> region, name |-> r.name]) : r \in {x \in found : x.image # ""}}

InRegion(s, region, version) ==
  [name |-> s.name, region |-> region, ingress |-> IngressOf(s, version),
   invokerIAMDisabled |-> s.invokerIAMDisabled, allUsers |-> s.allUsers, kind |-> s.kind]

\* By the first version of the API, or the second when that fails; a region that
\* can be listed by neither ends the run.
ListServices(version) ==
  /\ runStage = "services"
  /\ LET region == Head(toList)
         all == project.in[region].services
         found == {s \in all : runOptions.includeFunctions \/ s.kind # "Function"}
     IN  IF version # "neither"
         THEN /\ runStage' = "jobs"
              /\ resources' = resources \cup Inventoried(found, region)
              /\ toJudge' = toJudge \cup {InRegion(s, region, version) : s \in found}
              /\ runWarned' = runWarned \cup (IF found = all THEN {} ELSE {<<"functions">>})
         ELSE runStage' = "failed" /\ UNCHANGED <<resources, toJudge, runWarned>>
  /\ UNCHANGED <<runInputs, toList, routes, runExposureOf>>

ListJobs(ok) ==
  /\ runStage = "jobs"
  /\ IF ok
     THEN /\ resources' = resources \cup Inventoried(project.in[Head(toList)].jobs, Head(toList))
          /\ toList' = Tail(toList)
          /\ runStage' = IF toList' # <<>> THEN "services"
                         ELSE IF runOptions.skipExposure THEN "collected" ELSE "routes"
     ELSE runStage' = "failed" /\ UNCHANGED <<resources, toList>>
  /\ UNCHANGED <<runInputs, toJudge, routes, runExposureOf, runWarned>>

\* AnalyzeExposure enters the jobs, and reads the load balancers if a service
\* depends on them.
ListLoadBalancerRoutes(ok) ==
  /\ runStage = "routes"
  /\ runExposureOf' = [k \in {r \in resources : r.kind = "Job"} |-> Judged("none", FALSE, "none")]
  /\ IF \E s \in toJudge : s.ingress = ByLoadBalancer
     THEN /\ routes' = IF ok THEN RoutesOf(project) ELSE {}
          /\ runWarned' = runWarned \cup (IF ok THEN {} ELSE {<<"routes">>})
     ELSE UNCHANGED <<routes, runWarned>>
  /\ runStage' = "policies"
  /\ UNCHANGED <<runInputs, toList, resources, toJudge>>

AnalyzeServiceExposure(s, answered) ==
  /\ runStage = "policies" /\ s \in toJudge
  /\ runExposureOf' = Enter(runExposureOf, KeyedAs("Service", s), Judge(s, answered))
  /\ runWarned' = runWarned \cup (IF NeedsPolicy(s) /\ ~answered THEN {<<"policy", s.region, s.name>>} ELSE {})
  /\ toJudge' = toJudge \ {s}
  /\ UNCHANGED <<runInputs, runStage, toList, resources, routes>>

EndCloudRun ==
  /\ runStage = "policies" /\ toJudge = {}
  /\ runStage' = "collected"
  /\ UNCHANGED <<runInputs, toList, resources, toJudge, routes, runExposureOf, runWarned>>

RunNext ==
  \/ \E version \in {"v1", "v2", "neither"} : ListServices(version)
  \/ \E ok \in BOOLEAN : \/ GetProjectLabels(ok) \/ ListJobs(ok) \/ ListLoadBalancerRoutes(ok)
                         \/ \E s \in toJudge : AnalyzeServiceExposure(s, ok)
  \/ EndCloudRun

-----------------------------------------------------------------------------
ServiceNamed(name, services) == CHOOSE s \in services : s.name = name

\* Somebody in the internet reaches the service by its own address.
OpenByAddress(s) == (SaysNothing(s) \/ s.ingress = "all") /\ (s.invokerIAMDisabled \/ s.allUsers)

\* An endpoint group may lead to the service: it names it, or has a URL mask.
LeadsTo(group, s, region) ==
  /\ group.serverless /\ group.region # "" /\ group.service \in {s.name, ""}
  /\ region = IF group.serviceRegion = "" THEN group.region ELSE group.serviceRegion

\* A way over a load balancer: an external rule, a backend of its URL map that
\* nothing protects, and a group of that.
Way(p, s, region, rule, b, group) ==
  LET map == p.maps[rule.map]
  IN  /\ s.ingress = ByLoadBalancer /\ rule.external /\ rule.map # ""
      /\ b = map.default \/ b \in map.paths \cup map.rules \cup map.weighted \cup map.actions
      /\ ~p.backends[b].iap /\ LeadsTo(group, s, region)

OpenByRoute(p, s, region) ==
  \E rule \in p.rules, b \in DOMAIN p.backends : \E g \in p.backends[b].groups :
    Way(p, s, region, rule, b, g)

\* The program reads neither the actions of path rules and of defaults nor masks.
Overlooked(map, b, group) ==
  \/ group.service = ""
  \/ b # map.default /\ b \notin map.paths \cup map.rules \cup map.weighted

OpenInSight(p, s, region) ==
  \E rule \in p.rules, b \in DOMAIN p.backends : \E g \in p.backends[b].groups :
    Way(p, s, region, rule, b, g) /\ ~Overlooked(p.maps[rule.map], b, g)

(***************************************************************************)
(* A service that the internet reaches is said not to be reachable only    *)
(* with a warning: of its own policy, or of the routes; one that it does   *)
(* not reach is never said to be; no job is; and every service of the      *)
(* inventory has its verdict in the end.  (A function has none: there the  *)
(* program differs from its documentation.)  Without a warning it says so  *)
(* of a service whose ingress it has read as unspecified, and of one that  *)
(* is only reached over a weighted backend of a path rule or a default, or *)
(* over an endpoint group with a URL mask.                                 *)
(***************************************************************************)
CloudRunGapIsWarned ==
  /\ \A key \in DOMAIN runExposureOf :
       LET verdict == runExposureOf[key]
       IN  /\ key.kind = "Job" => ~verdict.reachable
           /\ key.kind = "Service" =>
                LET s == ServiceNamed(key.name, project.in[key.region].services)
                IN  /\ verdict.reachable => OpenByAddress(s) \/ OpenByRoute(project, s, key.region)
                    /\ OpenByAddress(s) =>
                         \/ verdict.reachable
                         \/ <<"policy", key.region, key.name>> \in runWarned
                         \/ SaysNothing(s) /\ verdict.ingress = "unspecified"
                    /\ OpenInSight(project, s, key.region) => verdict.reachable \/ <<"routes">> \in runWarned
  /\ runStage = "collected" /\ ~runOptions.skipExposure =>
       {r \in resources : r.kind # "Function"} \subseteq DOMAIN runExposureOf
=============================================================================

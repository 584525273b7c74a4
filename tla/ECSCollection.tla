---------------------------- MODULE ECSCollection ----------------------------
(***************************************************************************)
(* runECS of cmd/vdr/main.go up to the image scans, with internal/ecs: the *)
(* task definitions of some regions, what of them runs, the paths from the *)
(* internet to it, and the secrets their images are pulled with.           *)
(*                                                                         *)
(* A list of requests that is given up at the first one that fails is one  *)
(* request.  A name is a family with its revision; a host port, a tag and  *)
(* the text of the evidence are left out.                                  *)
(***************************************************************************)
EXTENDS Naturals, FiniteSets, SequencesExt, Lists

CONSTANTS
  Estates,        \* what may run in the regions
  ECSOptionSets,  \* the flags a run may be given
  ServiceLimit    \* how many services ECS describes in one request

\* An ARN tells regions apart, and a definition has its containers by name.
ASSUME EstatesAssumption ==
  \A e \in Estates :
    /\ e.regions \in Seq(DOMAIN e.in)
    /\ \A r \in DOMAIN e.in :
         /\ IsList(e.in[r].definitions)
         /\ \A d, x \in Range(e.in[r].definitions) : d.name = x.name => d = x
         /\ \A d \in Range(e.in[r].definitions) :
              /\ IsList(d.containers)
              /\ \A c, x \in Range(d.containers) : c.name = x.name => c = x
              /\ \A c \in Range(d.containers) : \A port \in c.ports :
                   port.number # 0 /\ port.protocol # "-1"
         /\ \A s \in e.in[r].services : s.desired \in Nat /\ s.running \in Nat
    /\ \A r, q \in DOMAIN e.in : r # q =>
         /\ \A d \in Range(e.in[q].definitions), s \in e.in[r].services \cup e.in[r].tasks :
              s.arn # d.arn
         /\ \A s \in e.in[r].services, b \in e.in[q].balancers : b.targetGroup \notin s.targetGroups

VARIABLES
  ecsOptions,
  estate,
  ecsStage,      \* "definitions", "runtime", "graph", "secrets", "collected" or "failed"
  regionsLeft,   \* the regions that the stage has not read
  definitions,   \* the task definitions, in the order they were listed
  signals,       \* what was seen to run
  graph,         \* the regions whose paths were read
  runtimeOf,     \* name to status
  ecsExposureOf, \* region, name and container to verdict
  secretsLeft,   \* the containers whose secret has not been asked for
  secretAuths,   \* the hosts with a credential
  ecsWarned      \* what a warning names

ecsInputs == <<ecsOptions, estate>>
ecsResults == <<definitions, signals, graph, runtimeOf, ecsExposureOf, secretAuths>>
ecsVars == <<ecsInputs, ecsStage, regionsLeft, ecsResults, secretsLeft, ecsWarned>>

ECSInit(estates, optionSets) ==
  /\ ecsOptions \in optionSets /\ estate \in estates
  /\ ecsStage = "definitions" /\ regionsLeft = estate.regions
  /\ definitions = <<>> /\ signals = {} /\ graph = <<>> /\ runtimeOf = <<>>
  /\ ecsExposureOf = <<>> /\ secretsLeft = <<>> /\ secretAuths = {} /\ ecsWarned = {}

-----------------------------------------------------------------------------
(* What runs                                                               *)

In(region) == estate.in[region]

\* listServices describes all services of a cluster at once.
Describable(region) ==
  \A s \in In(region).services :
    Cardinality({x \in In(region).services : x.cluster = s.cluster}) <= ServiceLimit

ServiceStatus(s) ==
  IF s.running > 0 THEN "observed_running"
  ELSE IF s.desired > 0 THEN "service_desired" ELSE "defined_only"

\* awsRuntimeClient.CollectRuntimeSignals: a task of a service counts as one
\* that was started by itself.
SignalsOf(region) ==
  {[arn |-> s.arn, status |-> ServiceStatus(s)] : s \in In(region).services}
    \cup {[arn |-> t.arn, status |-> "standalone_recent"] : t \in In(region).tasks}

\* runtimePrecedence; nothing collects the signals of a schedule.
Precedence ==
  [defined_only |-> 1, standalone_recent |-> 2, service_desired |-> 4, observed_running |-> 5]

\* AnalyzeRuntime: by the name, which does not tell the regions apart.
AnalyzeRuntime(defs, seen) ==
  [name \in {d.name : d \in Range(defs)} |->
     LET statuses == {"defined_only"} \cup
           {g.status : g \in {x \in seen :
                                \E d \in Range(defs) : d.arn = x.arn /\ d.name = name}}
     IN  CHOOSE st \in statuses : \A other \in statuses : Precedence[other] <= Precedence[st]]

-----------------------------------------------------------------------------
(* The paths to it                                                         *)

\* convertSecurityGroup: a rule for all traffic has no ports, which reads as the
\* port 0.
Opens(rule, port) ==
  /\ rule.world
  /\ rule.protocol \in {port.protocol, "-1"}
  /\ port.number \in (IF rule.protocol = "-1" THEN {0} ELSE rule.ports)

KnownName(region, x) ==
  {d.name : d \in {e \in Range(definitions) : e.region = region /\ e.arn = x.arn}}

\* taskDefinitionPorts for one region after the other: the last one to have the
\* name and the container.
PortsOf(name, container) ==
  LET all == definitions \o
             FlattenSeq([i \in DOMAIN graph |->
               Only(definitions, {d \in Range(definitions) : d.region = graph[i]})])
      named == Only(all, {d \in Range(all) :
                 d.name = name /\ \E c \in Range(d.containers) : c.name = container})
  IN  UNION {c.ports : c \in {x \in Range(Last(named).containers) : x.name = container}}

\* loadBalancerExposure
Balanced(name) ==
  \E r, q \in Range(graph) : \E s \in In(r).services, b \in In(q).balancers :
    name \in KnownName(r, s) /\ b.targetGroup \in s.targetGroups /\ b.internetFacing

\* publicTaskExposure
PublicTask(name, container) ==
  \E r \in Range(graph) : \E t \in In(r).tasks :
    /\ name \in KnownName(r, t) /\ t.public
    /\ \E rule \in In(r).rules, port \in PortsOf(name, container) :
         rule.group \in t.groups /\ Opens(rule, port)

\* A container without an image is passed over.
ECSContainers ==
  UNION {{[definition |-> d, container |-> c] : c \in {x \in Range(d.containers) : x.image # ""}} :
           d \in Range(definitions)}

\* AnalyzeExposureFromGraph
AnalyzeGraph ==
  [x \in ECSContainers |->
     IF runtimeOf[x.definition.name] = "defined_only" THEN "none"
     ELSE IF PublicTask(x.definition.name, x.container.name) THEN "TaskENI"
     ELSE IF Balanced(x.definition.name) THEN "LoadBalancer" ELSE "none"]

-----------------------------------------------------------------------------
(* runECS                                                                  *)

SecretsOf(defs) ==
  LET all == FlattenSeq([i \in DOMAIN defs |-> defs[i].containers])
  IN  Only(all, {c \in Range(all) : c.secret /\ c.image # ""})

ReadsSecrets == ~ecsOptions.reachabilityOnly /\ ~ecsOptions.skipRegistryAuth

\* A region whose task definitions cannot be listed ends the run.
ListDefinitions(ok) ==
  /\ ecsStage = "definitions" /\ regionsLeft # <<>>
  /\ IF ok
     THEN LET region == Head(regionsLeft) IN
          definitions' = definitions \o
            [i \in DOMAIN In(region).definitions |->
               LET d == In(region).definitions[i] IN
               [region |-> region, arn |-> d.arn, name |-> d.name, containers |-> d.containers]]
     ELSE definitions' = definitions
  /\ ecsStage' = IF ~ok THEN "failed" ELSE IF Len(regionsLeft) = 1 THEN "runtime" ELSE ecsStage
  /\ regionsLeft' = IF ok /\ Len(regionsLeft) = 1 THEN estate.regions ELSE Tail(regionsLeft)
  /\ UNCHANGED <<ecsInputs, signals, graph, runtimeOf, ecsExposureOf, secretsLeft, secretAuths,
                 ecsWarned>>

\* A region that does not answer only lacks its signals.
CollectRuntime(ok) ==
  /\ ecsStage = "runtime" /\ regionsLeft # <<>>
  /\ ok => Describable(Head(regionsLeft))
  /\ signals' = signals \cup (IF ok THEN SignalsOf(Head(regionsLeft)) ELSE {})
  /\ ecsWarned' = ecsWarned \cup (IF ok THEN {} ELSE {<<"runtime", Head(regionsLeft)>>})
  /\ regionsLeft' = Tail(regionsLeft)
  /\ UNCHANGED <<ecsInputs, ecsStage, definitions, graph, runtimeOf, ecsExposureOf, secretsLeft,
                 secretAuths>>

EndECSRuntime ==
  /\ ecsStage = "runtime" /\ regionsLeft = <<>>
  /\ runtimeOf' = AnalyzeRuntime(definitions, signals)
  /\ IF ecsOptions.skipExposure
     THEN ecsStage' = "secrets" /\ regionsLeft' = <<>>
     ELSE ecsStage' = "graph" /\ regionsLeft' = estate.regions
  /\ secretsLeft' = IF ReadsSecrets THEN SecretsOf(definitions) ELSE <<>>
  /\ UNCHANGED <<ecsInputs, definitions, signals, graph, ecsExposureOf, secretAuths, ecsWarned>>

\* Mutant: the regions after one that does not answer are not read.
CollectGraph_Stops(ok) ==
  /\ ecsStage = "graph" /\ regionsLeft # <<>>
  /\ ok => Describable(Head(regionsLeft))
  /\ graph' = IF ok THEN Append(graph, Head(regionsLeft)) ELSE graph
  /\ ecsWarned' = ecsWarned \cup (IF ok THEN {} ELSE {<<"exposure", Head(regionsLeft)>>})
  /\ regionsLeft' = IF ok THEN Tail(regionsLeft) ELSE <<>>
  /\ UNCHANGED <<ecsInputs, ecsStage, definitions, signals, runtimeOf, ecsExposureOf,
                 secretsLeft, secretAuths>>

\* The services and tasks again, the load balancers, the interfaces of the tasks
\* and their security groups: a region that does not answer has no paths.
CollectGraph(ok) ==
  /\ ecsStage = "graph" /\ regionsLeft # <<>>
  /\ ok => Describable(Head(regionsLeft))
  /\ graph' = IF ok THEN Append(graph, Head(regionsLeft)) ELSE graph
  /\ ecsWarned' = ecsWarned \cup (IF ok THEN {} ELSE {<<"exposure", Head(regionsLeft)>>})
  /\ regionsLeft' = Tail(regionsLeft)
  /\ UNCHANGED <<ecsInputs, ecsStage, definitions, signals, runtimeOf, ecsExposureOf,
                 secretsLeft, secretAuths>>

AnalyzeECSExposure ==
  /\ ecsStage = "graph" /\ regionsLeft = <<>>
  /\ ecsExposureOf' = AnalyzeGraph
  /\ ecsStage' = "secrets"
  /\ UNCHANGED <<ecsInputs, regionsLeft, definitions, signals, graph, runtimeOf, secretsLeft,
                 secretAuths, ecsWarned>>

\* RepositoryCredentialAuths: a host is asked for until one secret of it is good.
ReadSecret(good) ==
  /\ ecsStage = "secrets" /\ secretsLeft # <<>>
  /\ LET host == Head(secretsLeft).host IN
       IF host \in secretAuths THEN UNCHANGED <<secretAuths, ecsWarned>>
       ELSE IF host # "" /\ good
            THEN secretAuths' = secretAuths \cup {host} /\ UNCHANGED ecsWarned
            ELSE ecsWarned' = ecsWarned \cup {<<"secret", host>>} /\ UNCHANGED secretAuths
  /\ secretsLeft' = Tail(secretsLeft)
  /\ UNCHANGED <<ecsInputs, ecsStage, regionsLeft, definitions, signals, graph, runtimeOf,
                 ecsExposureOf>>

EndECSSecrets ==
  /\ ecsStage = "secrets" /\ secretsLeft = <<>>
  /\ ecsStage' = "collected"
  /\ UNCHANGED <<ecsInputs, regionsLeft, ecsResults, secretsLeft, ecsWarned>>

ECSNext ==
  \/ \E ok \in BOOLEAN : \/ ListDefinitions(ok) \/ CollectRuntime(ok) \/ CollectGraph(ok)
                         \/ ReadSecret(ok)
  \/ EndECSRuntime \/ AnalyzeECSExposure \/ EndECSSecrets

-----------------------------------------------------------------------------
\* What runs of a task definition, and the open paths to a container of it.
RunsOf(d) ==
  {s \in In(d.region).services : s.arn = d.arn /\ s.running + s.desired > 0}
    \cup {t \in In(d.region).tasks : t.arn = d.arn}
ServedBy(d, services) ==
  {b \in In(d.region).balancers : b.internetFacing /\ \E s \in services : b.targetGroup \in s.targetGroups}
OpenTasks(d, c) ==
  {t \in In(d.region).tasks :
     /\ t.arn = d.arn /\ t.public
     /\ \E rule \in In(d.region).rules, port \in c.ports :
          /\ rule.group \in t.groups /\ rule.world
          /\ rule.protocol = port.protocol /\ port.number \in rule.ports}

\* No other region has a revision of that name.
Own(d) == \A e \in Range(definitions) : e.name = d.name => e.region = d.region

(***************************************************************************)
(* What cannot be read is never silently taken for absent: a container     *)
(* that an internet-facing load balancer or an open port of a public task  *)
(* leads to is said not to be reachable only with a warning that names its *)
(* region, whatever other regions do; one that is said to be reachable     *)
(* runs and has such a path; and the secret of every registry is in use or *)
(* named.  (Names that regions share, and rules for all traffic, are       *)
(* excepted: there the program differs from its documentation.)            *)
(***************************************************************************)
ECSGapIsWarned ==
  /\ \A x \in DOMAIN ecsExposureOf :
       LET d == x.definition
           active == {s \in In(d.region).services : s.arn = d.arn /\ s.running + s.desired > 0}
           path == ServedBy(d, active) # {} \/ OpenTasks(d, x.container) # {}
       IN  Own(d) =>
             /\ path /\ ecsExposureOf[x] = "none" =>
                  {<<"runtime", d.region>>, <<"exposure", d.region>>} \cap ecsWarned # {}
             /\ ecsExposureOf[x] # "none" =>
                  /\ RunsOf(d) # {}
                  /\ \/ ServedBy(d, {s \in In(d.region).services : s.arn = d.arn}) # {}
                     \/ OpenTasks(d, x.container) # {}
  /\ ecsStage = "collected" /\ ReadsSecrets =>
       \A c \in Range(SecretsOf(definitions)) :
         c.host \in secretAuths \/ <<"secret", c.host>> \in ecsWarned
=============================================================================

-------------------------- MODULE SwarmCollection --------------------------
(***************************************************************************)
(* runSwarm of cmd/vdr/main.go up to the image scans, with inventory.go,   *)
(* exposure.go and fedramp_config.go of internal/swarm: the services of a  *)
(* Swarm and the vdr-fedramp config come over SSM or from files, and every *)
(* service gets a verdict on its reachability.                             *)
(*                                                                         *)
(* A label or a port is one of a set, a glob the set of what it matches;   *)
(* a label that is absent or no boolean is "".  What is wrong with a       *)
(* config that is refused is left out.                                     *)
(***************************************************************************)
EXTENDS SwarmSSM, SequencesExt

CONSTANTS
  SwarmOptionSets,  \* the flags a run may be given
  Swarms,           \* what may be said of the services
  FedRAMPConfigs    \* the configs there may be

\* A label says true, false or nothing; and "hosts", which networks are host
\* networks whether or not the document says so, does not contradict it.
ASSUME SwarmsAssumption ==
  \A s \in Swarms :
    /\ \A r \in s.services : r.reachable \in {"", "true", "false"}
    /\ \A n \in s.networks : n.id \in s.hosts => "host" \in {n.name, n.driver}

VARIABLES
  swarmOptions,
  swarmStage,     \* "services", "configFile", "parse", "config", "exposure",
                  \* "collected" or "failed"
  swarm,          \* what was read of the services
  services,       \* those that were parsed
  exposureConfig, \* the declarations of the config
  exposureOf      \* service to its exposure

collectionVars == <<swarmOptions, swarmStage, swarm, services, exposureConfig, exposureOf>>
swarmVars == <<ssmVars, collectionVars>>

NoSwarm == [form |-> "none", services |-> {}, networks |-> {}, hosts |-> {}]
DefaultExposure == [prefixes |-> {"traefik"}, rules |-> <<>>]

-----------------------------------------------------------------------------
(* The services                                                            *)

\* Only the document made for the purpose lists the networks; a service refers
\* to them by their ids.
NetworkList(s) == IF s.form = "wrapped" THEN s.networks ELSE {}
HostNetworks(s) ==
  {"host"} \cup {n.id : n \in {x \in NetworkList(s) : "host" \in {x.name, x.driver}}}

\* ParseServices: the ports that were allocated, or else those asked for.
Parsed(r, s) ==
  [name |-> r.name, stack |-> r.stack, image |-> r.image, labels |-> r.labels,
   reachable |-> r.reachable, justification |-> r.justification,
   ports |-> IF r.endpoint # {} THEN r.endpoint ELSE r.spec,
   hostNetwork |-> r.networks \cap HostNetworks(s) # {},
   resolved |-> r.networks \ {"host"} \subseteq {n.id : n \in {x \in NetworkList(s) : x.name # ""}}]

-----------------------------------------------------------------------------
(* The exposure of a service                                               *)

GlobMatch(pattern, value) == pattern = {} \/ value \in pattern

MatchingRules(x, rules) ==
  {i \in DOMAIN rules : /\ GlobMatch(rules[i].stack, x.stack) /\ GlobMatch(rules[i].name, x.name)
                        /\ GlobMatch(rules[i].image, x.image)}

\* declaration: the label if it is a boolean, or the first rule that matches; at
\* most one.
Declarations(x, config) ==
  IF x.reachable # ""
  THEN {[reachable |-> x.reachable = "true", justification |-> x.justification]}
  ELSE LET matching == MatchingRules(x, config.rules)
       IN  {[reachable |-> config.rules[i].reachable, justification |-> config.rules[i].justification] :
              i \in {j \in matching : \A other \in matching : j <= other}}

\* exposureSignals
Signals(x, config) ==
  x.ports \cup (x.labels \cap config.prefixes) \cup (IF x.hostNetwork THEN {"host"} ELSE {})

Reached(status, basis, reachable) == [status |-> status, basis |-> basis, reachable |-> reachable]
Unknown == Reached("unassessed", "", FALSE)

\* Mutant: a service without a signal is taken for one that has no route.
AnalyzeService_AnyNetwork(x, config) ==
  LET declared == Declarations(x, config)
      declaration == CHOOSE d \in declared : TRUE
  IN  IF declared # {}
      THEN IF ~declaration.reachable /\ declaration.justification = "" THEN Unknown
           ELSE Reached("assessed", "attested", declaration.reachable)
      ELSE IF Signals(x, config) # {} THEN Unknown
      ELSE Reached("assessed", "observed", FALSE)

\* AnalyzeExposure for one service: a negative that is not justified is no
\* declaration, and nothing is concluded while a network is unknown.
AnalyzeService(x, config) ==
  LET declared == Declarations(x, config)
      declaration == CHOOSE d \in declared : TRUE
  IN  IF declared # {}
      THEN IF ~declaration.reachable /\ declaration.justification = "" THEN Unknown
           ELSE Reached("assessed", "attested", declaration.reachable)
      ELSE IF Signals(x, config) # {} \/ ~x.resolved THEN Unknown
      ELSE Reached("assessed", "observed", FALSE)

-----------------------------------------------------------------------------
(* runSwarm                                                                *)

Goto(stage) == swarmStage' = stage

SwarmInit(optionSets) ==
  /\ SSMInit
  /\ swarmOptions \in optionSets
  /\ swarmStage = "services" /\ swarm = NoSwarm /\ services = {}
  /\ exposureConfig = DefaultExposure /\ exposureOf = <<>>

OverSSM ==
  /\ swarmStage = "services" /\ swarmOptions.ssm
  /\ SSMNext
  /\ UNCHANGED collectionVars

\* Both documents are there, or one is not.
EndSSM ==
  /\ swarmStage = "services" /\ swarmOptions.ssm /\ SSMEnded
  /\ Goto(IF step = "failed" THEN "failed" ELSE "configFile")
  /\ UNCHANGED <<ssmVars, swarmOptions, swarm, services, exposureConfig, exposureOf>>

ReadServicesFile(ok) ==
  /\ swarmStage = "services" /\ ~swarmOptions.ssm
  /\ Goto(IF ok THEN "configFile" ELSE "failed")
  /\ UNCHANGED <<ssmVars, swarmOptions, swarm, services, exposureConfig, exposureOf>>

\* A file wins over what came over SSM.
ReadConfigFile(ok) ==
  /\ swarmStage = "configFile"
  /\ Goto(IF swarmOptions.configFile /\ ~ok THEN "failed" ELSE "parse")
  /\ UNCHANGED <<ssmVars, swarmOptions, swarm, services, exposureConfig, exposureOf>>

\* A service without a name or an image is passed over.
ParseServices(s) ==
  /\ swarmStage = "parse"
  /\ swarm' = s
  /\ IF s.form \in {"array", "wrapped"}
     THEN /\ services' = {Parsed(r, s) : r \in {x \in s.services : "" \notin {x.name, x.image}}}
          /\ Goto(IF swarmOptions.ssm \/ swarmOptions.configFile THEN "config" ELSE "exposure")
     ELSE Goto("failed") /\ UNCHANGED services
  /\ UNCHANGED <<ssmVars, swarmOptions, exposureConfig, exposureOf>>

\* ParseFedRAMPConfig, and the settings tried on the rubric of the report: a
\* config that cannot be used ends the run.  The prefixes add to the default.
UseConfig(config) ==
  /\ swarmStage = "config"
  /\ IF config.usable
     THEN /\ exposureConfig' = [prefixes |-> DefaultExposure.prefixes \cup config.prefixes,
                                rules |-> config.rules]
          /\ Goto("exposure")
     ELSE Goto("failed") /\ UNCHANGED exposureConfig
  /\ UNCHANGED <<ssmVars, swarmOptions, swarm, services, exposureOf>>

AnalyzeServices ==
  /\ swarmStage = "exposure"
  /\ exposureOf' = IF swarmOptions.skipExposure THEN <<>>
                   ELSE [x \in services |-> AnalyzeService(x, exposureConfig)]
  /\ Goto("collected")
  /\ UNCHANGED <<ssmVars, swarmOptions, swarm, services, exposureConfig>>

RunSwarm ==
  \/ EndSSM
  \/ \E ok \in BOOLEAN : ReadServicesFile(ok) \/ ReadConfigFile(ok)
  \/ \E s \in Swarms : ParseServices(s)
  \/ \E config \in FedRAMPConfigs : UseConfig(config)
  \/ AnalyzeServices

\* The agent may still get to a command when the run has gone on.
LateAgent ==
  /\ swarmStage # "services" /\ Agent
  /\ UNCHANGED collectionVars

SwarmNext == OverSSM \/ RunSwarm \/ LateAgent

SwarmEnded == swarmStage \in {"collected", "failed"}

\* What the run does by itself, whatever the agent does.
SwarmClient ==
  (swarmStage = "services" /\ swarmOptions.ssm /\ Client /\ UNCHANGED collectionVars) \/ RunSwarm

(***************************************************************************)
(* "the service is reachable only from other services on its overlay       *)
(* networks" (AnalyzeExposure): that is said only of a service that asks   *)
(* for no port, carries no label of a proxy, and is on no host network of  *)
(* the Swarm, whether or not the document lists the networks; and          *)
(* otherwise a service is not reachable only if somebody justified it.     *)
(***************************************************************************)
SwarmNegativeIsProved ==
  \A x \in DOMAIN exposureOf :
    exposureOf[x].status = "assessed" /\ ~exposureOf[x].reachable =>
      \E r \in swarm.services :
        /\ r.name = x.name /\ r.stack = x.stack
        /\ IF exposureOf[x].basis = "attested"
           THEN \/ r.reachable = "false" /\ r.justification # ""
                \/ \E d \in Range(exposureConfig.rules) : ~d.reachable /\ d.justification # ""
           ELSE /\ r.endpoint = {} /\ r.spec = {}
                /\ r.labels \cap exposureConfig.prefixes = {}
                /\ r.networks \cap ({"host"} \cup swarm.hosts) = {}
=============================================================================

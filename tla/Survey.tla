------------------------------- MODULE Survey -------------------------------
(***************************************************************************)
(* The parts of a run that precede and follow the image scans (run of      *)
(* cmd/vdr/main.go): reading a Kubernetes cluster, the manager of a Swarm, *)
(* ECS or Cloud Run, asking a registry for the VEX statements of an image, *)
(* and the report.  A run goes through them one after the other, and what  *)
(* one takes from those before it is among its inputs; each is begun here  *)
(* from every state that they can leave it.                                *)
(***************************************************************************)
EXTENDS KubernetesCollection, SwarmCollection, ECSCollection, CloudRunCollection, OCIVEX, Assessment

CONSTANT Begun   \* the parts to begin with

VARIABLE part

clusterVars == <<k8sVars, swarmVars>>
cloudVars == <<ecsVars, runVars>>
imageVars == <<vexVars, assessmentVars>>
surveyVars == <<part, clusterVars, cloudVars, imageVars>>

AnyCluster == {CHOOSE c \in Clusters : TRUE}
AnyOptions == {CHOOSE o \in OptionSets : TRUE}
AnySwarmOptions == {CHOOSE o \in SwarmOptionSets : TRUE}
AnyEstate == {CHOOSE e \in Estates : TRUE}
AnyECSOptions == {CHOOSE o \in ECSOptionSets : TRUE}
AnyProject == {CHOOSE p \in Projects : TRUE}
AnyRunOptions == {CHOOSE o \in RunOptionSets : TRUE}
AnyRegistry == {CHOOSE r \in Registries : TRUE}
AnyFinding == {CHOOSE f \in Findings : TRUE}
AnyInput == {CHOOSE i \in Inputs : TRUE}

\* Only the part that is begun has inputs to tell apart.
SurveyInit ==
  /\ part \in Begun
  /\ IF part = "k8s" THEN K8sInit(Clusters, OptionSets) ELSE K8sInit(AnyCluster, AnyOptions)
  /\ IF part = "swarm" THEN SwarmInit(SwarmOptionSets) ELSE SwarmInit(AnySwarmOptions)
  /\ IF part = "ecs" THEN ECSInit(Estates, ECSOptionSets) ELSE ECSInit(AnyEstate, AnyECSOptions)
  /\ IF part = "cloudrun" THEN RunInit(Projects, RunOptionSets) ELSE RunInit(AnyProject, AnyRunOptions)
  /\ IF part = "image" THEN VEXInit(Registries, Findings) ELSE VEXInit(AnyRegistry, AnyFinding)
  /\ IF part = "report" THEN AssessmentInit(Inputs) ELSE AssessmentInit(AnyInput)

SurveyNext ==
  \/ part = "k8s" /\ K8sNext /\ UNCHANGED <<part, swarmVars, cloudVars, imageVars>>
  \/ part = "swarm" /\ SwarmNext /\ UNCHANGED <<part, k8sVars, cloudVars, imageVars>>
  \/ part = "ecs" /\ ECSNext /\ UNCHANGED <<part, clusterVars, runVars, imageVars>>
  \/ part = "cloudrun" /\ RunNext /\ UNCHANGED <<part, clusterVars, ecsVars, imageVars>>
  \/ part = "image" /\ VEXNext /\ UNCHANGED <<part, clusterVars, cloudVars, assessmentVars>>
  \/ part = "report" /\ AssessmentNext /\ UNCHANGED <<part, clusterVars, cloudVars, vexVars>>

\* A run goes on by itself: the client of SSM sends, polls, and gives up when the
\* timeout of a command is over.  Nothing is assumed of the agent.
SurveyFairness ==
  WF_surveyVars(part = "swarm" /\ SwarmClient /\ UNCHANGED <<part, k8sVars, cloudVars, imageVars>>)

SurveySpec == SurveyInit /\ [][SurveyNext]_surveyVars /\ SurveyFairness

(***************************************************************************)
(* Reading a Swarm ends, whatever the agent of its manager does: every     *)
(* command has its timeout, and none is sent again (run of swarm/ssm.go).  *)
(***************************************************************************)
SwarmCollectionEnds == part = "swarm" => <>SwarmEnded
=============================================================================

SPECIFICATION SurveySpec
CONSTANTS
  Begun = {"k8s", "swarm", "ecs", "cloudrun", "image", "report"}
  Clusters <- MCClusters
  OptionSets <- MCOptionSets
  MaxFailures = 2
  Chunks = 2
  SwarmOptionSets <- MCSwarmOptionSets
  Swarms <- MCSwarms
  FedRAMPConfigs <- MCFedRAMPConfigs
  Estates <- MCEstates
  ECSOptionSets <- MCECSOptionSets
  ServiceLimit = 2
  Projects <- MCProjects
  RunOptionSets <- MCRunOptionSets
  Manifests <- MCManifests
  Content <- MCContent
  Registries <- MCRegistries
  MaxReferrers = 2
  Findings <- MCFindings
  Builtin <- MCBuiltin
  Inputs <- MCInputs
INVARIANTS NegativeIsProved OperatorHasTheLastWord VerdictIgnoresOrder PodsCovered
INVARIANTS StagedFileRemoved SwarmNegativeIsProved ECSGapIsWarned CloudRunGapIsWarned
INVARIANTS LookupIsComplete AnnotationIsBest ReportIsFaithful DeadlineMonotone UnknownLabelIsWorst
PROPERTIES SwarmCollectionEnds
CHECK_DEADLOCK FALSE

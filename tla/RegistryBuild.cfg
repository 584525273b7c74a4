SPECIFICATION Spec
CONSTANTS
  Hosts = {g1, e1, e2}
  GAR = {g1}
  ECR = {e1, e2}
  Respelled = {e1}
INVARIANTS NoSilentGap HelpersNeverShadow
PROPERTIES CredentialsOnlyImprove
CHECK_DEADLOCK FALSE

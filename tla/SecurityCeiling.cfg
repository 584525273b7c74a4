SPECIFICATION AssessmentSpec
CONSTANTS
  Builtin <- MCBuiltin
  Inputs <- MCInputs
INVARIANTS CeilingNeedsConsent
CHECK_DEADLOCK FALSE

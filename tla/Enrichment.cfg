SPECIFICATION EnrichSpec
CONSTANTS
  a = a
  b = b
  Caller = main
  Callers = {main}
  CVEs = {a, b}
  Total = 5
  IdOf <- MCIdOf
  MaxWarnings = 1
  Retries = 1
  FailureLimit = 2
  MaxLookups = 5
  MaxKills = 0
INVARIANTS EveryFailureAccounted
PROPERTIES EnrichmentEnds
CHECK_DEADLOCK FALSE

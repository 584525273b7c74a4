SPECIFICATION Spec
CONSTANTS
  Callers = {c1, c2}
  CVEs = {a, b}
  Retries = 1
  FailureLimit = 2
  MaxLookups = 3
  MaxKills = 1
SYMMETRY Interchangeable
PROPERTIES CacheNeverDamaged CachedRecordUsed BreakerIsFinal
CHECK_DEADLOCK FALSE

SPECIFICATION MCSafetySpec
CONSTANTS
  Workers = {w1, w2}
  Dirs = {d1, d2}
  Total = 2
  Retries = 1
  JavaImages <- MCJavaImages
  VexImages <- MCVexImages
SYMMETRY Interchangeable
INVARIANTS PoolConserved PoolNeverEmpty SkipsOnlyWhenPresent
PROPERTIES RepairedAtMostOnce
CHECK_DEADLOCK FALSE

SPECIFICATION MCSafetySpec
CONSTANTS
  Workers = {w1, w2}
  Dirs = {d1, d2}
  Total = 2
  Retries = 0
  JavaImages <- MCJavaImages
  VexImages <- MCVexImages
INVARIANTS HealRepairsRescan
CHECK_DEADLOCK FALSE

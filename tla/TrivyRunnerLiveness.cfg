SPECIFICATION MCSpec
CONSTANTS
  Workers = {w1, w2}
  Dirs = {d1, d2}
  Total = 2
  Retries = 1
  JavaImages = {}
  VexImages <- MCVexImages
PROPERTIES WorkerDirsRemoved ImplementsScanInventory
CHECK_DEADLOCK FALSE

SPECIFICATION Spec
CONSTANTS
  Images = {i1, i2, i3}
INVARIANTS ExitIsHonest ResourcesOutliveScans NothingLeftBehind
PROPERTIES RunEnds
CHECK_DEADLOCK FALSE

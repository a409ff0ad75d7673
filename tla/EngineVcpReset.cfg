CONSTANTS
  Render = {r1, r2}
  Paging = {}
  NoTask = NoTask
  HwQueueSize = 2
  FenceRead = "min"
  SkipAt = 0
  SkipLen = 0
  RecoveryEnable = TRUE
  MaxHangs = 1
SPECIFICATION Spec
SYMMETRY Symmetry
PROPERTY ResetSkipsDeadDma
CHECK_DEADLOCK FALSE

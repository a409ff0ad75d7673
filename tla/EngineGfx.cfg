CONSTANTS
  Render = {r1, r2}
  Paging = {p1}
  NoTask = NoTask
  HwQueueSize = 1
  FenceRead = "max"
  SkipAt = 0
  SkipLen = 0
  RecoveryEnable = TRUE
  MaxHangs = 1
SPECIFICATION Spec
SYMMETRY Symmetry
INVARIANTS TypeOK FenceBackIsDone ReleasedIsIdle HwQueueBound
PROPERTY ResetSkipsDeadDma
CHECK_DEADLOCK FALSE

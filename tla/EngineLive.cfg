CONSTANTS
  Render = {r1, r2}
  Paging = {}
  NoTask = NoTask
  HwQueueSize = 1
  FenceRead = "main"
  SkipAt = 1
  SkipLen = 3
  RecoveryEnable = TRUE
  MaxHangs = 1
SPECIFICATION FairSpec
INVARIANT HwQueueBound
PROPERTY EveryTaskReleased
CHECK_DEADLOCK FALSE

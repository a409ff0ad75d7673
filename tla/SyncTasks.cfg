CONSTANTS
  Contexts = {c1}
  ObjectNum = 2
  TaskNum = 3
  MaxFence = 1
  MaxObjects = 0
  MaxFails = 1
  Creators = 2
  GiveUp = FALSE
SPECIFICATION FairSpec
INVARIANTS RefsAccount InstancesAccount HeldIsAlive LimitHolds
PROPERTY DestroyReturns
CHECK_DEADLOCK FALSE

CONSTANTS
  Contexts = {c1}
  ObjectNum = 2
  TaskNum = 2
  MaxFence = 1
  MaxObjects = 1
  MaxFails = 1
  Creators = 1
  GiveUp = FALSE
SPECIFICATION Spec
INVARIANT WorkerContextExists
CHECK_DEADLOCK FALSE

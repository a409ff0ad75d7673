CONSTANTS
  f1 = f1
  f2 = f2
  e1 = e1
  e2 = e2
  Fences = {f1, f2}
  Engines = {e1, e2}
  EngineOf <- OneEngine
  SyncEngine = e2
  NoFence = NoFence
SPECIFICATION FairSpec
INVARIANTS SignaledIsFinished RefsAccount
PROPERTIES CreateReturns SignalsFollow
CHECK_DEADLOCK FALSE

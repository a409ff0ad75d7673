CONSTANTS
  t1 = t1
  t2 = t2
  e0 = e0
  e1 = e1
  a1 = a1
  c1 = c1
  Allocs = {a1, a2}
  Places = {p1}
  Tasks = {t1, t2}
  Clients = {c1}
  Engines = {e0, e1}
  PagingEngine = e0
  EngineOf <- BothEngines
  PinOf <- PinFirst
  NoPlace = NoPlace
  Nobody = Nobody
  MaxTries = 1
  PinModulus = 32
SPECIFICATION Spec
INVARIANT PagedInBeforeUse
CHECK_DEADLOCK FALSE

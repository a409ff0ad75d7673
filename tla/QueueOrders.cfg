CONSTANTS
  t1 = t1
  t2 = t2
  t3 = t3
  t4 = t4
  th1 = th1
  th2 = th2
  c1 = c1
  c2 = c2
  NoTask = NoTask
  Tasks = {t1, t2, t3, t4}
  Threads = {th1, th2}
  Contexts = {c1, c2}
  ThreadOf <- TwoEach
  CtxOf <- OneContext
  Setups <- OnlyRenders
  QueueLength = 2
  HwQueueSize = 1
SPECIFICATION Spec
INVARIANT OrdersAgree
CHECK_DEADLOCK FALSE

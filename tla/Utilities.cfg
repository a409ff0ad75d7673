CONSTANTS
  MaxHandle = 5
  Objects = {o1, o2, o3, o4, o5}
  Null = Null
  Start = 2
  Size = 16
  HeapAlign = 2
  AllocSizes = {1, 4, 5}
  Alignments = {0, 8}
  MaxFails = 1
  RingSize = 8
  Requests = {1, 3, 5, 9}
SPECIFICATION Spec
INVARIANTS
  HandlesResolve LeftNumAccounts
  HeapIsTiled UsedIsInside NoFragments FreeListOrdered
  RingTypeOK NeverRefused UnreadStays
PROPERTY RefusedOnlyWhenFull

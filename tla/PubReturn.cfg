\* Every kind of call but moves, over fewer calls, under a fair scheduler.
CONSTANTS
  t1 = t1  t2 = t2  s1 = s1  s2 = s2
  None = none
  Threads = {t1, t2}
  Slots = {s1}
  Client = {"count", "connected", "capture", "self", "destroy"}
  Faults = {"throw", "sub_alloc", "push_alloc", "snapshot_alloc"}
  MaxNodes = 2
  MaxCalls = 4
  UserDepth = 3
SPECIFICATION FairSpec
PROPERTIES CallsReturn
CHECK_DEADLOCK FALSE

\* Two threads connect, disconnect and publish, from handlers too; everything that may throw throws.
CONSTANTS
  t1 = t1  t2 = t2  s1 = s1  s2 = s2
  None = none
  Threads = {t1, t2}
  Slots = {s1, s2}
  Client = {"destroy", "count"}
  Faults = {"throw", "sub_alloc", "push_alloc", "token_alloc", "snapshot_alloc"}
  MaxNodes = 2
  MaxCalls = 5
  UserDepth = 2
SPECIFICATION Spec
SYMMETRY Symmetric
INVARIANTS LockInnermost Delivery
PROPERTIES ImplementsPubSub
CHECK_DEADLOCK FALSE

\* Every use of a subscription: moved, assigned over, captured by a handler, ended by its own handler.
CONSTANTS
  t1 = t1  t2 = t2  s1 = s1  s2 = s2
  None = none
  Threads = {t1, t2}
  Slots = {s1, s2}
  Client = {"move", "capture", "self", "destroy", "connected"}
  Faults = {"sub_alloc", "push_alloc", "token_alloc", "snapshot_alloc", "throw"}
  MaxNodes = 2
  MaxCalls = 5
  UserDepth = 2
SPECIFICATION Spec
SYMMETRY Symmetric
INVARIANTS TypeOK OwnedOnce NotReentered Reclaimed
CHECK_DEADLOCK FALSE

\* The publisher is destroyed while a publication is in flight.
CONSTANTS
  t1 = t1  t2 = t2  s1 = s1  s2 = s2
  None = none
  Threads = {t1, t2}
  Slots = {s1, s2}
  Client = {"destroy"}
  Faults = {}
  MaxNodes = 1
  MaxCalls = 4
  UserDepth = 2
SPECIFICATION Spec
INVARIANTS NoOpOnceDestroyed
CHECK_DEADLOCK FALSE

\* A power failure once the commit has replaced the target.
CONSTANTS
  w1 = w1  w2 = w2  p1 = p1  p2 = p2
  Target = target
  Writers = {w1}
  Processes = {p1}
  Home <- OneProcess
  Posix = TRUE
  Faults = {"crash"}
  Client = {}
  MaxSessions = 2
  MaxLen = 1
  MaxDeaths = 1
  MaxChmods = 0
SPECIFICATION Spec
PROPERTIES ModeKept
CHECK_DEADLOCK FALSE

\* A commit that fails after it has closed the temp.
CONSTANTS
  w1 = w1  w2 = w2  p1 = p1  p2 = p2
  Target = target
  Writers = {w1}
  Processes = {p1}
  Home <- OneProcess
  Posix = TRUE
  Faults = {"rename"}
  Client = {}
  MaxSessions = 2
  MaxLen = 1
  MaxDeaths = 0
  MaxChmods = 0
SPECIFICATION Spec
INVARIANTS TempsOwned
CHECK_DEADLOCK FALSE

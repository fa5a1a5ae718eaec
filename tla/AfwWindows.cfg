\* The Windows calls, two processes, kills; the owner may make the target read-only at any time.
CONSTANTS
  w1 = w1  w2 = w2  p1 = p1  p2 = p2
  Target = target
  Writers = {w1, w2}
  Processes = {p1, p2}
  Home <- TwoProcesses
  Posix = FALSE
  Faults = {"crash", "kill"}
  Client = {}
  MaxSessions = 3
  MaxLen = 1
  MaxDeaths = 1
  MaxChmods = 1
SPECIFICATION Spec
INVARIANTS TargetWhole
PROPERTIES ImplementsRegister
CHECK_DEADLOCK FALSE

\* Objects moved around while others commit, fail and are tried again, and processes are killed.  Of the
\* errors after the temp is closed, the one that leaves no temp behind: the flush of the directory.
CONSTANTS
  w1 = w1  w2 = w2  p1 = p1  p2 = p2
  Target = target
  Writers = {w1, w2}
  Processes = {p1}
  Home <- OneProcess
  Posix = TRUE
  Faults = {"write", "fsync", "dirsync", "kill"}
  Client = {"move", "retry"}
  MaxSessions = 3
  MaxLen = 1
  MaxDeaths = 1
  MaxChmods = 0
SYMMETRY Alike
SPECIFICATION Spec
INVARIANTS HandlesOwned TempsOwned
PROPERTIES ModeKept
CHECK_DEADLOCK FALSE

\* One writer that tries again and is restarted after a kill; the target may be on another filesystem.
CONSTANTS
  w1 = w1  w2 = w2  p1 = p1  p2 = p2
  Target = target
  Writers = {w1}
  Processes = {p1}
  Home <- OneProcess
  Posix = TRUE
  Faults = {"exdev", "copy_open", "copy", "remove", "dirsync", "dirsync_einval", "kill"}
  Client = {"fallback", "retry"}
  MaxSessions = 3
  MaxLen = 1
  MaxDeaths = 1
  MaxChmods = 0
SPECIFICATION Spec
INVARIANTS FallbackWhole TargetWhole
CHECK_DEADLOCK FALSE

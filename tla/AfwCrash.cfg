\* Two writers, every error of a system call, a power failure or kill anywhere, failed commits retried;
\* the owner of the target may change its mode once, at any time.
CONSTANTS
  w1 = w1  w2 = w2  p1 = p1  p2 = p2
  Target = target
  Writers = {w1, w2}
  Processes = {p1}
  Home <- OneProcess
  Posix = TRUE
  Faults = {"open", "write", "fsync", "chmod", "chown", "chown_eperm", "rename", "exdev", "remove", "dirsync", "crash", "kill"}
  Client = {"retry"}
  MaxSessions = 2
  MaxLen = 1
  MaxDeaths = 1
  MaxChmods = 1
SYMMETRY Alike
SPECIFICATION Spec
INVARIANTS TypeOK TargetWhole Durable HandlesOwned
PROPERTIES ImplementsRegister
CHECK_DEADLOCK FALSE

\* Two threads log, set the level, make, add and clear sinks: two file sinks that draw
\* their names from one prefix, and a sink of the application that throws and logs.
CONSTANTS
  t1 = t1  t2 = t2  file = file  other = other  app = app
  NoId = nullptr
  NoName = noname
  NoThread = none
  Threads = {t1, t2}
  Sinks = {file, other, app}
  KindOf <- MCKindOf
  Does <- MCDoes
  Caller <- MCCaller
  SetLevels = {"trace", "off"}
  MsgLevels <- MCMsgLevels
  MaxCalls = 2
  MaxControls = 2
  MaxNames = 2
SPECIFICATION FairSpec
INVARIANTS TypeOK OnlySinksLockThemselves RegistryOwned LinesOnDisk
PROPERTIES ImplementsJournal CallsReturn
CHECK_DEADLOCK FALSE

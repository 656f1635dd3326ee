\* Two threads that ask for IDs, two that use the log.
SPECIFICATION SuiteSpec
CONSTANTS
  t = t
  u = u
  Threads = {a, b}
  Interval = 2
  InOrder = FALSE
  MaxId = 4
  MaxMessages = 4
  None = None
SYMMETRY Symmetry
INVARIANTS
  
  LogIsSound
PROPERTIES
  WaitersAreToldTheTruth
  AgreesWithIntervals
CHECK_DEADLOCK FALSE

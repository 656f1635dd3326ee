\* Three threads in the page table, two in the page cache.
SPECIFICATION SuiteSpec
CONSTANTS
  t = t
  u = u
  Threads = {x, y, z}
  FanOut = 2
  MaxPid = 2
  MaxNodes = 4
SYMMETRY Symmetry
INVARIANTS
  FoundFromThenOn
  PagesAreSound
  MemoryFileAndLogAgree
PROPERTIES
  UpdatesWhatWasSeen
CHECK_DEADLOCK FALSE

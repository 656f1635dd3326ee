\* Three callers, a fourth and a fifth thread for the pool, the flusher and the like.
SPECIFICATION FairSuite
CONSTANTS
  Threads = {1, 2, 3}
  None = None
INVARIANTS
  Exclusion
  CloseIsClean

  
CHECK_DEADLOCK FALSE

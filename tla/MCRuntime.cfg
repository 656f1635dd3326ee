\* Small sets of threads, workers, clients and writers.
SPECIFICATION Spec
CONSTANTS
  t = t
  u = u
  v = v
  s1 = s1
  w = w
  x = x
  i1 = i1
  d1 = d1
  e1 = e1
  c1 = c1
  c2 = c2
  c3 = c3
  WriteTask = WriteTask
  None = None
SYMMETRY Symmetry
INVARIANTS
  CacheIsSound
  StackIsSound
  
  
  
PROPERTIES
  EvictsLeastRecentlyUsed
CHECK_DEADLOCK FALSE

\* Two threads on small databases, with a crash.
SPECIFICATION Spec
CONSTANTS
  Threads = {t, u}
  Absent = Absent
SYMMETRY Symmetry
INVARIANTS
  CommitsAreSound
  
PROPERTIES
  SerialStoreSpec
CHECK_DEADLOCK FALSE

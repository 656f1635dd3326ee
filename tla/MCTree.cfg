\* Two threads on five small trees.
SPECIFICATION Spec
CONSTANTS
  Threads = {t, u}
SYMMETRY Symmetry
INVARIANTS
  TreeIsSound

  
CHECK_DEADLOCK FALSE

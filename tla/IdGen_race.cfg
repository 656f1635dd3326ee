\* Two threads in the same interval, buffers written in order.
CONSTANTS
  Threads = {a, b}
  Interval = 2
  InOrder = TRUE
  MaxId = 7
  MaxMessages = 5
  None = None
SPECIFICATION Spec
CHECK_DEADLOCK FALSE
INVARIANTS
  IdsAreUnique

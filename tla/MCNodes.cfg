\* Keys of up to three bytes.
SPECIFICATION Spec
INVARIANTS
  IterationIsExact
  LayoutIsRight
PROPERTIES
  InOrder
CHECK_DEADLOCK FALSE

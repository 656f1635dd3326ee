\* Two threads t and u, or v alone; two pages p and q, or p3 alone.
SPECIFICATION Spec
CONSTANTS
  t = t
  u = u
  v = v
  p = p
  q = q
  p3 = p3
  None = None
SYMMETRY Symmetry
INVARIANTS
  SegmentsAreSound
  NothingNeededIsLost
  HeapIsSound
CHECK_DEADLOCK FALSE

\* Three threads that write and make batches from the middle of a segment of six
\* bytes into the next; or two of them in a new log, while writes fail.
CONSTANTS
  t1 = t1
  t2 = t2
  t3 = t3
  Threads = {t1, t2, t3}
  SegmentSize = 6
  SegHeaderLen = 1
  MaxMsgHeaderLen = 3
  MsgLens = {2, 4}
  ManifestLen = 2
  MaxWriters = 2
  StartLsns = {2}
  MaxLsn = 8
  Ops <- OpsReserve
  IoErrors = FALSE
  HeapErrors = FALSE
  None = None
SPECIFICATION SuiteSpec
\* The bound MaxLsn stops the system.
CHECK_DEADLOCK FALSE
INVARIANTS
  NoAliasing
  RedZoneRespected
  WrittenExactlyOnce
  WritersAreHeld
  AssertionsHold
  StableIsDurable
  BatchesStabilizeAtomically
PROPERTIES
  SealedIsFinal
  ImplementsDurableLog
SYMMETRY WritersSymmetry

SPECIFICATION Spec
CONSTANTS
  Threads = {1, 2}
  Trees = 2
  Keys = {k1}
  Values = {v1}
  Absent = Absent
  Calls = {"transaction"}
  ClosureOps = {"insert"}
  MaxOps = 2
  MaxCalls = 1
  MaxCrashes = 0
  MaxErrors = 1
INVARIANTS
  ErrorLeavesNothing
CHECK_DEADLOCK FALSE

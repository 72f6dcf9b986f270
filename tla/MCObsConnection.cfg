SPECIFICATION ReachableSpec
CONSTANTS
  Callers = {i1, i2}
  Settings = {s1, s2}
  Removed = Removed
  QueueCap = 1
  MaxCalls = 2
  MaxChanges = 1
CHECK_DEADLOCK FALSE
INVARIANTS
  TypeOK
  InOrder
  OwnAnswer
  CallersHaveTask
PROPERTIES
  TasksSettle

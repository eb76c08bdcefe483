SPECIFICATION FilterSpec
CONSTANTS
  MaxValue = 1
INVARIANTS
  EvaluatedAsDocumented
CHECK_DEADLOCK FALSE

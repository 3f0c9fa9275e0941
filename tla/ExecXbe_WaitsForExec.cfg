CONSTANT
  MaxSteps = 6
SPECIFICATION Spec
INVARIANT
  WaitsForExec
CHECK_DEADLOCK FALSE

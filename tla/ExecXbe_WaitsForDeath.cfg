CONSTANT
  MaxSteps = 6
SPECIFICATION Spec
INVARIANT
  WaitsForDeath
CHECK_DEADLOCK FALSE

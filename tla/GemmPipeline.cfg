SPECIFICATION Spec
CONSTANTS
  Blocks = 2
  StepCounts <- MCSteps
  Depths <- MCDepths
INVARIANTS
  StoredIsProduct
CHECK_DEADLOCK FALSE

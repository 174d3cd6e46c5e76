SPECIFICATION Spec
CONSTANTS
  N = 5
  Plans <- Traffic
INVARIANTS
  ExactlyOnce
  InOrder
PROPERTIES
  EveryFlitArrives

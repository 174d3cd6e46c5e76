SPECIFICATION Spec
CONSTANTS
  N = 4
  BufferDepth = 2
  HopLatency = 1
  InjectDepth = 1
  IngressDepth = 1
  BusyTiles = {0}
  Plans <- MCPlans
INVARIANTS
  NeverWedged
  InOrder
  NothingLost
PROPERTIES
  EveryRequestAnswered

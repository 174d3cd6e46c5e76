SPECIFICATION Spec
CONSTANTS
  N = 2
  Buffers <- MCBuffers
  Accesses <- MCAccesses
  MaxPrims = 3
INVARIANTS
  SerialOrder
  BarriersAreExact
  HaltedIsCommitted
CHECK_DEADLOCK FALSE

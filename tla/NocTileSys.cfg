SPECIFICATION SysSpec
CONSTANTS
  N = 4
  Depth = 6
  CntMod = 8
  Programs <- AllPrograms
INVARIANTS
  LostOnlyInCollisions
PROPERTIES
  PushesComplete

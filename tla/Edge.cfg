SPECIFICATION MachineSpec
CONSTANT
  Configs <- MCConfigs
INVARIANTS
  NoHazard
  OperandsAreWhole
  StoredIsReference
PROPERTY
  EveryTileHalts
CHECK_DEADLOCK FALSE

SPECIFICATION MachineSpec
CONSTANT
  Configs <- WideConfigs
INVARIANT
  OperandsAreWhole
CHECK_DEADLOCK FALSE

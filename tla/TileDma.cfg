SPECIFICATION Spec
CONSTANTS
  Programs <- MixedPrograms
  QueueDepth = 2
  SetupCycles = 1
  ChunksPerCycle = 2
  MaxInflight = 2
  RdPorts = 2
  WrPorts = 1
  FabricCap = 2
  MaxRemote = 1
INVARIANTS
  RetiredHaveLanded
  AnswersAreExpected
  InflightIsExact
  IdleUnlessCutOff
PROPERTIES
  FenceDrains
  SyncBlocks
  EventuallyIdle
  Contract

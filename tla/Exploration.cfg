SPECIFICATION Spec
CONSTANTS
  Procs = {"P", "Q"}
  Scenes <- MCScenes
  Configs <- MCConfigs
  Anchors = {"A", "K"}
  Reused = {"A"}
  Baseline <- Good
  Sound <- MCSound
INVARIANTS
  NoInvalidCycles
  UsedIsBuilt
  AloneIsExact
PROPERTIES
  JudgedOnce
  EverySearchEnds

SPECIFICATION Spec
CONSTANTS
  Tiles <- MCTiles
  Tags <- MCTags
  N = 3
  Rounds = 3
  MaxDma = 1
  MaxLiveTags = 5
INVARIANTS
  PhaseSeparation
  SpentTagsAreZero
  NoOverflow
PROPERTIES
  EveryTilePasses
  Contract
CHECK_DEADLOCK FALSE

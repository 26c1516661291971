SPECIFICATION Spec
CONSTANTS
  NULL = NULL
  Cell = {c1, c2, c3, c4, c5, c6, c7, c8, c9}
  Dir <- NavDirType
  Opposite <- OppositeDirection
  Pos <- MCPos
  Near <- NearBy
  TooFar <- MCTooFar
  Scripts = {{"choose"}}
  GridSize = 32
  numDirections = 4
  Terrains <- MCTerrains
  GroundSpots <- MCGroundSpots
  AirSpots <- MCAirSpots
  MaxSeeds = 2
PROPERTIES
  GroundIsExplored
  GenerationEnds
CHECK_DEADLOCK FALSE

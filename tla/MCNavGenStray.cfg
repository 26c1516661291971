SPECIFICATION Spec
CONSTANTS
  NULL = NULL
  Cell = {c1, c2, c3}
  Dir <- NavDirType
  Opposite <- OppositeDirection
  Pos <- MCPos
  Near <- NearBy
  TooFar <- Unlimited
  Scripts = {{"remove", "file"}}
  GridSize = 32
  numDirections = 4
  Terrains <- FlatTerrain
  GroundSpots <- FlatSpots
  AirSpots = {}
  MaxSeeds = 2
INVARIANTS
  LoadStaysInBounds
CHECK_DEADLOCK FALSE

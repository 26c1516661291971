SPECIFICATION Spec
CONSTANTS
  NULL = NULL
  NumDir = 2
  Node <- Three
  Pos <- RectPos
  Dist <- RectDist
  Heuristics <- RectHeuristics
  Heur <- RectHeur
  Blocks = {}
  Worlds <- ThreeWorlds
  Requests <- ThreeRequests
  EditSets <- ScriptEdits
  EditNode = {1}
INVARIANTS
  FoundPathHasItsEnds
PROPERTIES
  SearchEnds

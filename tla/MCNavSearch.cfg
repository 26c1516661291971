SPECIFICATION Spec
CONSTANTS
  NULL = NULL
  NumDir = 3
  Node <- Four
  Pos <- LinePos
  Dist <- LineDist
  Heuristics <- LineHeuristics
  Heur <- LineHeur
  Blocks <- LineBlocks
  Worlds <- FourWorlds
  Requests <- FourRequests
  EditSets <- NoEdits
  EditNode = {}
INVARIANTS
  NotFoundMeansUnreachable
  FoundPathIsShortest

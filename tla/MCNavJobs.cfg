SPECIFICATION Spec
CONSTANTS
  NULL = NULL
  Nav = {n1}
  Job = {j1, j2, j3}
  Habits = {"raise", "regenerate"}
  MaxDepth = 1
  MaxEpoch = 2
INVARIANTS
  QueueIsLive
  SearchReadsLiveNodes
PROPERTIES
  Served
  ShutdownReturns
CHECK_DEADLOCK FALSE

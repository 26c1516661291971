SPECIFICATION AllSpec
CONSTANTS
  NULL = NULL
  Cell = {x1, x2, x3}
  North = North
  South = South
  Dir = {North, South}
  Opposite <- MCOpposite
  Pos <- Places
  Near <- SamePlace
  TooFar <- Nowhere
  Scripts <- MCScripts
  State = {x1, x2, x3}
  Class = {c1, c2}
  Hook = {h1, h2}
  PostHook = {h1}
  Gate = Gate
  None = None
  HookHabits = {}
  MaxCalls = 2
SYMMETRY Symmetry
INVARIANTS
  ScriptsSeeTheGraph
  EveryStateIsTold
  RunsOwnOriginal
  DetachRestores
PROPERTIES
  LoadRestores
CHECK_DEADLOCK FALSE

SPECIFICATION PvsSpec
CONSTANTS
  Cells = {c1, c2}
  Wraps = {w1, w2, w3}
  NoCell = NoCell
CHECK_DEADLOCK FALSE
INVARIANT DeletedIsDenied

SPECIFICATION Spec
CONSTANTS
  NULL = NULL
  Nav = {n1}
  Job = {j1, j2, j3}
  Habits = {"raise", "raise update", "reenter", "regenerate", "mix"}
  MaxDepth = 2
  MaxEpoch = 2
SYMMETRY Symmetry
INVARIANTS
  CalledOnce
CHECK_DEADLOCK FALSE

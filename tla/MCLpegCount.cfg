SPECIFICATION Spec
CONSTANTS
  Chars = {1, 2, 3}
  Other = 3
  MAXRULES = 4
  MAXBEHIND = 2
  MAXOFF = 2
  BufferSlots = 8
  INITBACK = 4
  MAXBACK = 7
  UCHAR_MAX = 3
  MAXSTRCAPS = 4
  NARGS = 1
  Format <- MCFormat
  Patterns <- MCDroppingPatterns
  Subjects <- MCSubjects
  Starts <- MCStarts
  CallFn <- MCCallFn
CHECK_DEADLOCK FALSE
INVARIANT DynamicsCounted

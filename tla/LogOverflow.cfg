SPECIFICATION Spec
CONSTANTS
  p1 = p1
  p2 = p2
  Proc = {p1, p2}
  Val = {0}
  MAXOPBLOCKS = 1
  LOGSIZE = 3
  NLOG = 3
  NHOME = 3
  OpBlocks = 1
INVARIANT LogFits

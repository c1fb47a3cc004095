SPECIFICATION FairSpec
CONSTANTS
  p1 = p1
  p2 = p2
  Proc = {p1, p2}
  Block = {1, 2, 3}
  Val = {0, 1}
  NBUF = 2
  Nest <- IndirectFirst
  MaxDirty = 1
  Reads = {TRUE}
CHECK_DEADLOCK FALSE
INVARIANT BreadReturns
INVARIANT NobodyStuck
PROPERTY OneStore
PROPERTY IdeReturns

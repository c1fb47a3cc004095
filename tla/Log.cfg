SPECIFICATION FairSpec
CONSTANTS
  p1 = p1
  p2 = p2
  Proc = {p1, p2}
  Val = {0, 1}
  MAXOPBLOCKS = 2
  LOGSIZE = 4
  NLOG = 3
  NHOME = 2
  OpBlocks = 1
INVARIANT NoLostWakeup
INVARIANT Reservation
PROPERTY WriteAhead
PROPERTY Atomicity
PROPERTY SleeperWoken

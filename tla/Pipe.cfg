SPECIFICATION FairSpec
CONSTANTS
  p1 = p1
  p2 = p2
  Proc = {p1, p2}
  Creator = p1
  Val = {0, 1}
  PIPESIZE = 2
  Wrap = 4
  Writes <- ShortAndLong
  Killable = {p2}
CHECK_DEADLOCK FALSE
INVARIANT SleepersNeeded
INVARIANT FreedLast
PROPERTY Fifo
PROPERTY CloseReleases

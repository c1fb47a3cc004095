SPECIFICATION FairSpec
CONSTANTS
  p1 = p1
  p2 = p2
  Proc = {p1, p2}
  File = {1, 2}
  Size <- Sizes
  NINODE = 2
  PGSIZE = 2
  MAXTASKS = 2
  MaxReq = 1
  Ask <- Reads
CHECK_DEADLOCK FALSE
INVARIANT DataDelivered
INVARIANT PageTableLive
PROPERTY Answered

SPECIFICATION Spec
CONSTANTS
  Proc <- MCProc
  Inum = {1, 2}
  File = {1, 2, 3}
  IpOf <- MCIpOf
  NBLOCKS = 8
  BSIZE = 2
  NDIRECT = 1
  NINDIRECT = 2
  LOGSIZE = 6
  Sizes = {3}
  MaxCalls = 2
INVARIANT BlocksOwned
PROPERTY ReadsAllocateNothing
PROPERTY FilesAreBytes
CHECK_DEADLOCK FALSE

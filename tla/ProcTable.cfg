SPECIFICATION Spec
CONSTANTS
  c1 = c1
  c2 = c2
  disk = disk
  NPROC = 3
  CPU = {c1, c2}
  BootCPU = c1
  NKTH = 1
  MaxPid = 4
  Event = {disk}
  Killable = {}
CHECK_DEADLOCK FALSE
INVARIANT OnOneCPU
INVARIANT StackOwned

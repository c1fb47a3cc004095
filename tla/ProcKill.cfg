SPECIFICATION Spec
CONSTANTS
  c1 = c1
  c2 = c2
  ticks = ticks
  NPROC = 3
  CPU = {c1, c2}
  BootCPU = c1
  NKTH = 1
  MaxPid = 4
  Event = {ticks}
  Killable = {ticks}
CHECK_DEADLOCK FALSE
INVARIANT KillWakes

SPECIFICATION FairSpec
CONSTANTS
  c1 = c1
  ticks = ticks
  NPROC = 3
  CPU = {c1}
  BootCPU = c1
  NKTH = 0
  MaxPid = 3
  Event = {ticks}
  Killable = {ticks}
CHECK_DEADLOCK FALSE
PROPERTY RunnableRuns
PROPERTY KilledExits
PROPERTY OrphansReaped

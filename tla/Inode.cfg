SPECIFICATION Spec
CONSTANTS
  Proc <- MCProc
  NInum = 6
  NINODE = 6
  Name = {"a", "b", "d"}
  Mixes <- MCMixes
INVARIANT RefsHeld
INVARIANT LinksCounted
INVARIANT NamesLive
INVARIANT NoWaitCycle
PROPERTY FreedUnused

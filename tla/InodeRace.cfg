SPECIFICATION Spec
CONSTANTS
  Proc <- MCProc
  NInum = 4
  NINODE = 4
  Name = {"a", "b", "d"}
  Mixes <- MCRacing
INVARIANT AssertionsHold

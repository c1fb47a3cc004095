SPECIFICATION Spec
CONSTANTS
  a = a
  b = b
  c = c
  Co = {a, b, c}
  Heap = {0, a, b, c}
CHECK_DEADLOCK FALSE
INVARIANT RunsLive
INVARIANT NoStaleSwitch

SPECIFICATION Spec
CONSTANTS
  a = a
  b = b
  c = c
  Co = {a, b, c}
  Heap = {0}
CHECK_DEADLOCK FALSE
INVARIANT HostMayYield

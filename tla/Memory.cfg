SPECIFICATION Spec
CONSTANT NPROC = 3
CONSTANT NPAGES = 16
CONSTANT PGSIZE = 2
CONSTANT VaPages = 5
CONSTANT PTPages = 3
CONSTANT Deltas <- MCDeltas
CONSTANT Images <- MCImages
CHECK_DEADLOCK FALSE
INVARIANT PagesOwned
INVARIANT ImagePresent
INVARIANT FailureKeepsImage
CONSTANT MaxCalls = 5

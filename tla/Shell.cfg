SPECIFICATION Spec
CHECK_DEADLOCK FALSE
CONSTANT Proc = {1, 2, 3, 4, 5, 6, 7}
CONSTANT NFILE = 6
CONSTANT NOFILE = 6
CONSTANT PIPESIZE = 1
CONSTANT INPUT_BUF = 5
CONSTANT Wrap = 10
CONSTANT MAXARGS = 3
CONSTANT MaxLine = 11
CONSTANT Scripts <- MCScripts
CONSTANT Samples <- MCSamples
CONSTANT RunLines <- MCRunLines
CONSTANT MeantLines <- MCMeantLines
INVARIANT ParsedRight
INVARIANT LineRun
INVARIANT RefsMatch
INVARIANT Wired
PROPERTY RingEdits
PROPERTY PromptReturns

SPECIFICATION HarnessSpec
CONSTANTS
  Workloads = {w1, w2}
  NumCommands = 2
  PARALLEL = 1
  MaxRuns = 3
  MaxFaults = 2
  NumKernels = 2
  MaxScripts = 3
  MaxMishaps = 2
INVARIANTS
  SkipMeansUsable
  RowsComplete
  SingleRun
PROPERTY OthersKept
SYMMETRY Symmetry
CHECK_DEADLOCK FALSE

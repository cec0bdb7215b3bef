SPECIFICATION Spec
CONSTANTS
  NumNodes = 7
  Threads = {t1}
  Graphs <- FrontierGraphs
  Deltas = {10}
  kDistInf = 30
  kMaxBin = 30
  kBinSizeThreshold = 1000
INVARIANTS
  FrontierFits
CHECK_DEADLOCK FALSE

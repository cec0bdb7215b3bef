SPECIFICATION FairSpec
CONSTANTS
  NumNodes = 5
  Threads = {t1, t2, t3}
  Graphs <- MCGraphs
  Deltas = {1, 2, 5}
  kDistInf = 12
  kMaxBin = 12
  kBinSizeThreshold = 2
INVARIANTS
  Correct
  NothingLost
  Settled
PROPERTIES
  Termination
CHECK_DEADLOCK FALSE

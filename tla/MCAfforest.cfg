SPECIFICATION FairSpec
CONSTANTS
  NumNodes = 4
  Threads = {t1, t2, t3}
  Rounds = 1
  Graphs <- MCGraphs
INVARIANTS
  Correct
  VerifierExact
  Compressed
PROPERTIES
  NeverSplit
  Termination
CHECK_DEADLOCK FALSE

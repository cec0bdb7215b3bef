SPECIFICATION FairSpec
CONSTANTS
  NumNodes = 4
  Threads = {t1, t2}
  Graphs <- MCGraphs
INVARIANTS
  Correct
  NoChangeNoWork
PROPERTIES
  RootsOnlyFall
  Termination
CHECK_DEADLOCK FALSE

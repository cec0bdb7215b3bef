SPECIFICATION FairSpec
CONSTANTS
  NumNodes = 6
  BitsPerWord = 2
  Chunk = 2
  Threads = {t1, t2}
  Graphs <- MCGraphs
  Alphas = {2, 4, 15}
  Betas = {1, 3, 18}
INVARIANTS
  TreeCorrect
  LevelSynchronous
PROPERTIES
  ClaimedOnce
  Termination
CHECK_DEADLOCK FALSE

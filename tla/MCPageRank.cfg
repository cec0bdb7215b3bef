SPECIFICATION Spec
CONSTANTS
  NumNodes = 4
  Threads = {t1, t2}
  Graphs <- MCGraphs
  max_iters = 3
  Epsilons <- MCEpsilons
  One <- MCOne
INVARIANTS
  StopsSettled
  Reproducible
SYMMETRY Symmetry
CHECK_DEADLOCK FALSE

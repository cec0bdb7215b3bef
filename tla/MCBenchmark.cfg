SPECIFICATION BenchmarkSpec
CONSTANTS
  NumNodes = 5
  Team = {t1, t2, t3}
  Graphs <- MCGraphs
  num_iters = 2
  Unit = 12
  Options <- MCOptions
  kTop = 3
  MaxDraws = 4
INVARIANTS
  CountsComplete
  TrialsVerified
  ScoresPrinted
CHECK_DEADLOCK FALSE

SPECIFICATION PipelineSpec
CONSTANTS
  NumNodes = 4
  block_size = 3
  gen_block_size = 3
  Threads = {t1, t2}
  Inputs <- MCInputs
  Beyond = {0}
  Jobs <- MCJobs
  permutation <- MCPermutation
  Engine <- MCEngine
INVARIANTS
  RowsPrivate
  Searchable
  GraphCorrect
  TrianglesCounted
  InputHonoured
  RoundTrip
SYMMETRY ThreadSymmetry
CHECK_DEADLOCK FALSE

SPECIFICATION QueueSpec
CONSTANTS
  Threads = {t1, t2}
  Vertices = {a, b, c, d}
  NoItem = NoItem
  SharedSize = 4
  LocalSize = 2
SYMMETRY Symmetry
INVARIANTS
  PrivateRanges
  NoDuplicates
PROPERTIES
  ImplementsAppendWindow

SPECIFICATION Spec
CONSTANTS
  Vectors = {v, w}
  Graphs = {g, h}
  Items = {1}
  Junk = Junk
  Absent = Absent
  Gone = Gone
  Null = Null
  MaxLen = 2
  Room <- MCRoom
  Addr <- MCAddr
  Fresh <- MCFresh
INVARIANTS
  OneOwner
  NoLeak
PROPERTY
ImplementsValues
SYMMETRY Symmetry
CHECK_DEADLOCK FALSE

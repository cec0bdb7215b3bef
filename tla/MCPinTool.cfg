SPECIFICATION PinSpec
CONSTANTS
  Threads = {t1, t2}
  Funcs = {f, g}
  Sizes = {4}
  MaxEvents = 3
INVARIANTS
  InnermostCharged
  LogExact
SYMMETRY Symmetry
CHECK_DEADLOCK FALSE

SPECIFICATION MCSpec
CONSTANTS
  Names = {a, b}
  Values = {v, w}
  Ttls = {0, 1, 2}
  Null = Null
  MaxTime = 3
  Counters = {k}
  Processes = {p, q}
  Lapsed = Lapsed
  MaxValue = 1
INVARIANTS Exclusive
PROPERTIES DriversServe WaitFree
CHECK_DEADLOCK FALSE

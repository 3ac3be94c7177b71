SPECIFICATION CounterSpec
CONSTANTS
  Counters = {k}
  Processes = {p, q}
  Null = Null
  Lapsed = Lapsed
  MaxValue = 1
PROPERTY LockComesBack
CHECK_DEADLOCK FALSE

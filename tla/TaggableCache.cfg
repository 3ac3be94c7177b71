SPECIFICATION TaggedSpec
CONSTANTS
  Counters = {s, t}
  Processes = {p, q}
  Null = Null
  Lapsed = Lapsed
  MaxValue = 1
  EntryKeys = {k}
  Invalidators = {p}
  Flushers = {p}
  MaxStored = 2
  MaxFiled = 1
INVARIANT TaggedTypeOK
PROPERTIES NoStale NoNeedlessMiss
CHECK_DEADLOCK FALSE

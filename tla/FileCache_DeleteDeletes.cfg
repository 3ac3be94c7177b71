SPECIFICATION Spec
CONSTANTS
  Names = {a}
  Values = {v, w}
  Ttls = {0, 1, 2}
  Null = Null
  MaxTime = 4
  Prefixed = FALSE
PROPERTY DeleteDeletes
CHECK_DEADLOCK FALSE

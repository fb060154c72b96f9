CONSTANTS
  Q = 2
  Distance = {15, 250}
  LineMax = 20
SPECIFICATION Spec
INVARIANT BackOverwrites
CHECK_DEADLOCK FALSE

CONSTANTS
  Q = 1
  Distance = {0, 15}
  LineMax = 20
SPECIFICATION Spec
INVARIANTS StoredWhereMeasured OutwardComplete AlarmIsInFrame SentWithItsLine
PROPERTIES ServoNeverJumps
CHECK_DEADLOCK FALSE

CONSTANTS
  Second = 19
  Unit = 2
  Far = 4
  Hold = 13
  Latency = 2
  Sights = {1, 2, 3}
SPECIFICATION Spec
INVARIANTS UndisturbedIsTrue NeverInvented FirstSpikeHarmless
CHECK_DEADLOCK FALSE

CONSTANTS
  Client = {"first", "second"}
  Port = {"switch", "buzzer", "dot"}
  Slow = {"receive"}
  Whole = {"first"}
  Typed = {"first"}
  Touched = {"first"}
SPECIFICATION FairSpec
INVARIANTS PortExclusive CleanStart
PROPERTIES ExitEndsClient QuitEnds
CHECK_DEADLOCK FALSE

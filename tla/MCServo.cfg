CONSTANTS
  Turns = 2
  Period = 2
  Window = 5
  Gap = 3
  Pulses = 3
  TiltMin = 1600
  TiltMax = 1650
SPECIFICATION Spec
INVARIANTS PeriodKept
PROPERTIES PressAnswered
CHECK_DEADLOCK FALSE

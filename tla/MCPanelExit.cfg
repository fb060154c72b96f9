CONSTANTS
  LineMax = 20
  PwmMin = 1600
  PwmMax = 1600
  Touchable = {"mute"}
  Hasty = {}
SPECIFICATION FairSpec
PROPERTY ExitWorks
CHECK_DEADLOCK FALSE

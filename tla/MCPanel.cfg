CONSTANTS
  LineMax = 30
  PwmMin = 1600
  PwmMax = 1600
  Touchable = {"bright", "mute", "raise", "lower"}
  Hasty = {"mute"}
SPECIFICATION FairSpec
INVARIANTS TouchActsOnce PictureSettled
PROPERTIES RadarGoesOn
CHECK_DEADLOCK FALSE

CONSTANTS
  MaxFrames = 3
  Timings = {{"prompt", "slow"}}
SPECIFICATION FairSpec
PROPERTIES ExitEndsServer
CHECK_DEADLOCK FALSE

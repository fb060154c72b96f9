CONSTANTS
  MaxFrames = 4
  Timings = {{}, {"slow"}, {"prompt"}, {"prompt", "slow"}, {"prompt", "slow", "quiet"}}
SPECIFICATION FairSpec
INVARIANTS FramesInOrder TornByOne LeavesOnLogout RecordsEachFrame
PROPERTIES FrameArrives NewestArrives QuietExitEndsServer
CHECK_DEADLOCK FALSE

CONSTANTS
  Capacity = 2
  MaxFrames = 3
  MaxRestarts = 1
SPECIFICATION FairSpec
INVARIANTS HistoryInOrder ForgedRows BrowseInRange AtMostOneOlder PictureWhole
PROPERTIES LogSpec LostOnlyInRewrite  ShutsDown FrameShown
CHECK_DEADLOCK FALSE

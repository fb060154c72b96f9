CONSTANTS
  Pixels <- MCPixels
  Warns <- MCWarns
  Scenes <- MCScenes
SPECIFICATION PictureSpec
INVARIANTS ClientShowsWay ServerShowsFrame RedInsideRing
CHECK_DEADLOCK FALSE

CONSTANTS
  Fields = 2
  Capacity = 3
  Values = {0, 42, 255}
  MaxFrames = 4
SPECIFICATION Spec
INVARIANTS InBounds ReadBack

SPECIFICATION StreamSpec
CONSTANTS
  HeadSize = 3
  Lengths = {0, 1, 2}
  MaxChunk = 6
  MaxRetry = 1
  MaxFrames = 3
  MaxRepeats = 1
INVARIANT StreamInv
PROPERTY UnpackEnds
CHECK_DEADLOCK FALSE

SPECIFICATION PlaybackSpec
CONSTANTS
  Second = 24
  LowLimit = 1
  Ticks = {0, 5, 25}
  Rate = 24
  StackBones = {3, 4}
  StackFrames = {1, 4, 5}
  DrawnBones = 4
  DrawnFrames = 5
  MaxElapsed = 80
CHECK_DEADLOCK FALSE
INVARIANT ReadsInside
PROPERTY FPSCountsFrames

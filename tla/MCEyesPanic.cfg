SPECIFICATION SafeSpec
CONSTANTS
  KeyFrames <- MCKeyFrames
  MaxRaces = 2
INVARIANT NeverPanics
CHECK_DEADLOCK FALSE

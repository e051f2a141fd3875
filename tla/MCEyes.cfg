SPECIFICATION Spec
CONSTANTS
  KeyFrames <- MCKeyFrames
  MaxRaces = 2
INVARIANTS IInv InSegment ShowsState
PROPERTY Blinks
CHECK_DEADLOCK FALSE

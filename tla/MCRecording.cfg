SPECIFICATION SafeSpec
CONSTANTS
  MaxPresses = 2
  MaxBytes = 4
INVARIANTS IInv Framed OwnAudio MicFollowsButton
PROPERTIES LagIsForever
CHECK_DEADLOCK FALSE

SPECIFICATION Spec
CONSTANTS
  Main = Main
  Vsync = Vsync
  MaxQueue = 2
  MaxBytes = 3
  MaxLength = 2
  MaxFailures = 1
INVARIANTS IInv OnlyGreetingCrashes OneLoop StillThere InOrder
PROPERTIES Starts Plays
CHECK_DEADLOCK FALSE

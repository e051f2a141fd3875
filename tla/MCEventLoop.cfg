SPECIFICATION Spec
CONSTANTS
  p1 = p1
  p2 = p2
  draw = draw
  other = other
  Loop = Loop
  None = None
  Producers <- MCProducers
  Tasks <- MCTasks
  MaxQueue = 3
INVARIANTS IInv NoLostWakeup
PROPERTY FifoSpec

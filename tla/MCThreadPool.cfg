SPECIFICATION SafeSpec
CONSTANTS
  t1 = t1
  t2 = t2
  t3 = t3
  main = main
  k1 = k1
  k2 = k2
  k3 = k3
  k4 = k4
  Pool = Pool
  Nobody = Nobody
  Threads <- TwoThreads
  Clients <- Main
  Tasks <- FourTasks
  Forever <- NoTask
  max_threads = 2
  capacity = 2
  SpawnMayFail = TRUE
INVARIANTS IInv Counts OnePlace QuietMeansDone
PROPERTY TaskSetsSpec
SYMMETRY AllIdentities
CHECK_DEADLOCK FALSE

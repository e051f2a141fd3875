SPECIFICATION Spec
CONSTANTS
  t1 = t1
  t2 = t2
  t3 = t3
  main = main
  k1 = k1
  k2 = k2
  k3 = k3
  k4 = k4
  k5 = k5
  Null = Null
  Pool = Pool
  Nobody = Nobody
  Threads <- MCThreads
  Clients <- MCClients
  Procs <- MCProcs
  Owners <- MCOwners
  Tasks <- MCTasks
  External <- MCExternal
  Forever <- MCForever
  capacity = 3
  indices = 21
  first_index = 20
INVARIANTS Words Rings
PROPERTIES TaskSetsSpec GivesUpOnEmpty
SYMMETRY Identities
CHECK_DEADLOCK FALSE

---------------------------- MODULE MCThreadPool ----------------------------
(* Small pools: how many threads and tasks there are, and which callbacks  *)
(* never return, is the cfg's.                                             *)
EXTENDS ThreadPool, TLC

CONSTANTS t1, t2, t3, main, k1, k2, k3, k4
TwoThreads == {t1, t2}
ThreeThreads == {t1, t2, t3}
Main == {main}
OneTask == {k1}
TwoTasks == {k1, k2}
ThreeTasks == {k1, k2, k3}
FourTasks == {k1, k2, k3, k4}
NoTask == {}
AllIdentities == Permutations(ThreeThreads) \cup Permutations(FourTasks)
=============================================================================

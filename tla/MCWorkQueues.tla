---------------------------- MODULE MCWorkQueues ----------------------------
(* Two threads that can steal from a third.  One client schedules as many  *)
(* tasks as a thread can consume at once, callbacks have one more to       *)
(* schedule; one of the callbacks returns, the others never do.            *)
EXTENDS WorkQueues, TLC

CONSTANTS t1, t2, t3, main, k1, k2, k3, k4, k5
MCThreads == {t1, t2, t3}
MCClients == {main}
MCProcs == MCThreads \cup MCClients
MCOwners == MCThreads \cup {Pool}
MCTasks == {k1, k2, k3, k4, k5}
MCExternal == {k1, k2, k3, k4}
MCForever == {k1, k2, k3, k5}

Identities == {p \in Permutations(Tasks) : p[k4] = k4 /\ p[k5] = k5}
              \cup Permutations(Threads)
=============================================================================

------------------------------ MODULE TaskPool ------------------------------
(***************************************************************************)
(* What the thread pool promises those who schedule tasks: the callback of *)
(* a scheduled task is started, once, and no more than Width run at once.  *)
(***************************************************************************)
EXTENDS Naturals, FiniteSets

CONSTANTS Tasks,    (* the tasks that can be scheduled                     *)
          Width     (* how many may run at once                            *)

VARIABLES scheduled, started, finished

vars == <<scheduled, started, finished>>

Init == scheduled = {} /\ started = {} /\ finished = {}

Schedule(k) == /\ k \notin scheduled
               /\ scheduled' = scheduled \cup {k}
               /\ UNCHANGED <<started, finished>>

Start(k) == /\ k \in scheduled \ started
            /\ started' = started \cup {k}
            /\ Cardinality(started' \ finished) =< Width
            /\ UNCHANGED <<scheduled, finished>>

Finish(k) == /\ k \in started \ finished
             /\ finished' = finished \cup {k}
             /\ UNCHANGED <<scheduled, started>>

Next == \E k \in Tasks : Schedule(k) \/ Start(k) \/ Finish(k)

SafeSpec == Init /\ [][Next]_vars

(* Callbacks return, so there is always a thread for the next task.        *)
Spec == SafeSpec /\ \A k \in Tasks : WF_vars(Start(k))
=============================================================================

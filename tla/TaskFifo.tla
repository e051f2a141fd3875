------------------------------ MODULE TaskFifo ------------------------------
(***************************************************************************)
(* What the event loop promises the threads that hand it work: a task that *)
(* was enqueued is run, in the order of the enqueues, one task at a time,  *)
(* as often as it was enqueued, and none waits for ever.  There is no      *)
(* mutex, no futex word and no thread here; EventLoop implements this.     *)
(***************************************************************************)
EXTENDS Sequences

CONSTANTS Tasks,    (* the tasks that can be enqueued                      *)
          None      (* no task is running                                  *)

VARIABLES queue,    (* tasks enqueued and not yet taken, oldest first      *)
          running   (* the task whose callback is being executed           *)

vars == <<queue, running>>

Init == /\ queue = <<>>
        /\ running = None

Put(t) == /\ queue' = Append(queue, t)
          /\ UNCHANGED running

Take == /\ running = None
        /\ queue # <<>>
        /\ running' = Head(queue)
        /\ queue' = Tail(queue)

Finish == /\ running # None
          /\ running' = None
          /\ UNCHANGED queue

Next == (\E t \in Tasks : Put(t)) \/ Take \/ Finish

SafeSpec == Init /\ [][Next]_vars

(* A task in the queue is taken and a task that runs ends.                 *)
Spec == SafeSpec /\ WF_vars(Take) /\ WF_vars(Finish)
=============================================================================

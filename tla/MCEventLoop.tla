---------------------------- MODULE MCEventLoop ----------------------------
(* Two threads enqueue two tasks, in any order and as often as they like,  *)
(* with at most three tasks in the queue.                                  *)
EXTENDS EventLoop

CONSTANTS p1, p2, draw, other
MCProducers == {p1, p2}
MCTasks == {draw, other}
=============================================================================

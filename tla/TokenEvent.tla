----------------------------- MODULE TokenEvent -----------------------------
(***************************************************************************)
(* What thread_pool.zig's Event promises: "an event which stores 1         *)
(* semaphore token".  A post leaves at most one token, a thread leaves     *)
(* wait() with it, and a token does not lie there while threads wait.      *)
(***************************************************************************)
CONSTANT Waiters    (* the threads that call wait()                        *)

VARIABLES token,    (* is there a notification to consume?                 *)
          waiting   (* the threads inside wait()                           *)

vars == <<token, waiting>>

Init == token = FALSE /\ waiting = {}

BeginWait(w) == /\ w \notin waiting
                /\ waiting' = waiting \cup {w}
                /\ UNCHANGED token

Acquire(w) == /\ token
              /\ w \in waiting
              /\ token' = FALSE
              /\ waiting' = waiting \ {w}

Post == token' = TRUE /\ UNCHANGED waiting

Next == Post \/ \E w \in Waiters : BeginWait(w) \/ Acquire(w)

SafeSpec == Init /\ [][Next]_vars

Spec == SafeSpec /\ WF_vars(\E w \in Waiters : Acquire(w))
=============================================================================

------------------------------- MODULE Event -------------------------------
(***************************************************************************)
(* src/thread_pool.zig, Event (377-462): one atomic word that is a token,  *)
(* a sleepers' flag and a futex at once.  A compare-exchange that fails    *)
(* only makes its loop read the word again, so each one is a step on the   *)
(* value the word has; a spurious failure of the weak one is a stutter.    *)
(* Nothing in the program calls shutdown(), so the word is never SHUTDOWN. *)
(***************************************************************************)
CONSTANTS Waiters,    (* the threads that call wait()                      *)
          Notifiers   (* the threads that call notify()                    *)

VARIABLES state,        (* the word                                        *)
          pc,           (* where each waiter is in wait()                  *)
          acquire_with, (* what each waiter leaves when it takes the token *)
          pending       (* notifiers between the swap and the futex wake    *)

vars == <<state, pc, acquire_with, pending>>

Init == /\ state = "EMPTY"
        /\ pc = [w \in Waiters |-> "out"]
        /\ acquire_with = [w \in Waiters |-> "EMPTY"]
        /\ pending = {}
-----------------------------------------------------------------------------
(* wait().                                                                 *)

Goto(w, from, to) == pc[w] = from /\ pc' = [pc EXCEPT ![w] = to]

WaitCall(w) == /\ Goto(w, "out", "loop")
               /\ acquire_with' = [acquire_with EXCEPT ![w] = "EMPTY"]
               /\ UNCHANGED <<state, pending>>

(* The token taken as if nobody else could be asleep.                      *)
WaitAcquireEmpty(w) == /\ Goto(w, "loop", "out")
                       /\ state = "NOTIFIED"
                       /\ state' = "EMPTY"
                       /\ UNCHANGED <<acquire_with, pending>>

WaitAcquire(w) == /\ Goto(w, "loop", "out")
                  /\ state = "NOTIFIED"
                  /\ state' = acquire_with[w]
                  /\ UNCHANGED <<acquire_with, pending>>

(* The word says WAITING, or is made to, before the thread goes to sleep.  *)
WaitPrepare(w) == /\ Goto(w, "loop", "futex")
                  /\ state \in {"EMPTY", "WAITING"}
                  /\ state' = "WAITING"
                  /\ UNCHANGED <<acquire_with, pending>>

(* The kernel compares the word and puts the thread to sleep atomically;   *)
(* however the thread comes back, acquire_with is WAITING from then on.    *)
FutexWaitSleep(w) == /\ Goto(w, "futex", "asleep")
                     /\ state = "WAITING"
                     /\ UNCHANGED <<state, acquire_with, pending>>

FutexWaitReturn(w) == /\ Goto(w, "futex", "loop")
                      /\ state # "WAITING"
                      /\ acquire_with' = [acquire_with EXCEPT ![w] = "WAITING"]
                      /\ UNCHANGED <<state, pending>>

(* A futex wait may return for no reason.                                  *)
SpuriousWake(w) == /\ Goto(w, "asleep", "loop")
                   /\ acquire_with' = [acquire_with EXCEPT ![w] = "WAITING"]
                   /\ UNCHANGED <<state, pending>>

WaitStep(w) == \/ WaitAcquire(w) \/ WaitPrepare(w)
               \/ FutexWaitSleep(w) \/ FutexWaitReturn(w)
-----------------------------------------------------------------------------
(* wake(NOTIFIED, 1), called by notify().                                  *)

(* The swap that calls the futex only when a token was there already.      *)
NotifyInverted(k) ==
  /\ k \notin pending
  /\ state' = "NOTIFIED"
  /\ pending' = IF state = "NOTIFIED" THEN pending \cup {k} ELSE pending
  /\ UNCHANGED <<pc, acquire_with>>

Notify(k) ==
  /\ k \notin pending
  /\ state' = "NOTIFIED"
  /\ pending' = IF state = "WAITING" THEN pending \cup {k} ELSE pending
  /\ UNCHANGED <<pc, acquire_with>>

Asleep == {w \in Waiters : pc[w] = "asleep"}

(* One sleeper leaves the futex, if there is one; the call is over.        *)
FutexWake(k) ==
  /\ k \in pending
  /\ pending' = pending \ {k}
  /\ \/ \E w \in Asleep :
          /\ Goto(w, "asleep", "loop")
          /\ acquire_with' = [acquire_with EXCEPT ![w] = "WAITING"]
     \/ Asleep = {} /\ UNCHANGED <<pc, acquire_with>>
  /\ UNCHANGED state
-----------------------------------------------------------------------------
Next == \/ \E w \in Waiters : WaitCall(w) \/ WaitStep(w) \/ SpuriousWake(w)
        \/ \E k \in Notifiers : Notify(k) \/ FutexWake(k)

SafeSpec == Init /\ [][Next]_vars

(* The operating system runs every thread that is inside a call.           *)
Fairness == /\ \A w \in Waiters : WF_vars(WaitStep(w))
            /\ \A k \in Notifiers : WF_vars(FutexWake(k))

Spec == SafeSpec /\ Fairness
-----------------------------------------------------------------------------
TypeOK == /\ state \in {"EMPTY", "WAITING", "NOTIFIED"}
          /\ pc \in [Waiters -> {"out", "loop", "futex", "asleep"}]
          /\ acquire_with \in [Waiters -> {"EMPTY", "WAITING"}]
          /\ pending \subseteq Notifiers

(* A sleeper is never forgotten: when the word no longer says WAITING, a   *)
(* waker still has its futex wake to do, or a thread that was woken is     *)
(* about to put WAITING back (wait(), thread_pool.zig:426-432).            *)
NoStrandedWaiter ==
  (Asleep # {} /\ state # "WAITING")
    => \/ pending # {}
       \/ \E w \in Waiters : /\ pc[w] \in {"loop", "futex"}
                             /\ acquire_with[w] = "WAITING"

IInv == TypeOK /\ NoStrandedWaiter

(* The event is TokenEvent: a token lets one thread out of wait(), and is  *)
(* not left lying while threads wait                                       *)
(* (thread_pool.zig:377, "an event which stores 1 semaphore token").       *)
Token == INSTANCE TokenEvent WITH token <- (state = "NOTIFIED"),
                                  waiting <- {w \in Waiters : pc[w] # "out"}
TokenSpec == Token!Spec
=============================================================================

------------------------------ MODULE EventLoop -----------------------------
(***************************************************************************)
(* src/event_loop.zig: the main thread runs loop() for ever - wake(),      *)
(* tick(), sleep() - while other threads call enqueue().  tick() holds the *)
(* mutex while it runs the callbacks; sleep() and notify() meet on the     *)
(* atomic word `state`, which is also the futex the main thread sleeps on. *)
(* An atomic operation or a critical section is one step; every gap        *)
(* between two of them is a place where the other threads may run.         *)
(***************************************************************************)
EXTENDS Naturals, Sequences

CONSTANTS Producers,  (* the threads that call enqueue()                   *)
          Tasks,      (* the tasks they enqueue                            *)
          Loop,       (* the thread that runs loop(), as owner of `mutex`  *)
          None,       (* no task, no owner                                 *)
          MaxQueue    (* bound of the model: tasks queued at one time      *)

ASSUME EventLoopAssumption ==
  /\ None \notin Tasks
  /\ Loop \notin Producers
  /\ None \notin Producers \cup {Loop}
  /\ MaxQueue \in Nat \ {0}

VARIABLES queue,      (* the LinearFifo of tasks                           *)
          mutex,      (* its owner, or None                                *)
          state,      (* the atomic word: pending, notified or woken       *)
          running,    (* the task whose callback tick() is in, or None     *)
          loopPc,     (* where the main thread is in loop()                *)
          pc          (* where each producer is in enqueue()               *)

vars == <<queue, mutex, state, running, loopPc, pc>>

Init == /\ queue = <<>>
        /\ mutex = None
        /\ state = "pending"
        /\ running = None
        /\ loopPc = "wake"
        /\ pc = [p \in Producers |-> "out"]
-----------------------------------------------------------------------------
(* The main thread.                                                        *)

LoopGoto(from, to) == loopPc = from /\ loopPc' = to

Wake == /\ LoopGoto("wake", "lock")
        /\ state' = "woken"
        /\ UNCHANGED <<queue, mutex, running, pc>>

TickLock == /\ LoopGoto("lock", "tick")
            /\ mutex = None
            /\ mutex' = Loop
            /\ UNCHANGED <<queue, state, running, pc>>

(* The newest task first.                                                  *)
TickTakeLast == /\ loopPc = "tick"
                /\ running = None
                /\ queue # <<>>
                /\ running' = queue[Len(queue)]
                /\ queue' = SubSeq(queue, 1, Len(queue) - 1)
                /\ UNCHANGED <<mutex, state, loopPc, pc>>

TickTake == /\ loopPc = "tick"
            /\ running = None
            /\ queue # <<>>
            /\ running' = Head(queue)
            /\ queue' = Tail(queue)
            /\ UNCHANGED <<mutex, state, loopPc, pc>>

TickCallbackReturns == /\ running # None
                       /\ running' = None
                       /\ UNCHANGED <<queue, mutex, state, loopPc, pc>>

TickUnlock == /\ LoopGoto("tick", "sleep")
              /\ running = None
              /\ queue = <<>>
              /\ mutex' = None
              /\ UNCHANGED <<queue, state, running, pc>>

(* sleep() that stores pending whatever the word holds.                    *)
SleepNoCompare == /\ LoopGoto("sleep", "futex")
                  /\ state' = "pending"
                  /\ UNCHANGED <<queue, mutex, running, pc>>

Sleep == /\ \/ /\ LoopGoto("sleep", "futex")
               /\ state = "woken"
               /\ state' = "pending"
            \/ /\ LoopGoto("sleep", "wake")
               /\ state # "woken"
               /\ UNCHANGED state
         /\ UNCHANGED <<queue, mutex, running, pc>>

(* The kernel compares the word and puts the thread to sleep atomically.   *)
FutexWait == /\ \/ LoopGoto("futex", "asleep") /\ state = "pending"
                \/ LoopGoto("futex", "wake") /\ state # "pending"
             /\ UNCHANGED <<queue, mutex, state, running, pc>>

(* A futex wait may return for no reason.                                  *)
SpuriousWake == /\ LoopGoto("asleep", "wake")
                /\ UNCHANGED <<queue, mutex, state, running, pc>>

LoopStep == \/ Wake \/ TickLock \/ TickTake \/ TickCallbackReturns
            \/ TickUnlock \/ Sleep \/ FutexWait
-----------------------------------------------------------------------------
(* A producer in enqueue().                                                *)

Goto(p, from, to) == pc[p] = from /\ pc' = [pc EXCEPT ![p] = to]

EnqueueLock(p) == /\ Goto(p, "out", "write")
                  /\ mutex = None
                  /\ Len(queue) < MaxQueue
                  /\ mutex' = p
                  /\ UNCHANGED <<queue, state, running, loopPc>>

(* writeItem, then unlock.                                                 *)
EnqueueWrite(p, t) == /\ Goto(p, "write", "notify")
                      /\ queue' = Append(queue, t)
                      /\ mutex' = None
                      /\ UNCHANGED <<state, running, loopPc>>

(* notify() that wakes the loop only if it saw it awake.                   *)
NotifyInverted(p) == /\ pc[p] = "notify"
                     /\ state' = "notified"
                     /\ pc' = [pc EXCEPT ![p] =
                                 IF state = "woken" THEN "futexWake" ELSE "out"]
                     /\ UNCHANGED <<queue, mutex, running, loopPc>>

Notify(p) == /\ pc[p] = "notify"
             /\ state' = "notified"
             /\ pc' = [pc EXCEPT ![p] =
                         IF state = "pending" THEN "futexWake" ELSE "out"]
             /\ UNCHANGED <<queue, mutex, running, loopPc>>

FutexWake(p) == /\ Goto(p, "futexWake", "out")
                /\ loopPc' = IF loopPc = "asleep" THEN "wake" ELSE loopPc
                /\ UNCHANGED <<queue, mutex, state, running>>

(* The part of enqueue() a producer that has the mutex goes through.       *)
EnqueueRest(p) == (\E t \in Tasks : EnqueueWrite(p, t)) \/ Notify(p) \/ FutexWake(p)
-----------------------------------------------------------------------------
Next == \/ LoopStep
        \/ SpuriousWake
        \/ \E p \in Producers : EnqueueLock(p) \/ EnqueueRest(p)

SafeSpec == Init /\ [][Next]_vars

(* The operating system runs the main thread and every producer that is in *)
(* enqueue(); callbacks return.  Nobody has to call enqueue().  Producers  *)
(* that took the mutex for ever could keep it from the main thread; they   *)
(* cannot here because MaxQueue stops them, and in the program because the *)
(* vsync thread sleeps a frame between two calls.                          *)
Fairness == /\ WF_vars(LoopStep)
            /\ \A p \in Producers : WF_vars(EnqueueRest(p))

Spec == SafeSpec /\ Fairness
-----------------------------------------------------------------------------
TypeOK == /\ queue \in Seq(Tasks)
          /\ mutex \in Producers \cup {Loop, None}
          /\ state \in {"pending", "notified", "woken"}
          /\ running \in Tasks \cup {None}
          /\ loopPc \in {"wake", "lock", "tick", "sleep", "futex", "asleep"}
          /\ pc \in [Producers -> {"out", "write", "notify", "futexWake"}]

(* A thread uses the queue only while it owns the mutex, and callbacks run *)
(* under it.                                                               *)
MutexInv == /\ \A p \in Producers : (mutex = p) <=> (pc[p] = "write")
            /\ (mutex = Loop) <=> (loopPc = "tick")
            /\ running # None => loopPc = "tick"

(* What the word can be, given where the main thread is.                   *)
WordInv == /\ loopPc \in {"lock", "tick", "sleep"} => state # "pending"
           /\ loopPc \in {"futex", "asleep"} => state # "woken"

(* Nothing on the word would keep the main thread from sleeping.           *)
GoingToSleep == \/ loopPc = "sleep" /\ state = "woken"
                \/ loopPc \in {"futex", "asleep"} /\ state = "pending"

(* A task that came after the last tick, with a main thread that is going  *)
(* to sleep on it, has its producer still to come.                         *)
WakeupInv ==
  /\ (queue # <<>> /\ GoingToSleep) => \E p \in Producers : pc[p] = "notify"
  /\ (loopPc = "asleep" /\ state = "notified")
       => \E p \in Producers : pc[p] = "futexWake"

IInv == TypeOK /\ MutexInv /\ WordInv /\ WakeupInv

(* No wakeup is lost: the main thread sleeps on a queue that has a task    *)
(* only while the producer of a task is still between the write and the    *)
(* futex wake that will end the sleep (notify() and sleep(),               *)
(* event_loop.zig:56-67).                                                  *)
NoLostWakeup == (loopPc = "asleep" /\ queue # <<>>)
                  => \E p \in Producers : pc[p] \in {"notify", "futexWake"}

(* The loop implements the FIFO of TaskFifo: order, one task at a time,    *)
(* nothing lost or run twice, and every task that is queued gets its run.  *)
Fifo == INSTANCE TaskFifo
FifoSpec == Fifo!Spec
=============================================================================

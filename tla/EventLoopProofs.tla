-------------------------- MODULE EventLoopProofs --------------------------
(***************************************************************************)
(* The safety of EventLoop for any number of producers and tasks and any   *)
(* bound on the queue: its inductive invariant, that no wakeup is lost,    *)
(* and that every step of it is a step of TaskFifo or leaves it alone.     *)
(***************************************************************************)
EXTENDS EventLoop, TLAPS

LEMMA InitInv == Init => IInv
BY EventLoopAssumption
   DEF Init, IInv, TypeOK, MutexInv, WordInv, WakeupInv, GoingToSleep

LEMMA NextType == TypeOK /\ [Next]_vars => TypeOK'
<1> SUFFICES ASSUME TypeOK, [Next]_vars PROVE TypeOK'
  OBVIOUS
<1> USE EventLoopAssumption DEF TypeOK, LoopGoto, Goto
<1>1. CASE LoopStep
  BY <1>1 DEF LoopStep, Wake, TickLock, TickTake, TickCallbackReturns,
              TickUnlock, Sleep, FutexWait
<1>2. CASE SpuriousWake
  BY <1>2 DEF SpuriousWake
<1>3. ASSUME NEW p \in Producers, EnqueueLock(p) PROVE TypeOK'
  BY <1>3 DEF EnqueueLock
<1>4. ASSUME NEW p \in Producers, NEW t \in Tasks, EnqueueWrite(p, t)
      PROVE TypeOK'
  BY <1>4 DEF EnqueueWrite
<1>5. ASSUME NEW p \in Producers, Notify(p) PROVE TypeOK'
  BY <1>5 DEF Notify
<1>6. ASSUME NEW p \in Producers, FutexWake(p) PROVE TypeOK'
  BY <1>6 DEF FutexWake
<1>7. CASE UNCHANGED vars
  BY <1>7 DEF vars
<1> QED
  BY <1>1, <1>2, <1>3, <1>4, <1>5, <1>6, <1>7 DEF Next, EnqueueRest

LEMMA NextMutex == IInv /\ [Next]_vars => MutexInv'
<1> SUFFICES ASSUME IInv, [Next]_vars PROVE MutexInv'
  OBVIOUS
<1> USE EventLoopAssumption DEF IInv, TypeOK, MutexInv, LoopGoto, Goto
<1>1. CASE LoopStep
  BY <1>1 DEF LoopStep, Wake, TickLock, TickTake, TickCallbackReturns,
              TickUnlock, Sleep, FutexWait
<1>2. CASE SpuriousWake
  BY <1>2 DEF SpuriousWake
<1>3. ASSUME NEW p \in Producers, EnqueueLock(p) PROVE MutexInv'
  BY <1>3 DEF EnqueueLock
<1>4. ASSUME NEW p \in Producers, NEW t \in Tasks, EnqueueWrite(p, t)
      PROVE MutexInv'
  BY <1>4 DEF EnqueueWrite
<1>5. ASSUME NEW p \in Producers, Notify(p) PROVE MutexInv'
  BY <1>5 DEF Notify
<1>6. ASSUME NEW p \in Producers, FutexWake(p) PROVE MutexInv'
  BY <1>6 DEF FutexWake
<1>7. CASE UNCHANGED vars
  BY <1>7 DEF vars
<1> QED
  BY <1>1, <1>2, <1>3, <1>4, <1>5, <1>6, <1>7 DEF Next, EnqueueRest

LEMMA NextWord == IInv /\ [Next]_vars => WordInv'
<1> SUFFICES ASSUME IInv, [Next]_vars PROVE WordInv'
  OBVIOUS
<1> USE DEF IInv, TypeOK, WordInv, LoopGoto, Goto
<1>1. CASE LoopStep
  BY <1>1 DEF LoopStep, Wake, TickLock, TickTake, TickCallbackReturns,
              TickUnlock, Sleep, FutexWait
<1>2. CASE SpuriousWake
  BY <1>2 DEF SpuriousWake
<1>3. ASSUME NEW p \in Producers, EnqueueLock(p) PROVE WordInv'
  BY <1>3 DEF EnqueueLock
<1>4. ASSUME NEW p \in Producers, NEW t \in Tasks, EnqueueWrite(p, t)
      PROVE WordInv'
  BY <1>4 DEF EnqueueWrite
<1>5. ASSUME NEW p \in Producers, Notify(p) PROVE WordInv'
  BY <1>5 DEF Notify
<1>6. ASSUME NEW p \in Producers, FutexWake(p) PROVE WordInv'
  BY <1>6 DEF FutexWake
<1>7. CASE UNCHANGED vars
  BY <1>7 DEF vars
<1> QED
  BY <1>1, <1>2, <1>3, <1>4, <1>5, <1>6, <1>7 DEF Next, EnqueueRest

LEMMA NextWakeup == IInv /\ [Next]_vars => WakeupInv'
<1> SUFFICES ASSUME IInv, [Next]_vars PROVE WakeupInv'
  OBVIOUS
<1> USE DEF IInv, TypeOK, WordInv, WakeupInv, GoingToSleep, LoopGoto, Goto
<1>1. CASE LoopStep
  <2>1. CASE Wake
    BY <2>1 DEF Wake
  <2>2. CASE TickLock
    BY <2>2 DEF TickLock
  <2>3. CASE TickTake \/ TickCallbackReturns
    BY <2>3 DEF TickTake, TickCallbackReturns, MutexInv
  <2>4. CASE TickUnlock
    BY <2>4 DEF TickUnlock
  <2>5. CASE Sleep
    BY <2>5 DEF Sleep
  <2>6. CASE FutexWait
    BY <2>6 DEF FutexWait
  <2> QED
    BY <1>1, <2>1, <2>2, <2>3, <2>4, <2>5, <2>6 DEF LoopStep
<1>2. CASE SpuriousWake
  BY <1>2 DEF SpuriousWake
<1>3. ASSUME NEW p \in Producers, EnqueueLock(p) PROVE WakeupInv'
  BY <1>3 DEF EnqueueLock
<1>4. ASSUME NEW p \in Producers, NEW t \in Tasks, EnqueueWrite(p, t)
      PROVE WakeupInv'
  BY <1>4 DEF EnqueueWrite
<1>5. ASSUME NEW p \in Producers, Notify(p) PROVE WakeupInv'
  BY <1>5 DEF Notify
<1>6. ASSUME NEW p \in Producers, FutexWake(p) PROVE WakeupInv'
  BY <1>6 DEF FutexWake
<1>7. CASE UNCHANGED vars
  BY <1>7 DEF vars
<1> QED
  BY <1>1, <1>2, <1>3, <1>4, <1>5, <1>6, <1>7 DEF Next, EnqueueRest

(* The inductive invariant: who owns the mutex, what the futex word can be *)
(* at each point of loop(), and which producer is still to wake the main   *)
(* thread when a task came after its last tick (event_loop.zig:29-67).     *)
THEOREM Invariance == SafeSpec => []IInv
<1>1. Init => IInv
  BY InitInv
<1>2. IInv /\ [Next]_vars => IInv'
  BY NextType, NextMutex, NextWord, NextWakeup DEF IInv
<1> QED
  BY <1>1, <1>2, PTL DEF SafeSpec

(* The main thread never sleeps on a queue with a task in it unless the    *)
(* producer that will wake it is still inside notify()                     *)
(* (event_loop.zig:56-67).                                                 *)
THEOREM WakeupsKept == SafeSpec => []NoLostWakeup
<1>1. IInv => NoLostWakeup
  BY DEF IInv, TypeOK, WordInv, WakeupInv, GoingToSleep, NoLostWakeup
<1> QED
  BY <1>1, Invariance, PTL

(* The mutex, the word and the futex implement the FIFO queue of TaskFifo: *)
(* tasks run in the order of their enqueues, one at a time, none lost and  *)
(* none twice (enqueue() and tick(), event_loop.zig:29-50).                *)
THEOREM Refinement == SafeSpec => Fifo!SafeSpec
<1> USE DEF LoopGoto, Goto, Fifo!vars
<1>1. Init => Fifo!Init
  BY DEF Init, Fifo!Init
<1>2. IInv /\ [Next]_vars => [Fifo!Next]_Fifo!vars
  <2> SUFFICES ASSUME IInv, [Next]_vars PROVE [Fifo!Next]_Fifo!vars
    OBVIOUS
  <2>1. CASE TickTake
    BY <2>1 DEF TickTake, Fifo!Take, Fifo!Next
  <2>2. CASE TickCallbackReturns
    BY <2>2 DEF TickCallbackReturns, Fifo!Finish, Fifo!Next
  <2>3. CASE Wake \/ TickLock \/ TickUnlock \/ Sleep \/ FutexWait \/ SpuriousWake
    BY <2>3 DEF Wake, TickLock, TickUnlock, Sleep, FutexWait, SpuriousWake
  <2>4. ASSUME NEW p \in Producers, NEW t \in Tasks, EnqueueWrite(p, t)
        PROVE Fifo!Next
    BY <2>4 DEF EnqueueWrite, Fifo!Put, Fifo!Next
  <2>5. ASSUME NEW p \in Producers, EnqueueLock(p) \/ Notify(p) \/ FutexWake(p)
        PROVE UNCHANGED Fifo!vars
    BY <2>5 DEF EnqueueLock, Notify, FutexWake
  <2>6. CASE UNCHANGED vars
    BY <2>6 DEF vars
  <2> QED
    BY <2>1, <2>2, <2>3, <2>4, <2>5, <2>6 DEF Next, LoopStep, EnqueueRest
<1> QED
  BY <1>1, <1>2, Invariance, PTL DEF SafeSpec, Fifo!SafeSpec
=============================================================================

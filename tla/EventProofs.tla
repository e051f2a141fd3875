---------------------------- MODULE EventProofs ----------------------------
(***************************************************************************)
(* The safety of Event for any number of waiters and notifiers.            *)
(***************************************************************************)
EXTENDS Event, TLAPS

LEMMA InitInv == Init => IInv
BY DEF Init, IInv, TypeOK, NoStrandedWaiter, Asleep

LEMMA NextType == TypeOK /\ [Next]_vars => TypeOK'
<1> SUFFICES ASSUME TypeOK, [Next]_vars PROVE TypeOK'
  OBVIOUS
<1> USE DEF TypeOK, Goto
<1>1. ASSUME NEW w \in Waiters, WaitCall(w) \/ WaitStep(w) \/ SpuriousWake(w)
      PROVE TypeOK'
  BY <1>1 DEF WaitCall, WaitStep, SpuriousWake, WaitAcquire,
              WaitPrepare, FutexWaitSleep, FutexWaitReturn
<1>2. ASSUME NEW k \in Notifiers, Notify(k)
      PROVE TypeOK'
  BY <1>2 DEF Notify
<1>3. ASSUME NEW k \in Notifiers, FutexWake(k)
      PROVE TypeOK'
  BY <1>3 DEF FutexWake, Asleep
<1>4. CASE UNCHANGED vars
  BY <1>4 DEF vars
<1> QED
  BY <1>1, <1>2, <1>3, <1>4 DEF Next

(* A wakeup replaces the waker by a thread that will put WAITING back.     *)
LEMMA WakeupHandsOver ==
  ASSUME IInv, NEW k \in Notifiers, FutexWake(k)
  PROVE  NoStrandedWaiter'
<1> USE DEF IInv, TypeOK, NoStrandedWaiter, FutexWake, Asleep, Goto
<1>1. CASE Asleep = {}
  BY <1>1
<1>2. CASE Asleep # {}
  <2>1. PICK w \in Waiters : pc'[w] = "loop" /\ acquire_with'[w] = "WAITING"
    BY <1>2
  <2> QED
    BY <2>1
<1> QED
  BY <1>1, <1>2

LEMMA NextStranded == IInv /\ [Next]_vars => NoStrandedWaiter'
<1> SUFFICES ASSUME IInv, [Next]_vars PROVE NoStrandedWaiter'
  OBVIOUS
<1> USE DEF IInv, TypeOK, NoStrandedWaiter, Asleep, Goto
<1>1. ASSUME NEW w \in Waiters, WaitCall(w)
      PROVE NoStrandedWaiter'
  BY <1>1 DEF WaitCall
<1>3. ASSUME NEW w \in Waiters, WaitAcquire(w)
      PROVE NoStrandedWaiter'
  BY <1>3 DEF WaitAcquire
<1>4. ASSUME NEW w \in Waiters, WaitPrepare(w) \/ FutexWaitSleep(w)
      PROVE NoStrandedWaiter'
  BY <1>4 DEF WaitPrepare, FutexWaitSleep
<1>5. ASSUME NEW w \in Waiters, FutexWaitReturn(w) \/ SpuriousWake(w)
      PROVE NoStrandedWaiter'
  <2>1. pc'[w] = "loop" /\ acquire_with'[w] = "WAITING"
    BY <1>5 DEF FutexWaitReturn, SpuriousWake
  <2> QED
    BY <2>1
<1>6. ASSUME NEW k \in Notifiers, Notify(k)
      PROVE NoStrandedWaiter'
  BY <1>6 DEF Notify
<1>7. ASSUME NEW k \in Notifiers, FutexWake(k)
      PROVE NoStrandedWaiter'
  BY <1>7, WakeupHandsOver
<1>8. CASE UNCHANGED vars
  BY <1>8 DEF vars
<1> QED
  BY <1>1, <1>3, <1>4, <1>5, <1>6, <1>7, <1>8 DEF Next, WaitStep

(* The inductive invariant: types, and that no sleeper is forgotten        *)
(* (wait() and wake(), thread_pool.zig:390-449).                           *)
THEOREM Invariance == SafeSpec => []IInv
<1>1. Init => IInv
  BY InitInv
<1>2. IInv /\ [Next]_vars => IInv'
  BY NextType, NextStranded DEF IInv
<1> QED
  BY <1>1, <1>2, PTL DEF SafeSpec

(* The event is a one-token semaphore: each return from wait() consumes    *)
(* the token of a notify() (thread_pool.zig:377).                          *)
THEOREM Refinement == SafeSpec => Token!SafeSpec
<1>1. Init => Token!Init
  BY DEF Init, Token!Init
<1>2. IInv /\ [Next]_vars => [Token!Next]_Token!vars
  <2> SUFFICES ASSUME IInv, [Next]_vars PROVE [Token!Next]_Token!vars
    OBVIOUS
  <2> USE DEF IInv, TypeOK, Goto, Token!vars
  <2>1. ASSUME NEW w \in Waiters, WaitCall(w)
        PROVE Token!BeginWait(w)
    BY <2>1 DEF WaitCall, Token!BeginWait
  <2>2. ASSUME NEW w \in Waiters, WaitAcquire(w)
        PROVE Token!Acquire(w)
    BY <2>2 DEF WaitAcquire, Token!Acquire
  <2>3. ASSUME NEW w \in Waiters,
               WaitPrepare(w) \/ FutexWaitSleep(w)
                 \/ FutexWaitReturn(w) \/ SpuriousWake(w)
        PROVE UNCHANGED Token!vars
    BY <2>3 DEF WaitPrepare, FutexWaitSleep, FutexWaitReturn,
                SpuriousWake
  <2>4. ASSUME NEW k \in Notifiers, Notify(k)
        PROVE Token!Post
    BY <2>4 DEF Notify, Token!Post
  <2>5. ASSUME NEW k \in Notifiers, FutexWake(k)
        PROVE UNCHANGED Token!vars
    BY <2>5 DEF FutexWake, Asleep
  <2>6. CASE UNCHANGED vars
    BY <2>6 DEF vars
  <2> QED
    BY <2>1, <2>2, <2>3, <2>4, <2>5, <2>6
    DEF Next, WaitStep, Token!Next
<1> QED
  BY <1>1, <1>2, Invariance, PTL DEF SafeSpec, Token!SafeSpec
=============================================================================

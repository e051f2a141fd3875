-------------------------- MODULE ThreadPoolProofs --------------------------
(***************************************************************************)
(* ThreadPool for any number of threads, clients and tasks, any max_threads*)
(* and buffer capacity, with and without failing spawns: types, that there *)
(* is at most one waking thread, that the word counts threads right, that  *)
(* every task is in one place, that the pool implements TaskPool and, with *)
(* its queues and buffers, TaskSets, and that it goes quiet only when it   *)
(* is done.                                                                *)
(***************************************************************************)
EXTENDS ThreadPool, FiniteSetTheorems, TLAPS

LEMMA InitInv == Init => IInv
<1> SUFFICES ASSUME Init PROVE IInv
  OBVIOUS
<1>1. sync \in Sync
  BY DEF Init, Sync
<1>2. TypeOK
  <2>1. /\ run_queue \in [Owners -> SUBSET Tasks]
        /\ run_buffer \in [Threads -> SUBSET Tasks]
        /\ overflow \in [Threads -> SUBSET Tasks]
        /\ hold \in [Threads -> SUBSET Tasks]
        /\ num_threads \in [Threads -> Int]
    BY DEF Init
  <2>2. /\ from \in [Threads -> Owners]
        /\ target \in [Threads -> Threads \cup {Nobody}]
    BY DEF Init, Owners
  <2>3. threads \in Seq(Threads)
    BY DEF Init
  <2>5. scheduled \subseteq Tasks /\ idle_token \in BOOLEAN
    BY DEF Init
  <2>4. /\ pc \in [Threads -> {"off"}] /\ npc \in [Procs -> {"out"}]
        /\ is_idle \in [Threads -> BOOLEAN] /\ is_waking \in [Threads -> BOOLEAN]
        /\ pushed \in [Threads -> BOOLEAN]
        /\ token \in [Tasks -> {"initialized"}]
    BY DEF Init
  <2> QED
    BY <1>1, <2>1, <2>2, <2>3, <2>4, <2>5 DEF TypeOK
<1>3. WakingThread /\ Registered
  BY DEF Init, WakingThread, Registered
<1> QED
  BY <1>2, <1>3 DEF IInv

(* What the compare-exchanges make of the word is a word.                  *)
LEMMA SyncKept ==
  ASSUME sync \in Sync
  PROVE  /\ [sync EXCEPT !.spawned = @ - 1] \in Sync
         /\ [sync EXCEPT !.notified = TRUE, !.state = "signaled"] \in Sync
         /\ [sync EXCEPT !.notified = TRUE, !.state = "signaled",
                         !.spawned = @ + 1] \in Sync
         /\ \A w \in BOOLEAN :
              /\ [sync EXCEPT !.notified = TRUE,
                              !.state = IF w THEN "pending" ELSE @] \in Sync
              /\ [sync EXCEPT !.notified = FALSE, !.idle = IF w THEN @ - 1 ELSE @,
                              !.state = IF @ = "signaled" THEN "waking" ELSE @] \in Sync
              /\ [sync EXCEPT !.idle = @ + 1,
                              !.state = IF w THEN "pending" ELSE @] \in Sync
<1>1. sync.idle - 1 \in Int /\ sync.idle + 1 \in Int /\ sync.spawned + 1 \in Int
  BY DEF Sync
<1>2. [sync EXCEPT !.spawned = @ - 1] \in Sync
  BY DEF Sync
<1>3. [sync EXCEPT !.notified = TRUE, !.state = "signaled"] \in Sync
  BY DEF Sync
<1>4. [sync EXCEPT !.notified = TRUE, !.state = "signaled", !.spawned = @ + 1] \in Sync
  BY <1>1 DEF Sync
<1>5. ASSUME NEW w \in BOOLEAN
      PROVE  [sync EXCEPT !.notified = TRUE,
                          !.state = IF w THEN "pending" ELSE @] \in Sync
  BY DEF Sync
<1>6. ASSUME NEW w \in BOOLEAN
      PROVE  [sync EXCEPT !.notified = FALSE, !.idle = IF w THEN @ - 1 ELSE @,
                          !.state = IF @ = "signaled" THEN "waking" ELSE @] \in Sync
  BY <1>1 DEF Sync
<1>7. ASSUME NEW w \in BOOLEAN
      PROVE  [sync EXCEPT !.idle = @ + 1,
                          !.state = IF w THEN "pending" ELSE @] \in Sync
  BY <1>1 DEF Sync
<1> QED
  BY <1>2, <1>3, <1>4, <1>5, <1>6, <1>7

LEMMA UpdateKept ==
  ASSUME NEW A, NEW B, NEW f \in [A -> B], NEW a \in A, NEW b \in B
  PROVE  [f EXCEPT ![a] = b] \in [A -> B]
OBVIOUS
-----------------------------------------------------------------------------
(* Every step keeps the types: notify(), schedule(), wait(), pop(), run(). *)

LEMMA NotifyType ==
  ASSUME TypeOK, NEW p \in Procs, NotifyStep(p) \/ NotifySpawnFails(p)
  PROVE  TypeOK'
<1> USE DEF TypeOK, NGoto, Goto, queueVars, popVars, waitVars, schedVars
<1>1. CASE NotifyFast(p)
  BY <1>1 DEF NotifyFast
<1>2. CASE NotifySlow(p)
  <2>1. is_waking' \in [Threads -> BOOLEAN]
    BY <1>2 DEF NotifySlow
  <2>2. npc' \in [Procs -> {"out", "fast", "slow", "post", "spawn"}]
    BY <1>2 DEF NotifySlow, NotifyIdle, NotifyGrow, NotifyNobody
  <2>3. sync' \in Sync
    BY <1>2, SyncKept DEF NotifySlow, NotifyIdle, NotifyGrow, NotifyNobody
  <2> QED
    BY <1>2, <2>1, <2>2, <2>3 DEF NotifySlow
<1>3. CASE NotifyPost(p)
  BY <1>3 DEF NotifyPost, IdleEvent!Post
<1>4. CASE NotifySpawn(p)
  BY <1>4 DEF NotifySpawn
<1>5. CASE NotifySpawnFails(p)
  BY <1>5, SyncKept DEF NotifySpawnFails
<1> QED
  BY <1>1, <1>2, <1>3, <1>4, <1>5 DEF NotifyStep

LEMMA ScheduleType ==
  ASSUME TypeOK, NEW k \in Tasks,
         \/ \E c \in Clients : ClientSchedule(c, k)
         \/ \E t \in Threads : ThreadSchedule(t, k) \/ Overflow(t, k)
  PROVE  TypeOK'
<1> USE DEF TypeOK, popVars, waitVars, Schedule, CallNotify, ThreadFrame
<1>1. CASE \E c \in Clients : ClientSchedule(c, k)
  <2>1. run_queue' \in [Owners -> SUBSET Tasks]
    <3>1. Pool \in Owners
      BY DEF Owners
    <3> QED
      BY <1>1, <3>1 DEF ClientSchedule
  <2> QED
    BY <1>1, <2>1 DEF ClientSchedule
<1>2. ASSUME NEW t \in Threads, ThreadSchedule(t, k) PROVE TypeOK'
  <2>1. run_buffer' \in [Threads -> SUBSET Tasks]
    <3>1. run_buffer[t] \cup {k} \in SUBSET Tasks
      OBVIOUS
    <3> QED
      BY <1>2, <3>1, UpdateKept DEF ThreadSchedule
  <2> QED
    BY <1>2, <2>1 DEF ThreadSchedule
<1>3. ASSUME NEW t \in Threads, Overflow(t, k) PROVE TypeOK'
  <2>1. PICK half \in SUBSET run_buffer[t] :
              /\ run_buffer' = [run_buffer EXCEPT ![t] = @ \ half]
              /\ overflow' = [overflow EXCEPT ![t] = half \cup {k}]
    BY <1>3 DEF Overflow
  <2>2. run_buffer' \in [Threads -> SUBSET Tasks]
    BY <2>1
  <2>3. overflow' \in [Threads -> SUBSET Tasks]
    <3>1. half \cup {k} \in SUBSET Tasks
      OBVIOUS
    <3> QED
      BY <2>1, <3>1, UpdateKept
  <2> QED
    BY <1>3, <2>2, <2>3 DEF Overflow
<1> QED
  BY <1>1, <1>2, <1>3

LEMMA WaitType ==
  ASSUME TypeOK, NEW t \in Threads,
         \/ Register(t) \/ WaitNotified(t) \/ WaitIdle(t) \/ WaitSleep(t)
         \/ WaitWoken(t)
  PROVE  TypeOK'
<1> USE DEF TypeOK, Goto, queueVars, popVars, waitVars, schedVars
<1>1. CASE Register(t)
  BY <1>1 DEF Register
<1>2. CASE WaitNotified(t)
  BY <1>2, SyncKept DEF WaitNotified
<1>3. CASE WaitIdle(t)
  BY <1>3, SyncKept DEF WaitIdle
<1>4. CASE WaitSleep(t)
  BY <1>4 DEF WaitSleep, IdleEvent!BeginWait
<1>5. CASE WaitWoken(t)
  BY <1>5 DEF WaitWoken, IdleEvent!Acquire
<1> QED
  BY <1>1, <1>2, <1>3, <1>4, <1>5

(* The thread that was registered before one on the stack.                 *)
LEMMA NextOfType ==
  ASSUME threads \in Seq(Threads), NEW v \in Threads, OnStack(v)
  PROVE  /\ NextOf(v) \in Threads \cup {Nobody}
         /\ NextOf(v) # Nobody => OnStack(NextOf(v))
<1> DEFINE i == CHOOSE j \in DOMAIN threads : threads[j] = v
<1>1. i \in DOMAIN threads
  BY DEF OnStack
<1>2. CASE i = Len(threads)
  BY <1>2 DEF NextOf
<1>3. CASE i # Len(threads)
  <2>1. i + 1 \in DOMAIN threads
    BY <1>1, <1>3
  <2>2. NextOf(v) = threads[i + 1]
    BY <1>3 DEF NextOf
  <2> HIDE DEF i
  <2> QED
    BY <2>1, <2>2 DEF OnStack
<1> QED
  BY <1>2, <1>3

(* A thread on its way through pop() has somebody to steal from.           *)
LEMMA VictimType ==
  ASSUME TypeOK, Registered, NEW t \in Threads, Victim(t)
  PROVE  \E v \in Threads : /\ from' = [from EXCEPT ![t] = v]
                            /\ target' = [target EXCEPT ![t] = NextOf(v)]
                            /\ OnStack(v)
<1> DEFINE v == IF target[t] = Nobody THEN Head(threads) ELSE target[t]
<1>1. OnStack(t)
  BY DEF Registered, Victim, Goto
<1>2. threads # <<>> /\ threads \in Seq(Threads)
  BY <1>1 DEF OnStack, TypeOK
<1>3. v \in Threads
  BY <1>2 DEF TypeOK
<1>4. OnStack(v)
  <2>1. CASE target[t] = Nobody
    BY <1>2, <2>1 DEF OnStack
  <2>2. CASE target[t] # Nobody
    BY <2>2 DEF Registered
  <2> QED
    BY <2>1, <2>2
<1> QED
  BY <1>3, <1>4 DEF Victim

LEMMA PopType ==
  ASSUME TypeOK, Registered, NEW t \in Threads, PopStep(t) PROVE TypeOK'
<1> USE DEF TypeOK, PopFrame, Goto, queueVars, popVars, waitVars, schedVars, Owners
<1>1. CASE PopBuffer(t)
  BY <1>1 DEF PopBuffer
<1>2. CASE ConsumeOwn(t) \/ ConsumePool(t) \/ ConsumeTarget(t)
  <2>1. \E o \in Owners, n \in {"pool", "count", "buffer"} : Consume(t, o, n)
    BY <1>2 DEF ConsumeOwn, ConsumePool, ConsumeTarget
  <2>2. PICK o \in Owners, n \in {"pool", "count", "buffer"} : Consume(t, o, n)
    BY <2>1
  <2> QED
    BY <2>2 DEF Consume
<1>3. CASE Take(t)
  BY <1>3 DEF Take
<1>4. CASE Publish(t) \/ PublishStolen(t)
  <2>1. PICK k \in hold[t] : Keep(t, k)
    BY <1>4 DEF Publish, PublishStolen
  <2>2. /\ hold' \in [Threads -> SUBSET Tasks]
        /\ run_buffer' \in [Threads -> SUBSET Tasks]
        /\ pushed' \in [Threads -> BOOLEAN]
    <3>1. {k} \in SUBSET Tasks /\ run_buffer[t] \cup (hold[t] \ {k}) \in SUBSET Tasks
      OBVIOUS
    <3>2. (hold[t] # {k}) \in BOOLEAN
      OBVIOUS
    <3> QED
      BY <2>1, <3>1, <3>2, UpdateKept DEF Keep
  <2>3. pc' \in [Threads -> {"off", "register", "wait", "sleep", "pop", "pool", "count",
                         "victim", "queue", "buffer", "take", "publish", "release",
                         "stolen", "got", "start", "run", "panic"}]
    BY <1>4 DEF Publish, PublishStolen
  <2> QED
    BY <2>1, <2>2, <2>3 DEF Keep
<1>5. CASE Release(t) \/ NothingFound(t) \/ NothingToSteal(t)
  BY <1>5 DEF Release, NothingFound, NothingToSteal
<1>6. CASE Count(t)
  BY <1>6 DEF Count, Sync
<1>7. CASE Victim(t)
  <2>1. PICK v \in Threads : /\ from' = [from EXCEPT ![t] = v]
                             /\ target' = [target EXCEPT ![t] = NextOf(v)]
                             /\ OnStack(v)
    BY <1>7, VictimType
  <2>2. NextOf(v) \in Threads \cup {Nobody}
    BY <2>1, NextOfType
  <2>3. target' \in [Threads -> Threads \cup {Nobody}]
    BY <2>1, <2>2, UpdateKept
  <2>4. from' \in [Threads -> Owners] /\ num_threads' \in [Threads -> Int]
    BY <1>7, <2>1 DEF Victim
  <2> QED
    BY <1>7, <2>3, <2>4 DEF Victim
<1>8. CASE Steal(t)
  <2>1. PICK ks \in SUBSET run_buffer[from[t]] :
              /\ hold' = [hold EXCEPT ![t] = ks]
              /\ run_buffer' = [run_buffer EXCEPT ![from[t]] = @ \ ks]
    BY <1>8 DEF Steal
  <2>2. run_buffer' \in [Threads -> SUBSET Tasks]
    BY <2>1
  <2>3. hold' \in [Threads -> SUBSET Tasks]
    <3>1. from[t] \in Threads
      BY <1>8 DEF Steal, Registered, OnStack
    <3>2. ks \in SUBSET Tasks
      BY <2>1, <3>1
    <3> QED
      BY <2>1, <3>2
  <2> QED
    BY <1>8, <2>2, <2>3 DEF Steal
<1> QED
  BY <1>1, <1>2, <1>3, <1>4, <1>5, <1>6, <1>7, <1>8 DEF PopStep

LEMMA RunType ==
  ASSUME TypeOK, NEW t \in Threads,
         Got(t) \/ Start(t) \/ CallbackReturns(t) \/ PushOverflow(t)
  PROVE  TypeOK'
<1> USE DEF TypeOK, Goto, queueVars, popVars, waitVars, schedVars
<1>1. CASE Got(t)
  BY <1>1 DEF Got, CallNotify
<1>2. CASE Start(t)
  BY <1>2 DEF Start
<1>3. CASE CallbackReturns(t)
  BY <1>3 DEF CallbackReturns
<1>4. CASE PushOverflow(t)
  <2>1. run_queue[t] \cup overflow[t] \in SUBSET Tasks /\ t \in Owners
    BY DEF Owners
  <2>2. run_queue' \in [Owners -> SUBSET Tasks]
    BY <1>4, <2>1, UpdateKept DEF PushOverflow
  <2> QED
    BY <1>4, <2>2 DEF PushOverflow, ThreadFrame, CallNotify, Procs
<1> QED
  BY <1>1, <1>2, <1>3, <1>4

LEMMA NextType == IInv /\ [Next]_vars => TypeOK'
<1> SUFFICES ASSUME TypeOK, Registered, [Next]_vars PROVE TypeOK'
  BY DEF IInv
<1>1. CASE UNCHANGED vars
  BY <1>1 DEF vars, TypeOK, queueVars, popVars, waitVars, schedVars
<1> QED
  BY <1>1, NotifyType, ScheduleType, WaitType, PopType, RunType
  DEF Next, RunStep
-----------------------------------------------------------------------------
(* Only the compare-exchanges of notify() and wait() touch the status.     *)

LEMMA NextWaking == IInv /\ [Next]_vars => WakingThread'
<1> SUFFICES ASSUME IInv, [Next]_vars PROVE WakingThread'
  OBVIOUS
<1> USE DEF IInv, WakingThread
<1> DEFINE Same == is_waking' = is_waking /\ sync'.state = sync.state
<1>1. Same => WakingThread'
  OBVIOUS
<1>2. ASSUME NEW p \in Procs, NotifySlow(p) PROVE WakingThread'
  <2> USE <1>2 DEF TypeOK, Sync, NotifySlow
  <2>1. CASE Waking(p)
    BY <2>1 DEF Waking, NotifyIdle, NotifyGrow, NotifyNobody
  <2>2. CASE ~Waking(p)
    <3>1. is_waking' = is_waking
      BY <2>2 DEF Waking
    <3>2. (sync'.state = "waking") <=> (sync.state = "waking")
      BY <2>2 DEF NotifyIdle, NotifyGrow, NotifyNobody, CanWake
    <3> QED
      BY <3>1, <3>2
  <2> QED
    BY <2>1, <2>2
<1>3. ASSUME NEW t \in Threads, WaitNotified(t) PROVE WakingThread'
  BY <1>3 DEF WaitNotified, TypeOK, Sync
<1>4. ASSUME NEW t \in Threads, WaitIdle(t) PROVE WakingThread'
  BY <1>4 DEF WaitIdle, TypeOK, Sync
<1>5. ASSUME NEW p \in Procs,
             NotifyFast(p) \/ NotifyPost(p) \/ NotifySpawn(p) \/ NotifySpawnFails(p)
      PROVE Same
  BY <1>5 DEF NotifyFast, NotifyPost, NotifySpawn, NotifySpawnFails, waitVars,
              TypeOK, Sync
<1>6. ASSUME NEW k \in Tasks,
             \/ \E c \in Clients : ClientSchedule(c, k)
             \/ \E t \in Threads : ThreadSchedule(t, k) \/ Overflow(t, k)
      PROVE Same
  BY <1>6 DEF ClientSchedule, ThreadSchedule, Overflow, ThreadFrame, waitVars
<1>7. ASSUME NEW t \in Threads, Register(t) \/ WaitSleep(t) \/ WaitWoken(t)
      PROVE Same
  BY <1>7 DEF Register, WaitSleep, WaitWoken, waitVars
<1>8. ASSUME NEW t \in Threads, PopStep(t) PROVE Same
  BY <1>8 DEF PopStep, PopBuffer, ConsumeOwn, ConsumePool, ConsumeTarget, Consume,
              Take, Publish, PublishStolen, Keep, Release, Count, Victim,
              NothingFound, Steal, NothingToSteal, PopFrame, waitVars
<1>9. ASSUME NEW t \in Threads,
             Got(t) \/ Start(t) \/ CallbackReturns(t) \/ PushOverflow(t)
      PROVE Same
  BY <1>9 DEF Got, Start, CallbackReturns, PushOverflow, ThreadFrame, waitVars
<1>10. CASE UNCHANGED vars
  BY <1>10 DEF vars, waitVars
<1> QED
  BY <1>1, <1>2, <1>3, <1>4, <1>5, <1>6, <1>7, <1>8, <1>9, <1>10
  DEF Next, NotifyStep, RunStep

(* The stack only grows, and links lead down it.                           *)
LEMMA NextRegistered == IInv /\ [Next]_vars => Registered'
<1> SUFFICES ASSUME TypeOK, Registered, [Next]_vars PROVE Registered'
  BY DEF IInv
<1>t. /\ threads \in Seq(Threads)
      /\ target \in [Threads -> Threads \cup {Nobody}]
      /\ from \in [Threads -> Owners]
      /\ DOMAIN pc = Threads
  BY DEF TypeOK
<1> DEFINE Same == /\ threads' = threads /\ target' = target
                   /\ \A t \in Threads :
                        /\ pc'[t] \notin {"off", "register"}
                             => pc[t] \notin {"off", "register"}
                        /\ pc'[t] \in {"queue", "buffer"}
                             => pc[t] \in {"queue", "buffer"} /\ from'[t] = from[t]
<1>1. ASSUME Same PROVE Registered'
  <2>1. \A x : OnStack(x) => \E i \in DOMAIN threads' : threads'[i] = x
    BY <1>1 DEF OnStack
  <2> QED
    BY <1>1, <2>1 DEF Registered, OnStack
<1>2. ASSUME NEW t \in Threads, Register(t) PROVE Registered'
  <2>1. threads' = <<t>> \o threads /\ threads' \in Seq(Threads)
    BY <1>2, <1>t DEF Register
  <2>2. threads'[1] = t /\ 1 \in DOMAIN threads'
    BY <1>t, <2>1
  <2>3. \A i \in DOMAIN threads : i + 1 \in DOMAIN threads' /\ threads'[i + 1] = threads[i]
    BY <1>t, <2>1
  <2>4. \A x : OnStack(x) => \E i \in DOMAIN threads' : threads'[i] = x
    BY <2>3 DEF OnStack
  <2>5. target' = target /\ from' = from
    BY <1>2 DEF Register, popVars
  <2>6. pc'[t] = "wait" /\ \A u \in Threads \ {t} : pc'[u] = pc[u]
    BY <1>2, <1>t DEF Register, Goto
  <2>7. ASSUME NEW u \in Threads
        PROVE  /\ pc'[u] \notin {"off", "register"} => u = t \/ OnStack(u)
               /\ target'[u] # Nobody => OnStack(target'[u])
               /\ pc'[u] \in {"queue", "buffer"} => OnStack(from'[u])
    BY <2>5, <2>6 DEF Registered
  <2> QED
    BY <2>2, <2>4, <2>7 DEF Registered, OnStack
<1>3. ASSUME NEW t \in Threads, Victim(t) PROVE Registered'
  <2>1. PICK v \in Threads : /\ from' = [from EXCEPT ![t] = v]
                             /\ target' = [target EXCEPT ![t] = NextOf(v)]
                             /\ OnStack(v)
    BY <1>3, VictimType
  <2>2. NextOf(v) # Nobody => OnStack(NextOf(v))
    BY <1>t, <2>1, NextOfType
  <2>3. threads' = threads /\ pc[t] = "victim" /\ pc' = [pc EXCEPT ![t] = "queue"]
    BY <1>3 DEF Victim, PopFrame, Goto
  <2>4. ASSUME NEW u \in Threads
        PROVE  /\ pc'[u] \notin {"off", "register"} => OnStack(u)
               /\ target'[u] # Nobody => OnStack(target'[u])
               /\ pc'[u] \in {"queue", "buffer"} => OnStack(from'[u])
    <3>1. CASE u = t
      BY <1>t, <2>1, <2>2, <2>3, <3>1 DEF Registered
    <3>2. CASE u # t
      <4>1. target'[u] = target[u] /\ from'[u] = from[u] /\ pc'[u] = pc[u]
        BY <1>t, <2>1, <2>3, <3>2
      <4> QED
        BY <4>1 DEF Registered
    <3> QED
      BY <3>1, <3>2
  <2> QED
    BY <2>3, <2>4 DEF Registered, OnStack
<1> USE DEF TypeOK
<1>4. ASSUME NEW p \in Procs, NotifyStep(p) \/ NotifySpawnFails(p) PROVE Same
  BY <1>4 DEF NotifyStep, NotifyFast, NotifySlow, NotifyPost, NotifySpawn,
              NotifySpawnFails, Goto, popVars
<1>5. ASSUME NEW k \in Tasks,
             \/ \E c \in Clients : ClientSchedule(c, k)
             \/ \E t \in Threads : ThreadSchedule(t, k) \/ Overflow(t, k)
      PROVE Same
  BY <1>5 DEF ClientSchedule, ThreadSchedule, Overflow, ThreadFrame, popVars
<1>6. ASSUME NEW t \in Threads,
             WaitNotified(t) \/ WaitIdle(t) \/ WaitSleep(t) \/ WaitWoken(t)
      PROVE Same
  BY <1>6 DEF WaitNotified, WaitIdle, WaitSleep, WaitWoken, Goto, popVars
<1>7. ASSUME NEW t \in Threads, PopStep(t), ~Victim(t) PROVE Same
  <2>1. CASE ConsumeOwn(t) \/ ConsumePool(t) \/ ConsumeTarget(t)
    BY <2>1 DEF ConsumeOwn, ConsumePool, ConsumeTarget, Consume, PopFrame
  <2>2. CASE ~(ConsumeOwn(t) \/ ConsumePool(t) \/ ConsumeTarget(t))
    BY <1>7, <2>2 DEF PopStep, PopBuffer, Take, Publish, PublishStolen, Keep,
              Release, Count, NothingFound, Steal, NothingToSteal, PopFrame, Goto,
              popVars
  <2> QED
    BY <2>1, <2>2
<1>8. ASSUME NEW t \in Threads,
             Got(t) \/ Start(t) \/ CallbackReturns(t) \/ PushOverflow(t)
      PROVE Same
  BY <1>8 DEF Got, Start, CallbackReturns, PushOverflow, ThreadFrame, Goto, popVars
<1>9. UNCHANGED vars => Same
  BY DEF vars, popVars
<1> QED
  BY <1>1, <1>2, <1>3, <1>4, <1>5, <1>6, <1>7, <1>8, <1>9 DEF Next, RunStep

(* The inductive invariant: types, the two assertions on the waking thread *)
(* that the source has commented out (thread_pool.zig:149, 195), and that  *)
(* every thread in pop() is on the stack (line 353).                       *)
THEOREM Invariance == SafeSpec => []IInv
<1>1. Init => IInv
  BY InitInv
<1>2. IInv /\ [Next]_vars => IInv'
  BY NextType, NextWaking, NextRegistered DEF IInv
<1> QED
  BY <1>1, <1>2, PTL DEF SafeSpec

(* There is at most one waking thread, and sync.state is `waking` exactly  *)
(* while there is one, also when a thread cannot be spawned                *)
(* (thread_pool.zig:35-36, 149, 195).                                      *)
THEOREM OneWakingThread == SafeSpec => []WakingThread
<1>1. IInv => WakingThread
  BY DEF IInv
<1> QED
  BY <1>1, Invariance, PTL
-----------------------------------------------------------------------------
(* The counts.  Who is in notify() is a client, or a thread on its way to  *)
(* a callback or in one; who is in the middle of a push() is in a callback *)
(* and not in notify() yet.                                                *)
Inside == \A t \in Threads : /\ npc[t] # "out" => pc[t] \in {"start", "run"}
                                                  /\ overflow[t] = {}
                             /\ overflow[t] # {} => pc[t] = "run"

(* Outside a callback nothing of this is under way ...                     *)
LEMMA Outside ==
  ASSUME Inside, NEW t \in Threads, pc[t] # "start", pc[t] # "run"
  PROVE  npc[t] = "out" /\ overflow[t] = {}
BY DEF Inside

(* ... so a thread may go from place to place.                             *)
LEMMA GoesOn ==
  ASSUME TypeOK, Inside, NEW t \in Threads,
         npc[t] = "out" /\ overflow[t] = {},
         \A u \in Threads \ {t} : pc'[u] = pc[u],
         UNCHANGED <<npc, overflow>>
  PROVE  Inside'
<1> SUFFICES ASSUME NEW u \in Threads
             PROVE  /\ npc'[u] # "out" => pc'[u] \in {"start", "run"} /\ overflow'[u] = {}
                    /\ overflow'[u] # {} => pc'[u] = "run"
  BY DEF Inside
<1>1. CASE u = t
  BY <1>1
<1>2. CASE u # t
  BY <1>2 DEF Inside
<1> QED BY <1>1, <1>2

LEMMA NotifyInside ==
  ASSUME TypeOK, Inside, NEW p \in Procs, NotifyStep(p) \/ NotifySpawnFails(p)
  PROVE  Inside'
<1>1. CASE NotifySpawn(p)
  <2>1. PICK t \in Threads : Goto(t, "off", "register")
    BY <1>1 DEF NotifySpawn
  <2>2. overflow' = overflow /\ npc' = [npc EXCEPT ![p] = "out"]
    BY <1>1 DEF NotifySpawn, NGoto, queueVars
  <2>3. ASSUME NEW u \in Threads
        PROVE  /\ npc'[u] # "out" => pc'[u] \in {"start", "run"} /\ overflow'[u] = {}
               /\ overflow'[u] # {} => pc'[u] = "run"
    <3>1. npc'[u] # "out" => npc[u] # "out"
      BY <2>2 DEF TypeOK, Procs
    <3>2. u # t => pc'[u] = pc[u]
      BY <2>1 DEF Goto, TypeOK
    <3>3. u = t => npc[u] = "out" /\ overflow[u] = {}
      BY <2>1 DEF Goto, Inside
    <3> QED BY <2>2, <3>1, <3>2, <3>3 DEF Inside
  <2> QED BY <2>3 DEF Inside
<1>2. CASE ~NotifySpawn(p)
  <2>1. pc' = pc /\ overflow' = overflow
    BY <1>2 DEF NotifyStep, NotifyFast, NotifySlow, NotifyPost, NotifySpawnFails,
                queueVars
  <2>2. \A u \in Threads : npc'[u] # "out" => npc[u] # "out"
    BY <1>2 DEF NotifyStep, NotifyFast, NotifySlow, NotifyIdle, NotifyGrow,
                NotifyNobody, NotifyPost, NotifySpawnFails, NGoto, TypeOK, Procs
  <2> QED BY <2>1, <2>2 DEF Inside
<1> QED BY <1>1, <1>2

LEMMA ScheduleInside ==
  ASSUME TypeOK, Inside, NEW k \in Tasks,
         \/ \E c \in Clients : ClientSchedule(c, k)
         \/ \E t \in Threads : ThreadSchedule(t, k) \/ Overflow(t, k)
  PROVE  Inside'
<1>1. ASSUME NEW c \in Clients, ClientSchedule(c, k) PROVE Inside'
  <2>1. \A u \in Threads : npc'[u] = npc[u]
    BY <1>1, ThreadPoolAssumption DEF ClientSchedule, CallNotify, TypeOK, Procs
  <2> QED BY <1>1, <2>1 DEF ClientSchedule, Inside
<1>2. ASSUME NEW t \in Threads, ThreadSchedule(t, k) PROVE Inside'
  <2>1. /\ pc[t] = "run" /\ overflow[t] = {} /\ pc' = pc /\ overflow' = overflow
        /\ \A u \in Threads \ {t} : npc'[u] = npc[u]
    BY <1>2 DEF ThreadSchedule, Running, CallNotify, ThreadFrame, TypeOK, Procs
  <2> QED BY <2>1 DEF Inside
<1>3. ASSUME NEW t \in Threads, Overflow(t, k) PROVE Inside'
  <2>1. /\ pc[t] = "run" /\ npc[t] = "out" /\ pc' = pc /\ npc' = npc
        /\ \A u \in Threads \ {t} : overflow'[u] = overflow[u]
    BY <1>3 DEF Overflow, Running, Schedule, ThreadFrame, TypeOK
  <2> QED BY <2>1 DEF Inside
<1> QED BY <1>1, <1>2, <1>3

LEMMA RunInside ==
  ASSUME TypeOK, Inside, NEW t \in Threads, RunStep(t) \/ WaitWoken(t)
  PROVE  Inside'
<1> USE DEF Goto
<1>1. CASE Register(t)
  BY <1>1, Outside, GoesOn DEF Register, queueVars, TypeOK
<1>2. CASE WaitNotified(t) \/ WaitSleep(t) \/ WaitWoken(t)
  BY <1>2, Outside, GoesOn DEF WaitNotified, WaitSleep, WaitWoken, queueVars, TypeOK
<1>3. CASE WaitIdle(t)
  BY <1>3 DEF WaitIdle, queueVars, Inside
<1>4. CASE PopStep(t)
  <2>1. CASE ConsumeOwn(t) \/ ConsumePool(t) \/ ConsumeTarget(t)
    <3>1. /\ pc[t] \in {"pop", "pool", "queue"} /\ npc' = npc /\ overflow' = overflow
          /\ \A u \in Threads \ {t} : pc'[u] = pc[u]
      BY <2>1 DEF ConsumeOwn, ConsumePool, ConsumeTarget, Consume, PopFrame, queueVars,
                  TypeOK
    <3> QED BY <3>1, Outside, GoesOn
  <2>2. CASE ~(ConsumeOwn(t) \/ ConsumePool(t) \/ ConsumeTarget(t))
    <3>1. /\ pc[t] \notin {"start", "run"} /\ npc' = npc /\ overflow' = overflow
          /\ \A u \in Threads \ {t} : pc'[u] = pc[u]
      BY <1>4, <2>2 DEF PopStep, PopBuffer, Take, Publish, PublishStolen, Keep,
              Release, Count, Victim, NothingFound, Steal, NothingToSteal, PopFrame,
              queueVars, TypeOK
    <3> QED BY <3>1, Outside, GoesOn
  <2> QED BY <2>1, <2>2
<1>5. CASE Got(t)
  <2>1. /\ pc[t] = "got" /\ pc' = [pc EXCEPT ![t] = "start"] /\ overflow' = overflow
        /\ \A u \in Threads \ {t} : npc'[u] = npc[u]
    BY <1>5 DEF Got, CallNotify, queueVars, TypeOK, Procs
  <2>2. overflow[t] = {} /\ pc'[t] = "start" /\ \A u \in Threads \ {t} : pc'[u] = pc[u]
    BY <2>1 DEF Inside, TypeOK
  <2> QED BY <2>1, <2>2 DEF Inside
<1>6. CASE Start(t)
  <2>1. /\ pc[t] = "start" /\ npc[t] = "out" /\ npc' = npc /\ overflow' = overflow
        /\ \A u \in Threads \ {t} : pc'[u] = pc[u]
    BY <1>6 DEF Start, queueVars, TypeOK
  <2>2. overflow[t] = {}
    BY <2>1 DEF Inside
  <2> QED BY <2>1, <2>2, GoesOn
<1>7. CASE CallbackReturns(t)
  BY <1>7, GoesOn DEF CallbackReturns, queueVars, TypeOK
<1>8. CASE PushOverflow(t)
  <2>1. /\ overflow[t] # {} /\ pc' = pc
        /\ \A u \in Threads \ {t} : npc'[u] = npc[u] /\ overflow'[u] = overflow[u]
        /\ overflow'[t] = {}
    BY <1>8 DEF PushOverflow, CallNotify, ThreadFrame, TypeOK, Procs
  <2> QED BY <2>1 DEF Inside
<1> QED BY <1>1, <1>2, <1>3, <1>4, <1>5, <1>6, <1>7, <1>8 DEF RunStep

LEMMA NextInside == TypeOK /\ Inside /\ [Next]_vars => Inside'
<1> SUFFICES ASSUME TypeOK, Inside, [Next]_vars PROVE Inside'
  OBVIOUS
<1>1. CASE UNCHANGED vars
  BY <1>1 DEF vars, queueVars, Inside
<1> QED BY <1>1, NotifyInside, ScheduleInside, RunInside DEF Next

IdleThreads == {t \in Threads : is_idle[t]}
Existing == {t \in Threads : pc[t] # "off"}
Spawning == {p \in Procs : npc[p] = "spawn"}

(* Counts, by these names.                                                 *)
Named == /\ sync.idle = Cardinality(IdleThreads)
         /\ sync.spawned = Cardinality(Existing) + Cardinality(Spawning)
         /\ sync.spawned =< max_threads

LEMMA CountsNamed == (Counts <=> Named) /\ (Counts' <=> Named')
BY DEF Counts, Named, IdleThreads, Existing, Spawning

LEMMA FiniteCounted ==
  /\ IsFiniteSet(IdleThreads) /\ IsFiniteSet(Existing) /\ IsFiniteSet(Spawning)
  /\ Cardinality(IdleThreads) \in Nat /\ Cardinality(Existing) \in Nat
  /\ Cardinality(Spawning) \in Nat
<1>1. IsFiniteSet(Threads) /\ IsFiniteSet(Procs)
  BY ThreadPoolAssumption, FS_Union DEF Procs
<1>2. IdleThreads \in SUBSET Threads /\ Existing \in SUBSET Threads
      /\ Spawning \in SUBSET Procs
  BY DEF IdleThreads, Existing, Spawning
<1> HIDE DEF IdleThreads, Existing, Spawning
<1>3. IsFiniteSet(IdleThreads) /\ IsFiniteSet(Existing) /\ IsFiniteSet(Spawning)
  BY <1>1, <1>2, FS_Subset
<1> QED BY <1>3, FS_CardinalityType

(* A step that changes neither the counts nor what they count.             *)
Unmoved == /\ sync'.idle = sync.idle /\ sync'.spawned = sync.spawned
           /\ is_idle' = is_idle
           /\ \A t \in Threads : pc'[t] = "off" <=> pc[t] = "off"
           /\ \A p \in Procs : npc'[p] = "spawn" <=> npc[p] = "spawn"

LEMMA UnmovedCounts == ASSUME Counts, Unmoved PROVE Counts'
<1>1. IdleThreads' = IdleThreads /\ Existing' = Existing /\ Spawning' = Spawning
  BY DEF Unmoved, IdleThreads, Existing, Spawning
<1> QED BY <1>1 DEF Counts, Unmoved, IdleThreads, Existing, Spawning

(* notify() starts to create a thread ...                                  *)
LEMMA GrowCounts ==
  ASSUME TypeOK, Counts, NEW p \in Procs, NotifySlow(p), NotifyGrow(p)
  PROVE  Counts'
<1>1. /\ npc[p] # "spawn" /\ npc' = [npc EXCEPT ![p] = "spawn"]
      /\ pc' = pc /\ is_idle' = is_idle
  BY DEF NotifySlow, NotifyGrow, NGoto
<1>2. sync'.idle = sync.idle /\ sync'.spawned = sync.spawned + 1
  BY DEF NotifyGrow, TypeOK, Sync
<1>3. IdleThreads' = IdleThreads /\ Existing' = Existing
  BY <1>1 DEF IdleThreads, Existing
<1>4. Spawning' = Spawning \cup {p} /\ p \notin Spawning
  BY <1>1 DEF Spawning, TypeOK
<1>5. Cardinality(Spawning') = Cardinality(Spawning) + 1
  BY <1>4, FiniteCounted, FS_AddElement
<1>6. sync.spawned < max_threads /\ max_threads \in Int /\ sync.spawned \in Int
  BY ThreadPoolAssumption, FS_CardinalityType DEF NotifyGrow, TypeOK, Sync
<1> QED
  BY <1>2, <1>3, <1>5, <1>6, FiniteCounted, CountsNamed DEF Named

(* ... which begins to exist ...                                           *)
LEMMA SpawnCounts ==
  ASSUME TypeOK, Counts, NEW p \in Procs, NotifySpawn(p)
  PROVE  Counts'
<1>1. PICK t \in Threads : pc[t] = "off" /\ pc' = [pc EXCEPT ![t] = "register"]
  BY DEF NotifySpawn, Goto
<1>2. /\ npc[p] = "spawn" /\ npc' = [npc EXCEPT ![p] = "out"]
      /\ sync' = sync /\ is_idle' = is_idle
  BY DEF NotifySpawn, NGoto, waitVars
<1>3. IdleThreads' = IdleThreads
  BY <1>2 DEF IdleThreads
<1>4. Existing' = Existing \cup {t} /\ t \notin Existing
  BY <1>1 DEF Existing, TypeOK
<1>5. Spawning' = Spawning \ {p} /\ p \in Spawning
  BY <1>2 DEF Spawning, TypeOK
<1>6. Cardinality(Existing') = Cardinality(Existing) + 1
  BY <1>4, FiniteCounted, FS_AddElement
<1>7. Cardinality(Spawning') = Cardinality(Spawning) - 1
  BY <1>5, FiniteCounted, FS_RemoveElement
<1> QED
  BY <1>2, <1>3, <1>6, <1>7, FiniteCounted, CountsNamed DEF Named

(* ... or cannot be created.                                               *)
LEMMA SpawnFailsCounts ==
  ASSUME TypeOK, Counts, NEW p \in Procs, NotifySpawnFails(p)
  PROVE  Counts'
<1>1. /\ npc[p] = "spawn" /\ npc' = [npc EXCEPT ![p] = "out"]
      /\ pc' = pc /\ is_idle' = is_idle
  BY DEF NotifySpawnFails, NGoto, waitVars
<1>2. /\ sync'.idle = sync.idle /\ sync'.spawned = sync.spawned - 1
      /\ sync.spawned \in Int /\ max_threads \in Int
  BY ThreadPoolAssumption, FS_CardinalityType DEF NotifySpawnFails, TypeOK, Sync
<1>3. IdleThreads' = IdleThreads /\ Existing' = Existing
  BY <1>1 DEF IdleThreads, Existing
<1>4. Spawning' = Spawning \ {p} /\ p \in Spawning
  BY <1>1 DEF Spawning, TypeOK
<1>5. Cardinality(Spawning') = Cardinality(Spawning) - 1
  BY <1>4, FiniteCounted, FS_RemoveElement
<1> QED
  BY <1>2, <1>3, <1>5, FiniteCounted, CountsNamed DEF Named

(* wait() counts the thread in, and out when it is notified.               *)
LEMMA WaitCounts ==
  ASSUME TypeOK, Counts, NEW t \in Threads, WaitIdle(t) \/ WaitNotified(t)
  PROVE  Counts'
<1>1. /\ npc' = npc /\ sync'.spawned = sync.spawned /\ sync.idle \in Int
      /\ \A u \in Threads : pc'[u] = "off" <=> pc[u] = "off"
  BY DEF WaitIdle, WaitNotified, Goto, TypeOK, Sync
<1>2. Existing' = Existing /\ Spawning' = Spawning
  BY <1>1 DEF Existing, Spawning
<1>3. sync'.idle = Cardinality(IdleThreads')
  <2>1. CASE WaitIdle(t)
    <3>1. IdleThreads' = IdleThreads \cup {t} /\ t \notin IdleThreads
      BY <2>1 DEF WaitIdle, IdleThreads, TypeOK
    <3>2. sync'.idle = sync.idle + 1
      BY <2>1 DEF WaitIdle, TypeOK, Sync
    <3>3. sync.idle = Cardinality(IdleThreads)
      BY CountsNamed DEF Named
    <3>4. Cardinality(IdleThreads') = Cardinality(IdleThreads) + 1
      BY <3>1, FiniteCounted, FS_AddElement
    <3> QED BY <3>2, <3>3, <3>4
  <2>2. CASE WaitNotified(t) /\ is_idle[t]
    <3>1. IdleThreads' = IdleThreads \ {t} /\ t \in IdleThreads
      BY <2>2 DEF WaitNotified, IdleThreads, TypeOK
    <3>2. sync'.idle = sync.idle - 1
      BY <2>2 DEF WaitNotified, TypeOK, Sync
    <3>3. sync.idle = Cardinality(IdleThreads)
      BY CountsNamed DEF Named
    <3>4. Cardinality(IdleThreads') = Cardinality(IdleThreads) - 1
      BY <3>1, FiniteCounted, FS_RemoveElement
    <3> QED BY <3>2, <3>3, <3>4
  <2>3. CASE WaitNotified(t) /\ ~is_idle[t]
    <3>1. IdleThreads' = IdleThreads
      BY <2>3 DEF WaitNotified, IdleThreads, TypeOK
    <3>2. sync'.idle = sync.idle
      BY <2>3 DEF WaitNotified, TypeOK, Sync
    <3> QED BY <3>1, <3>2, CountsNamed DEF Named
  <2> QED BY <2>1, <2>2, <2>3
<1> QED BY <1>1, <1>2, <1>3, CountsNamed DEF Named

LEMMA OthersUnmoved ==
  ASSUME TypeOK, Inside, [Next]_vars,
         \A p \in Procs : /\ ~(NotifySlow(p) /\ NotifyGrow(p)) /\ ~NotifySpawn(p)
                          /\ ~NotifySpawnFails(p),
         \A t \in Threads : ~WaitIdle(t) /\ ~WaitNotified(t)
  PROVE  Unmoved
<1> USE DEF Unmoved
<1>1. ASSUME NEW p \in Procs, NotifyStep(p) \/ NotifySpawnFails(p) PROVE Unmoved
  <2>1. CASE NotifyFast(p) \/ NotifyPost(p)
    BY <2>1 DEF NotifyFast, NotifyPost, NGoto, waitVars, TypeOK
  <2>2. CASE NotifySlow(p)
    <3>1. NotifyIdle(p) \/ NotifyNobody(p)
      BY <2>2 DEF NotifySlow
    <3>2. sync'.idle = sync.idle /\ sync'.spawned = sync.spawned
      BY <3>1 DEF NotifyIdle, NotifyNobody, TypeOK, Sync
    <3>3. \A q \in Procs : npc'[q] = "spawn" <=> npc[q] = "spawn"
      BY <3>1 DEF NotifyIdle, NotifyNobody, NGoto, TypeOK
    <3> QED BY <2>2, <3>2, <3>3 DEF NotifySlow
  <2> QED BY <1>1, <2>1, <2>2 DEF NotifyStep
<1>2. ASSUME NEW k \in Tasks,
             \/ \E c \in Clients : ClientSchedule(c, k)
             \/ \E t \in Threads : ThreadSchedule(t, k) \/ Overflow(t, k)
      PROVE Unmoved
  BY <1>2 DEF ClientSchedule, ThreadSchedule, Overflow, Schedule, CallNotify,
              ThreadFrame, waitVars, TypeOK, Procs
<1>3. ASSUME NEW t \in Threads, PopStep(t) PROVE Unmoved
  <2>1. CASE ConsumeOwn(t) \/ ConsumePool(t) \/ ConsumeTarget(t)
    BY <2>1 DEF ConsumeOwn, ConsumePool, ConsumeTarget, Consume, PopFrame, waitVars,
                TypeOK
  <2>2. CASE ~(ConsumeOwn(t) \/ ConsumePool(t) \/ ConsumeTarget(t))
    BY <1>3, <2>2 DEF PopStep, PopBuffer, Take, Publish, PublishStolen, Keep,
              Release, Count, Victim, NothingFound, Steal, NothingToSteal, PopFrame,
              Goto, waitVars, TypeOK
  <2> QED BY <2>1, <2>2
<1>4. ASSUME NEW t \in Threads, Register(t) \/ WaitSleep(t) \/ WaitWoken(t)
      PROVE Unmoved
  BY <1>4 DEF Register, WaitSleep, WaitWoken, Goto, waitVars, TypeOK
<1>5. ASSUME NEW t \in Threads, Got(t) PROVE Unmoved
  <2>1. npc[t] = "out"
    BY <1>5 DEF Got, Goto, Inside
  <2> QED BY <1>5, <2>1 DEF Got, Goto, CallNotify, waitVars, TypeOK, Procs
<1>6. ASSUME NEW t \in Threads, Start(t) \/ CallbackReturns(t) PROVE Unmoved
  BY <1>6 DEF Start, CallbackReturns, Goto, waitVars, TypeOK
<1>7. ASSUME NEW t \in Threads, PushOverflow(t) PROVE Unmoved
  <2>1. npc[t] = "out"
    BY <1>7 DEF PushOverflow, Inside
  <2> QED BY <1>7, <2>1 DEF PushOverflow, CallNotify, ThreadFrame, waitVars, TypeOK, Procs
<1>8. UNCHANGED vars => Unmoved
  BY DEF vars, waitVars
<1> QED BY <1>1, <1>2, <1>3, <1>4, <1>5, <1>6, <1>7, <1>8 DEF Next, RunStep

LEMMA NextCounts == TypeOK /\ Inside /\ Counts /\ [Next]_vars => Counts'
<1> SUFFICES ASSUME TypeOK, Inside, Counts, [Next]_vars PROVE Counts'
  OBVIOUS
<1> QED
  BY GrowCounts, SpawnCounts, SpawnFailsCounts, WaitCounts, OthersUnmoved, UnmovedCounts

LEMMA InitCounts == Init => Inside /\ Counts
<1> SUFFICES ASSUME Init PROVE Inside /\ Counts
  OBVIOUS
<1>1. Inside
  <2>1. \A t \in Threads : npc[t] = "out" /\ overflow[t] = {}
    BY DEF Init, Procs
  <2> QED BY <2>1 DEF Inside
<1>2. IdleThreads = {} /\ Existing = {} /\ Spawning = {}
  <2>1. /\ \A t \in Threads : ~is_idle[t] /\ pc[t] = "off"
        /\ \A p \in Procs : npc[p] = "out"
    BY DEF Init
  <2> QED BY <2>1 DEF IdleThreads, Existing, Spawning
<1>3. sync.idle = 0 /\ sync.spawned = 0
  BY DEF Init
<1>4. max_threads \in Int /\ 0 =< max_threads
  BY ThreadPoolAssumption, FS_CardinalityType
<1>5. Counts
  BY <1>2, <1>3, <1>4, FS_EmptySet, CountsNamed DEF Named
<1> QED BY <1>1, <1>5

(* The word counts the idle threads and the threads there are or will be,  *)
(* never more than max_threads, whichever spawns fail                      *)
(* (thread_pool.zig:20-23, 153-157, 179, 201, 219, 258).                   *)
THEOREM CountsRight == SafeSpec => []Counts
<1>1. Init => IInv /\ Inside /\ Counts
  BY InitInv, InitCounts
<1>2. IInv /\ Inside /\ Counts /\ [Next]_vars => (IInv /\ Inside /\ Counts)'
  BY NextType, NextWaking, NextRegistered, NextInside, NextCounts DEF IInv
<1> QED BY <1>1, <1>2, PTL DEF SafeSpec
-----------------------------------------------------------------------------
(* Where tasks are.  The queues, buffers and hands are boxes; `run` takes  *)
(* the task out of the hands.                                              *)
Boxes == ({"queue"} \X Owners) \cup ({"buffer", "overflow", "hold"} \X Threads)

Contents(x) == CASE x[1] = "queue"    -> run_queue[x[2]]
                 [] x[1] = "buffer"   -> run_buffer[x[2]]
                 [] x[1] = "overflow" -> overflow[x[2]]
                 [] x[1] = "hold"     -> IF pc[x[2]] = "run" THEN {} ELSE hold[x[2]]
box == [x \in Boxes |-> Contents(x)]

Disjoint(f) == \A x, y \in Boxes : x # y => f[x] \cap f[y] = {}
Holds(f, k) == \E x \in Boxes : k \in f[x]

Moved(f, g, a, b, ks) ==
  \A x \in Boxes : g[x] = IF x = a THEN f[a] \ ks ELSE IF x = b THEN f[b] \cup ks ELSE f[x]
Added(f, g, b, k) == \A x \in Boxes : g[x] = IF x = b THEN f[b] \cup {k} ELSE f[x]
Removed(f, g, a, k) == \A x \in Boxes : g[x] = IF x = a THEN f[a] \ {k} ELSE f[x]

LEMMA MoveKeeps ==
  ASSUME NEW f, NEW g, NEW a \in Boxes, NEW b \in Boxes, NEW ks, a # b,
         ks \subseteq f[a], Moved(f, g, a, b, ks), Disjoint(f)
  PROVE  Disjoint(g) /\ \A k : Holds(g, k) <=> Holds(f, k)
<1>1. /\ g[a] = f[a] \ ks /\ g[b] = f[b] \cup ks
      /\ \A x \in Boxes : x # a /\ x # b => g[x] = f[x]
  BY DEF Moved
<1>2. ASSUME NEW x \in Boxes, NEW y \in Boxes, x # y, NEW k, k \in g[x], k \in g[y]
      PROVE  FALSE
  <2>1. \A z \in Boxes : k \in g[z] => k \in f[z] \/ (z = b /\ k \in f[a])
    BY <1>1
  <2>2. \A z \in Boxes : k \in g[z] /\ k \in ks => z = b
    BY <1>1 DEF Disjoint
  <2> QED BY <1>1, <1>2, <2>1, <2>2 DEF Disjoint
<1>3. ASSUME NEW k PROVE Holds(g, k) <=> Holds(f, k)
  <2>1. ASSUME NEW x \in Boxes, k \in f[x] PROVE Holds(g, k)
    <3>1. CASE x = a /\ k \in ks
      BY <1>1, <3>1 DEF Holds
    <3>2. CASE ~(x = a /\ k \in ks)
      <4>1. k \in g[x]
        BY <1>1, <2>1, <3>2
      <4> QED BY <4>1 DEF Holds
    <3> QED BY <3>1, <3>2
  <2>2. ASSUME NEW x \in Boxes, k \in g[x] PROVE Holds(f, k)
    <3>1. k \in f[x] \/ k \in f[a]
      BY <1>1, <2>2
    <3> QED BY <3>1 DEF Holds
  <2> QED BY <2>1, <2>2 DEF Holds
<1> QED BY <1>2, <1>3 DEF Disjoint

LEMMA AddKeeps ==
  ASSUME NEW f, NEW g, NEW b \in Boxes, NEW k, ~Holds(f, k),
         Added(f, g, b, k), Disjoint(f)
  PROVE  /\ Disjoint(g)
         /\ \A j : Holds(g, j) <=> Holds(f, j) \/ j = k
<1>1. g[b] = f[b] \cup {k} /\ \A x \in Boxes : x # b => g[x] = f[x]
  BY DEF Added
<1>2. ASSUME NEW x \in Boxes, NEW y \in Boxes, x # y, NEW j, j \in g[x], j \in g[y]
      PROVE  FALSE
  <2>1. CASE j = k
    BY <1>1, <1>2, <2>1 DEF Holds
  <2>2. CASE j # k
    BY <1>1, <1>2, <2>2 DEF Disjoint
  <2> QED BY <2>1, <2>2
<1>3. \A j : Holds(g, j) <=> Holds(f, j) \/ j = k
  BY <1>1 DEF Holds
<1> QED BY <1>2, <1>3 DEF Disjoint

LEMMA RemoveKeeps ==
  ASSUME NEW f, NEW g, NEW a \in Boxes, NEW k \in f[a],
         Removed(f, g, a, k), Disjoint(f)
  PROVE  /\ Disjoint(g)
         /\ \A j : Holds(g, j) <=> Holds(f, j) /\ j # k
<1>1. g[a] = f[a] \ {k} /\ \A x \in Boxes : x # a => g[x] = f[x]
  BY DEF Removed
<1>2. Disjoint(g)
  BY <1>1 DEF Disjoint
<1>3. ASSUME NEW j PROVE Holds(g, j) <=> Holds(f, j) /\ j # k
  <2>1. ~Holds(g, k)
    BY <1>1 DEF Holds, Disjoint
  <2> QED BY <1>1, <2>1 DEF Holds
<1> QED BY <1>2, <1>3

QueueOf(o) == <<"queue", o>>
BufferOf(t) == <<"buffer", t>>
OverflowOf(t) == <<"overflow", t>>
HandOf(t) == <<"hold", t>>

LEMMA BoxIs ==
  /\ \A o \in Owners : /\ QueueOf(o) \in Boxes
                       /\ box[QueueOf(o)] = run_queue[o]
                       /\ box'[QueueOf(o)] = run_queue'[o]
  /\ \A t \in Threads :
       /\ BufferOf(t) \in Boxes /\ OverflowOf(t) \in Boxes /\ HandOf(t) \in Boxes
       /\ box[BufferOf(t)] = run_buffer[t] /\ box'[BufferOf(t)] = run_buffer'[t]
       /\ box[OverflowOf(t)] = overflow[t] /\ box'[OverflowOf(t)] = overflow'[t]
       /\ box[HandOf(t)] = IF pc[t] = "run" THEN {} ELSE hold[t]
       /\ box'[HandOf(t)] = IF pc'[t] = "run" THEN {} ELSE hold'[t]
BY DEF Boxes, box, Contents, QueueOf, BufferOf, OverflowOf, HandOf

LEMMA Apart ==
  /\ \A o, p : QueueOf(o) = QueueOf(p) => o = p
  /\ \A o, p : BufferOf(o) = BufferOf(p) => o = p
  /\ \A o, p : OverflowOf(o) = OverflowOf(p) => o = p
  /\ \A o, p : HandOf(o) = HandOf(p) => o = p
  /\ \A o, p : /\ QueueOf(o) # BufferOf(p) /\ QueueOf(o) # OverflowOf(p)
               /\ QueueOf(o) # HandOf(p) /\ BufferOf(o) # OverflowOf(p)
               /\ BufferOf(o) # HandOf(p) /\ OverflowOf(o) # HandOf(p)
BY DEF QueueOf, BufferOf, OverflowOf, HandOf

LEMMA EveryBox ==
  ASSUME NEW x \in Boxes
  PROVE  \/ \E o \in Owners : x = QueueOf(o)
         \/ \E t \in Threads : x = BufferOf(t) \/ x = OverflowOf(t) \/ x = HandOf(t)
BY DEF Boxes, QueueOf, BufferOf, OverflowOf, HandOf

(* What a thread has in its hands: the one task it found, or those it took *)
(* and has not shown yet; and it never runs one twice.                     *)
Carries(t) == pc[t] = "publish" \/ pc[t] = "stolen"
Found(t) == \/ pc[t] = "release" \/ pc[t] = "got" \/ pc[t] = "start" \/ pc[t] = "run"
HandsOf(t) == /\ Found(t) => \E k \in Tasks : hold[t] = {k}
              /\ ~Carries(t) /\ ~Found(t) => hold[t] = {}
              /\ pc[t] = "run" => \A k \in hold[t] : token[k] # "initialized"
              /\ pc[t] # "panic"
Hands == \A t \in Threads : HandsOf(t)

Due(k) == k \in scheduled /\ token[k] = "initialized"
Covered == \A k \in Tasks : /\ Holds(box, k) <=> Due(k)
                            /\ token[k] # "initialized" => k \in scheduled

PlaceInv == Hands /\ Disjoint(box) /\ Covered

(* The effect of a step on the boxes, and with it on the invariant.        *)
Same == \A x \in Boxes : box'[x] = box[x]
Told == /\ scheduled' = scheduled
        /\ \A k \in Tasks : token'[k] = "initialized" <=> token[k] = "initialized"

LEMMA SameKeeps ==
  ASSUME Disjoint(box), Covered, Same, Told
  PROVE  Disjoint(box') /\ Covered'
<1>1. Disjoint(box')
  BY DEF Disjoint, Same
<1>2. \A k : Holds(box', k) <=> Holds(box, k)
  BY DEF Holds, Same
<1>3. Covered'
  BY <1>2 DEF Covered, Told, Due, Holds
<1> QED BY <1>1, <1>3

LEMMA MovedKeeps ==
  ASSUME Disjoint(box), Covered, Told, NEW a \in Boxes, NEW b \in Boxes, a # b,
         NEW ks, ks \subseteq box[a], Moved(box, box', a, b, ks)
  PROVE  Disjoint(box') /\ Covered'
<1>1. Disjoint(box') /\ \A k : Holds(box', k) <=> Holds(box, k)
  BY MoveKeeps
<1>2. Covered'
  BY <1>1 DEF Covered, Told, Due, Holds
<1> QED BY <1>1, <1>2

LEMMA AddedKeeps ==
  ASSUME Disjoint(box), Covered, NEW k \in Tasks, k \notin scheduled,
         scheduled' = scheduled \cup {k}, token' = token,
         NEW f, Disjoint(f), \A j : Holds(f, j) <=> Holds(box, j),
         NEW b \in Boxes, Added(f, box', b, k)
  PROVE  Disjoint(box') /\ Covered'
<1>1. ~Holds(f, k) /\ token[k] = "initialized"
  BY DEF Covered, Due
<1>2. Disjoint(box') /\ \A j : Holds(box', j) <=> (Holds(f, j) \/ j = k)
  BY <1>1, AddKeeps
<1>3. \A j : Holds(box', j) <=> (Holds(box, j) \/ j = k)
  BY <1>2
<1>4. \A j \in Tasks : Due(j)' <=> (Due(j) \/ j = k)
  BY <1>1 DEF Due
<1>5. Covered'
  <2>1. \A j \in Tasks : Holds(box', j) <=> Due(j)'
    BY <1>3, <1>4 DEF Covered
  <2>2. \A j \in Tasks : token'[j] # "initialized" => j \in scheduled'
    BY DEF Covered
  <2> QED BY <2>1, <2>2 DEF Covered, Holds, Due
<1> QED BY <1>2, <1>5

(* Each action: what it does to the boxes.                                 *)
LEMMA StillSame ==
  ASSUME UNCHANGED <<queueVars, hold>>,
         \A t \in Threads : pc'[t] = "run" <=> pc[t] = "run"
  PROVE  Same
<1>1. /\ run_queue' = run_queue /\ run_buffer' = run_buffer
      /\ overflow' = overflow /\ hold' = hold
  BY DEF queueVars
<1> QED BY <1>1, BoxIs, Apart, EveryBox DEF Same

(* Boxes outside S are as they were when nobody touches their variables.   *)
LEMMA Elsewhere ==
  ASSUME NEW S,
         \A o \in Owners : QueueOf(o) \notin S => run_queue'[o] = run_queue[o],
         \A t \in Threads : BufferOf(t) \notin S => run_buffer'[t] = run_buffer[t],
         \A t \in Threads : OverflowOf(t) \notin S => overflow'[t] = overflow[t],
         \A t \in Threads : HandOf(t) \notin S =>
                              hold'[t] = hold[t] /\ (pc'[t] = "run" <=> pc[t] = "run")
  PROVE  \A x \in Boxes : x \notin S => box'[x] = box[x]
<1> SUFFICES ASSUME NEW x \in Boxes, x \notin S PROVE box'[x] = box[x]
  OBVIOUS
<1>1. ASSUME NEW o \in Owners, x = QueueOf(o) PROVE box'[x] = box[x]
  BY <1>1, BoxIs
<1>2. ASSUME NEW t \in Threads, x = BufferOf(t) PROVE box'[x] = box[x]
  BY <1>2, BoxIs
<1>3. ASSUME NEW t \in Threads, x = OverflowOf(t) PROVE box'[x] = box[x]
  BY <1>3, BoxIs
<1>4. ASSUME NEW t \in Threads, x = HandOf(t) PROVE box'[x] = box[x]
  BY <1>4, BoxIs
<1> QED BY <1>1, <1>2, <1>3, <1>4, EveryBox

LEMMA ClientScheduleBox ==
  ASSUME TypeOK, PlaceInv, NEW c \in Clients, NEW k \in Tasks, ClientSchedule(c, k)
  PROVE  Disjoint(box') /\ Covered'
<1> DEFINE b == QueueOf(Pool)
<1>1. /\ run_queue' = [run_queue EXCEPT ![Pool] = @ \cup {k}]
      /\ UNCHANGED <<run_buffer, overflow, pc, hold, token>>
      /\ k \notin scheduled /\ scheduled' = scheduled \cup {k}
  BY DEF ClientSchedule, Schedule, waitVars, popVars
<1>2. Pool \in Owners /\ b \in Boxes
  BY BoxIs DEF Owners
<1>3. Added(box, box', b, k)
  <2>1. box'[b] = box[b] \cup {k}
    BY <1>1, <1>2, BoxIs DEF TypeOK
  <2>2. \A x \in Boxes : x \notin {b} => box'[x] = box[x]
    BY <1>1, Elsewhere DEF TypeOK
  <2> HIDE DEF b
  <2> QED BY <2>1, <2>2 DEF Added
<1> HIDE DEF b
<1> QED BY <1>1, <1>2, <1>3, AddedKeeps DEF PlaceInv

LEMMA ThreadScheduleBox ==
  ASSUME TypeOK, PlaceInv, NEW t \in Threads, NEW k \in Tasks, ThreadSchedule(t, k)
  PROVE  Disjoint(box') /\ Covered'
<1> DEFINE b == BufferOf(t)
<1>1. /\ run_buffer' = [run_buffer EXCEPT ![t] = @ \cup {k}]
      /\ UNCHANGED <<run_queue, overflow, pc, hold, token>>
      /\ k \notin scheduled /\ scheduled' = scheduled \cup {k}
  BY DEF ThreadSchedule, ThreadFrame, Schedule, waitVars, popVars
<1>2. b \in Boxes
  BY BoxIs
<1>3. Added(box, box', b, k)
  <2>1. box'[b] = box[b] \cup {k}
    BY <1>1, <1>2, BoxIs DEF TypeOK
  <2>2. \A x \in Boxes : x \notin {b} => box'[x] = box[x]
    BY <1>1, Elsewhere DEF TypeOK
  <2> HIDE DEF b
  <2> QED BY <2>1, <2>2 DEF Added
<1> HIDE DEF b
<1> QED BY <1>1, <1>2, <1>3, AddedKeeps DEF PlaceInv

LEMMA OverflowBox ==
  ASSUME TypeOK, PlaceInv, NEW t \in Threads, NEW k \in Tasks, Overflow(t, k)
  PROVE  Disjoint(box') /\ Covered'
<1> DEFINE a == BufferOf(t)
           b == OverflowOf(t)
<1>1. PICK half \in SUBSET run_buffer[t] :
        /\ run_buffer' = [run_buffer EXCEPT ![t] = @ \ half]
        /\ overflow' = [overflow EXCEPT ![t] = half \cup {k}]
  BY DEF Overflow
<1>2. /\ UNCHANGED <<run_queue, pc, hold, token>>
      /\ k \notin scheduled /\ scheduled' = scheduled \cup {k} /\ overflow[t] = {}
  BY DEF Overflow, Running, ThreadFrame, Schedule, waitVars, popVars
<1>3. a \in Boxes /\ b \in Boxes /\ a # b
  BY BoxIs, Apart
<1> DEFINE f == [x \in Boxes |-> IF x = a THEN box[a] \ half
                                 ELSE IF x = b THEN box[b] \cup half ELSE box[x]]
<1>4. Moved(box, f, a, b, half)
  BY DEF Moved
<1>5. half \subseteq box[a]
  BY BoxIs
<1>6. Added(f, box', b, k)
  <2>1. f[b] = half
    BY <1>2, <1>3, BoxIs
  <2>2. box'[b] = half \cup {k}
    BY <1>1, BoxIs DEF TypeOK
  <2>3. box'[a] = f[a]
    BY <1>1, <1>3, BoxIs DEF TypeOK
  <2>4. \A x \in Boxes : x \notin {a, b} => box'[x] = box[x]
    BY <1>1, <1>2, Elsewhere DEF TypeOK
  <2>5. \A x \in Boxes : x # a /\ x # b => f[x] = box[x]
    OBVIOUS
  <2> HIDE DEF f, a, b
  <2> QED BY <2>1, <2>2, <2>3, <2>4, <2>5 DEF Added
<1> HIDE DEF f, a, b
<1>7. Disjoint(f) /\ \A j : Holds(f, j) <=> Holds(box, j)
  BY <1>3, <1>4, <1>5, MoveKeeps DEF PlaceInv
<1> QED BY <1>2, <1>3, <1>6, <1>7, AddedKeeps DEF PlaceInv

LEMMA PushOverflowBox ==
  ASSUME TypeOK, PlaceInv, NEW t \in Threads, PushOverflow(t)
  PROVE  Disjoint(box') /\ Covered'
<1> DEFINE a == OverflowOf(t)
           b == QueueOf(t)
<1>1. /\ run_queue' = [run_queue EXCEPT ![t] = @ \cup overflow[t]]
      /\ overflow' = [overflow EXCEPT ![t] = {}]
      /\ UNCHANGED <<run_buffer, pc, hold>> /\ UNCHANGED <<scheduled, token>>
  BY DEF PushOverflow, ThreadFrame, waitVars, popVars
<1>2. a \in Boxes /\ b \in Boxes /\ a # b /\ t \in Owners /\ overflow[t] = box[a]
  BY BoxIs, Apart DEF Owners
<1>3. Moved(box, box', a, b, overflow[t])
  <2>1. box'[a] = {} /\ box'[b] = box[b] \cup overflow[t]
    BY <1>1, <1>2, BoxIs DEF TypeOK
  <2>2. \A x \in Boxes : x \notin {a, b} => box'[x] = box[x]
    BY <1>1, Elsewhere DEF TypeOK
  <2> HIDE DEF a, b
  <2> QED BY <1>2, <2>1, <2>2 DEF Moved
<1>4. Told
  BY <1>1 DEF Told
<1> HIDE DEF a, b
<1> QED BY <1>2, <1>3, <1>4, MovedKeeps DEF PlaceInv

LEMMA PopBufferBox ==
  ASSUME TypeOK, PlaceInv, NEW t \in Threads, PopBuffer(t)
  PROVE  Disjoint(box') /\ Covered'
<1> DEFINE a == BufferOf(t)
           b == HandOf(t)
<1>1. PICK k \in run_buffer[t] :
        /\ hold' = [hold EXCEPT ![t] = {k}]
        /\ run_buffer' = [run_buffer EXCEPT ![t] = @ \ {k}]
  BY DEF PopBuffer
<1>2. /\ pc[t] = "pop" /\ pc' = [pc EXCEPT ![t] = "got"]
      /\ UNCHANGED <<run_queue, overflow>> /\ UNCHANGED <<scheduled, token>>
  BY DEF PopBuffer, PopFrame, Goto, schedVars
<1>3. a \in Boxes /\ b \in Boxes /\ a # b /\ {k} \subseteq box[a] /\ box[b] = {}
  BY <1>2, BoxIs, Apart DEF PlaceInv, Hands, HandsOf, Found, Carries
<1>4. Moved(box, box', a, b, {k})
  <2>1. box'[a] = box[a] \ {k} /\ box'[b] = {k}
    BY <1>1, <1>2, <1>3, BoxIs DEF TypeOK
  <2>2. \A x \in Boxes : x \notin {a, b} => box'[x] = box[x]
    BY <1>1, <1>2, Elsewhere DEF TypeOK
  <2> HIDE DEF a, b
  <2> QED BY <1>3, <2>1, <2>2 DEF Moved
<1>5. Told
  BY <1>2 DEF Told
<1> HIDE DEF a, b
<1> QED BY <1>3, <1>4, <1>5, MovedKeeps DEF PlaceInv

LEMMA TakeBox ==
  ASSUME TypeOK, PlaceInv, NEW t \in Threads, Take(t)
  PROVE  Disjoint(box') /\ Covered'
<1> DEFINE o == from[t]
           a == QueueOf(o)
           b == HandOf(t)
<1>1. PICK ks \in SUBSET run_queue[o] :
        /\ hold' = [hold EXCEPT ![t] = ks]
        /\ run_queue' = [run_queue EXCEPT ![o] = @ \ ks]
  BY DEF Take
<1>2. /\ pc[t] = "take" /\ pc' = [pc EXCEPT ![t] = "publish"]
      /\ UNCHANGED <<run_buffer, overflow>> /\ UNCHANGED <<scheduled, token>>
  BY DEF Take, PopFrame, Goto, schedVars
<1>3. o \in Owners
  BY DEF TypeOK
<1> HIDE DEF o
<1>4. a \in Boxes /\ b \in Boxes /\ a # b /\ ks \subseteq box[a] /\ box[b] = {}
  BY <1>2, <1>3, BoxIs, Apart DEF PlaceInv, Hands, HandsOf, Found, Carries
<1>5. Moved(box, box', a, b, ks)
  <2>1. box'[a] = box[a] \ ks /\ box'[b] = ks
    BY <1>1, <1>2, <1>3, <1>4, BoxIs DEF TypeOK
  <2>2. \A x \in Boxes : x \notin {a, b} => box'[x] = box[x]
    BY <1>1, <1>2, Elsewhere DEF TypeOK
  <2> HIDE DEF a, b
  <2> QED BY <1>4, <2>1, <2>2 DEF Moved
<1>6. Told
  BY <1>2 DEF Told
<1> HIDE DEF a, b
<1> QED BY <1>4, <1>5, <1>6, MovedKeeps DEF PlaceInv

LEMMA StealBox ==
  ASSUME TypeOK, Registered, PlaceInv, NEW t \in Threads, Steal(t)
  PROVE  Disjoint(box') /\ Covered'
<1> DEFINE v == from[t]
           a == BufferOf(v)
           b == HandOf(t)
<1>1. PICK ks \in SUBSET run_buffer[v] :
        /\ hold' = [hold EXCEPT ![t] = ks]
        /\ run_buffer' = [run_buffer EXCEPT ![v] = @ \ ks]
  BY DEF Steal
<1>2. /\ pc[t] = "buffer" /\ pc' = [pc EXCEPT ![t] = "stolen"]
      /\ UNCHANGED <<run_queue, overflow>> /\ UNCHANGED <<scheduled, token>>
  BY DEF Steal, PopFrame, Goto, schedVars
<1>3. v \in Threads
  BY <1>2 DEF TypeOK, Registered, OnStack
<1> HIDE DEF v
<1>4. a \in Boxes /\ b \in Boxes /\ a # b /\ ks \subseteq box[a] /\ box[b] = {}
  BY <1>2, <1>3, BoxIs, Apart DEF PlaceInv, Hands, HandsOf, Found, Carries
<1>5. Moved(box, box', a, b, ks)
  <2>1. box'[a] = box[a] \ ks /\ box'[b] = ks
    BY <1>1, <1>2, <1>3, <1>4, BoxIs DEF TypeOK
  <2>2. \A x \in Boxes : x \notin {a, b} => box'[x] = box[x]
    BY <1>1, <1>2, Elsewhere DEF TypeOK
  <2> HIDE DEF a, b
  <2> QED BY <1>4, <2>1, <2>2 DEF Moved
<1>6. Told
  BY <1>2 DEF Told
<1> HIDE DEF a, b
<1> QED BY <1>4, <1>5, <1>6, MovedKeeps DEF PlaceInv

LEMMA PublishBox ==
  ASSUME TypeOK, PlaceInv, NEW t \in Threads, Publish(t) \/ PublishStolen(t)
  PROVE  Disjoint(box') /\ Covered'
<1> DEFINE a == HandOf(t)
           b == BufferOf(t)
<1>1. PICK k \in hold[t] : Keep(t, k)
  BY DEF Publish, PublishStolen
<1> DEFINE ks == hold[t] \ {k}
<1>2. /\ hold' = [hold EXCEPT ![t] = {k}]
      /\ run_buffer' = [run_buffer EXCEPT ![t] = @ \cup ks]
      /\ UNCHANGED <<run_queue, overflow>> /\ UNCHANGED <<scheduled, token>>
  BY <1>1 DEF Keep, PopFrame, schedVars
<1>3. /\ pc[t] = "publish" \/ pc[t] = "stolen"
      /\ pc' = [pc EXCEPT ![t] = "release"] \/ pc' = [pc EXCEPT ![t] = "got"]
  BY DEF Publish, PublishStolen, Goto
<1>4. pc[t] # "run" /\ pc'[t] # "run" /\ \A u \in Threads : u # t => pc'[u] = pc[u]
  BY <1>3 DEF TypeOK
<1>5. /\ a \in Boxes /\ b \in Boxes /\ a # b
      /\ ks \subseteq box[a] /\ box[a] \ ks = {k}
  BY <1>4, BoxIs, Apart
<1> HIDE DEF ks
<1>6. Moved(box, box', a, b, ks)
  <2>1. box'[a] = {k} /\ box'[b] = box[b] \cup ks
    BY <1>2, <1>4, BoxIs DEF TypeOK
  <2>2. \A x \in Boxes : x \notin {a, b} => box'[x] = box[x]
    BY <1>2, <1>4, Elsewhere DEF TypeOK
  <2> HIDE DEF a, b
  <2> QED BY <1>5, <2>1, <2>2 DEF Moved
<1>7. Told
  BY <1>2 DEF Told
<1> HIDE DEF a, b
<1> QED BY <1>5, <1>6, <1>7, MovedKeeps DEF PlaceInv

LEMMA StartIs ==
  ASSUME TypeOK, PlaceInv, NEW t \in Threads, Start(t)
  PROVE  \E k \in Tasks : /\ hold[t] = {k} /\ Due(k) /\ pc[t] = "start"
                          /\ pc' = [pc EXCEPT ![t] = "run"]
                          /\ token' = [token EXCEPT ![k] = "executing"]
                          /\ UNCHANGED <<queueVars, hold, scheduled>>
<1>1. pc[t] = "start" /\ UNCHANGED <<queueVars, hold, scheduled>>
  BY DEF Start, popVars
<1>2. PICK k \in Tasks : hold[t] = {k}
  BY <1>1 DEF PlaceInv, Hands, HandsOf, Found
<1>3. Due(k)
  <2>1. k \in box[HandOf(t)] /\ HandOf(t) \in Boxes
    BY <1>1, <1>2, BoxIs
  <2>2. Holds(box, k)
    BY <2>1 DEF Holds
  <2> QED BY <2>2 DEF PlaceInv, Covered
<1>4. /\ pc' = [pc EXCEPT ![t] = "run"]
      /\ token' = [token EXCEPT ![k] = "executing"]
  BY <1>2, <1>3 DEF Start, Due, TypeOK
<1> QED BY <1>1, <1>2, <1>3, <1>4

LEMMA StartBox ==
  ASSUME TypeOK, PlaceInv, NEW t \in Threads, Start(t)
  PROVE  Disjoint(box') /\ Covered'
<1> DEFINE a == HandOf(t)
<1>1. PICK k \in Tasks : /\ hold[t] = {k} /\ Due(k) /\ pc[t] = "start"
                         /\ pc' = [pc EXCEPT ![t] = "run"]
                         /\ token' = [token EXCEPT ![k] = "executing"]
                         /\ UNCHANGED <<queueVars, hold, scheduled>>
  BY StartIs
<1>2. a \in Boxes /\ box[a] = {k} /\ box'[a] = {}
  BY <1>1, BoxIs DEF TypeOK
<1>3. Removed(box, box', a, k)
  <2>1. \A x \in Boxes : x \notin {a} => box'[x] = box[x]
    BY <1>1, Elsewhere DEF TypeOK, queueVars
  <2> HIDE DEF a
  <2> QED BY <1>2, <2>1 DEF Removed
<1> HIDE DEF a
<1>4. Disjoint(box') /\ \A j : Holds(box', j) <=> Holds(box, j) /\ j # k
  BY <1>2, <1>3, RemoveKeeps DEF PlaceInv
<1>5. /\ scheduled' = scheduled /\ Due(k)
      /\ \A j \in Tasks : token'[j] = IF j = k THEN "executing" ELSE token[j]
  BY <1>1 DEF TypeOK
<1>6. \A j \in Tasks : Due(j)' <=> Due(j) /\ j # k
  BY <1>5 DEF Due
<1>7. \A j \in Tasks : Holds(box', j) <=> Due(j)'
  BY <1>4, <1>6 DEF PlaceInv, Covered
<1>8. \A j \in Tasks : token'[j] # "initialized" => j \in scheduled'
  BY <1>5 DEF PlaceInv, Covered, Due
<1>9. Covered'
  BY <1>7, <1>8 DEF Covered, Holds, Due
<1> QED BY <1>4, <1>9

LEMMA ReturnBox ==
  ASSUME TypeOK, PlaceInv, NEW t \in Threads, CallbackReturns(t)
  PROVE  Disjoint(box') /\ Covered'
<1>1. /\ pc[t] = "run" /\ pc' = [pc EXCEPT ![t] = "pop"]
      /\ hold' = [hold EXCEPT ![t] = {}] /\ UNCHANGED queueVars
      /\ scheduled' = scheduled
      /\ token' = [k \in Tasks |-> IF k \in hold[t] THEN "finished" ELSE token[k]]
  BY DEF CallbackReturns, Goto
<1>2. Told
  <2>1. \A k \in hold[t] : token[k] # "initialized"
    BY <1>1 DEF PlaceInv, Hands, HandsOf
  <2> QED BY <1>1, <2>1 DEF Told
<1>3. Same
  <2>1. HandOf(t) \in Boxes /\ box'[HandOf(t)] = box[HandOf(t)]
    BY <1>1, BoxIs DEF TypeOK
  <2>2. \A x \in Boxes : x \notin {HandOf(t)} => box'[x] = box[x]
    BY <1>1, Elsewhere DEF TypeOK, queueVars
  <2> QED BY <2>1, <2>2 DEF Same
<1> QED BY <1>2, <1>3, SameKeeps DEF PlaceInv

(* The other actions move no task.                                         *)
Still == /\ UNCHANGED <<queueVars, hold>> /\ UNCHANGED <<scheduled, token>>
         /\ \A t \in Threads : pc'[t] = "run" <=> pc[t] = "run"

LEMMA StillBox ==
  ASSUME PlaceInv, Still PROVE Disjoint(box') /\ Covered'
<1>1. Same
  BY StillSame DEF Still
<1>2. Told
  BY DEF Still, Told
<1> QED BY <1>1, <1>2, SameKeeps DEF PlaceInv

LEMMA NotifyStill ==
  ASSUME TypeOK, NEW p \in Procs, NotifyStep(p) \/ NotifySpawnFails(p)
  PROVE  Still
<1>1. CASE NotifyFast(p) \/ NotifySlow(p) \/ NotifyPost(p) \/ NotifySpawnFails(p)
  BY <1>1 DEF NotifyFast, NotifySlow, NotifyPost, NotifySpawnFails, Still, popVars,
              schedVars
<1>2. CASE NotifySpawn(p)
  BY <1>2 DEF NotifySpawn, Goto, Still, popVars, schedVars, TypeOK
<1> QED BY <1>1, <1>2 DEF NotifyStep

LEMMA ThreadStill ==
  ASSUME TypeOK, NEW t \in Threads,
         \/ Register(t) \/ WaitNotified(t) \/ WaitIdle(t) \/ WaitSleep(t)
         \/ WaitWoken(t) \/ Got(t)
  PROVE  Still
<1>1. CASE Register(t) \/ WaitNotified(t) \/ WaitIdle(t)
  BY <1>1 DEF Register, WaitNotified, WaitIdle, Goto, Still, popVars, schedVars, TypeOK
<1>2. CASE WaitSleep(t) \/ WaitWoken(t) \/ Got(t)
  BY <1>2 DEF WaitSleep, WaitWoken, Got, Goto, Still, popVars, schedVars, TypeOK
<1> QED BY <1>1, <1>2

LEMMA PopStill ==
  ASSUME TypeOK, NEW t \in Threads,
         \/ ConsumeOwn(t) \/ ConsumePool(t) \/ ConsumeTarget(t) \/ Release(t)
         \/ Count(t) \/ Victim(t) \/ NothingFound(t) \/ NothingToSteal(t)
  PROVE  Still
<1>1. CASE ConsumeOwn(t) \/ ConsumePool(t) \/ ConsumeTarget(t)
  BY <1>1 DEF ConsumeOwn, ConsumePool, ConsumeTarget, Consume, PopFrame, Still,
              schedVars, TypeOK
<1>2. CASE Release(t) \/ Count(t) \/ NothingFound(t) \/ NothingToSteal(t)
  BY <1>2 DEF Release, Count, NothingFound, NothingToSteal, Goto, PopFrame, Still,
              popVars, schedVars, TypeOK
<1>3. CASE Victim(t)
  BY <1>3 DEF Victim, Goto, PopFrame, Still, schedVars, TypeOK
<1> QED BY <1>1, <1>2, <1>3

LEMMA NextBox ==
  ASSUME TypeOK, Registered, PlaceInv, [Next]_vars
  PROVE  Disjoint(box') /\ Covered'
<1>1. ASSUME NEW p \in Procs, NotifyStep(p) \/ NotifySpawnFails(p)
      PROVE  Disjoint(box') /\ Covered'
  BY <1>1, NotifyStill, StillBox
<1>2. ASSUME NEW c \in Clients, NEW k \in Tasks, ClientSchedule(c, k)
      PROVE  Disjoint(box') /\ Covered'
  BY <1>2, ClientScheduleBox
<1>3. ASSUME NEW t \in Threads, NEW k \in Tasks, ThreadSchedule(t, k) \/ Overflow(t, k)
      PROVE  Disjoint(box') /\ Covered'
  BY <1>3, ThreadScheduleBox, OverflowBox
<1>4. ASSUME NEW t \in Threads, RunStep(t) \/ WaitWoken(t)
      PROVE  Disjoint(box') /\ Covered'
  <2>1. CASE PopStep(t)
    BY <2>1, PopBufferBox, TakeBox, PublishBox, StealBox, PopStill, StillBox DEF PopStep
  <2>2. CASE ~PopStep(t)
    BY <1>4, <2>2, ThreadStill, StillBox, StartBox, ReturnBox, PushOverflowBox
       DEF RunStep
  <2> QED BY <2>1, <2>2
<1>5. CASE UNCHANGED vars
  <2>1. Still
    BY <1>5 DEF vars, Still, popVars, schedVars
  <2> QED BY <2>1, StillBox
<1> QED BY <1>1, <1>2, <1>3, <1>4, <1>5 DEF Next

(* The hands of the threads a step leaves alone, and of the one it moves.  *)
Monotone == \A k \in Tasks : token[k] # "initialized" => token'[k] # "initialized"
Untouched(t) == pc'[t] = pc[t] /\ hold'[t] = hold[t]

LEMMA HandsKept ==
  ASSUME TypeOK, Hands, Monotone, NEW t \in Threads, Untouched(t)
  PROVE  HandsOf(t)'
<1>1. HandsOf(t) /\ hold[t] \subseteq Tasks
  BY DEF Hands, TypeOK
<1>2. pc'[t] = pc[t] /\ hold'[t] = hold[t]
  BY DEF Untouched
<1> QED BY <1>1, <1>2 DEF HandsOf, Found, Carries, Monotone

(* It still has nothing, or takes what it has one place further.           *)
LEMMA HandsEmpty ==
  ASSUME NEW t \in Threads, hold'[t] = {},
         pc'[t] \in {"off", "register", "wait", "sleep", "pop", "pool", "count",
                     "victim", "queue", "buffer", "take"}
  PROVE  HandsOf(t)'
BY DEF HandsOf, Found, Carries

LEMMA HandsCarry ==
  ASSUME NEW t \in Threads, pc'[t] \in {"publish", "stolen"}
  PROVE  HandsOf(t)'
BY DEF HandsOf, Found, Carries

LEMMA HandsOne ==
  ASSUME NEW t \in Threads, NEW k \in Tasks, hold'[t] = {k},
         pc'[t] \in {"release", "got", "start"}
  PROVE  HandsOf(t)'
BY DEF HandsOf, Found, Carries

LEMMA NextHands ==
  ASSUME TypeOK, PlaceInv, [Next]_vars PROVE Hands'
<1> SUFFICES ASSUME NEW u \in Threads PROVE HandsOf(u)'
  BY DEF Hands
<1>0. Hands
  BY DEF PlaceInv
<1>1. ASSUME UNCHANGED <<pc, hold, token>> PROVE HandsOf(u)'
  BY <1>0, <1>1, HandsKept DEF Untouched, Monotone
<1>2. ASSUME NEW p \in Procs, NotifyStep(p) \/ NotifySpawnFails(p)
      PROVE  HandsOf(u)'
  <2>1. CASE NotifyFast(p) \/ NotifySlow(p) \/ NotifyPost(p) \/ NotifySpawnFails(p)
    BY <1>1, <2>1 DEF NotifyFast, NotifySlow, NotifyPost, NotifySpawnFails, popVars,
                      schedVars
  <2>2. CASE NotifySpawn(p)
    <3>1. PICK t \in Threads : Goto(t, "off", "register")
      BY <2>2 DEF NotifySpawn
    <3>2. hold' = hold /\ token' = token
      BY <2>2 DEF NotifySpawn, popVars, schedVars
    <3>3. CASE u = t
      <4>1. pc[u] = "off" /\ pc'[u] = "register"
        BY <3>1, <3>3 DEF Goto, TypeOK
      <4>2. hold'[u] = {}
        BY <3>2, <4>1, <1>0 DEF Hands, HandsOf, Found, Carries
      <4> QED BY <4>1, <4>2, HandsEmpty
    <3>4. CASE u # t
      BY <3>1, <3>2, <3>4, <1>0, HandsKept DEF Goto, Untouched, Monotone, TypeOK
    <3> QED BY <3>3, <3>4
  <2> QED BY <1>2, <2>1, <2>2 DEF NotifyStep
<1>3. ASSUME NEW k \in Tasks,
             \/ \E c \in Clients : ClientSchedule(c, k)
             \/ \E t \in Threads : ThreadSchedule(t, k) \/ Overflow(t, k)
      PROVE  HandsOf(u)'
  BY <1>1, <1>3 DEF ClientSchedule, ThreadSchedule, Overflow, ThreadFrame, popVars
<1>4. ASSUME NEW t \in Threads, RunStep(t) \/ WaitWoken(t)
      PROVE  HandsOf(u)'
  <2>1. ASSUME t # u, Monotone,
               /\ \E b : pc' = [pc EXCEPT ![t] = b]
               /\ hold' = hold \/ \E b : hold' = [hold EXCEPT ![t] = b]
        PROVE  HandsOf(u)'
    <3>1. Untouched(u)
      BY <2>1 DEF Untouched, TypeOK
    <3> QED BY <1>0, <2>1, <3>1, HandsKept
  <2>2. CASE WaitIdle(t) \/ PushOverflow(t)
    BY <1>1, <2>2 DEF WaitIdle, PushOverflow, ThreadFrame, popVars, schedVars
  <2>3. CASE \/ Register(t) \/ WaitNotified(t) \/ WaitSleep(t) \/ WaitWoken(t)
             \/ Count(t) \/ Victim(t) \/ NothingFound(t) \/ NothingToSteal(t)
    <3>1. /\ hold' = hold /\ token' = token /\ \E b : pc' = [pc EXCEPT ![t] = b]
          /\ pc[t] \in {"register", "wait", "sleep", "count", "victim", "buffer"}
          /\ pc'[t] \in {"wait", "sleep", "pop", "victim", "queue"}
      BY <2>3 DEF Register, WaitNotified, WaitSleep, WaitWoken, Count, Victim,
                  NothingFound, NothingToSteal, Goto, PopFrame, popVars, schedVars,
                  TypeOK
    <3>2. CASE u # t
      BY <2>1, <3>1, <3>2 DEF Monotone
    <3>3. CASE u = t
      <4>1. hold'[u] = {}
        BY <1>0, <3>1, <3>3 DEF Hands, HandsOf, Found, Carries
      <4> QED BY <3>1, <3>3, <4>1, HandsEmpty
    <3> QED BY <3>2, <3>3
  <2>4. CASE ConsumeOwn(t) \/ ConsumePool(t) \/ ConsumeTarget(t)
    <3>1. /\ hold' = hold /\ token' = token /\ \E b : pc' = [pc EXCEPT ![t] = b]
          /\ pc[t] \in {"pop", "pool", "queue"}
          /\ pc'[t] \in {"pool", "count", "buffer", "take"}
      BY <2>4 DEF ConsumeOwn, ConsumePool, ConsumeTarget, Consume, PopFrame, schedVars,
                  TypeOK
    <3>2. CASE u # t
      BY <2>1, <3>1, <3>2 DEF Monotone
    <3>3. CASE u = t
      <4>1. hold'[u] = {}
        BY <1>0, <3>1, <3>3 DEF Hands, HandsOf, Found, Carries
      <4> QED BY <3>1, <3>3, <4>1, HandsEmpty
    <3> QED BY <3>2, <3>3
  <2>5. CASE Take(t) \/ Steal(t)
    <3>1. /\ \E b : hold' = [hold EXCEPT ![t] = b]
          /\ token' = token /\ \E b : pc' = [pc EXCEPT ![t] = b]
          /\ pc'[t] \in {"publish", "stolen"}
      BY <2>5 DEF Take, Steal, Goto, PopFrame, schedVars, TypeOK
    <3> QED BY <2>1, <3>1, HandsCarry DEF Monotone
  <2>6. CASE PopBuffer(t) \/ Publish(t) \/ PublishStolen(t)
    <3>1. \E k \in Tasks : hold' = [hold EXCEPT ![t] = {k}]
      BY <2>6 DEF PopBuffer, Publish, PublishStolen, Keep, TypeOK
    <3>2. /\ token' = token /\ \E b : pc' = [pc EXCEPT ![t] = b]
          /\ pc'[t] \in {"release", "got"}
      BY <2>6 DEF PopBuffer, Publish, PublishStolen, Keep, Goto, PopFrame, schedVars,
                  TypeOK
    <3>3. CASE u # t
      BY <2>1, <3>1, <3>2, <3>3 DEF Monotone
    <3>4. CASE u = t
      <4>1. PICK k \in Tasks : hold'[u] = {k}
        BY <3>1, <3>4 DEF TypeOK
      <4> QED BY <3>2, <3>4, <4>1, HandsOne
    <3> QED BY <3>3, <3>4
  <2>7. CASE Release(t) \/ Got(t)
    <3>1. /\ hold' = hold /\ token' = token /\ \E b : pc' = [pc EXCEPT ![t] = b]
          /\ pc[t] = "release" \/ pc[t] = "got"
          /\ pc'[t] \in {"got", "start"}
      BY <2>7 DEF Release, Got, Goto, PopFrame, popVars, schedVars, TypeOK
    <3>2. CASE u # t
      BY <2>1, <3>1, <3>2 DEF Monotone
    <3>3. CASE u = t
      <4>1. PICK k \in Tasks : hold[u] = {k}
        BY <1>0, <3>1, <3>3 DEF Hands, HandsOf, Found
      <4> QED BY <3>1, <3>3, <4>1, HandsOne
    <3> QED BY <3>2, <3>3
  <2>8. CASE Start(t)
    <3>1. PICK k \in Tasks : /\ hold[t] = {k} /\ Due(k) /\ pc[t] = "start"
                             /\ pc' = [pc EXCEPT ![t] = "run"]
                             /\ token' = [token EXCEPT ![k] = "executing"]
                             /\ UNCHANGED <<queueVars, hold, scheduled>>
      BY <2>8, StartIs
    <3>2. Monotone
      BY <3>1 DEF Monotone, TypeOK
    <3>3. CASE u # t
      BY <2>1, <3>1, <3>2, <3>3
    <3>4. CASE u = t
      <4>1. pc'[u] = "run" /\ hold'[u] = {k} /\ token'[k] = "executing"
        BY <3>1, <3>4 DEF TypeOK
      <4> QED BY <4>1 DEF HandsOf, Found, Carries
    <3> QED BY <3>3, <3>4
  <2>9. CASE CallbackReturns(t)
    <3>1. /\ pc' = [pc EXCEPT ![t] = "pop"] /\ hold' = [hold EXCEPT ![t] = {}]
          /\ token' = [k \in Tasks |-> IF k \in hold[t] THEN "finished" ELSE token[k]]
      BY <2>9 DEF CallbackReturns, Goto
    <3>2. Monotone
      BY <3>1 DEF Monotone
    <3>3. CASE u # t
      BY <2>1, <3>1, <3>2, <3>3
    <3>4. CASE u = t
      <4>1. pc'[u] = "pop" /\ hold'[u] = {}
        BY <3>1, <3>4 DEF TypeOK
      <4> QED BY <4>1, HandsEmpty
    <3> QED BY <3>3, <3>4
  <2> QED BY <1>4, <2>2, <2>3, <2>4, <2>5, <2>6, <2>7, <2>8, <2>9 DEF RunStep, PopStep
<1>5. CASE UNCHANGED vars
  BY <1>1, <1>5 DEF vars, popVars, schedVars
<1> QED BY <1>2, <1>3, <1>4, <1>5 DEF Next

LEMMA InitPlace == Init => PlaceInv
<1> SUFFICES ASSUME Init PROVE PlaceInv
  OBVIOUS
<1>1. \A x \in Boxes : box[x] = {}
  <2>1. /\ \A o \in Owners : run_queue[o] = {}
        /\ \A t \in Threads : run_buffer[t] = {} /\ overflow[t] = {} /\ hold[t] = {}
    BY DEF Init
  <2> SUFFICES ASSUME NEW x \in Boxes PROVE box[x] = {}
    OBVIOUS
  <2> QED BY <2>1, BoxIs, EveryBox
<1>2. Disjoint(box)
  BY <1>1 DEF Disjoint
<1>3. Covered
  BY <1>1 DEF Covered, Holds, Due, Init
<1>4. Hands
  <2>1. \A t \in Threads : pc[t] = "off" /\ hold[t] = {}
    BY DEF Init
  <2> QED BY <2>1 DEF Hands, HandsOf, Found, Carries
<1> QED BY <1>2, <1>3, <1>4 DEF PlaceInv

(* The places of a task are the boxes that hold it.                        *)
LEMMA PlacesAreBoxes ==
  ASSUME NEW k PROVE Places(k) = {x \in Boxes : k \in box[x]}
<1>1. ASSUME NEW x \in Places(k) PROVE x \in Boxes /\ k \in box[x]
  <2>1. \/ \E o \in Owners : x = QueueOf(o) /\ k \in run_queue[o]
        \/ \E t \in Threads : \/ x = BufferOf(t) /\ k \in run_buffer[t]
                              \/ x = OverflowOf(t) /\ k \in overflow[t]
                              \/ x = HandOf(t) /\ k \in hold[t] /\ pc[t] # "run"
    BY DEF Places, QueueOf, BufferOf, OverflowOf, HandOf
  <2> QED BY <2>1, BoxIs
<1>2. ASSUME NEW x \in Boxes, k \in box[x] PROVE x \in Places(k)
  <2>1. ASSUME NEW o \in Owners, x = QueueOf(o) PROVE x \in Places(k)
    <3>1. k \in run_queue[o]
      BY <1>2, <2>1, BoxIs
    <3> QED BY <2>1, <3>1 DEF Places, QueueOf
  <2>2. ASSUME NEW t \in Threads, x = BufferOf(t) PROVE x \in Places(k)
    <3>1. k \in run_buffer[t]
      BY <1>2, <2>2, BoxIs
    <3> QED BY <2>2, <3>1 DEF Places, BufferOf
  <2>3. ASSUME NEW t \in Threads, x = OverflowOf(t) PROVE x \in Places(k)
    <3>1. k \in overflow[t]
      BY <1>2, <2>3, BoxIs
    <3> QED BY <2>3, <3>1 DEF Places, OverflowOf
  <2>4. ASSUME NEW t \in Threads, x = HandOf(t) PROVE x \in Places(k)
    <3>1. k \in hold[t] /\ pc[t] # "run"
      BY <1>2, <2>4, BoxIs
    <3> QED BY <2>4, <3>1 DEF Places, HandOf
  <2> QED BY <2>1, <2>2, <2>3, <2>4, EveryBox
<1> QED BY <1>1, <1>2

LEMMA PlaceInvIsOnePlace == PlaceInv => OnePlace
<1> SUFFICES ASSUME PlaceInv, NEW k \in Tasks
             PROVE  Cardinality(Places(k)) = IF Due(k) THEN 1 ELSE 0
  BY DEF OnePlace, Due
<1> DEFINE B == {x \in Boxes : k \in box[x]}
<1>1. Places(k) = B
  BY PlacesAreBoxes
<1>2. CASE Due(k)
  <2>1. PICK x \in Boxes : k \in box[x]
    BY <1>2 DEF PlaceInv, Covered, Holds
  <2>2. B = {x}
    BY <2>1 DEF PlaceInv, Disjoint
  <2> QED BY <1>1, <1>2, <2>2, FS_Singleton
<1>3. CASE ~Due(k)
  <2>1. B = {}
    BY <1>3 DEF PlaceInv, Covered, Holds
  <2> QED BY <1>1, <1>3, <2>1, FS_EmptySet
<1> QED BY <1>2, <1>3

(* A scheduled task that was not started is in exactly one queue, buffer,  *)
(* overflow or hand, and one that was is in none: no push, consume, steal  *)
(* or overflow loses a task or copies it, whatever the number of threads   *)
(* and the size of the buffers (thread_pool.zig:278-358, 376-786).         *)
THEOREM TasksInOnePlace == SafeSpec => []OnePlace
<1>1. Init => IInv /\ PlaceInv
  BY InitInv, InitPlace
<1>2. IInv /\ PlaceInv /\ [Next]_vars => (IInv /\ PlaceInv)'
  <2> SUFFICES ASSUME IInv, PlaceInv, [Next]_vars PROVE IInv' /\ PlaceInv'
    OBVIOUS
  <2>1. IInv'
    BY NextType, NextWaking, NextRegistered DEF IInv
  <2>2. PlaceInv'
    BY NextBox, NextHands DEF IInv, PlaceInv, Disjoint
  <2> QED BY <2>1, <2>2
<1> QED BY <1>1, <1>2, PlaceInvIsOnePlace, PTL DEF SafeSpec
-----------------------------------------------------------------------------
(* Each callback that has been started and has not returned has a thread   *)
(* of its own.                                                             *)
Runs(t, k) == pc[t] = "run" /\ k \in hold[t]
Alone == /\ \A k \in Tasks : token[k] = "executing" <=> \E t \in Threads : Runs(t, k)
         /\ \A t, u \in Threads, k \in Tasks : Runs(t, k) /\ Runs(u, k) => t = u

(* Other steps touch no task that runs.                                    *)
LEMMA RunsKept ==
  ASSUME Alone, token' = token,
         \A t \in Threads : pc'[t] = "run" <=> pc[t] = "run",
         \A t \in Threads : pc[t] = "run" => hold'[t] = hold[t]
  PROVE  Alone'
<1>1. \A t \in Threads, k \in Tasks : Runs(t, k)' <=> Runs(t, k)
  BY DEF Runs
<1> QED BY <1>1 DEF Alone

LEMMA StartAlone ==
  ASSUME TypeOK, PlaceInv, Alone, NEW t \in Threads, Start(t)
  PROVE  Alone'
<1>1. PICK j \in Tasks : /\ hold[t] = {j} /\ Due(j) /\ pc[t] = "start"
                         /\ pc' = [pc EXCEPT ![t] = "run"]
                         /\ token' = [token EXCEPT ![j] = "executing"]
                         /\ UNCHANGED <<queueVars, hold, scheduled>>
  BY StartIs
<1>2. \A u \in Threads, k \in Tasks :
        Runs(u, k)' <=> (Runs(u, k) \/ (u = t /\ k = j))
  BY <1>1 DEF Runs, TypeOK
<1>3. \A k \in Tasks : token'[k] = "executing" <=> (token[k] = "executing" \/ k = j)
  BY <1>1 DEF TypeOK
<1>4. \A u \in Threads : ~Runs(u, j)
  <2>1. token[j] # "executing"
    BY <1>1 DEF Due
  <2> QED BY <2>1 DEF Alone
<1>5. \A k \in Tasks : token'[k] = "executing" <=> \E u \in Threads : Runs(u, k)'
  BY <1>2, <1>3 DEF Alone
<1>6. \A u, v \in Threads, k \in Tasks : Runs(u, k)' /\ Runs(v, k)' => u = v
  BY <1>2, <1>4 DEF Alone
<1> QED BY <1>5, <1>6 DEF Alone

LEMMA ReturnIs ==
  ASSUME TypeOK, PlaceInv, NEW t \in Threads, CallbackReturns(t)
  PROVE  \E k \in Tasks : /\ hold[t] = {k} /\ pc[t] = "run"
                          /\ pc' = [pc EXCEPT ![t] = "pop"]
                          /\ hold' = [hold EXCEPT ![t] = {}]
                          /\ token' = [token EXCEPT ![k] = "finished"]
                          /\ scheduled' = scheduled
<1>1. /\ pc[t] = "run" /\ pc' = [pc EXCEPT ![t] = "pop"]
      /\ hold' = [hold EXCEPT ![t] = {}] /\ scheduled' = scheduled
      /\ token' = [k \in Tasks |-> IF k \in hold[t] THEN "finished" ELSE token[k]]
  BY DEF CallbackReturns, Goto
<1>2. PICK k \in Tasks : hold[t] = {k}
  BY <1>1 DEF PlaceInv, Hands, HandsOf, Found
<1>3. token' = [token EXCEPT ![k] = "finished"]
  BY <1>1, <1>2 DEF TypeOK
<1> QED BY <1>1, <1>2, <1>3

LEMMA ReturnAlone ==
  ASSUME TypeOK, PlaceInv, Alone, NEW t \in Threads, CallbackReturns(t)
  PROVE  Alone'
<1>1. PICK j \in Tasks : /\ hold[t] = {j} /\ pc[t] = "run"
                         /\ pc' = [pc EXCEPT ![t] = "pop"]
                         /\ hold' = [hold EXCEPT ![t] = {}]
                         /\ token' = [token EXCEPT ![j] = "finished"]
                         /\ scheduled' = scheduled
  BY ReturnIs
<1>2. \A u \in Threads, k \in Tasks : Runs(u, k)' <=> (Runs(u, k) /\ u # t)
  BY <1>1 DEF Runs, TypeOK
<1>3. \A k \in Tasks : token'[k] = "executing" <=> (token[k] = "executing" /\ k # j)
  BY <1>1 DEF TypeOK
<1>4. \A k \in Tasks : Runs(t, k) <=> k = j
  BY <1>1 DEF Runs
<1>5. \A k \in Tasks : token'[k] = "executing" <=> \E u \in Threads : Runs(u, k)'
  BY <1>2, <1>3, <1>4 DEF Alone
<1>6. \A u, v \in Threads, k \in Tasks : Runs(u, k)' /\ Runs(v, k)' => u = v
  BY <1>2 DEF Alone
<1> QED BY <1>5, <1>6 DEF Alone

(* What a step can do to the tokens: start one, finish one, or nothing.    *)
LEMMA PopKeepsRuns ==
  ASSUME TypeOK, NEW t \in Threads, PopStep(t)
  PROVE  /\ \A u \in Threads : pc'[u] = "run" <=> pc[u] = "run"
         /\ \A u \in Threads : pc[u] = "run" => hold'[u] = hold[u]
         /\ UNCHANGED <<scheduled, token>>
<1>1. CASE PopBuffer(t) \/ Take(t) \/ Steal(t)
  BY <1>1 DEF PopBuffer, Take, Steal, Goto, PopFrame, schedVars, TypeOK
<1>2. CASE Publish(t) \/ PublishStolen(t)
  BY <1>2 DEF Publish, PublishStolen, Keep, Goto, PopFrame, schedVars, TypeOK
<1>3. CASE ~(PopBuffer(t) \/ Take(t) \/ Steal(t) \/ Publish(t) \/ PublishStolen(t))
  <2>1. Still
    BY <1>3, PopStill DEF PopStep
  <2> QED BY <2>1 DEF Still
<1> QED BY <1>1, <1>2, <1>3

LEMMA ScheduleKeepsRuns ==
  ASSUME TypeOK, NEW k \in Tasks,
         \/ \E c \in Clients : ClientSchedule(c, k)
         \/ \E t \in Threads : ThreadSchedule(t, k) \/ Overflow(t, k)
  PROVE  /\ UNCHANGED <<pc, hold, token>>
         /\ k \notin scheduled /\ scheduled' = scheduled \cup {k}
BY DEF ClientSchedule, ThreadSchedule, Overflow, Schedule, ThreadFrame, popVars

(* A step starts a task, ends one, schedules one, or does none of these.   *)
LEMMA StepKinds ==
  ASSUME TypeOK, [Next]_vars
  PROVE  \/ \E t \in Threads : Start(t) \/ CallbackReturns(t)
         \/ /\ token' = token
            /\ \A t \in Threads : pc'[t] = "run" <=> pc[t] = "run"
            /\ \A t \in Threads : pc[t] = "run" => hold'[t] = hold[t]
            /\ \/ scheduled' = scheduled
               \/ \E k \in Tasks : k \notin scheduled /\ scheduled' = scheduled \cup {k}
<1>1. ASSUME Still
      PROVE  /\ token' = token
             /\ \A t \in Threads : pc'[t] = "run" <=> pc[t] = "run"
             /\ \A t \in Threads : pc[t] = "run" => hold'[t] = hold[t]
             /\ scheduled' = scheduled
  BY <1>1 DEF Still
<1>2. CASE \E p \in Procs : NotifyStep(p) \/ NotifySpawnFails(p)
  BY <1>1, <1>2, NotifyStill
<1>3. CASE \E k \in Tasks :
             \/ \E c \in Clients : ClientSchedule(c, k)
             \/ \E t \in Threads : ThreadSchedule(t, k) \/ Overflow(t, k)
  BY <1>3, ScheduleKeepsRuns
<1>4. ASSUME NEW t \in Threads, RunStep(t) \/ WaitWoken(t),
             ~Start(t), ~CallbackReturns(t)
      PROVE  /\ token' = token
             /\ \A u \in Threads : pc'[u] = "run" <=> pc[u] = "run"
             /\ \A u \in Threads : pc[u] = "run" => hold'[u] = hold[u]
             /\ scheduled' = scheduled
  <2>1. CASE PopStep(t)
    BY <2>1, PopKeepsRuns
  <2>2. CASE PushOverflow(t)
    BY <2>2 DEF PushOverflow, ThreadFrame, popVars
  <2>3. CASE ~PopStep(t) /\ ~PushOverflow(t)
    BY <1>1, <1>4, <2>3, ThreadStill DEF RunStep
  <2> QED BY <2>1, <2>2, <2>3
<1>5. CASE UNCHANGED vars
  <2>1. Still
    BY <1>5 DEF vars, Still, popVars, schedVars
  <2> QED BY <1>1, <2>1
<1> QED BY <1>2, <1>3, <1>4, <1>5 DEF Next

LEMMA NextAlone ==
  ASSUME TypeOK, PlaceInv, Alone, [Next]_vars PROVE Alone'
BY StepKinds, StartAlone, ReturnAlone, RunsKept

LEMMA InitAlone == Init => Alone
<1> SUFFICES ASSUME Init PROVE Alone
  OBVIOUS
<1>1. /\ \A t \in Threads : pc[t] = "off"
      /\ \A k \in Tasks : token[k] = "initialized"
  BY DEF Init
<1> QED BY <1>1 DEF Alone, Runs

(* So there are no more of them than threads.                              *)
Executing == {k \in Tasks : token[k] = "executing"}
Narrow == Cardinality(Executing) =< max_threads

LEMMA AloneIsNarrow ==
  ASSUME TypeOK, Counts, PlaceInv, Alone PROVE Narrow
<1> DEFINE R == {t \in Threads : pc[t] = "run"}
           f == [t \in R |-> CHOOSE k \in Tasks : hold[t] = {k}]
<1>1. \A t \in R : f[t] \in Tasks /\ hold[t] = {f[t]}
  BY DEF PlaceInv, Hands, HandsOf, Found
<1>2. f \in Surjection(R, Executing)
  <2>1. \A t \in R : f[t] \in Executing
    BY <1>1 DEF Alone, Runs, Executing
  <2>2. \A k \in Executing : \E t \in R : f[t] = k
    <3> SUFFICES ASSUME NEW k \in Executing PROVE \E t \in R : f[t] = k
      OBVIOUS
    <3>1. PICK t \in Threads : Runs(t, k)
      BY DEF Alone, Executing
    <3>2. t \in R /\ k \in hold[t]
      BY <3>1 DEF Runs
    <3> QED BY <1>1, <3>2
  <2>3. f \in [R -> Executing]
    BY <2>1
  <2> HIDE DEF f, R
  <2> QED BY <2>2, <2>3 DEF Surjection
<1>3. R \subseteq Existing
  BY DEF Existing
<1>4. IsFiniteSet(R) /\ Cardinality(R) =< Cardinality(Existing)
  BY <1>3, FiniteCounted, FS_Subset
<1> HIDE DEF f, R
<1>5. IsFiniteSet(Executing) /\ Cardinality(Executing) =< Cardinality(R)
  BY <1>2, <1>4, FS_Surjection
<1>6. Cardinality(Executing) \in Nat /\ Cardinality(R) \in Nat
  BY <1>4, <1>5, FS_CardinalityType
<1>7. Cardinality(Existing) =< sync.spawned /\ sync.spawned =< max_threads
  BY CountsNamed, FiniteCounted DEF Named
<1>8. max_threads \in Int /\ sync.spawned \in Int
  BY ThreadPoolAssumption, FS_CardinalityType DEF TypeOK, Sync
<1> QED BY <1>4, <1>5, <1>6, <1>7, <1>8, FiniteCounted DEF Narrow

(* TaskPool counts as this module does.                                    *)
LEMMA SameCardinality == \A S : Dispatch!Cardinality(S) = Cardinality(S)
BY DEF Cardinality, Dispatch!Cardinality, IsFiniteSet, Dispatch!IsFiniteSet

PoolInv == IInv /\ Inside /\ Counts /\ PlaceInv /\ Alone

LEMMA PoolInvariance == SafeSpec => [](PoolInv /\ Narrow)
<1>1. Init => PoolInv
  BY InitInv, InitCounts, InitPlace, InitAlone DEF PoolInv
<1>2. PoolInv /\ [Next]_vars => PoolInv'
  <2> SUFFICES ASSUME PoolInv, [Next]_vars PROVE PoolInv'
    OBVIOUS
  <2>1. IInv' /\ Inside' /\ Counts'
    BY NextType, NextWaking, NextRegistered, NextInside, NextCounts DEF IInv, PoolInv
  <2>2. PlaceInv'
    BY NextBox, NextHands DEF IInv, PoolInv, PlaceInv, Disjoint
  <2>3. Alone'
    BY NextAlone DEF IInv, PoolInv
  <2> QED BY <2>1, <2>2, <2>3 DEF PoolInv
<1>3. PoolInv => Narrow
  BY AloneIsNarrow DEF PoolInv, IInv
<1> QED BY <1>1, <1>2, <1>3, PTL DEF SafeSpec

(* The pool starts what was scheduled and nothing else, each task once,    *)
(* and never runs more than max_threads callbacks at a time: every step is *)
(* one of TaskPool or leaves it alone (thread_pool.zig:12-374).            *)
THEOREM Refinement == SafeSpec => Dispatch!SafeSpec
<1>1. Init => Dispatch!Init
  <2> SUFFICES ASSUME Init PROVE Dispatch!Init
    OBVIOUS
  <2>1. scheduled = {} /\ \A k \in Tasks : token[k] = "initialized"
    BY DEF Init
  <2> QED BY <2>1 DEF Dispatch!Init
<1>2. PoolInv /\ Narrow' /\ [Next]_vars => [Dispatch!Next]_Dispatch!vars
  <2> SUFFICES ASSUME PoolInv, Narrow', [Next]_vars
               PROVE  [Dispatch!Next]_Dispatch!vars
    OBVIOUS
  <2> USE DEF Dispatch!vars
  <2>1. TypeOK /\ PlaceInv /\ Alone
    BY DEF PoolInv, IInv
  <2>2. ASSUME NEW t \in Threads, Start(t) PROVE Dispatch!Next
    <3>1. PICK k \in Tasks : /\ Due(k)
                             /\ token' = [token EXCEPT ![k] = "executing"]
                             /\ scheduled' = scheduled
      BY <2>1, <2>2, StartIs
    <3>2. \A j \in Tasks : token'[j] = IF j = k THEN "executing" ELSE token[j]
      BY <2>1, <3>1 DEF TypeOK
    <3>3. token[k] = "initialized" /\ k \in scheduled
      BY <3>1 DEF Due
    <3>4. {j \in Tasks : token'[j] # "initialized"}
            = {j \in Tasks : token[j] # "initialized"} \cup {k}
      BY <3>2
    <3>5. {j \in Tasks : token'[j] = "finished"} = {j \in Tasks : token[j] = "finished"}
      BY <3>2, <3>3
    <3>6. {j \in Tasks : token'[j] # "initialized"} \ {j \in Tasks : token[j] = "finished"}
            = Executing'
      BY <2>1, <3>2, <3>3 DEF Executing, TypeOK
    <3>7. Cardinality(Executing') =< max_threads
      BY DEF Narrow
    <3>8. Cardinality({j \in Tasks : token'[j] # "initialized"}
                        \ {j \in Tasks : token[j] = "finished"}) =< max_threads
      BY <3>6, <3>7
    <3>9. k \in scheduled \ {j \in Tasks : token[j] # "initialized"}
      BY <3>3
    <3>10. Dispatch!Start(k)
      BY <3>1, <3>4, <3>5, <3>8, <3>9, SameCardinality DEF Dispatch!Start
    <3> QED BY <3>10 DEF Dispatch!Next
  <2>3. ASSUME NEW t \in Threads, CallbackReturns(t) PROVE Dispatch!Next
    <3>1. PICK k \in Tasks : /\ hold[t] = {k} /\ pc[t] = "run"
                             /\ token' = [token EXCEPT ![k] = "finished"]
                             /\ scheduled' = scheduled
      BY <2>1, <2>3, ReturnIs
    <3>2. token[k] = "executing"
      BY <2>1, <3>1 DEF Alone, Runs
    <3>3. \A j \in Tasks : token'[j] = IF j = k THEN "finished" ELSE token[j]
      BY <2>1, <3>1 DEF TypeOK
    <3>4. {j \in Tasks : token'[j] # "initialized"}
            = {j \in Tasks : token[j] # "initialized"}
      BY <3>2, <3>3
    <3>5. {j \in Tasks : token'[j] = "finished"}
            = {j \in Tasks : token[j] = "finished"} \cup {k}
      BY <3>3
    <3>6. Dispatch!Finish(k)
      BY <3>1, <3>2, <3>4, <3>5 DEF Dispatch!Finish
    <3> QED BY <3>6 DEF Dispatch!Next
  <2>4. ASSUME token' = token, scheduled' = scheduled PROVE UNCHANGED Dispatch!vars
    BY <2>4
  <2>5. ASSUME token' = token, NEW k \in Tasks, k \notin scheduled,
               scheduled' = scheduled \cup {k}
        PROVE  Dispatch!Next
    BY <2>5 DEF Dispatch!Next, Dispatch!Schedule
  <2> QED BY <2>1, <2>2, <2>3, <2>4, <2>5, StepKinds
<1> QED BY <1>1, <1>2, PoolInvariance, PTL DEF SafeSpec, Dispatch!SafeSpec
-----------------------------------------------------------------------------
(* A quiet pool is done.  The stack holds each thread that has registered, *)
(* and holds it once, so it is no longer than the word says.               *)
StackInv == /\ \A i, j \in DOMAIN threads : threads[i] = threads[j] => i = j
            /\ \A i \in DOMAIN threads : pc[threads[i]] \notin {"off", "register"}

(* A thread that exists goes on existing, one that registered stays so.    *)
LEMMA StaysThere ==
  ASSUME TypeOK, [Next]_vars, NEW t \in Threads
  PROVE  \/ pc'[t] = pc[t]
         \/ pc[t] = "off" /\ pc'[t] = "register"
         \/ pc[t] = "register" /\ pc'[t] = "wait"
         \/ pc[t] \notin {"off", "register"} /\ pc'[t] \notin {"off", "register"}
<1> DEFINE Goal == \/ pc'[t] = pc[t]
                   \/ pc[t] = "off" /\ pc'[t] = "register"
                   \/ pc[t] = "register" /\ pc'[t] = "wait"
                   \/ pc[t] \notin {"off", "register"} /\ pc'[t] \notin {"off", "register"}
<1> USE DEF TypeOK
<1>1. CASE \E p \in Procs : NotifyStep(p) \/ NotifySpawnFails(p)
  BY <1>1 DEF NotifyStep, NotifyFast, NotifySlow, NotifyPost, NotifySpawn, NotifySpawnFails,
              Goto
<1>2. CASE \E k \in Tasks : \/ \E c \in Clients : ClientSchedule(c, k)
                            \/ \E u \in Threads : ThreadSchedule(u, k) \/ Overflow(u, k)
  BY <1>2 DEF ClientSchedule, ThreadSchedule, Overflow, ThreadFrame
<1>3. ASSUME NEW u \in Threads, PopStep(u) PROVE Goal
  <2>1. CASE ConsumeOwn(u) \/ ConsumePool(u) \/ ConsumeTarget(u)
    BY <2>1 DEF ConsumeOwn, ConsumePool, ConsumeTarget, Consume
  <2>2. CASE ~(ConsumeOwn(u) \/ ConsumePool(u) \/ ConsumeTarget(u))
    BY <1>3, <2>2 DEF PopStep, PopBuffer, Take, Publish, PublishStolen, Release, Count,
                      Victim, NothingFound, Steal, NothingToSteal, Goto
  <2> QED BY <2>1, <2>2
<1>4. ASSUME NEW u \in Threads, RunStep(u) \/ WaitWoken(u), ~PopStep(u) PROVE Goal
  BY <1>4 DEF RunStep, Register, WaitNotified, WaitIdle, WaitSleep, WaitWoken, Got, Start,
              CallbackReturns, PushOverflow, ThreadFrame, Goto
<1>5. CASE UNCHANGED vars
  BY <1>5 DEF vars
<1> QED BY <1>1, <1>2, <1>3, <1>4, <1>5 DEF Next

(* Who changes the stack, and the positions on it.                         *)
LEMMA SameStack ==
  ASSUME [Next]_vars, \A t \in Threads : ~Register(t)
  PROVE  threads' = threads
<1>1. CASE \E p \in Procs : NotifyStep(p) \/ NotifySpawnFails(p)
  BY <1>1 DEF NotifyStep, NotifyFast, NotifySlow, NotifyPost, NotifySpawn, NotifySpawnFails
<1>2. CASE \E k \in Tasks : \/ \E c \in Clients : ClientSchedule(c, k)
                            \/ \E u \in Threads : ThreadSchedule(u, k) \/ Overflow(u, k)
  BY <1>2 DEF ClientSchedule, ThreadSchedule, Overflow, ThreadFrame
<1>3. ASSUME NEW u \in Threads, PopStep(u) PROVE threads' = threads
  BY <1>3 DEF PopStep, PopBuffer, ConsumeOwn, ConsumePool, ConsumeTarget, Consume, Take,
              Publish, PublishStolen, Keep, Release, Count, Victim, NothingFound, Steal,
              NothingToSteal, PopFrame
<1>4. ASSUME NEW u \in Threads, RunStep(u) \/ WaitWoken(u), ~PopStep(u)
      PROVE  threads' = threads
  BY <1>4 DEF RunStep, WaitNotified, WaitIdle, WaitSleep, WaitWoken, Got, Start,
              CallbackReturns, PushOverflow, ThreadFrame
<1>5. CASE UNCHANGED vars
  BY <1>5 DEF vars
<1> QED BY <1>1, <1>2, <1>3, <1>4, <1>5 DEF Next

LEMMA RegisterStack ==
  ASSUME TypeOK, NEW t \in Threads, Register(t)
  PROVE  /\ Len(threads) \in Nat /\ Len(threads') = Len(threads) + 1
         /\ DOMAIN threads = 1..Len(threads) /\ DOMAIN threads' = 1..(Len(threads) + 1)
         /\ threads'[1] = t
         /\ \A i \in 1..Len(threads) : threads'[i + 1] = threads[i]
         /\ \A i \in 1..(Len(threads) + 1) :
              i = 1 \/ (i - 1 \in 1..Len(threads) /\ threads'[i] = threads[i - 1])
<1>1. threads \in Seq(Threads) /\ threads' = <<t>> \o threads /\ <<t>> \in Seq(Threads)
  BY DEF TypeOK, Register
<1>2. Len(threads) \in Nat
  BY <1>1
<1>3. threads' \in Seq(Threads) /\ Len(threads') = Len(threads) + 1
  BY <1>1
<1>4. DOMAIN threads = 1..Len(threads) /\ DOMAIN threads' = 1..(Len(threads) + 1)
  BY <1>1, <1>2, <1>3
<1>5. threads'[1] = t
  BY <1>1, <1>2
<1>6. ASSUME NEW i \in 1..(Len(threads) + 1), i # 1
      PROVE  i - 1 \in 1..Len(threads) /\ threads'[i] = threads[i - 1]
  BY <1>1, <1>2, <1>6
<1>7. ASSUME NEW i \in 1..Len(threads) PROVE threads'[i + 1] = threads[i]
  <2>1. i + 1 \in 1..(Len(threads) + 1) /\ i + 1 # 1 /\ i + 1 - 1 = i
    BY <1>2
  <2> QED BY <1>6, <2>1
<1> QED BY <1>2, <1>3, <1>4, <1>5, <1>6, <1>7

LEMMA NextStack == ASSUME TypeOK, StackInv, [Next]_vars PROVE StackInv'
<1>1. threads \in Seq(Threads) /\ \A i \in DOMAIN threads : threads[i] \in Threads
  BY DEF TypeOK
<1>2. \A i \in DOMAIN threads : pc'[threads[i]] \notin {"off", "register"}
  BY <1>1, StaysThere DEF StackInv
<1>3. CASE \A t \in Threads : ~Register(t)
  BY <1>2, <1>3, SameStack DEF StackInv
<1>4. ASSUME NEW t \in Threads, Register(t) PROVE StackInv'
  <2>1. /\ DOMAIN threads = 1..Len(threads) /\ DOMAIN threads' = 1..(Len(threads) + 1)
        /\ threads'[1] = t
        /\ \A i \in 1..(Len(threads) + 1) :
             i = 1 \/ (i - 1 \in 1..Len(threads) /\ threads'[i] = threads[i - 1])
        /\ Len(threads) \in Nat
    BY <1>4, RegisterStack
  <2>2. pc[t] = "register" /\ pc'[t] = "wait"
    BY <1>4 DEF Register, Goto, TypeOK
  <2>3. ASSUME NEW i \in 1..(Len(threads) + 1), NEW j \in 1..(Len(threads) + 1),
               threads'[i] = threads'[j]
        PROVE  i = j
    <3>1. CASE i = 1 \/ j = 1
      BY <2>1, <2>2, <2>3, <3>1 DEF StackInv
    <3>2. CASE i # 1 /\ j # 1
      <4>1. i - 1 = j - 1
        BY <2>1, <2>3, <3>2 DEF StackInv
      <4>2. i \in Int /\ j \in Int
        BY <2>1
      <4> QED BY <4>1, <4>2
    <3> QED BY <3>1, <3>2
  <2>4. ASSUME NEW i \in 1..(Len(threads) + 1)
        PROVE  pc'[threads'[i]] \notin {"off", "register"}
    BY <1>2, <2>1, <2>2
  <2>5. /\ \A i, j \in DOMAIN threads' : threads'[i] = threads'[j] => i = j
        /\ \A i \in DOMAIN threads' : pc'[threads'[i]] \notin {"off", "register"}
    BY <2>1, <2>3, <2>4
  <2> QED BY <2>5 DEF StackInv
<1> QED BY <1>3, <1>4

(* A new thread is counted before it is on the stack.                      *)
LEMMA StackCounted ==
  ASSUME TypeOK, StackInv, Counts
  PROVE  /\ Len(threads) \in Nat /\ DOMAIN threads = 1..Len(threads)
         /\ sync.spawned \in Int /\ Len(threads) =< sync.spawned
<1>1. threads \in Seq(Threads) /\ sync.spawned \in Int
  BY DEF TypeOK, Sync
<1>2. Len(threads) \in Nat /\ DOMAIN threads = 1..Len(threads)
  BY <1>1
<1>3. threads \in Injection(1..Len(threads), Existing)
  <2>1. \A i \in 1..Len(threads) : threads[i] \in Existing
    BY <1>1, <1>2 DEF StackInv, Existing
  <2>2. threads \in [1..Len(threads) -> Existing]
    BY <1>1, <1>2, <2>1
  <2>3. \A i, j \in 1..Len(threads) : threads[i] = threads[j] => i = j
    BY <1>2 DEF StackInv
  <2> QED BY <2>2, <2>3 DEF Injection, IsInjective
<1>4. Cardinality(1..Len(threads)) =< Cardinality(Existing)
  BY <1>3, FiniteCounted, FS_Injection
<1>5. Cardinality(1..Len(threads)) = Len(threads)
  <2>1. 1 \in Int /\ Len(threads) \in Int
    BY <1>2
  <2>2. Cardinality(1..Len(threads)) = IF 1 > Len(threads) THEN 0 ELSE Len(threads) - 1 + 1
    BY <2>1, FS_Interval
  <2> QED BY <1>2, <2>2
<1>6. Cardinality(Existing) =< sync.spawned
  BY <1>1, CountsNamed, FiniteCounted DEF Named
<1> QED BY <1>1, <1>2, <1>4, <1>5, <1>6, FiniteCounted
-----------------------------------------------------------------------------
(* Who is awake, and who will wake somebody.                               *)
Awake(t) == pc[t] \notin {"off", "sleep"}
SomeAwake == \E t \in Threads : Awake(t)
On(p, S) == npc[p] \in S

(* A thread that sleeps has declared itself idle, a waking one is neither. *)
Roles == \A t \in Threads : /\ is_waking[t] => pc[t] \notin {"off", "register", "sleep"}
                            /\ is_idle[t] => pc[t] \in {"wait", "sleep"} /\ ~is_waking[t]
                            /\ pc[t] = "sleep" => is_idle[t]

(* A notification that nobody has seen finds somebody awake, or is the     *)
(* signal for a thread that is being woken or created, if it can be.       *)
Signals ==
  /\ sync.state = "signaled" => sync.notified
  /\ (\A t \in Threads : pc[t] = "off") => \/ sync.state = "signaled"
                                           \/ /\ sync.state = "pending" /\ ~sync.notified
                                              /\ \A p \in Procs : npc[p] # "spawn"
  /\ sync.notified => SomeAwake \/ sync.state = "signaled"
  /\ sync.state = "signaled" => \/ SomeAwake \/ idle_token \/ SpawnMayFail
                                \/ \E p \in Procs : On(p, {"post", "spawn"})

WakeInv == Roles /\ Signals

(* Most steps neither wake nor put to sleep.                               *)
Plain == /\ UNCHANGED <<sync, idle_token, is_idle, is_waking>>
         /\ \A t \in Threads : \/ pc'[t] = pc[t]
                               \/ /\ pc[t] \notin {"off", "register", "wait", "sleep"}
                                  /\ pc'[t] \notin {"off", "register", "sleep"}
         /\ \A p \in Procs : /\ npc'[p] = "post" <=> npc[p] = "post"
                             /\ npc'[p] = "spawn" <=> npc[p] = "spawn"

LEMMA PlainWake == ASSUME WakeInv, Plain PROVE WakeInv'
<1>1. Roles'
  BY DEF WakeInv, Roles, Plain
<1>2. \A t \in Threads : (Awake(t)' <=> Awake(t)) /\ (pc'[t] = "off" <=> pc[t] = "off")
  BY DEF Plain, Awake
<1>3. \A p \in Procs : On(p, {"post", "spawn"})' <=> On(p, {"post", "spawn"})
  BY DEF Plain, On
<1>4. sync' = sync /\ idle_token' = idle_token
  BY DEF Plain
<1>5. SomeAwake' <=> SomeAwake
  BY <1>2 DEF SomeAwake
<1>6. (\A p \in Procs : npc'[p] # "spawn") <=> (\A p \in Procs : npc[p] # "spawn")
  BY DEF Plain
<1>7. Signals'
  BY <1>2, <1>3, <1>4, <1>5, <1>6 DEF WakeInv, Signals
<1> QED BY <1>1, <1>7 DEF WakeInv

LEMMA SchedulePlain ==
  ASSUME TypeOK, NEW k \in Tasks,
         \/ \E c \in Clients : ClientSchedule(c, k)
         \/ \E t \in Threads : ThreadSchedule(t, k) \/ Overflow(t, k)
  PROVE  Plain
<1> USE DEF TypeOK, Procs
<1>1. ASSUME NEW c \in Clients, ClientSchedule(c, k) PROVE Plain
  <2>1. npc[c] = "out" /\ \E s \in {"fast", "slow"} : npc' = [npc EXCEPT ![c] = s]
    BY <1>1 DEF ClientSchedule, Schedule, CallNotify
  <2> QED BY <1>1, <2>1 DEF ClientSchedule, Plain, waitVars
<1>2. ASSUME NEW t \in Threads, ThreadSchedule(t, k) PROVE Plain
  <2>1. npc[t] = "out" /\ \E s \in {"fast", "slow"} : npc' = [npc EXCEPT ![t] = s]
    BY <1>2 DEF ThreadSchedule, Schedule, CallNotify
  <2> QED BY <1>2, <2>1 DEF ThreadSchedule, ThreadFrame, Plain, waitVars
<1>3. ASSUME NEW t \in Threads, Overflow(t, k) PROVE Plain
  BY <1>3 DEF Overflow, ThreadFrame, Plain, waitVars
<1> QED BY <1>1, <1>2, <1>3

LEMMA PopPlain == ASSUME TypeOK, NEW t \in Threads, PopStep(t) PROVE Plain
<1> USE DEF TypeOK
<1>1. CASE ConsumeOwn(t) \/ ConsumePool(t) \/ ConsumeTarget(t)
  BY <1>1 DEF ConsumeOwn, ConsumePool, ConsumeTarget, Consume, PopFrame, Plain, waitVars
<1>2. CASE ~(ConsumeOwn(t) \/ ConsumePool(t) \/ ConsumeTarget(t))
  <2>1. /\ UNCHANGED <<sync, idle_token, npc, waitVars>>
        /\ \A u \in Threads : \/ pc'[u] = pc[u]
                              \/ /\ pc[u] \notin {"off", "register", "wait", "sleep"}
                                 /\ pc'[u] \notin {"off", "register", "sleep"}
    BY <1>2 DEF PopStep, PopBuffer, Take, Publish, PublishStolen, Keep, Release, Count,
                Victim, NothingFound, Steal, NothingToSteal, Goto, PopFrame
  <2> QED BY <2>1 DEF Plain, waitVars
<1> QED BY <1>1, <1>2

LEMMA RunPlain ==
  ASSUME TypeOK, Inside, NEW t \in Threads,
         Got(t) \/ Start(t) \/ CallbackReturns(t) \/ PushOverflow(t)
  PROVE  Plain
<1> USE DEF TypeOK, Procs
<1>1. CASE Got(t)
  <2>1. npc[t] = "out"
    BY <1>1 DEF Got, Goto, Inside
  <2>2. npc' = npc \/ \E s \in {"fast", "slow"} : npc' = [npc EXCEPT ![t] = s]
    BY <1>1 DEF Got, CallNotify
  <2> QED BY <1>1, <2>1, <2>2 DEF Got, Goto, Plain, waitVars
<1>2. CASE Start(t) \/ CallbackReturns(t)
  BY <1>2 DEF Start, CallbackReturns, Goto, Plain, waitVars
<1>3. CASE PushOverflow(t)
  <2>1. npc[t] = "out"
    BY <1>3 DEF PushOverflow, Inside
  <2>2. \E s \in {"fast", "slow"} : npc' = [npc EXCEPT ![t] = s]
    BY <1>3 DEF PushOverflow, CallNotify
  <2> QED BY <1>3, <2>1, <2>2 DEF PushOverflow, ThreadFrame, Plain, waitVars
<1> QED BY <1>1, <1>2, <1>3

(* notify() leaves nobody unwoken.                                         *)
LEMMA NotifyWake ==
  ASSUME TypeOK, WakingThread, Counts, WakeInv, NEW p \in Procs,
         NotifyStep(p) \/ NotifySpawnFails(p)
  PROVE  WakeInv'
<1> USE DEF TypeOK, Sync, NGoto
<1>1. CASE NotifyFast(p)
  BY <1>1, PlainWake DEF NotifyFast, Plain, waitVars
<1>2. CASE NotifySlow(p)
  <2>1. /\ UNCHANGED <<idle_token, pc, is_idle>> /\ npc[p] = "slow"
        /\ \A t \in Threads : is_waking'[t] => is_waking[t]
    BY <1>2 DEF NotifySlow, NotifyIdle, NotifyGrow, NotifyNobody
  <2>2. Roles'
    BY <2>1 DEF WakeInv, Roles
  <2>3. SomeAwake' <=> SomeAwake
    BY <2>1 DEF SomeAwake, Awake
  <2>4. CASE NotifyIdle(p) \/ NotifyGrow(p)
    <3>1. sync'.state = "signaled" /\ sync'.notified /\ npc'[p] \in {"post", "spawn"}
      BY <2>4 DEF NotifyIdle, NotifyGrow
    <3>2. \E q \in Procs : On(q, {"post", "spawn"})'
      BY <3>1 DEF On
    <3>3. Signals'
      BY <3>1, <3>2 DEF Signals
    <3> QED BY <2>2, <3>3 DEF WakeInv
  <2>5. CASE NotifyNobody(p)
    <3>1. /\ sync'.notified
          /\ sync'.state = IF Waking(p) THEN "pending" ELSE sync.state
          /\ CanWake(p) => sync.idle = 0 /\ sync.spawned = max_threads
          /\ \A q \in Procs : On(q, {"post", "spawn"})' <=> On(q, {"post", "spawn"})
      BY <2>5 DEF NotifyNobody, On
    <3>2. SomeAwake \/ (sync.state = "signaled" /\ ~Waking(p))
      <4>1. CASE Waking(p)
        BY <4>1 DEF Waking, WakeInv, Roles, SomeAwake, Awake
      <4>2. CASE sync.state = "waking"
        BY <4>2 DEF WakingThread, WakeInv, Roles, SomeAwake, Awake
      <4>3. CASE sync.state = "pending"
        <5>1. sync.idle = 0 /\ sync.spawned = max_threads
          BY <3>1, <4>3 DEF CanWake
        <5>2. \E t \in Threads : pc[t] # "off"
          <6> SUFFICES ASSUME \A t \in Threads : pc[t] = "off" PROVE FALSE
            OBVIOUS
          <6>1. \A q \in Procs : npc[q] # "spawn"
            BY <4>3 DEF WakeInv, Signals
          <6>2. Existing = {} /\ Spawning = {}
            BY <6>1 DEF Existing, Spawning
          <6>3. sync.spawned = 0
            BY <6>2, CountsNamed, FS_EmptySet DEF Named
          <6>4. max_threads # 0
            BY ThreadPoolAssumption
          <6> QED BY <5>1, <6>3, <6>4
        <5>3. IdleThreads = {}
          BY <5>1, CountsNamed, FiniteCounted, FS_EmptySet DEF Named
        <5>4. \A t \in Threads : pc[t] # "sleep"
          BY <5>3 DEF IdleThreads, WakeInv, Roles
        <5> QED BY <5>2, <5>4 DEF SomeAwake, Awake
      <4> QED BY <4>1, <4>2, <4>3
    <3>3. (\E t \in Threads : pc'[t] # "off") \/ (sync.state = "signaled" /\ ~Waking(p))
      BY <2>1, <3>2 DEF SomeAwake, Awake
    <3>4. Signals'
      BY <2>1, <2>3, <3>1, <3>2, <3>3 DEF Signals, WakeInv
    <3> QED BY <2>2, <3>4 DEF WakeInv
  <2> QED BY <1>2, <2>4, <2>5 DEF NotifySlow
<1>3. CASE NotifyPost(p)
  <2>1. /\ UNCHANGED <<sync, pc, is_idle, is_waking>> /\ idle_token'
        /\ npc' = [npc EXCEPT ![p] = "out"]
    BY <1>3 DEF NotifyPost, waitVars, IdleEvent!Post
  <2>2. Roles'
    BY <2>1 DEF WakeInv, Roles
  <2>3. SomeAwake' <=> SomeAwake
    BY <2>1 DEF SomeAwake, Awake
  <2>4. \A q \in Procs : npc'[q] = "spawn" => npc[q] = "spawn"
    BY <2>1
  <2>5. Signals'
    BY <2>1, <2>3, <2>4 DEF WakeInv, Signals
  <2> QED BY <2>2, <2>5 DEF WakeInv
<1>4. CASE NotifySpawn(p)
  <2>1. PICK t \in Threads : pc[t] = "off" /\ pc' = [pc EXCEPT ![t] = "register"]
    BY <1>4 DEF NotifySpawn, Goto
  <2>2. UNCHANGED <<sync, idle_token, is_idle, is_waking>>
    BY <1>4 DEF NotifySpawn, waitVars
  <2>3. Roles'
    BY <2>1, <2>2 DEF WakeInv, Roles
  <2>4. SomeAwake' /\ pc'[t] # "off"
    BY <2>1 DEF SomeAwake, Awake
  <2>5. Signals'
    BY <2>2, <2>4 DEF WakeInv, Signals
  <2> QED BY <2>3, <2>5 DEF WakeInv
<1>5. CASE NotifySpawnFails(p)
  <2>1. /\ UNCHANGED <<pc, idle_token, is_idle, is_waking>> /\ SpawnMayFail
        /\ npc' = [npc EXCEPT ![p] = "out"]
        /\ sync'.state = sync.state /\ sync'.notified = sync.notified
    BY <1>5 DEF NotifySpawnFails, waitVars
  <2>2. Roles'
    BY <2>1 DEF WakeInv, Roles
  <2>3. SomeAwake' <=> SomeAwake
    BY <2>1 DEF SomeAwake, Awake
  <2>4. \A q \in Procs : npc'[q] = "spawn" => npc[q] = "spawn"
    BY <2>1
  <2>5. Signals'
    BY <2>1, <2>3, <2>4 DEF WakeInv, Signals
  <2> QED BY <2>2, <2>5 DEF WakeInv
<1> QED BY <1>1, <1>2, <1>3, <1>4, <1>5 DEF NotifyStep

(* Nobody falls asleep over a notification.                                *)
LEMMA WaitWake ==
  ASSUME TypeOK, WakeInv, NEW t \in Threads,
         \/ Register(t) \/ WaitNotified(t) \/ WaitIdle(t) \/ WaitSleep(t) \/ WaitWoken(t)
  PROVE  WakeInv'
<1> USE DEF TypeOK, Sync, Goto
<1>1. CASE Register(t) \/ WaitWoken(t)
  <2>1. /\ UNCHANGED <<sync, npc, is_idle, is_waking>>
        /\ pc[t] \in {"register", "sleep"} /\ pc' = [pc EXCEPT ![t] = "wait"]
    BY <1>1 DEF Register, WaitWoken, waitVars
  <2>2. Roles'
    BY <2>1 DEF WakeInv, Roles
  <2>3. SomeAwake' /\ pc'[t] # "off"
    BY <2>1 DEF SomeAwake, Awake
  <2>4. Signals'
    BY <2>1, <2>3 DEF WakeInv, Signals
  <2> QED BY <2>2, <2>4 DEF WakeInv
<1>2. CASE WaitNotified(t)
  <2>1. /\ npc' = npc /\ pc' = [pc EXCEPT ![t] = "pop"] /\ pc[t] = "wait"
        /\ is_idle' = [is_idle EXCEPT ![t] = FALSE]
        /\ \A u \in Threads \ {t} : is_waking'[u] = is_waking[u]
        /\ sync'.state # "signaled" /\ ~sync'.notified
    BY <1>2 DEF WaitNotified
  <2>2. Roles'
    BY <2>1 DEF WakeInv, Roles
  <2>3. pc'[t] # "off"
    BY <2>1
  <2>4. Signals'
    BY <2>1, <2>3 DEF Signals
  <2> QED BY <2>2, <2>4 DEF WakeInv
<1>3. CASE WaitIdle(t)
  <2>1. /\ UNCHANGED <<npc, pc, idle_token>> /\ pc[t] = "wait" /\ ~sync.notified
        /\ is_idle' = [is_idle EXCEPT ![t] = TRUE]
        /\ is_waking' = [is_waking EXCEPT ![t] = FALSE]
        /\ sync'.state \in {"pending", sync.state} /\ sync'.notified = sync.notified
    BY <1>3 DEF WaitIdle
  <2>2. Roles'
    BY <2>1 DEF WakeInv, Roles
  <2>3. pc'[t] # "off" /\ sync'.state # "signaled" /\ ~sync'.notified
    BY <2>1 DEF WakeInv, Signals
  <2>4. Signals'
    BY <2>3 DEF Signals
  <2> QED BY <2>2, <2>4 DEF WakeInv
<1>4. CASE WaitSleep(t)
  <2>1. /\ UNCHANGED <<sync, npc, is_idle, is_waking>> /\ pc[t] = "wait" /\ ~sync.notified
        /\ is_idle[t] /\ pc' = [pc EXCEPT ![t] = "sleep"]
    BY <1>4 DEF WaitSleep, waitVars
  <2>2. Roles'
    BY <2>1 DEF WakeInv, Roles
  <2>3. pc'[t] # "off" /\ sync'.state # "signaled" /\ ~sync'.notified
    BY <2>1 DEF WakeInv, Signals
  <2>4. Signals'
    BY <2>3 DEF Signals
  <2> QED BY <2>2, <2>4 DEF WakeInv
<1> QED BY <1>1, <1>2, <1>3, <1>4

LEMMA NextWake ==
  ASSUME TypeOK, WakingThread, Inside, Counts, WakeInv, [Next]_vars PROVE WakeInv'
<1>1. CASE UNCHANGED vars
  <2>1. Plain
    BY <1>1 DEF vars, waitVars, Plain
  <2> QED BY <2>1, PlainWake
<1> QED BY <1>1, NotifyWake, SchedulePlain, PopPlain, RunPlain, WaitWake, PlainWake
        DEF Next, RunStep
-----------------------------------------------------------------------------
(* Where a task can wait.  The buffer of a thread that does not run is     *)
(* empty once pop() has looked into it; only a callback fills the thread's *)
(* own queue.                                                              *)
Filled == \A t \in Threads :
            /\ run_buffer[t] # {} => pc[t] \in {"release", "got", "start", "run", "pop", "panic"}
            /\ run_queue[t] # {} => pc[t] \notin {"off", "register"}

LEMMA FilledKept ==
  ASSUME Filled, TypeOK, [Next]_vars,
         \A t \in Threads : run_queue'[t] # {} => run_queue[t] # {} \/ pc[t] = "run",
         \A t \in Threads :
           run_buffer'[t] # {} =>
             \/ pc'[t] \in {"release", "got", "start", "run", "pop", "panic"}
             \/ run_buffer[t] # {} /\ pc'[t] = pc[t]
  PROVE  Filled'
BY StaysThere DEF Filled

LEMMA NextFilled ==
  ASSUME TypeOK, Registered, Inside, PlaceInv, Filled, [Next]_vars PROVE Filled'
<1> USE DEF TypeOK, Goto, queueVars, Owners
<1>1. CASE \E p \in Procs : NotifyStep(p) \/ NotifySpawnFails(p)
  <2>1. UNCHANGED <<run_queue, run_buffer>>
    BY <1>1 DEF NotifyStep, NotifyFast, NotifySlow, NotifyPost, NotifySpawn, NotifySpawnFails
  <2>2. \A t \in Threads : pc[t] # "off" => pc'[t] = pc[t]
    BY <1>1 DEF NotifyStep, NotifyFast, NotifySlow, NotifyPost, NotifySpawn, NotifySpawnFails
  <2> QED BY <2>1, <2>2, FilledKept DEF Filled
<1>2. ASSUME NEW k \in Tasks, NEW c \in Clients, ClientSchedule(c, k) PROVE Filled'
  <2>1. /\ UNCHANGED <<run_buffer, pc>> /\ \A t \in Threads : run_queue'[t] = run_queue[t]
    BY <1>2, ThreadPoolAssumption DEF ClientSchedule
  <2> QED BY <2>1 DEF Filled
<1>3. ASSUME NEW k \in Tasks, NEW t \in Threads, ThreadSchedule(t, k) \/ Overflow(t, k)
      PROVE  Filled'
  <2>1. /\ pc[t] = "run" /\ UNCHANGED <<run_queue, pc>>
        /\ \A u \in Threads \ {t} : run_buffer'[u] = run_buffer[u]
    BY <1>3 DEF ThreadSchedule, Overflow, Running, ThreadFrame
  <2> QED BY <2>1 DEF Filled
<1>4. ASSUME NEW t \in Threads, PushOverflow(t) PROVE Filled'
  <2>1. /\ pc[t] = "run" /\ UNCHANGED <<run_buffer, pc>>
        /\ \A u \in Threads \ {t} : run_queue'[u] = run_queue[u]
    BY <1>4 DEF PushOverflow, ThreadFrame, Inside
  <2> QED BY <2>1 DEF Filled
<1>5. ASSUME NEW t \in Threads,
             \/ Register(t) \/ WaitNotified(t) \/ WaitIdle(t) \/ WaitSleep(t) \/ WaitWoken(t)
             \/ Got(t) \/ Start(t) \/ CallbackReturns(t)
      PROVE  Filled'
  <2>1. UNCHANGED <<run_queue, run_buffer>>
    BY <1>5 DEF Register, WaitNotified, WaitIdle, WaitSleep, WaitWoken, Got, Start,
                CallbackReturns
  <2>2. \A u \in Threads :
          \/ pc'[u] = pc[u]
          \/ pc[u] \in {"register", "wait", "sleep"}
          \/ pc[u] \in {"got", "start", "run"} /\ pc'[u] \in {"start", "run", "pop", "panic"}
    BY <1>5 DEF Register, WaitNotified, WaitIdle, WaitSleep, WaitWoken, Got, Start,
                CallbackReturns
  <2> QED BY <2>1, <2>2, FilledKept DEF Filled
<1>6. ASSUME NEW t \in Threads, PopStep(t) PROVE Filled'
  <2>1. CASE ConsumeOwn(t) \/ ConsumePool(t) \/ ConsumeTarget(t)
    <3>1. /\ UNCHANGED <<run_queue, run_buffer>> /\ \A u \in Threads \ {t} : pc'[u] = pc[u]
          /\ run_buffer[t] = {}
      BY <2>1 DEF ConsumeOwn, ConsumePool, ConsumeTarget, Consume, Filled
    <3> QED BY <3>1, FilledKept
  <2>2. CASE Release(t) \/ Count(t) \/ Victim(t) \/ NothingFound(t) \/ NothingToSteal(t)
    <3>1. UNCHANGED <<run_queue, run_buffer>>
      BY <2>2 DEF Release, Count, Victim, NothingFound, NothingToSteal
    <3>2. \A u \in Threads : \/ pc'[u] = pc[u]
                             \/ pc'[u] = "got"
                             \/ pc[u] \in {"count", "victim", "buffer"}
      BY <2>2 DEF Release, Count, Victim, NothingFound, NothingToSteal
    <3> QED BY <3>1, <3>2, FilledKept DEF Filled
  <2>3. CASE PopBuffer(t)
    <3>1. /\ run_queue' = run_queue /\ pc'[t] = "got"
          /\ \A u \in Threads \ {t} : pc'[u] = pc[u] /\ run_buffer'[u] = run_buffer[u]
      BY <2>3 DEF PopBuffer
    <3> QED BY <3>1, FilledKept
  <2>4. CASE Publish(t) \/ PublishStolen(t)
    <3>1. /\ run_queue' = run_queue /\ pc'[t] \in {"release", "got"}
          /\ \A u \in Threads \ {t} : pc'[u] = pc[u] /\ run_buffer'[u] = run_buffer[u]
      BY <2>4 DEF Publish, PublishStolen, Keep
    <3> QED BY <3>1, FilledKept
  <2>5. CASE Take(t)
    <3>1. /\ run_buffer' = run_buffer /\ pc[t] = "take"
          /\ \A u \in Threads \ {t} : pc'[u] = pc[u]
      BY <2>5 DEF Take
    <3>2. \A o \in Owners : run_queue'[o] \subseteq run_queue[o]
      BY <2>5 DEF Take
    <3>3. run_buffer[t] = {}
      BY <3>1 DEF Filled
    <3>4. \A u \in Threads : run_queue'[u] # {} => run_queue[u] # {}
      BY <3>2
    <3> QED BY <3>1, <3>3, <3>4, FilledKept
  <2>6. CASE Steal(t)
    <3>1. /\ run_queue' = run_queue /\ pc[t] = "buffer"
          /\ \A u \in Threads \ {t} : pc'[u] = pc[u]
      BY <2>6 DEF Steal
    <3>2. \A u \in Threads : run_buffer'[u] \subseteq run_buffer[u]
      BY <2>6 DEF Steal
    <3>3. run_buffer'[t] = {}
      BY <3>1, <3>2 DEF Filled
    <3> QED BY <3>1, <3>2, <3>3, FilledKept
  <2> QED BY <1>6, <2>1, <2>2, <2>3, <2>4, <2>5, <2>6 DEF PopStep
<1>7. CASE UNCHANGED vars
  BY <1>7 DEF vars, Filled
<1> QED BY <1>1, <1>2, <1>3, <1>4, <1>5, <1>6, <1>7 DEF Next, RunStep
-----------------------------------------------------------------------------
(* Who will still look where.  A notify() under way sees that the word     *)
(* says `notified`; who has a task, or is about to, starts over with pop().*)
Alerted == sync.notified \/ \E p \in Procs : On(p, {"fast", "slow"})
Later == {"take", "publish", "release", "stolen", "got", "start", "run", "panic", "pop"}
Restart == \E u \in Threads : pc[u] \in Later

(* A thread on its round has as many looks left as it takes it to thread t,*)
(* also when those that are being created register in front of it first.   *)
Enough(u, t) ==
  \E j \in DOMAIN threads :
    /\ threads[j] = t
    /\ target[u] = Nobody => num_threads[u] >= j + (sync.spawned - Len(threads))
    /\ \A i \in DOMAIN threads :
         threads[i] = target[u] =>
           num_threads[u] >= IF i =< j THEN j - i + 1 ELSE sync.spawned - i + 1 + j

Reaches(u, t) == \/ pc[u] \in {"victim", "queue", "buffer"} /\ Enough(u, t)
                 \/ pc[u] = "queue" /\ from[u] = t

LooksAtPool(u) == pc[u] \in Later \cup {"pool"}
LooksAt(u, t) == pc[u] \in Later \cup {"pool", "count"} \/ Reaches(u, t)

Looked == /\ run_queue[Pool] # {} => Alerted \/ \E u \in Threads : LooksAtPool(u)
          /\ \A t \in Threads :
               run_queue[t] # {} => Alerted \/ \E u \in Threads : LooksAt(u, t)

(* The round begins with as many looks as there are threads ...            *)
LEMMA RoundBegins ==
  ASSUME TypeOK, Registered, StackInv, Counts, NEW u \in Threads, NEW t \in Threads,
         Count(u), OnStack(t)
  PROVE  Enough(u, t)'
<1>1. /\ Len(threads) \in Nat /\ DOMAIN threads = 1..Len(threads)
      /\ sync.spawned \in Int /\ Len(threads) =< sync.spawned
  BY StackCounted
<1>2. /\ UNCHANGED <<threads, sync, target>> /\ num_threads'[u] = sync.spawned
  BY DEF Count, PopFrame, TypeOK
<1>3. PICK j \in 1..Len(threads) : threads[j] = t
  BY <1>1 DEF OnStack
<1>4. sync.spawned >= j + (sync.spawned - Len(threads))
  BY <1>1
<1>5. ASSUME NEW i \in 1..Len(threads)
      PROVE  sync.spawned >= IF i =< j THEN j - i + 1 ELSE sync.spawned - i + 1 + j
  BY <1>1
<1> QED BY <1>1, <1>2, <1>3, <1>4, <1>5 DEF Enough

(* ... a new thread is one that it has counted, or the word says more ...  *)
LEMMA RegisterKeepsRound ==
  ASSUME TypeOK, Registered, StackInv, Counts, NEW u \in Threads, NEW t \in Threads,
         NEW d \in Threads, Register(d), Enough(u, t)
  PROVE  Enough(u, t)'
<1> DEFINE L == Len(threads)
<1>1. L \in Nat /\ DOMAIN threads = 1..L /\ sync.spawned \in Int /\ num_threads[u] \in Int
  BY StackCounted DEF TypeOK
<1>2. /\ Len(threads') = L + 1 /\ DOMAIN threads' = 1..(L + 1) /\ threads'[1] = d
      /\ \A i \in 1..L : threads'[i + 1] = threads[i]
      /\ \A i \in 1..(L + 1) : i = 1 \/ (i - 1 \in 1..L /\ threads'[i] = threads[i - 1])
  BY RegisterStack
<1>3. UNCHANGED <<sync, target, num_threads>>
  BY DEF Register, popVars
<1> HIDE DEF L
<1>4. PICK j \in 1..L :
        /\ threads[j] = t
        /\ target[u] = Nobody => num_threads[u] >= j + (sync.spawned - L)
        /\ \A i \in 1..L : threads[i] = target[u] =>
             num_threads[u] >= IF i =< j THEN j - i + 1 ELSE sync.spawned - i + 1 + j
  BY <1>1 DEF Enough, L
<1>5. j + 1 \in 1..(L + 1) /\ threads'[j + 1] = t
  BY <1>1, <1>2, <1>4
<1>6. target[u] # d
  <2>1. pc[d] = "register" /\ d # Nobody
    BY ThreadPoolAssumption DEF Register, Goto
  <2>2. \A i \in DOMAIN threads : threads[i] # d
    BY <2>1 DEF StackInv
  <2> QED BY <2>1, <2>2 DEF Registered, OnStack
<1>7. target[u] = Nobody => num_threads[u] >= j + 1 + (sync.spawned - (L + 1))
  BY <1>1, <1>4
<1>8. ASSUME NEW i \in 1..(L + 1), threads'[i] = target[u]
      PROVE  num_threads[u] >= IF i =< j + 1 THEN j + 1 - i + 1
                               ELSE sync.spawned - i + 1 + (j + 1)
  <2>1. i # 1
    BY <1>2, <1>6, <1>8
  <2>2. i - 1 \in 1..L /\ threads[i - 1] = target[u]
    BY <1>2, <1>8, <2>1
  <2>3. num_threads[u] >= IF i - 1 =< j THEN j - (i - 1) + 1
                          ELSE sync.spawned - (i - 1) + 1 + j
    BY <1>4, <2>2
  <2> QED BY <1>1, <2>3
<1> QED BY <1>2, <1>3, <1>5, <1>7, <1>8 DEF Enough

(* ... and each look brings it nearer.                                     *)
LEMMA LookNears ==
  ASSUME TypeOK, Registered, StackInv, Counts, NEW u \in Threads, NEW t \in Threads,
         Victim(u), Enough(u, t)
  PROVE  from'[u] = t \/ Enough(u, t)'
<1> DEFINE L == Len(threads)
           v == IF target[u] = Nobody THEN Head(threads) ELSE target[u]
<1>1. /\ L \in Nat /\ DOMAIN threads = 1..L /\ sync.spawned \in Int /\ L =< sync.spawned
      /\ num_threads[u] \in Int /\ threads \in Seq(Threads)
  BY StackCounted DEF TypeOK
<1>2. /\ UNCHANGED <<threads, sync>> /\ num_threads'[u] = num_threads[u] - 1
      /\ from'[u] = v /\ target'[u] = NextOf(v)
  BY DEF Victim, PopFrame, TypeOK
<1>3. PICK j \in 1..L :
        /\ threads[j] = t
        /\ target[u] = Nobody => num_threads[u] >= j + (sync.spawned - L)
        /\ \A i \in 1..L : threads[i] = target[u] =>
             num_threads[u] >= IF i =< j THEN j - i + 1 ELSE sync.spawned - i + 1 + j
  BY <1>1 DEF Enough
<1> HIDE DEF L
<1>4. PICK i \in 1..L : /\ threads[i] = v
                        /\ target[u] = Nobody => i = 1
                        /\ target[u] # Nobody => threads[i] = target[u]
  <2>1. CASE target[u] = Nobody
    <3>1. 1 \in 1..L /\ Head(threads) = threads[1]
      BY <1>1, <1>3 DEF L
    <3> QED BY <2>1, <3>1
  <2>2. CASE target[u] # Nobody
    BY <1>1, <2>2 DEF Registered, OnStack
  <2> QED BY <2>1, <2>2
<1> HIDE DEF v
<1>5. NextOf(v) = IF i = L THEN Nobody ELSE threads[i + 1]
  <2>1. \A k \in DOMAIN threads : threads[k] = v => k = i
    BY <1>1, <1>4 DEF StackInv
  <2> DEFINE c == CHOOSE k \in DOMAIN threads : threads[k] = v
  <2>2. c = i
    BY <1>1, <1>4, <2>1
  <2>3. NextOf(v) = IF c = L THEN Nobody ELSE threads[c + 1]
    BY DEF NextOf, L
  <2> HIDE DEF c
  <2> QED BY <2>2, <2>3
<1>6. num_threads[u] >= IF i =< j THEN j - i + 1 ELSE sync.spawned - i + 1 + j
  <2>1. CASE target[u] = Nobody
    <3>1. i = 1 /\ num_threads[u] >= j + (sync.spawned - L)
      BY <1>3, <1>4, <2>1
    <3> QED BY <1>1, <3>1
  <2>2. CASE target[u] # Nobody
    BY <1>3, <1>4, <2>2
  <2> QED BY <2>1, <2>2
<1>7. SUFFICES ASSUME from'[u] # t PROVE Enough(u, t)'
  OBVIOUS
<1>8. i # j
  BY <1>2, <1>3, <1>4, <1>7
<1>9. target'[u] = Nobody => num_threads[u] - 1 >= j + (sync.spawned - L)
  <2> SUFFICES ASSUME target'[u] = Nobody PROVE num_threads[u] - 1 >= j + (sync.spawned - L)
    OBVIOUS
  <2>1. i = L
    <3> SUFFICES ASSUME i # L PROVE FALSE
      OBVIOUS
    <3>1. i + 1 \in 1..L
      BY <1>1
    <3>2. threads[i + 1] \in Threads
      BY <1>1, <3>1
    <3> QED BY <1>2, <1>5, <3>2, ThreadPoolAssumption
  <2> QED BY <1>1, <1>6, <1>8, <2>1
<1>10. ASSUME NEW k \in 1..L, threads[k] = target'[u]
       PROVE  num_threads[u] - 1 >= IF k =< j THEN j - k + 1 ELSE sync.spawned - k + 1 + j
  <2>1. i # L /\ k = i + 1
    <3>1. threads[k] \in Threads
      BY <1>1
    <3>2. i # L
      BY <1>2, <1>5, <1>10, <3>1, ThreadPoolAssumption
    <3>3. i + 1 \in 1..L /\ threads[i + 1] = threads[k]
      BY <1>1, <1>2, <1>5, <1>10, <3>2
    <3> QED BY <1>1, <3>2, <3>3 DEF StackInv
  <2> QED BY <1>1, <1>6, <1>8, <2>1
<1>11. /\ j \in DOMAIN threads /\ threads[j] = t
       /\ target'[u] = Nobody => num_threads'[u] >= j + (sync.spawned - Len(threads))
       /\ \A k \in DOMAIN threads :
            threads[k] = target'[u] =>
              num_threads'[u] >= IF k =< j THEN j - k + 1 ELSE sync.spawned - k + 1 + j
  BY <1>1, <1>2, <1>3, <1>9, <1>10 DEF L
<1>12. threads' = threads /\ sync' = sync
  BY <1>2
<1> QED BY <1>11, <1>12 DEF Enough

(* A round without looks left reaches nobody.                              *)
LEMMA RoundEnds ==
  ASSUME TypeOK, Registered, StackInv, Counts, NEW u \in Threads, NEW t \in Threads,
         num_threads[u] = 0
  PROVE  ~Enough(u, t)
<1> SUFFICES ASSUME Enough(u, t) PROVE FALSE
  OBVIOUS
<1> DEFINE L == Len(threads)
<1>1. L \in Nat /\ DOMAIN threads = 1..L /\ sync.spawned \in Int /\ L =< sync.spawned
  BY StackCounted
<1>2. PICK j \in 1..L :
        /\ target[u] = Nobody => 0 >= j + (sync.spawned - L)
        /\ \A i \in 1..L : threads[i] = target[u] =>
             0 >= IF i =< j THEN j - i + 1 ELSE sync.spawned - i + 1 + j
  BY <1>1 DEF Enough
<1> HIDE DEF L
<1>3. CASE target[u] = Nobody
  BY <1>1, <1>2, <1>3
<1>4. CASE target[u] # Nobody
  <2>1. PICK i \in 1..L : threads[i] = target[u]
    BY <1>1, <1>4 DEF Registered, OnStack
  <2>2. 0 >= IF i =< j THEN j - i + 1 ELSE sync.spawned - i + 1 + j
    BY <1>2, <2>1
  <2> QED BY <1>1, <2>2
<1> QED BY <1>3, <1>4

(* A thread that starts over, or a notification, is enough for all queues. *)
LEMMA RestartLooks == ASSUME Alerted' \/ Restart' PROVE Looked'
BY DEF Restart, Looked, LooksAtPool, LooksAt

LEMMA LooksKept ==
  ASSUME Looked, Alerted => Alerted',
         run_queue'[Pool] # {} =>
           /\ run_queue[Pool] # {}
           /\ \A u \in Threads : LooksAtPool(u) => LooksAtPool(u)' \/ Restart',
         \A t \in Threads : run_queue'[t] # {} =>
           /\ run_queue[t] # {}
           /\ \A u \in Threads : LooksAt(u, t) => LooksAt(u, t)' \/ Restart'
  PROVE  Looked'
<1>1. CASE Alerted' \/ Restart'
  BY <1>1, RestartLooks
<1>2. CASE ~Alerted' /\ ~Restart'
  BY <1>2 DEF Looked
<1> QED BY <1>1, <1>2

(* Nothing of it changes unless the pool's threads move.                   *)
LEMMA SameRound ==
  ASSUME UNCHANGED <<threads, target, num_threads>>, sync'.spawned = sync.spawned,
         NEW u, NEW t, UNCHANGED <<pc[u], from[u]>>
  PROVE  LooksAtPool(u)' = LooksAtPool(u) /\ LooksAt(u, t)' = LooksAt(u, t)
<1>1. Enough(u, t)' = Enough(u, t)
  BY DEF Enough
<1>2. Reaches(u, t)' = Reaches(u, t)
  BY <1>1 DEF Reaches
<1> QED BY <1>2 DEF LooksAtPool, LooksAt

LEMMA NotifyLooked ==
  ASSUME TypeOK, Looked, NEW p \in Procs, NotifyStep(p) \/ NotifySpawnFails(p)
  PROVE  Looked'
<1> USE DEF TypeOK, Sync, NGoto, queueVars, popVars
<1>1. CASE NotifyFast(p) \/ NotifySlow(p)
  <2>1. Alerted'
    <3>1. CASE NotifyFast(p)
      <4>1. CASE sync.notified
        BY <3>1, <4>1 DEF NotifyFast, Alerted
      <4>2. CASE ~sync.notified
        <5>1. npc'[p] = "slow"
          BY <3>1, <4>2 DEF NotifyFast
        <5> QED BY <5>1 DEF Alerted, On
      <4> QED BY <4>1, <4>2
    <3>2. CASE NotifySlow(p)
      BY <3>2 DEF NotifySlow, NotifyIdle, NotifyGrow, NotifyNobody, Alerted
    <3> QED BY <1>1, <3>1, <3>2
  <2> QED BY <2>1, RestartLooks
<1>2. CASE NotifyPost(p) \/ NotifySpawn(p) \/ NotifySpawnFails(p)
  <2>1. /\ UNCHANGED <<run_queue, threads, target, num_threads, from>>
        /\ sync'.notified = sync.notified
        /\ npc[p] \in {"post", "spawn"} /\ npc' = [npc EXCEPT ![p] = "out"]
    BY <1>2 DEF NotifyPost, NotifySpawn, NotifySpawnFails
  <2>2. Alerted => Alerted'
    BY <2>1 DEF Alerted, On
  <2>3. CASE NotifyPost(p) \/ NotifySpawn(p)
    <3>1. /\ sync' = sync
          /\ \A u \in Threads : pc'[u] = pc[u] \/ (pc[u] = "off" /\ pc'[u] = "register")
      BY <2>3 DEF NotifyPost, NotifySpawn, Goto
    <3>2. ASSUME NEW u \in Threads
          PROVE  /\ LooksAtPool(u) => LooksAtPool(u)'
                 /\ \A t \in Threads : LooksAt(u, t) => LooksAt(u, t)'
      <4>1. CASE pc'[u] = pc[u]
        <5>1. UNCHANGED <<pc[u], from[u]>> /\ sync'.spawned = sync.spawned
          BY <2>1, <3>1, <4>1
        <5>2. \A t \in Threads : LooksAtPool(u)' = LooksAtPool(u) /\ LooksAt(u, t)' = LooksAt(u, t)
          BY <2>1, <5>1, SameRound
        <5> QED BY <5>2
      <4>2. CASE pc[u] = "off"
        BY <4>2 DEF LooksAtPool, LooksAt, Reaches, Later
      <4> QED BY <3>1, <4>1, <4>2
    <3> QED BY <2>1, <2>2, <3>2, LooksKept
  <2>4. CASE NotifySpawnFails(p)
    <3>1. /\ pc' = pc /\ sync'.spawned = sync.spawned - 1 /\ sync.spawned \in Int
          /\ num_threads \in [Threads -> Int] /\ Len(threads) \in Nat
          /\ DOMAIN threads = 1..Len(threads)
      BY <2>4 DEF NotifySpawnFails
    <3>2. ASSUME NEW u \in Threads, NEW t \in Threads, Enough(u, t) PROVE Enough(u, t)'
      <4>1. PICK j \in 1..Len(threads) :
              /\ threads[j] = t
              /\ target[u] = Nobody => num_threads[u] >= j + (sync.spawned - Len(threads))
              /\ \A i \in 1..Len(threads) : threads[i] = target[u] =>
                   num_threads[u] >= IF i =< j THEN j - i + 1 ELSE sync.spawned - i + 1 + j
        BY <3>1, <3>2 DEF Enough
      <4>2. num_threads[u] \in Int
        BY <3>1
      <4>3. target[u] = Nobody
              => num_threads[u] >= j + (sync.spawned - 1 - Len(threads))
        BY <3>1, <4>1, <4>2
      <4>4. ASSUME NEW i \in 1..Len(threads), threads[i] = target[u]
            PROVE  num_threads[u] >= IF i =< j THEN j - i + 1
                                     ELSE sync.spawned - 1 - i + 1 + j
        <5>1. num_threads[u] >= IF i =< j THEN j - i + 1 ELSE sync.spawned - i + 1 + j
          BY <4>1, <4>4
        <5> QED BY <3>1, <4>2, <5>1
      <4>5. /\ UNCHANGED <<threads, target, num_threads>>
            /\ sync'.spawned = sync.spawned - 1
            /\ j \in DOMAIN threads
        BY <2>1, <3>1
      <4> HIDE DEF TypeOK, Sync
      <4>6. /\ threads'[j] = t
            /\ target'[u] = Nobody
                 => num_threads'[u] >= j + (sync'.spawned - Len(threads'))
            /\ \A i \in DOMAIN threads' : threads'[i] = target'[u] =>
                 num_threads'[u] >= IF i =< j THEN j - i + 1 ELSE sync'.spawned - i + 1 + j
        BY <3>1, <4>1, <4>3, <4>4, <4>5
      <4> QED BY <4>5, <4>6 DEF Enough
    <3>3. ASSUME NEW u \in Threads
          PROVE  /\ LooksAtPool(u) => LooksAtPool(u)'
                 /\ \A t \in Threads : LooksAt(u, t) => LooksAt(u, t)'
      BY <2>1, <3>1, <3>2 DEF LooksAtPool, LooksAt, Reaches
    <3> QED BY <2>1, <2>2, <3>3, LooksKept
  <2> QED BY <1>2, <2>3, <2>4
<1> QED BY <1>1, <1>2 DEF NotifyStep

LEMMA ScheduleLooked ==
  ASSUME TypeOK, NEW k \in Tasks,
         \/ \E c \in Clients : ClientSchedule(c, k)
         \/ \E t \in Threads : ThreadSchedule(t, k) \/ Overflow(t, k)
  PROVE  Looked'
<1> USE DEF TypeOK, Procs
<1>1. ASSUME NEW c \in Clients, ClientSchedule(c, k) PROVE Alerted'
  <2>1. npc'[c] \in {"fast", "slow"}
    BY <1>1 DEF ClientSchedule, CallNotify
  <2> QED BY <2>1 DEF Alerted, On
<1>2. ASSUME NEW t \in Threads, ThreadSchedule(t, k) \/ Overflow(t, k) PROVE Restart'
  BY <1>2 DEF ThreadSchedule, Overflow, Running, ThreadFrame, Restart, Later
<1> QED BY <1>1, <1>2, RestartLooks

LEMMA RunLooked ==
  ASSUME TypeOK, Registered, StackInv, Counts, Inside, Looked, NEW t \in Threads,
         RunStep(t) \/ WaitWoken(t), ~PopStep(t)
  PROVE  Looked'
<1> USE DEF TypeOK, Goto, queueVars, popVars
<1>1. CASE Got(t) \/ Start(t) \/ CallbackReturns(t) \/ PushOverflow(t) \/ WaitNotified(t)
  <2>1. Restart'
    BY <1>1 DEF Got, Start, CallbackReturns, PushOverflow, ThreadFrame, WaitNotified, Inside,
                Restart, Later
  <2> QED BY <2>1, RestartLooks
<1>2. CASE Register(t)
  <2>1. /\ UNCHANGED <<run_queue, sync, npc, target, num_threads, from>>
        /\ pc[t] = "register" /\ \A u \in Threads \ {t} : pc'[u] = pc[u]
    BY <1>2 DEF Register
  <2>2. Alerted => Alerted'
    BY <2>1 DEF Alerted, On
  <2>3. ASSUME NEW u \in Threads
        PROVE  /\ LooksAtPool(u) => LooksAtPool(u)'
               /\ \A v \in Threads : LooksAt(u, v) => LooksAt(u, v)'
    <3>1. CASE u = t
      BY <2>1, <3>1 DEF LooksAtPool, LooksAt, Reaches, Later
    <3>2. CASE u # t
      BY <1>2, <2>1, <3>2, RegisterKeepsRound DEF LooksAtPool, LooksAt, Reaches
    <3> QED BY <3>1, <3>2
  <2> QED BY <2>1, <2>2, <2>3, LooksKept
<1>3. CASE WaitIdle(t) \/ WaitSleep(t) \/ WaitWoken(t)
  <2>1. /\ UNCHANGED <<run_queue, npc, threads, target, num_threads, from>>
        /\ sync'.spawned = sync.spawned /\ sync'.notified = sync.notified
        /\ pc[t] \in {"wait", "sleep"} /\ \A u \in Threads \ {t} : pc'[u] = pc[u]
    BY <1>3 DEF WaitIdle, WaitSleep, WaitWoken, Sync
  <2>2. Alerted => Alerted'
    BY <2>1 DEF Alerted, On
  <2>3. ASSUME NEW u \in Threads
        PROVE  /\ LooksAtPool(u) => LooksAtPool(u)'
               /\ \A v \in Threads : LooksAt(u, v) => LooksAt(u, v)'
    <3>1. CASE u = t
      BY <2>1, <3>1 DEF LooksAtPool, LooksAt, Reaches, Later
    <3>2. CASE u # t
      BY <2>1, <3>2, SameRound
    <3> QED BY <3>1, <3>2
  <2> QED BY <2>1, <2>2, <2>3, LooksKept
<1> QED BY <1>1, <1>2, <1>3 DEF RunStep

(* The thread is done with the queue it looked at: it takes from it, it is *)
(* empty, or somebody else takes from it, who will start over.             *)
LEMMA ConsumeLooks ==
  ASSUME TypeOK, NEW t \in Threads, NEW o \in Owners, NEW next, Consume(t, o, next),
         pc[t] \notin {"take", "publish", "release"}
  PROVE  Restart' \/ (run_queue[o] = {} /\ pc'[t] = next)
<1>1. pc' = [pc EXCEPT ![t] = IF Consuming(o) \/ run_queue[o] = {} THEN next ELSE "take"]
  BY DEF Consume
<1>2. CASE Consuming(o)
  <2>1. PICK u \in Threads : pc[u] \in {"take", "publish", "release"}
    BY <1>2 DEF Consuming, Consumes
  <2>2. pc'[u] = pc[u]
    BY <1>1, <2>1 DEF TypeOK
  <2> QED BY <2>1, <2>2 DEF Restart, Later
<1>3. CASE ~Consuming(o) /\ run_queue[o] # {}
  BY <1>1, <1>3 DEF TypeOK, Restart, Later
<1>4. CASE ~Consuming(o) /\ run_queue[o] = {}
  BY <1>1, <1>4 DEF TypeOK
<1> QED BY <1>2, <1>3, <1>4

LEMMA PopLooked ==
  ASSUME TypeOK, Registered, StackInv, Counts, Filled, Looked, NEW t \in Threads, PopStep(t)
  PROVE  Looked'
<1> USE DEF TypeOK, Goto, queueVars, popVars
<1>1. sync' = sync /\ npc' = npc /\ threads' = threads /\ (Alerted => Alerted')
  BY DEF PopStep, PopBuffer, ConsumeOwn, ConsumePool, ConsumeTarget, Consume, Take,
         Publish, PublishStolen, Keep, Release, Count, Victim, NothingFound, Steal,
         NothingToSteal, PopFrame, Alerted, On
<1>2. CASE \/ PopBuffer(t) \/ Take(t) \/ Publish(t) \/ Release(t) \/ Steal(t)
           \/ PublishStolen(t)
  <2>1. Restart'
    BY <1>2 DEF PopBuffer, Take, Publish, Release, Steal, PublishStolen, Restart, Later
  <2> QED BY <2>1, RestartLooks
<1>3. CASE ConsumeOwn(t) \/ ConsumePool(t) \/ ConsumeTarget(t)
  <2>1. PICK o \in Owners, next \in {"pool", "count", "buffer"} :
          /\ Consume(t, o, next)
          /\ \/ pc[t] = "pop" /\ o = t /\ next = "pool"
             \/ pc[t] = "pool" /\ o = Pool /\ next = "count"
             \/ pc[t] = "queue" /\ o = from[t] /\ next = "buffer"
    BY <1>3 DEF ConsumeOwn, ConsumePool, ConsumeTarget, Owners
  <2>2. CASE Restart'
    BY <2>2, RestartLooks
  <2>3. CASE ~Restart'
    <3>1. run_queue[o] = {} /\ pc'[t] = next
      BY <2>1, <2>3, ConsumeLooks
    <3>2. /\ UNCHANGED <<run_queue, threads, sync, target, num_threads>>
          /\ \A u \in Threads \ {t} : pc'[u] = pc[u] /\ from'[u] = from[u]
      BY <1>1, <2>1 DEF Consume
    <3>3. ASSUME NEW u \in Threads, LooksAtPool(u), run_queue[Pool] # {}
          PROVE  LooksAtPool(u)'
      <4>1. CASE u = t
        BY <2>1, <3>1, <3>3, <4>1 DEF LooksAtPool, Later
      <4>2. CASE u # t
        BY <3>2, <3>3, <4>2 DEF LooksAtPool
      <4> QED BY <4>1, <4>2
    <3>4. ASSUME NEW u \in Threads, NEW v \in Threads, LooksAt(u, v), run_queue[v] # {}
          PROVE  LooksAt(u, v)'
      <4>1. CASE u = t
        <5>1. Enough(u, v)' <=> Enough(u, v)
          BY <3>2 DEF Enough
        <5> QED BY <2>1, <3>1, <3>4, <4>1, <5>1 DEF LooksAt, Reaches, Later
      <4>2. CASE u # t
        BY <3>2, <3>4, <4>2, SameRound
      <4> QED BY <4>1, <4>2
    <3> QED BY <1>1, <3>2, <3>3, <3>4, LooksKept
  <2> QED BY <2>2, <2>3
<1>4. CASE Count(t) \/ Victim(t) \/ NothingFound(t) \/ NothingToSteal(t)
  <2>1. /\ run_queue' = run_queue /\ pc[t] \in {"count", "victim", "buffer"}
        /\ \A u \in Threads \ {t} : /\ pc'[u] = pc[u] /\ from'[u] = from[u]
                                    /\ target'[u] = target[u]
                                    /\ num_threads'[u] = num_threads[u]
    BY <1>4 DEF Count, Victim, NothingFound, NothingToSteal
  <2>2. ASSUME NEW u \in Threads, LooksAtPool(u) PROVE LooksAtPool(u)'
    BY <2>1, <2>2 DEF LooksAtPool, Later
  <2>3. ASSUME NEW u \in Threads, NEW v \in Threads, LooksAt(u, v), run_queue[v] # {}
        PROVE  LooksAt(u, v)'
    <3>1. CASE u # t
      <4>1. Enough(u, v)' <=> Enough(u, v)
        BY <1>1, <2>1, <3>1 DEF Enough
      <4> QED BY <2>1, <2>3, <3>1, <4>1 DEF LooksAt, Reaches
    <3>2. CASE u = t /\ Count(t)
      <4>1. OnStack(v)
        BY <2>3 DEF Filled, Registered
      <4>2. Enough(u, v)'
        BY <3>2, <4>1, RoundBegins
      <4>3. pc'[u] = "victim"
        BY <3>2 DEF Count
      <4> QED BY <4>2, <4>3 DEF LooksAt, Reaches
    <3>3. CASE u = t /\ Victim(t)
      <4>1. Enough(u, v)
        BY <2>3, <3>3 DEF Victim, LooksAt, Reaches, Later
      <4>2. from'[u] = v \/ Enough(u, v)'
        BY <3>3, <4>1, LookNears
      <4>3. pc'[u] = "queue"
        BY <3>3 DEF Victim
      <4> QED BY <4>2, <4>3 DEF LooksAt, Reaches
    <3>4. CASE u = t /\ NothingFound(t)
      <4>1. Enough(u, v) /\ num_threads[u] = 0
        BY <2>3, <3>4 DEF NothingFound, LooksAt, Reaches, Later
      <4> QED BY <4>1, RoundEnds
    <3>5. CASE u = t /\ NothingToSteal(t)
      <4>1. Enough(u, v) /\ pc'[u] = "victim" /\ UNCHANGED <<target, num_threads>>
        BY <2>3, <3>5 DEF NothingToSteal, LooksAt, Reaches, Later
      <4>2. Enough(u, v)'
        BY <1>1, <4>1 DEF Enough
      <4> QED BY <4>1, <4>2 DEF LooksAt, Reaches
    <3> QED BY <1>4, <3>1, <3>2, <3>3, <3>4, <3>5
  <2> QED BY <1>1, <2>1, <2>2, <2>3, LooksKept
<1> QED BY <1>2, <1>3, <1>4 DEF PopStep

LEMMA NextLooked ==
  ASSUME TypeOK, Registered, Inside, StackInv, Counts, Filled, Looked, [Next]_vars
  PROVE  Looked'
<1>1. CASE UNCHANGED vars
  <2>1. /\ UNCHANGED <<run_queue, sync, threads, target, num_threads, pc, from, npc>>
    BY <1>1 DEF vars, queueVars, popVars
  <2>2. Alerted => Alerted'
    BY <2>1 DEF Alerted, On
  <2>3. \A u, t : LooksAtPool(u)' = LooksAtPool(u) /\ LooksAt(u, t)' = LooksAt(u, t)
    BY <2>1, SameRound
  <2> QED BY <2>1, <2>2, <2>3, LooksKept
<1> QED BY <1>1, NotifyLooked, ScheduleLooked, RunLooked, PopLooked DEF Next, RunStep

QuietInv == StackInv /\ WakeInv /\ Filled /\ Looked

LEMMA InitQuiet == Init => QuietInv
<1> SUFFICES ASSUME Init PROVE QuietInv
  OBVIOUS
<1> USE DEF Init
<1>1. threads = <<>> /\ DOMAIN threads = {}
  OBVIOUS
<1>2. StackInv
  BY <1>1 DEF StackInv
<1>3. WakeInv
  BY DEF WakeInv, Roles, Signals
<1>4. Filled /\ Looked
  BY DEF Filled, Looked, Owners
<1> QED BY <1>2, <1>3, <1>4 DEF QuietInv

LEMMA QuietInvIsDone ==
  ASSUME TypeOK, Inside, PlaceInv, QuietInv PROVE QuietMeansDone
<1> SUFFICES ASSUME ~Stirring, NEW k \in scheduled, token[k] = "initialized"
             PROVE  SpawnMayFail /\ sync.state = "signaled"
  BY DEF QuietMeansDone
<1>1. /\ \A p \in Procs : npc[p] = "out"
      /\ ~idle_token /\ \A t \in Threads : pc[t] \in {"off", "sleep"}
  BY DEF Stirring
<1>2. k \in Tasks /\ Due(k)
  BY DEF Due, TypeOK
<1>3. PICK x \in Boxes : k \in box[x]
  BY <1>2 DEF PlaceInv, Covered, Holds
<1>4. \E o \in Owners : k \in run_queue[o]
  <2>1. \A t \in Threads : run_buffer[t] = {} /\ overflow[t] = {}
    BY <1>1 DEF QuietInv, Filled, Inside
  <2>2. \A t \in Threads : hold[t] = {}
    BY <1>1 DEF PlaceInv, Hands, HandsOf, Found, Carries
  <2>3. \A t \in Threads : k \notin box[HandOf(t)]
    BY <1>1, <2>2, BoxIs
  <2>4. ~\E t \in Threads : x = BufferOf(t) \/ x = OverflowOf(t) \/ x = HandOf(t)
    BY <1>3, <2>1, <2>3, BoxIs
  <2> QED BY <1>3, <2>4, BoxIs, EveryBox
<1>5. ~\E u \in Threads : pc[u] \in Later \cup {"pool", "count", "victim", "queue", "buffer"}
  BY <1>1 DEF Later
<1>6. Alerted
  BY <1>4, <1>5 DEF QuietInv, Looked, LooksAtPool, LooksAt, Reaches, Owners
<1>7. sync.notified
  BY <1>1, <1>6 DEF Alerted, On
<1>8. ~SomeAwake
  BY <1>1 DEF SomeAwake, Awake
<1> QED BY <1>1, <1>7, <1>8 DEF QuietInv, WakeInv, Signals, On

LEMMA QuietInvariance == SafeSpec => []QuietInv
<1>1. PoolInv /\ QuietInv /\ [Next]_vars => QuietInv'
  BY NextStack, NextWake, NextFilled, NextLooked DEF PoolInv, IInv, QuietInv
<1> QED BY <1>1, InitQuiet, PoolInvariance, PTL DEF SafeSpec

(* A pool where nobody moves has no task left in a queue or a buffer, or   *)
(* it waits for a thread that could not be created                         *)
(* (thread_pool.zig:136-239).                                              *)
THEOREM QuietIsDone == SafeSpec => []QuietMeansDone
<1>1. PoolInv /\ QuietInv => QuietMeansDone
  BY QuietInvIsDone DEF PoolInv, IInv
<1> QED BY <1>1, QuietInvariance, PoolInvariance, PTL
-----------------------------------------------------------------------------
(* The queues and buffers as TaskSets has them: a queue has one consumer.  *)
Taking(t) == pc[t] \in {"take", "publish", "release"}
Sole == \A t, u \in Threads : Taking(t) /\ Taking(u) /\ from[t] = from[u] => t = u

(* Who goes on consuming, does so from the same queue.                     *)
Keeps(t) == (Taking(t)' <=> Taking(t)) /\ (Taking(t) => from'[t] = from[t])

LEMMA ConsumerIs ==
  ASSUME TypeOK, Sole
  PROVE  /\ DOMAIN Consumer = Owners
         /\ \A t \in Threads : Taking(t) => Consumer[from[t]] = t
         /\ \A o \in Owners : ~Consuming(o) => Consumer[o] = Nobody
<1>1. ASSUME NEW t \in Threads, Taking(t) PROVE Consumer[from[t]] = t
  <2>1. from[t] \in Owners
    BY DEF TypeOK
  <2>2. Consumes(t, from[t]) /\ Consuming(from[t])
    BY <1>1 DEF Consumes, Consuming, Taking
  <2>3. \A u \in Threads : Consumes(u, from[t]) => u = t
    BY <1>1 DEF Sole, Consumes, Taking
  <2> QED BY <2>1, <2>2, <2>3 DEF Consumer
<1> QED BY <1>1 DEF Consumer

LEMMA ConsumerWillBe ==
  ASSUME TypeOK', Sole'
  PROVE  /\ DOMAIN Consumer' = Owners
         /\ \A t \in Threads : Taking(t)' => Consumer'[from'[t]] = t
         /\ \A o \in Owners : ~Consuming(o)' => Consumer'[o] = Nobody
<1>1. ASSUME NEW t \in Threads, NEW o \in Owners, Taking(t)', from'[t] = o
      PROVE  Consumer'[o] = t
  <2>1. Consumes(t, o)' /\ Consuming(o)'
    BY <1>1 DEF Consumes, Consuming, Taking
  <2>2. \A u \in Threads : Consumes(u, o)' => u = t
    BY <1>1 DEF Sole, Consumes, Taking
  <2> QED BY <2>1, <2>2 DEF Consumer
<1>2. \A t \in Threads : from'[t] \in Owners
  BY DEF TypeOK
<1> QED BY <1>1, <1>2 DEF Consumer

LEMMA SameConsumer ==
  ASSUME TypeOK, Sole, TypeOK', Sole', \A t \in Threads : Keeps(t)
  PROVE  Consumer' = Consumer
<1>1. ASSUME NEW o \in Owners PROVE Consumer'[o] = Consumer[o]
  <2>1. CASE Consuming(o)
    <3>1. PICK t \in Threads : Taking(t) /\ from[t] = o
      BY <2>1 DEF Consuming, Consumes, Taking
    <3>2. Taking(t)' /\ from'[t] = o
      BY <3>1 DEF Keeps
    <3> QED BY <3>1, <3>2, ConsumerIs, ConsumerWillBe
  <2>2. CASE ~Consuming(o)
    <3>1. ~Consuming(o)'
      BY <2>2 DEF Consuming, Consumes, Keeps, Taking
    <3> QED BY <2>2, <3>1, ConsumerIs, ConsumerWillBe
  <2> QED BY <2>1, <2>2
<1>2. /\ Consumer = [o \in Owners |-> Consumer[o]]
      /\ Consumer' = [o \in Owners |-> Consumer'[o]]
  BY DEF Consumer
<1> QED BY <1>1, <1>2

(* A thread begins to consume a queue that nobody consumes.                *)
Acquires(t, o) == /\ ~Consuming(o) /\ run_queue[o] # {} /\ ~Taking(t)
                  /\ pc' = [pc EXCEPT ![t] = "take"]
                  /\ from' = [from EXCEPT ![t] = o]

AllKeep == \A u \in Threads : Keeps(u)

LEMMA NotifyKeeps ==
  ASSUME TypeOK, NEW p \in Procs, NotifyStep(p) \/ NotifySpawnFails(p) PROVE AllKeep
<1>1. from' = from
  BY DEF NotifyStep, NotifyFast, NotifySlow, NotifyPost, NotifySpawn, NotifySpawnFails,
         popVars
<1>2. pc' = pc \/ \E t \in Threads : Goto(t, "off", "register")
  BY DEF NotifyStep, NotifyFast, NotifySlow, NotifyPost, NotifySpawn, NotifySpawnFails
<1> QED BY <1>1, <1>2 DEF AllKeep, Keeps, Taking, Goto, TypeOK

LEMMA ScheduleKeeps ==
  ASSUME NEW k \in Tasks,
         \/ \E c \in Clients : ClientSchedule(c, k)
         \/ \E t \in Threads : ThreadSchedule(t, k) \/ Overflow(t, k)
  PROVE  AllKeep
<1>1. pc' = pc /\ from' = from
  BY DEF ClientSchedule, ThreadSchedule, Overflow, ThreadFrame, popVars
<1> QED BY <1>1 DEF AllKeep, Keeps, Taking

LEMMA RunKeeps ==
  ASSUME TypeOK, NEW t \in Threads, RunStep(t) \/ WaitWoken(t), ~PopStep(t) PROVE AllKeep
<1> USE DEF TypeOK, AllKeep, Keeps, Taking
<1>1. CASE Register(t) \/ WaitNotified(t) \/ WaitIdle(t) \/ WaitSleep(t) \/ WaitWoken(t)
  BY <1>1 DEF Register, WaitNotified, WaitIdle, WaitSleep, WaitWoken, Goto, popVars
<1>2. CASE Got(t) \/ Start(t) \/ CallbackReturns(t) \/ PushOverflow(t)
  BY <1>2 DEF Got, Start, CallbackReturns, PushOverflow, ThreadFrame, Goto, popVars
<1> QED BY <1>1, <1>2 DEF RunStep

LEMMA ConsumeKeeps ==
  ASSUME TypeOK, NEW t \in Threads, NEW o \in Owners, NEW next \in {"pool", "count", "buffer"},
         pc[t] \in {"pop", "pool", "queue"}, Consume(t, o, next)
  PROVE  AllKeep \/ Acquires(t, o)
<1>1. CASE Consuming(o) \/ run_queue[o] = {}
  <2>1. pc' = [pc EXCEPT ![t] = next] /\ from' = [from EXCEPT ![t] = o]
    BY <1>1 DEF Consume
  <2> QED BY <2>1 DEF AllKeep, Keeps, Taking, TypeOK
<1>2. CASE ~(Consuming(o) \/ run_queue[o] = {})
  BY <1>2 DEF Consume, Acquires, Taking
<1> QED BY <1>1, <1>2

LEMMA PopKeeps ==
  ASSUME TypeOK, NEW t \in Threads, PopStep(t)
  PROVE  AllKeep \/ (\E o \in Owners : Acquires(t, o)) \/ Release(t)
<1> USE DEF TypeOK
<1>1. CASE ConsumeOwn(t) \/ ConsumePool(t) \/ ConsumeTarget(t)
  <2>1. \E o \in Owners, next \in {"pool", "count", "buffer"} :
          pc[t] \in {"pop", "pool", "queue"} /\ Consume(t, o, next)
    BY <1>1 DEF ConsumeOwn, ConsumePool, ConsumeTarget, Owners
  <2> QED BY <2>1, ConsumeKeeps
<1>2. CASE PopBuffer(t) \/ Take(t) \/ Publish(t) \/ Count(t) \/ NothingFound(t)
  BY <1>2 DEF PopBuffer, Take, Publish, Keep, Count, NothingFound, Goto, popVars, AllKeep,
              Keeps, Taking
<1>3. CASE Steal(t) \/ PublishStolen(t) \/ NothingToSteal(t)
  BY <1>3 DEF Steal, PublishStolen, Keep, NothingToSteal, Goto, popVars, AllKeep, Keeps,
              Taking
<1>4. CASE Victim(t)
  BY <1>4 DEF Victim, Goto, AllKeep, Keeps, Taking
<1> QED BY <1>1, <1>2, <1>3, <1>4 DEF PopStep

LEMMA StepConsumes ==
  ASSUME TypeOK, [Next]_vars
  PROVE  AllKeep \/ \E t \in Threads : (\E o \in Owners : Acquires(t, o)) \/ Release(t)
<1>1. CASE UNCHANGED vars
  BY <1>1 DEF vars, popVars, AllKeep, Keeps, Taking
<1> QED BY <1>1, NotifyKeeps, ScheduleKeeps, RunKeeps, PopKeeps DEF Next

LEMMA AcquiresIs ==
  ASSUME TypeOK, NEW t \in Threads, NEW o \in Owners, Acquires(t, o)
  PROVE  /\ ~Taking(t) /\ Taking(t)' /\ from'[t] = o
         /\ \A u \in Threads : u # t => Keeps(u)
         /\ \A u \in Threads : ~(Taking(u) /\ from[u] = o)
BY DEF Acquires, Keeps, Taking, TypeOK, Consuming, Consumes

LEMMA ReleaseIs ==
  ASSUME TypeOK, NEW t \in Threads, Release(t)
  PROVE  /\ Taking(t) /\ ~Taking(t)' /\ from' = from
         /\ \A u \in Threads : u # t => Keeps(u)
BY DEF Release, Goto, popVars, Keeps, Taking, TypeOK

LEMMA NextSole == ASSUME TypeOK, Sole, [Next]_vars PROVE Sole'
<1>1. CASE AllKeep
  BY <1>1 DEF AllKeep, Keeps, Sole
<1>2. ASSUME NEW t \in Threads, NEW o \in Owners, Acquires(t, o) PROVE Sole'
  <2>1. /\ Taking(t)' /\ from'[t] = o
        /\ \A u \in Threads : u # t => Keeps(u)
        /\ \A u \in Threads : ~(Taking(u) /\ from[u] = o)
    BY <1>2, AcquiresIs
  <2> QED BY <2>1 DEF Keeps, Sole
<1>3. ASSUME NEW t \in Threads, Release(t) PROVE Sole'
  <2>1. /\ ~Taking(t)' /\ from' = from
        /\ \A u \in Threads : u # t => Keeps(u)
    BY <1>3, ReleaseIs
  <2> QED BY <2>1 DEF Keeps, Sole
<1> QED BY <1>1, <1>2, <1>3, StepConsumes

LEMMA NextFinite ==
  ASSUME TypeOK, PlaceInv, IsFiniteSet(scheduled), [Next]_vars PROVE IsFiniteSet(scheduled')
<1>1. \/ scheduled' = scheduled
      \/ \E k \in Tasks : scheduled' = scheduled \cup {k}
  <2>1. ASSUME NEW t \in Threads, Start(t) \/ CallbackReturns(t)
        PROVE  scheduled' = scheduled
    BY <2>1 DEF Start, CallbackReturns
  <2> QED BY <2>1, StepKinds
<1> QED BY <1>1, FS_AddElement

(* What a thread has taken is a finite part of it.                         *)
LEMMA HeldFinite ==
  ASSUME TypeOK, PlaceInv, IsFiniteSet(scheduled), NEW t \in Threads, pc[t] # "run"
  PROVE  IsFiniteSet(hold[t])
<1>1. ASSUME NEW k \in hold[t] PROVE k \in scheduled
  <2>1. box[HandOf(t)] = hold[t] /\ HandOf(t) \in Boxes /\ k \in Tasks
    BY BoxIs DEF TypeOK
  <2> QED BY <2>1 DEF PlaceInv, Covered, Holds, Due
<1> QED BY <1>1, FS_Subset

(* What TaskSets sees of a step: it counts as this module does, ...        *)
LEMMA SetsCardinality == \A S : Sets!Cardinality(S) = Cardinality(S)
BY DEF Cardinality, Sets!Cardinality, IsFiniteSet, Sets!IsFiniteSet

(* ... a thread that looks for a task has none, ...                        *)
LEMMA LooksIdle ==
  ASSUME Inside, PlaceInv, NEW t \in Threads,
         pc[t] \notin {"run", "start", "got", "release", "publish", "stolen"}
  PROVE  Sets!Idle(t)
<1>1. hold[t] = {}
  BY DEF PlaceInv, Hands, HandsOf, Found, Carries
<1>2. overflow[t] = {}
  BY DEF Inside
<1> QED BY <1>1, <1>2 DEF Sets!Idle

(* ... one that runs a callback has the callback's.                        *)
LEMMA RunsBusy ==
  ASSUME PlaceInv, NEW t \in Threads, pc[t] = "run", overflow[t] = {}
  PROVE  Sets!Busy(t)
<1>1. PICK k \in Tasks : hold[t] = {k}
  BY DEF PlaceInv, Hands, HandsOf, Found
<1>2. Cardinality(hold[t]) = 1
  BY <1>1, FS_Singleton
<1> QED BY <1>2, SetsCardinality DEF Sets!Busy

SameSets == UNCHANGED <<queueVars, hold, scheduled>>

LEMMA SetsSame ==
  ASSUME SameSets, Consumer' = Consumer PROVE UNCHANGED Sets!vars
BY DEF SameSets, queueVars, Sets!vars

LEMMA AcquireConsumer ==
  ASSUME TypeOK, Sole, TypeOK', Sole', NEW t \in Threads, NEW o \in Owners, Acquires(t, o)
  PROVE  Consumer[o] = Nobody /\ Consumer' = [Consumer EXCEPT ![o] = t]
<1>1. /\ Taking(t)' /\ from'[t] = o /\ ~Taking(t)
      /\ \A u \in Threads : u # t => Keeps(u)
      /\ \A u \in Threads : ~(Taking(u) /\ from[u] = o)
  BY AcquiresIs
<1>2. Consumer'[o] = t
  BY <1>1, ConsumerWillBe
<1>3. ASSUME NEW q \in Owners, q # o PROVE Consumer'[q] = Consumer[q]
  <2>1. CASE Consuming(q)
    <3>1. PICK u \in Threads : Taking(u) /\ from[u] = q
      BY <2>1 DEF Consuming, Consumes, Taking
    <3>2. Taking(u)' /\ from'[u] = q
      BY <1>1, <3>1 DEF Keeps
    <3> QED BY <3>1, <3>2, ConsumerIs, ConsumerWillBe
  <2>2. CASE ~Consuming(q)
    <3>1. \A u \in Threads : ~(Taking(u) /\ from[u] = q)
      BY <2>2 DEF Consuming, Consumes, Taking
    <3>2. \A u \in Threads : ~(Taking(u)' /\ from'[u] = q)
      BY <1>1, <1>3, <3>1 DEF Keeps
    <3>3. ~Consuming(q)'
      BY <3>2 DEF Consuming, Consumes, Taking
    <3> QED BY <2>2, <3>3, ConsumerIs, ConsumerWillBe
  <2> QED BY <2>1, <2>2
<1>4. /\ Consumer = [q \in Owners |-> Consumer[q]]
      /\ Consumer' = [q \in Owners |-> Consumer'[q]]
  BY DEF Consumer
<1>5. Consumer[o] = Nobody
  BY ConsumerIs DEF Acquires
<1> QED BY <1>2, <1>3, <1>4, <1>5

LEMMA ReleaseConsumer ==
  ASSUME TypeOK, Sole, TypeOK', Sole', NEW t \in Threads, Release(t)
  PROVE  /\ from[t] \in Owners /\ Consumer[from[t]] = t
         /\ Consumer' = [Consumer EXCEPT ![from[t]] = Nobody]
<1>1. /\ Taking(t) /\ ~Taking(t)' /\ from' = from
      /\ \A u \in Threads : u # t => Keeps(u)
  BY ReleaseIs
<1>2. from[t] \in Owners
  BY DEF TypeOK
<1>3. \A u \in Threads : Taking(u)' => Taking(u) /\ u # t
  BY <1>1 DEF Keeps
<1>4. Consumer'[from[t]] = Nobody
  <2>1. \A q \in Owners : q = from[t] => ~Consuming(q)'
    BY <1>1, <1>3 DEF Sole, Consuming, Consumes, Taking
  <2> QED BY <1>2, <2>1, ConsumerWillBe
<1>5. ASSUME NEW q \in Owners, q # from[t] PROVE Consumer'[q] = Consumer[q]
  <2>1. CASE Consuming(q)
    <3>1. PICK u \in Threads : Taking(u) /\ from[u] = q
      BY <2>1 DEF Consuming, Consumes, Taking
    <3>2. Taking(u)' /\ from'[u] = q
      BY <1>1, <1>5, <3>1 DEF Keeps
    <3> QED BY <3>1, <3>2, ConsumerIs, ConsumerWillBe
  <2>2. CASE ~Consuming(q)
    <3>1. ~Consuming(q)'
      BY <1>1, <1>3, <2>2 DEF Consuming, Consumes, Taking
    <3> QED BY <2>2, <3>1, ConsumerIs, ConsumerWillBe
  <2> QED BY <2>1, <2>2
<1>6. /\ Consumer = [q \in Owners |-> Consumer[q]]
      /\ Consumer' = [q \in Owners |-> Consumer'[q]]
  BY DEF Consumer
<1> QED BY <1>1, <1>2, <1>4, <1>5, <1>6, ConsumerIs

LEMMA SchedulePuts ==
  ASSUME NEW c \in Clients, NEW k \in Tasks, ClientSchedule(c, k), Consumer' = Consumer
  PROVE  Sets!Next
<1>1. Sets!Put(k)
  BY DEF ClientSchedule, Schedule, Sets!Put, Sets!New, popVars
<1> QED BY <1>1 DEF Sets!Next

LEMMA SchedulePushes ==
  ASSUME PlaceInv, NEW t \in Threads, NEW k \in Tasks,
         ThreadSchedule(t, k) \/ Overflow(t, k), Consumer' = Consumer
  PROVE  Sets!Next
<1>1. Sets!Busy(t)
  BY RunsBusy DEF ThreadSchedule, Overflow, Running
<1>2. CASE ThreadSchedule(t, k)
  <2>1. Sets!Push(t, k)
    BY <1>1, <1>2, SetsCardinality
       DEF ThreadSchedule, Schedule, ThreadFrame, Sets!Push, Sets!New, popVars
  <2> QED BY <2>1 DEF Sets!Next
<1>3. CASE Overflow(t, k)
  <2>1. Sets!Overflow(t, k)
    BY <1>1, <1>3, SetsCardinality
       DEF Overflow, Schedule, ThreadFrame, Sets!Overflow, Sets!New, popVars
  <2> QED BY <2>1 DEF Sets!Next
<1> QED BY <1>2, <1>3

LEMMA RunMaps ==
  ASSUME TypeOK, PlaceInv, NEW t \in Threads, RunStep(t) \/ WaitWoken(t), ~PopStep(t),
         Consumer' = Consumer
  PROVE  Sets!Next \/ UNCHANGED Sets!vars
<1>1. CASE PushOverflow(t)
  <2>1. Sets!PushOverflow(t)
    BY <1>1 DEF PushOverflow, ThreadFrame, Sets!PushOverflow, popVars
  <2> QED BY <2>1 DEF Sets!Next
<1>2. CASE CallbackReturns(t)
  <2>1. Sets!Busy(t)
    BY <1>2, RunsBusy DEF CallbackReturns, Goto
  <2>2. Sets!Done(t)
    BY <1>2, <2>1 DEF CallbackReturns, queueVars, Sets!Done
  <2> QED BY <2>2 DEF Sets!Next
<1>3. CASE Start(t)
  BY <1>3, SetsSame DEF Start, SameSets, popVars
<1>4. CASE ~(PushOverflow(t) \/ CallbackReturns(t) \/ Start(t))
  BY <1>4, ThreadStill, SetsSame DEF RunStep, Still, SameSets
<1> QED BY <1>1, <1>2, <1>3, <1>4

(* Nothing is shown of a single task.                                      *)
LEMMA KeepMaps ==
  ASSUME TypeOK, NEW t \in Threads, IsFiniteSet(hold[t]),
         NEW k \in hold[t], Keep(t, k), Consumer' = Consumer
  PROVE  Sets!Next \/ UNCHANGED Sets!vars
<1>1. /\ hold' = [hold EXCEPT ![t] = {k}]
      /\ run_buffer' = [run_buffer EXCEPT ![t] = @ \cup (hold[t] \ {k})]
      /\ UNCHANGED <<run_queue, overflow, scheduled>>
  BY DEF Keep, PopFrame, schedVars
<1>2. CASE hold[t] = {k}
  <2>1. hold' = hold /\ run_buffer' = run_buffer
    BY <1>1, <1>2 DEF TypeOK
  <2> QED BY <1>1, <2>1, SetsSame DEF SameSets, queueVars
<1>3. CASE hold[t] # {k}
  <2>1. PICK j \in hold[t] : j # k
    BY <1>3
  <2>2. Cardinality({k} \cup {j}) = 2 /\ {k} \cup {j} \subseteq hold[t]
    <3>1. IsFiniteSet({k}) /\ Cardinality({k}) = 1
      BY FS_Singleton
    <3>2. Cardinality({k} \cup {j}) = Cardinality({k}) + 1
      BY <2>1, <3>1, FS_AddElement
    <3> QED BY <3>1, <3>2
  <2>3. Cardinality(hold[t]) > 1
    BY <2>2, FS_Subset, FS_CardinalityType
  <2>4. Sets!Publish(t)
    BY <1>1, <2>3, SetsCardinality DEF Sets!Publish
  <2> QED BY <2>4 DEF Sets!Next
<1> QED BY <1>2, <1>3

(* The same set of tasks with the same consumers, or a move of one thread. *)
LEMMA PopMaps ==
  ASSUME TypeOK, Registered, Inside, PlaceInv, Filled, Sole, TypeOK', Sole',
         IsFiniteSet(scheduled), NEW t \in Threads, PopStep(t)
  PROVE  Sets!Next \/ UNCHANGED Sets!vars
<1>1. CASE PopBuffer(t)
  <2>1. Sets!Idle(t)
    BY <1>1, LooksIdle DEF PopBuffer, Goto
  <2>2. AllKeep
    BY <1>1 DEF PopBuffer, Goto, AllKeep, Keeps, Taking, TypeOK
  <2>3. Consumer' = Consumer
    BY <2>2, SameConsumer DEF AllKeep
  <2>4. Sets!Pop(t)
    BY <1>1, <2>1, <2>3 DEF PopBuffer, PopFrame, schedVars, Sets!Pop
  <2> QED BY <2>4 DEF Sets!Next
<1>2. CASE Take(t)
  <2>1. Sets!Idle(t) /\ from[t] \in Owners
    BY <1>2, LooksIdle DEF Take, Goto, TypeOK
  <2>2. AllKeep /\ Taking(t)
    BY <1>2 DEF Take, Goto, AllKeep, Keeps, Taking, TypeOK
  <2>3. Consumer' = Consumer /\ Consumer[from[t]] = t
    BY <2>2, SameConsumer, ConsumerIs DEF AllKeep
  <2>4. Sets!Take(t, from[t])
    BY <1>2, <2>1, <2>3, SetsCardinality DEF Take, PopFrame, schedVars, Sets!Take
  <2> QED BY <2>1, <2>4 DEF Sets!Next, Sets!Queues, Owners
<1>3. CASE Steal(t)
  <2>1. Sets!Idle(t) /\ run_buffer[t] = {}
    BY <1>3, LooksIdle DEF Steal, Goto, Filled
  <2>2. AllKeep
    BY <1>3 DEF Steal, Goto, AllKeep, Keeps, Taking, TypeOK
  <2>3. Consumer' = Consumer
    BY <2>2, SameConsumer DEF AllKeep
  <2>4. from[t] \in Threads \ {t}
    <3>1. OnStack(from[t])
      BY <1>3 DEF Steal, Goto, Registered
    <3> QED BY <1>3, <3>1 DEF Steal, OnStack, TypeOK
  <2>5. Sets!Steal(t, from[t])
    BY <1>3, <2>1, <2>3, SetsCardinality DEF Steal, PopFrame, schedVars, Sets!Steal
  <2> QED BY <2>4, <2>5 DEF Sets!Next
<1>4. CASE Publish(t) \/ PublishStolen(t)
  <2>1. PICK k \in hold[t] : Keep(t, k)
    BY <1>4 DEF Publish, PublishStolen
  <2>2. AllKeep /\ pc[t] # "run"
    BY <1>4 DEF Publish, PublishStolen, Keep, Goto, AllKeep, Keeps, Taking, TypeOK
  <2>3. Consumer' = Consumer
    BY <2>2, SameConsumer DEF AllKeep
  <2>4. IsFiniteSet(hold[t])
    BY <2>2, HeldFinite
  <2> QED BY <2>1, <2>3, <2>4, KeepMaps
<1>5. CASE Release(t)
  <2>1. /\ from[t] \in Owners /\ Consumer[from[t]] = t
        /\ Consumer' = [Consumer EXCEPT ![from[t]] = Nobody]
    BY <1>5, ReleaseConsumer
  <2>2. Sets!Release(t, from[t])
    BY <1>5, <2>1 DEF Release, queueVars, popVars, PopFrame, schedVars, Sets!Release
  <2> QED BY <2>1, <2>2 DEF Sets!Next, Sets!Queues, Owners
<1>6. CASE ConsumeOwn(t) \/ ConsumePool(t) \/ ConsumeTarget(t)
  <2>1. PICK o \in Owners, next \in {"pool", "count", "buffer"} :
          /\ pc[t] \in {"pop", "pool", "queue"} /\ Consume(t, o, next)
          /\ pc[t] = "pop" => run_buffer[t] = {}
    BY <1>6 DEF ConsumeOwn, ConsumePool, ConsumeTarget, Owners, TypeOK
  <2>2. SameSets
    BY <2>1 DEF Consume, PopFrame, schedVars, SameSets
  <2>3. CASE AllKeep
    BY <2>2, <2>3, SameConsumer, SetsSame DEF AllKeep
  <2>4. CASE Acquires(t, o)
    <3>1. Sets!Idle(t) /\ run_buffer[t] = {}
      BY <2>1, LooksIdle DEF Filled
    <3>2. Consumer[o] = Nobody /\ Consumer' = [Consumer EXCEPT ![o] = t]
      BY <2>4, AcquireConsumer
    <3>3. Sets!Acquire(t, o)
      BY <2>2, <2>4, <3>1, <3>2 DEF Acquires, SameSets, queueVars, Sets!Acquire
    <3> QED BY <3>3 DEF Sets!Next, Sets!Queues, Owners
  <2> QED BY <2>1, <2>3, <2>4, ConsumeKeeps
<1>7. CASE Count(t) \/ Victim(t) \/ NothingFound(t) \/ NothingToSteal(t)
  <2>1. SameSets
    BY <1>7, PopStill DEF Still, SameSets
  <2>2. AllKeep
    BY <1>7 DEF Count, Victim, NothingFound, NothingToSteal, Goto, popVars, AllKeep, Keeps,
                Taking, TypeOK
  <2> QED BY <2>1, <2>2, SameConsumer, SetsSame DEF AllKeep
<1> QED BY <1>1, <1>2, <1>3, <1>4, <1>5, <1>6, <1>7 DEF PopStep

LEMMA InitSole == Init => Sole /\ IsFiniteSet(scheduled)
BY FS_EmptySet DEF Init, Sole, Taking

(* What the pool does to its queues and buffers is what TaskSets allows: a *)
(* queue has one consumer, a thief takes half, nothing is lost             *)
(* (thread_pool.zig:92-134, 313-374, 475-766).                             *)
THEOREM SetsRefinement == SafeSpec => TaskSetsSpec
<1>1. Init => Sets!Init
  <2> SUFFICES ASSUME Init PROVE Sets!Init
    OBVIOUS
  <2>1. Consumer = [o \in Owners |-> Nobody]
    BY DEF Init, Consumer, Consuming, Consumes
  <2> QED BY <2>1 DEF Init, Sets!Init, Sets!Queues, Owners
<1>2. PoolInv /\ Sole /\ IsFiniteSet(scheduled) /\ [Next]_vars
        => (Sole /\ IsFiniteSet(scheduled))'
  BY NextSole, NextFinite DEF PoolInv, IInv
<1>3. PoolInv /\ QuietInv /\ Sole /\ IsFiniteSet(scheduled) /\ PoolInv' /\ Sole' /\ [Next]_vars
        => [Sets!Next]_Sets!vars
  <2> SUFFICES ASSUME PoolInv, QuietInv, Sole, IsFiniteSet(scheduled), PoolInv', Sole',
                      [Next]_vars
               PROVE  [Sets!Next]_Sets!vars
    OBVIOUS
  <2>1. /\ TypeOK /\ Registered /\ Inside /\ PlaceInv /\ Filled /\ TypeOK'
    BY DEF PoolInv, IInv, QuietInv
  <2>2. AllKeep => Consumer' = Consumer
    BY <2>1, SameConsumer DEF AllKeep
  <2>3. ASSUME NEW p \in Procs, NotifyStep(p) \/ NotifySpawnFails(p)
        PROVE  UNCHANGED Sets!vars
    BY <2>1, <2>2, <2>3, NotifyKeeps, NotifyStill, SetsSame DEF Still, SameSets
  <2>4. ASSUME NEW k \in Tasks,
               \/ \E c \in Clients : ClientSchedule(c, k)
               \/ \E t \in Threads : ThreadSchedule(t, k) \/ Overflow(t, k)
        PROVE  Sets!Next
    BY <2>1, <2>2, <2>4, ScheduleKeeps, SchedulePuts, SchedulePushes
  <2>5. ASSUME NEW t \in Threads, PopStep(t)
        PROVE  Sets!Next \/ UNCHANGED Sets!vars
    BY <2>1, <2>5, PopMaps
  <2>6. ASSUME NEW t \in Threads, RunStep(t) \/ WaitWoken(t), ~PopStep(t)
        PROVE  Sets!Next \/ UNCHANGED Sets!vars
    BY <2>1, <2>2, <2>6, RunKeeps, RunMaps
  <2>7. CASE UNCHANGED vars
    <3>1. AllKeep /\ SameSets
      BY <2>7 DEF vars, popVars, schedVars, AllKeep, Keeps, Taking, SameSets
    <3> QED BY <2>2, <3>1, SetsSame
  <2> QED BY <2>3, <2>4, <2>5, <2>6, <2>7 DEF Next
<1>4. [Sets!Next]_Sets!vars => [UNCHANGED Sets!vars \/ Sets!Next]_Sets!vars
  OBVIOUS
<1> QED BY <1>1, <1>2, <1>3, <1>4, InitSole, QuietInvariance, PoolInvariance, PTL
       DEF SafeSpec, TaskSetsSpec, Sets!Spec
=============================================================================

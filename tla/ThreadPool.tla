----------------------------- MODULE ThreadPool -----------------------------
(***************************************************************************)
(* src/thread_pool.zig: the work-stealing pool (lines 12-374).  The packed *)
(* atomic word `sync` decides who is woken or spawned for a task; the      *)
(* tasks are in the pool's run queue, in the run queue of a thread, in its *)
(* bounded run buffer, or in somebody's hands.                             *)
(*                                                                         *)
(* A step is one atomic operation.  A compare-exchange loop is one step on *)
(* the current value (a failure only reads the word again), the queues and *)
(* the ring of a buffer are sets (their order promises nothing), a queue   *)
(* has one consumer at a time and says Contended to the others.  The idle  *)
(* event is the TokenEvent that Event implements.  Nothing in the program  *)
(* makes sync.state `shutdown`, so its branches are left out.              *)
(***************************************************************************)
EXTENDS Integers, Sequences, FiniteSets

CONSTANTS Threads,      (* identities for the threads the pool may spawn   *)
          Clients,      (* threads outside the pool that call schedule()   *)
          Pool,         (* the pool, as owner of the global run queue      *)
          Nobody,       (* no target                                       *)
          Tasks,
          Forever,      (* the tasks whose callback does not return        *)
          max_threads,
          capacity,     (* of a run buffer                                 *)
          SpawnMayFail  (* may std.Thread.spawn return an error?           *)

ASSUME ThreadPoolAssumption ==
  /\ IsFiniteSet(Threads)
  /\ Pool \notin Threads /\ Nobody \notin Threads
  /\ Clients \cap Threads = {} /\ IsFiniteSet(Clients)
  /\ Forever \subseteq Tasks
  /\ max_threads \in 1..Cardinality(Threads)
  /\ capacity \in Nat \ {0, 1}
  /\ SpawnMayFail \in BOOLEAN

Procs == Clients \cup Threads
Owners == Threads \cup {Pool}

VARIABLES sync,       (* [idle, spawned, notified, state]                  *)
          idle_token, (* has idle_event a notification?                    *)
          threads,    (* the stack of registered threads, newest first     *)
          run_queue,  (* of the pool and of each thread                    *)
          run_buffer, (* of each thread                                    *)
          overflow,   (* what push() of a thread could not leave in it     *)
          pc,         (* where each thread is in run()                     *)
          npc,        (* where each process is in notify()                 *)
          is_idle,    (* the local of wait()                               *)
          is_waking,  (* the local of run(), wait() and notify()           *)
          target,     (* the next thread to steal from                     *)
          num_threads,(* how many are left to look at in pop()             *)
          from,       (* whose queue or buffer the thread is looking at    *)
          hold,       (* the tasks in a thread's hands                     *)
          pushed,     (* did pop() leave some in the run buffer?           *)
          scheduled,  (* the tasks schedule() was called with              *)
          token       (* the state of each task's token                    *)

schedVars == <<scheduled, token>>
queueVars == <<run_queue, run_buffer, overflow>>
popVars   == <<target, num_threads, from, hold, pushed>>
waitVars  == <<is_idle, is_waking>>
vars == <<sync, idle_token, threads, queueVars, pc, npc, waitVars, popVars,
          schedVars>>

Init == /\ sync = [idle |-> 0, spawned |-> 0, notified |-> FALSE,
                   state |-> "pending"]
        /\ idle_token = FALSE
        /\ threads = <<>>
        /\ run_queue = [o \in Owners |-> {}]
        /\ run_buffer = [t \in Threads |-> {}]
        /\ overflow = [t \in Threads |-> {}]
        /\ pc = [t \in Threads |-> "off"]
        /\ npc = [p \in Procs |-> "out"]
        /\ is_idle = [t \in Threads |-> FALSE]
        /\ is_waking = [t \in Threads |-> FALSE]
        /\ target = [t \in Threads |-> Nobody]
        /\ num_threads = [t \in Threads |-> 0]
        /\ from = [t \in Threads |-> Pool]
        /\ hold = [t \in Threads |-> {}]
        /\ pushed = [t \in Threads |-> FALSE]
        /\ scheduled = {}
        /\ token = [k \in Tasks |-> "initialized"]

Goto(t, a, b) == pc[t] = a /\ pc' = [pc EXCEPT ![t] = b]
NGoto(p, a, b) == npc[p] = a /\ npc' = [npc EXCEPT ![p] = b]

Sleepers == {t \in Threads : pc[t] = "sleep"}
IdleEvent == INSTANCE TokenEvent WITH Waiters <- Threads,
                                      token <- idle_token, waiting <- Sleepers
-----------------------------------------------------------------------------
(* notify(is_waking), by a client, a callback or a thread that popped.     *)

Waking(p) == p \in Threads /\ is_waking[p]
CanWake(p) == Waking(p) \/ sync.state = "pending"

CallNotify(p) == npc' = [npc EXCEPT ![p] = IF Waking(p) THEN "slow" ELSE "fast"]

NotifyFast(p) == /\ npc[p] = "fast"
                 /\ npc' = [npc EXCEPT ![p] = IF sync.notified THEN "out" ELSE "slow"]
                 /\ UNCHANGED <<sync, idle_token, threads, queueVars, pc, waitVars,
                                popVars, schedVars>>

NotifyIdle(p) == /\ NGoto(p, "slow", "post")
                 /\ CanWake(p) /\ sync.idle > 0
                 /\ sync' = [sync EXCEPT !.notified = TRUE, !.state = "signaled"]

NotifyGrow(p) == /\ NGoto(p, "slow", "spawn")
                 /\ CanWake(p) /\ sync.idle = 0 /\ sync.spawned < max_threads
                 /\ sync' = [sync EXCEPT !.notified = TRUE, !.state = "signaled",
                                         !.spawned = @ + 1]

(* Nobody to wake: a waking thread gives the status up.                    *)
NotifyNobody(p) == /\ NGoto(p, "slow", "out")
                   /\ CanWake(p) => sync.idle = 0 /\ sync.spawned = max_threads
                   /\ sync' = [sync EXCEPT !.notified = TRUE,
                                 !.state = IF Waking(p) THEN "pending" ELSE @]

(* The compare-exchange; the thread's status as the waking one ends here.  *)
NotifySlow(p) == /\ NotifyIdle(p) \/ NotifyGrow(p) \/ NotifyNobody(p)
                 /\ is_waking' = [t \in Threads |-> is_waking[t] /\ t # p]
                 /\ UNCHANGED <<idle_token, threads, queueVars, pc, is_idle,
                                popVars, schedVars>>

(* The wakeup is left to whoever is awake.                                 *)
NotifyPostNothing(p) == /\ NGoto(p, "post", "out")
                        /\ UNCHANGED <<sync, idle_token, threads, queueVars, pc,
                                       waitVars, popVars, schedVars>>

NotifyPost(p) == /\ NGoto(p, "post", "out")
                 /\ UNCHANGED <<sync, threads, queueVars, pc, waitVars, popVars,
                                schedVars>>
                 /\ IdleEvent!Post

NotifySpawn(p) == /\ NGoto(p, "spawn", "out")
                  /\ \E t \in Threads : Goto(t, "off", "register")
                  /\ UNCHANGED <<sync, idle_token, threads, queueVars, waitVars,
                                 popVars, schedVars>>

(* The thread that does not exist stays on the count.                      *)
NotifySpawnFailsCounted(p) == /\ SpawnMayFail
                              /\ NGoto(p, "spawn", "out")
                              /\ UNCHANGED <<sync, idle_token, threads, queueVars,
                                    pc, waitVars, popVars, schedVars>>

(* unregister(null): the count goes back, state and notified stay.         *)
NotifySpawnFails(p) == /\ SpawnMayFail
                       /\ NGoto(p, "spawn", "out")
                       /\ sync' = [sync EXCEPT !.spawned = @ - 1]
                       /\ UNCHANGED <<idle_token, threads, queueVars, pc, waitVars,
                                      popVars, schedVars>>

NotifyStep(p) == NotifyFast(p) \/ NotifySlow(p) \/ NotifyPost(p) \/ NotifySpawn(p)
-----------------------------------------------------------------------------
(* schedule() of one task, by a client ...                                 *)

Schedule(p, k) == /\ npc[p] = "out"
                  /\ k \notin scheduled
                  /\ scheduled' = scheduled \cup {k}

ClientSchedule(c, k) ==
  /\ Schedule(c, k) /\ CallNotify(c)
  /\ run_queue' = [run_queue EXCEPT ![Pool] = @ \cup {k}]
  /\ UNCHANGED <<sync, idle_token, threads, run_buffer, overflow, pc, waitVars,
                 popVars, token>>

(* ... or by a callback, into the thread's buffer ...                      *)
ThreadFrame == UNCHANGED <<sync, idle_token, threads, pc, waitVars, popVars, token>>

Running(t) == pc[t] = "run" /\ overflow[t] = {}

ThreadSchedule(t, k) ==
  /\ Running(t)
  /\ Schedule(t, k) /\ CallNotify(t)
  /\ Cardinality(run_buffer[t]) < capacity
  /\ run_buffer' = [run_buffer EXCEPT ![t] = @ \cup {k}]
  /\ UNCHANGED <<run_queue, overflow>>
  /\ ThreadFrame

(* ... or, with half of a full one, into the thread's queue.               *)
Overflow(t, k) ==
  /\ Running(t)
  /\ Schedule(t, k)
  /\ Cardinality(run_buffer[t]) = capacity
  /\ \E half \in SUBSET run_buffer[t] :
       /\ Cardinality(half) = capacity \div 2
       /\ run_buffer' = [run_buffer EXCEPT ![t] = @ \ half]
       /\ overflow' = [overflow EXCEPT ![t] = half \cup {k}]
  /\ UNCHANGED <<run_queue, npc>>
  /\ ThreadFrame

PushOverflow(t) ==
  /\ overflow[t] # {}
  /\ run_queue' = [run_queue EXCEPT ![t] = @ \cup overflow[t]]
  /\ overflow' = [overflow EXCEPT ![t] = {}]
  /\ CallNotify(t)
  /\ UNCHANGED <<run_buffer, scheduled>>
  /\ ThreadFrame
-----------------------------------------------------------------------------
(* run() and wait(is_waking) of a thread.                                  *)

Register(t) == /\ Goto(t, "register", "wait")
               /\ threads' = <<t>> \o threads
               /\ UNCHANGED <<sync, idle_token, queueVars, npc, waitVars, popVars,
                              schedVars>>

WaitNotified(t) ==
  /\ Goto(t, "wait", "pop")
  /\ sync.notified
  /\ sync' = [sync EXCEPT !.notified = FALSE,
                          !.idle = IF is_idle[t] THEN @ - 1 ELSE @,
                          !.state = IF @ = "signaled" THEN "waking" ELSE @]
  /\ is_idle' = [is_idle EXCEPT ![t] = FALSE]
  /\ is_waking' = [is_waking EXCEPT ![t] = @ \/ sync.state = "signaled"]
  /\ UNCHANGED <<idle_token, threads, queueVars, npc, popVars, schedVars>>

(* The thread counts itself out but keeps the waking status.               *)
WaitIdleKeepsWaking(t) ==
  /\ pc[t] = "wait"
  /\ ~sync.notified /\ ~is_idle[t]
  /\ sync' = [sync EXCEPT !.idle = @ + 1]
  /\ is_idle' = [is_idle EXCEPT ![t] = TRUE]
  /\ is_waking' = [is_waking EXCEPT ![t] = FALSE]
  /\ UNCHANGED <<idle_token, threads, queueVars, pc, npc, popVars, schedVars>>

(* A notification that came since the last look is slept through.          *)
WaitIdleUnchecked(t) ==
  /\ pc[t] = "wait"
  /\ ~is_idle[t]
  /\ sync' = [sync EXCEPT !.idle = @ + 1, !.notified = FALSE,
                          !.state = IF is_waking[t] THEN "pending" ELSE @]
  /\ is_idle' = [is_idle EXCEPT ![t] = TRUE]
  /\ is_waking' = [is_waking EXCEPT ![t] = FALSE]
  /\ UNCHANGED <<idle_token, threads, queueVars, pc, npc, popVars, schedVars>>

WaitIdle(t) ==
  /\ pc[t] = "wait"
  /\ ~sync.notified /\ ~is_idle[t]
  /\ sync' = [sync EXCEPT !.idle = @ + 1,
                          !.state = IF is_waking[t] THEN "pending" ELSE @]
  /\ is_idle' = [is_idle EXCEPT ![t] = TRUE]
  /\ is_waking' = [is_waking EXCEPT ![t] = FALSE]
  /\ UNCHANGED <<idle_token, threads, queueVars, pc, npc, popVars, schedVars>>

WaitSleep(t) == /\ Goto(t, "wait", "sleep")
                /\ ~sync.notified /\ is_idle[t]
                /\ UNCHANGED <<sync, threads, queueVars, npc, waitVars, popVars,
                               schedVars>>
                /\ IdleEvent!BeginWait(t)

WaitWoken(t) == /\ Goto(t, "sleep", "wait")
                /\ UNCHANGED <<sync, threads, queueVars, npc, waitVars, popVars,
                               schedVars>>
                /\ IdleEvent!Acquire(t)
-----------------------------------------------------------------------------
(* pop(): own buffer, own queue, the pool's queue, then the others.  Each  *)
(* of these steps leaves sync, the event and notify() alone.               *)

PopFrame == UNCHANGED <<sync, idle_token, threads, npc, waitVars, schedVars>>

PopBuffer(t) == /\ Goto(t, "pop", "got")
                /\ \E k \in run_buffer[t] :
                     /\ hold' = [hold EXCEPT ![t] = {k}]
                     /\ run_buffer' = [run_buffer EXCEPT ![t] = @ \ {k}]
                /\ pushed' = [pushed EXCEPT ![t] = FALSE]
                /\ UNCHANGED <<run_queue, overflow, target, num_threads, from>>
                /\ PopFrame

(* tryAcquireConsumer() and, when it is Empty or Contended, the next place *)
(* to look at.                                                             *)
Consumes(t, o) == pc[t] \in {"take", "publish", "release"} /\ from[t] = o
Consuming(o) == \E t \in Threads : Consumes(t, o)

Consume(t, o, next) ==
  /\ pc' = [pc EXCEPT ![t] = IF Consuming(o) \/ run_queue[o] = {} THEN next ELSE "take"]
  /\ from' = [from EXCEPT ![t] = o]
  /\ UNCHANGED <<queueVars, target, num_threads, hold, pushed>>
  /\ PopFrame

ConsumeOwn(t)    == pc[t] = "pop" /\ run_buffer[t] = {} /\ Consume(t, t, "pool")
ConsumePool(t)   == pc[t] = "pool" /\ Consume(t, Pool, "count")
ConsumeTarget(t) == pc[t] = "queue" /\ Consume(t, from[t], "buffer")

(* Everything, or what a full buffer and one more can take; when another   *)
(* push lands between the last two reads of the stack, two or more of it.  *)
Take(t) ==
  /\ Goto(t, "take", "publish")
  /\ \E ks \in SUBSET run_queue[from[t]] :
       /\ Cardinality(ks) \in 1..(capacity + 1)
       /\ Cardinality(ks) = 1 => ks = run_queue[from[t]]
       /\ hold' = [hold EXCEPT ![t] = ks]
       /\ run_queue' = [run_queue EXCEPT ![from[t]] = @ \ ks]
  /\ UNCHANGED <<run_buffer, overflow, target, num_threads, from, pushed>>
  /\ PopFrame

(* The store of the tail shows all but one of them to the thieves.         *)
Keep(t, k) ==
  /\ hold' = [hold EXCEPT ![t] = {k}]
  /\ run_buffer' = [run_buffer EXCEPT ![t] = @ \cup (hold[t] \ {k})]
  /\ pushed' = [pushed EXCEPT ![t] = hold[t] # {k}]
  /\ UNCHANGED <<run_queue, overflow, target, num_threads, from>>
  /\ PopFrame

Publish(t) == Goto(t, "publish", "release") /\ \E k \in hold[t] : Keep(t, k)

Release(t) == /\ Goto(t, "release", "got")
              /\ UNCHANGED <<queueVars, popVars>>
              /\ PopFrame

Count(t) == /\ Goto(t, "count", "victim")
            /\ num_threads' = [num_threads EXCEPT ![t] = sync.spawned]
            /\ UNCHANGED <<queueVars, target, from, hold, pushed>>
            /\ PopFrame

(* Thread.next: who was registered before.                                 *)
NextOf(t) == LET i == CHOOSE j \in DOMAIN threads : threads[j] = t
            IN  IF i = Len(threads) THEN Nobody ELSE threads[i + 1]

Victim(t) ==
  /\ num_threads[t] > 0
  /\ Goto(t, "victim", "queue")
  /\ LET v == IF target[t] = Nobody THEN Head(threads) ELSE target[t]
     IN  /\ from' = [from EXCEPT ![t] = v]
         /\ target' = [target EXCEPT ![t] = NextOf(v)]
  /\ num_threads' = [num_threads EXCEPT ![t] = @ - 1]
  /\ UNCHANGED <<queueVars, hold, pushed>>
  /\ PopFrame

NothingFound(t) == /\ Goto(t, "victim", "wait")
                   /\ num_threads[t] = 0
                   /\ UNCHANGED <<queueVars, popVars>>
                   /\ PopFrame

(* A steal that does not move the victim's head.                           *)
StealCopies(t) ==
  /\ Goto(t, "buffer", "stolen")
  /\ from[t] # t
  /\ \E ks \in SUBSET run_buffer[from[t]] :
       /\ Cardinality(ks) \in 1..((Cardinality(run_buffer[from[t]]) + 1) \div 2)
       /\ hold' = [hold EXCEPT ![t] = ks]
  /\ UNCHANGED <<queueVars, target, num_threads, from, pushed>>
  /\ PopFrame

(* steal(): half of what the victim had when its tail was read.            *)
Steal(t) ==
  /\ Goto(t, "buffer", "stolen")
  /\ from[t] # t
  /\ \E ks \in SUBSET run_buffer[from[t]] :
       /\ Cardinality(ks) \in 1..((Cardinality(run_buffer[from[t]]) + 1) \div 2)
       /\ hold' = [hold EXCEPT ![t] = ks]
       /\ run_buffer' = [run_buffer EXCEPT ![from[t]] = @ \ ks]
  /\ UNCHANGED <<run_queue, overflow, target, num_threads, from, pushed>>
  /\ PopFrame

NothingToSteal(t) == /\ Goto(t, "buffer", "victim")
                     /\ from[t] = t \/ run_buffer[from[t]] = {}
                     /\ UNCHANGED <<queueVars, popVars>>
                     /\ PopFrame

PublishStolen(t) == Goto(t, "stolen", "got") /\ \E k \in hold[t] : Keep(t, k)

PopStep(t) == \/ PopBuffer(t) \/ ConsumeOwn(t) \/ ConsumePool(t) \/ ConsumeTarget(t)
              \/ Take(t) \/ Publish(t) \/ Release(t) \/ Count(t) \/ Victim(t)
              \/ NothingFound(t) \/ Steal(t) \/ NothingToSteal(t) \/ PublishStolen(t)
-----------------------------------------------------------------------------
(* The body of run()'s loop.                                               *)

Got(t) == /\ Goto(t, "got", "start")
          /\ IF pushed[t] \/ is_waking[t] THEN CallNotify(t) ELSE UNCHANGED npc
          /\ UNCHANGED <<sync, idle_token, threads, queueVars, waitVars, popVars,
                         schedVars>>

(* Token.start(): a token that has been started already is a panic.        *)
Start(t) ==
  /\ pc[t] = "start" /\ npc[t] = "out"
  /\ \E k \in hold[t] :
       /\ pc' = [pc EXCEPT ![t] = IF token[k] = "initialized" THEN "run" ELSE "panic"]
       /\ token' = [token EXCEPT ![k] = IF @ = "initialized" THEN "executing" ELSE @]
  /\ UNCHANGED <<sync, idle_token, threads, queueVars, npc, waitVars, popVars, scheduled>>

(* The callback's last call is token.finish().                             *)
CallbackReturns(t) ==
  /\ Goto(t, "run", "pop")
  /\ npc[t] = "out" /\ overflow[t] = {}
  /\ hold[t] \cap Forever = {}
  /\ token' = [k \in Tasks |-> IF k \in hold[t] THEN "finished" ELSE token[k]]
  /\ hold' = [hold EXCEPT ![t] = {}]
  /\ UNCHANGED <<sync, idle_token, threads, queueVars, npc, waitVars, target,
                 num_threads, from, pushed, scheduled>>

RunStep(t) == \/ Register(t) \/ WaitNotified(t) \/ WaitIdle(t) \/ WaitSleep(t)
              \/ PopStep(t) \/ Got(t) \/ Start(t) \/ CallbackReturns(t)
              \/ PushOverflow(t)
-----------------------------------------------------------------------------
Next == \/ \E p \in Procs : NotifyStep(p) \/ NotifySpawnFails(p)
        \/ \E c \in Clients, k \in Tasks : ClientSchedule(c, k)
        \/ \E t \in Threads : \/ RunStep(t) \/ WaitWoken(t)
                              \/ \E k \in Tasks : ThreadSchedule(t, k) \/ Overflow(t, k)

SafeSpec == Init /\ [][Next]_vars

(* The operating system runs every thread, the idle event does what        *)
(* TokenEvent promises, and callbacks that are not Forever return.         *)
Fairness == /\ \A p \in Procs : WF_vars(NotifyStep(p))
            /\ \A t \in Threads : WF_vars(RunStep(t))
            /\ WF_vars(\E t \in Threads : WaitWoken(t))

Spec == SafeSpec /\ Fairness
-----------------------------------------------------------------------------
Sync == [idle : Int, spawned : Int, notified : BOOLEAN,
         state : {"pending", "signaled", "waking"}]

TypeOK ==
  /\ sync \in Sync
  /\ idle_token \in BOOLEAN
  /\ threads \in Seq(Threads)
  /\ run_queue \in [Owners -> SUBSET Tasks]
  /\ run_buffer \in [Threads -> SUBSET Tasks]
  /\ overflow \in [Threads -> SUBSET Tasks]
  /\ pc \in [Threads -> {"off", "register", "wait", "sleep", "pop", "pool", "count",
                         "victim", "queue", "buffer", "take", "publish", "release",
                         "stolen", "got", "start", "run", "panic"}]
  /\ npc \in [Procs -> {"out", "fast", "slow", "post", "spawn"}]
  /\ is_idle \in [Threads -> BOOLEAN]
  /\ is_waking \in [Threads -> BOOLEAN]
  /\ target \in [Threads -> Threads \cup {Nobody}]
  /\ num_threads \in [Threads -> Int]
  /\ from \in [Threads -> Owners]
  /\ hold \in [Threads -> SUBSET Tasks]
  /\ pushed \in [Threads -> BOOLEAN]
  /\ scheduled \subseteq Tasks
  /\ token \in [Tasks -> {"initialized", "executing", "finished"}]

(* The assertions the source has commented out (thread_pool.zig:149, 195)  *)
(* and what they rest on: there is at most one waking thread, and the word *)
(* says `waking` exactly while there is one.                               *)
WakingThread == /\ \A t, u \in Threads : is_waking[t] /\ is_waking[u] => t = u
                /\ (sync.state = "waking") <=> (\E t \in Threads : is_waking[t])

(* A thread that steals finds somebody on the stack of threads, at least   *)
(* itself, so the `unreachable` of thread_pool.zig:353 is not reached, and *)
(* it follows links that are on the stack (register(), pop()).             *)
OnStack(t) == \E i \in DOMAIN threads : threads[i] = t
Registered ==
  \A t \in Threads : /\ pc[t] \notin {"off", "register"} => OnStack(t)
                     /\ target[t] # Nobody => OnStack(target[t])
                     /\ pc[t] \in {"queue", "buffer"} => OnStack(from[t])

IInv == TypeOK /\ WakingThread /\ Registered

(* The word counts what it says it counts: the threads in wait() that have *)
(* declared themselves idle, and the threads that exist or are being       *)
(* created, of which there are never more than max_threads                 *)
(* (thread_pool.zig:20-23, 153-157, 201, 219, 258).                        *)
Counts ==
  /\ sync.idle = Cardinality({t \in Threads : is_idle[t]})
  /\ sync.spawned = Cardinality({t \in Threads : pc[t] # "off"})
                    + Cardinality({p \in Procs : npc[p] = "spawn"})
  /\ sync.spawned =< max_threads

(* A scheduled task that was not started is in exactly one place: a queue, *)
(* a buffer or a thread's hands (push, consume, steal).                    *)
Places(k) == {<<"queue", o>> : o \in {o \in Owners : k \in run_queue[o]}}
             \cup {<<"buffer", t>> : t \in {t \in Threads : k \in run_buffer[t]}}
             \cup {<<"overflow", t>> : t \in {t \in Threads : k \in overflow[t]}}
             \cup {<<"hold", t>> : t \in {t \in Threads : k \in hold[t] /\ pc[t] # "run"}}
OnePlace ==
  \A k \in Tasks :
    Cardinality(Places(k)) =
      IF k \in scheduled /\ token[k] = "initialized" THEN 1 ELSE 0

(* Somebody will still look: a process in notify(), a notification on its  *)
(* way to a sleeper, or a thread that is not asleep.                       *)
Stirring == \/ \E p \in Procs : npc[p] # "out"
            \/ idle_token
            \/ \E t \in Threads : pc[t] \notin {"off", "sleep"}

(* The pool never goes quiet with a task in a queue or a buffer; every     *)
(* wakeup that notify() leaves out is one somebody else's waking thread    *)
(* makes up for (thread_pool.zig:136-239, comment at line 26).  The only     *)
(* excuse is a signal whose thread could not be created (line 179).        *)
QuietMeansDone ==
  ~Stirring => \/ \A k \in scheduled : token[k] # "initialized"
               \/ SpawnMayFail /\ sync.state = "signaled"

(* The pool implements TaskPool: what is scheduled is started once, and in *)
(* the end, and at most max_threads callbacks run.                         *)
Dispatch == INSTANCE TaskPool WITH
              Width <- max_threads,
              started <- {k \in Tasks : token[k] # "initialized"},
              finished <- {k \in Tasks : token[k] = "finished"}
TaskPoolSpec == Dispatch!Spec

(* And it handles its tasks as its queues and buffers, in WorkQueues, do.  *)
Consumer == [o \in Owners |-> IF Consuming(o) THEN CHOOSE t \in Threads : Consumes(t, o)
                              ELSE Nobody]
Sets == INSTANCE TaskSets WITH queue <- run_queue, buffer <- run_buffer,
                               consumer <- Consumer
TaskSetsSpec == Sets!Spec
-----------------------------------------------------------------------------
(* thread_pool.zig:32, of `signaled`: "The state was notified with a       *)
(* signal. A thread is woken up."  Not if the thread could not be created: *)
(* then the state stays, and the fast path of notify() with it.            *)
ThreadIsWokenUp == (sync.state = "signaled") ~> (sync.state # "signaled")
=============================================================================

----------------------------- MODULE WorkQueues -----------------------------
(***************************************************************************)
(* src/thread_pool.zig, Node.Buffer (575-768) on top of Node.Queue: the    *)
(* bounded ring of each thread, to the access of its head, tail and slots, *)
(* with the threads that push, pop, consume and steal, and clients that    *)
(* push to the pool's queue.                                               *)
(*                                                                         *)
(* The order in which a thread looks at queues and buffers is ThreadPool's;*)
(* here a thread without a task looks anywhere.  An index counts modulo    *)
(* `indices` (2^32) and starts at `first_index`, where a buffer that was   *)
(* used so often and is empty again has it.  Memory is sequentially        *)
(* consistent.                                                             *)
(***************************************************************************)
EXTENDS RunQueue

CONSTANTS Threads, Clients,
          External,  (* the tasks that clients schedule; callbacks do others *)
          Forever,   (* the tasks whose callbacks never return             *)
          Pool, Nobody, capacity, indices, first_index

ASSUME WorkQueuesAssumption ==
  /\ IsFiniteSet(Threads) /\ IsFiniteSet(Clients) /\ Clients \cap Threads = {}
  /\ Pool \notin Threads /\ Nobody \notin Threads
  /\ Procs = Threads \cup Clients /\ Owners = Threads \cup {Pool}
  /\ External \subseteq Tasks /\ Forever \subseteq Tasks
  /\ capacity \in Nat \ {0, 1} /\ indices \in Nat /\ indices % capacity = 0
  /\ indices > (capacity + 1) * Cardinality(Tasks) /\ first_index \in 0..(indices - 1)

VARIABLES head, tail, array, (* of each thread's buffer                    *)
          bhead,     (* the head as the thread last read it                *)
          count,     (* steal_size of steal()                              *)
          pushed,    (* of consume() and steal(): slots written beyond tail*)
          victim,
          task,      (* what it runs, or has found                         *)
          new,       (* what its callback schedules                        *)
          scheduled

bufferVars == <<head, tail, array, bhead, count, pushed, victim, task, new>>
queueVars  == <<sharedQueueVars, localQueueVars>>
vars == <<queueVars, pc, bufferVars, scheduled>>

Init == /\ QueueInit
        /\ head = [t \in Threads |-> first_index]
        /\ tail = [t \in Threads |-> first_index]
        /\ array = [t \in Threads |-> [i \in 0..(capacity - 1) |-> Null]]
        /\ bhead = [t \in Threads |-> 0]
        /\ count = [t \in Threads |-> 0]
        /\ pushed = [t \in Threads |-> 0]
        /\ victim = [t \in Threads |-> Nobody]
        /\ task = [t \in Threads |-> Null]
        /\ new = [t \in Threads |-> Null]
        /\ scheduled = {}

Plus(i, n) == (i + n) % indices
Size(t, h) == (tail[t] - h) % indices
Slot(t, i) == array[t][i % capacity]
Store(t, i, k) == array' = [array EXCEPT ![t][i % capacity] = k]

Schedules(k) == k \notin scheduled /\ scheduled' = scheduled \cup {k}

(* A client's push to the pool's queue.                                    *)
Put(c, k) == /\ pc[c] = "out"
             /\ Schedules(k)
             /\ PushLoad(c, Pool, <<k>>)
             /\ UNCHANGED bufferVars
-----------------------------------------------------------------------------
(* push(k) by a callback: a slot, then the tail that shows it ...          *)

BufferFrame == UNCHANGED <<queueVars, count, pushed, victim>>

(* One more than fits.                                                     *)
PushOrMigrateLate(t, h) == pc' = [pc EXCEPT ![t] = IF Size(t, h) =< capacity THEN "slot"
                                                   ELSE "migrate"]

PushOrMigrate(t, h) == pc' = [pc EXCEPT ![t] = IF Size(t, h) < capacity THEN "slot"
                                               ELSE "migrate"]

Push(t, k) == /\ pc[t] = "out" /\ task[t] # Null
              /\ Schedules(k)
              /\ new' = [new EXCEPT ![t] = k]
              /\ bhead' = [bhead EXCEPT ![t] = head[t]]
              /\ PushOrMigrate(t, head[t])
              /\ UNCHANGED <<head, tail, array, task>>
              /\ BufferFrame

PushSlot(t) == /\ Goto(t, "slot", "shown")
               /\ Store(t, tail[t], new[t])
               /\ UNCHANGED <<head, tail, bhead, task, new, scheduled>>
               /\ BufferFrame

PushTail(t) == /\ Goto(t, "shown", "out")
               /\ tail' = [tail EXCEPT ![t] = Plus(@, 1)]
               /\ new' = [new EXCEPT ![t] = Null]
               /\ bhead' = [bhead EXCEPT ![t] = 0]
               /\ UNCHANGED <<head, array, task, scheduled>>
               /\ BufferFrame

(* ... or, when the buffer is full, half of it and k to the queue, unless  *)
(* a thief has just made room.                                             *)
MigrateFails(t) == /\ pc[t] = "migrate" /\ bhead[t] # head[t]
                   /\ bhead' = [bhead EXCEPT ![t] = head[t]]
                   /\ PushOrMigrate(t, head[t])
                   /\ UNCHANGED <<head, tail, array, task, new, scheduled>>
                   /\ BufferFrame

Migrate(t) == /\ Goto(t, "migrate", "overflow")
              /\ bhead[t] = head[t]
              /\ head' = [head EXCEPT ![t] = Plus(@, capacity \div 2)]
              /\ list' = [list EXCEPT ![t] =
                            [i \in 1..(capacity \div 2) |-> Slot(t, Plus(head[t], i - 1))]
                            \o <<new[t]>>]
              /\ new' = [new EXCEPT ![t] = Null]
              /\ bhead' = [bhead EXCEPT ![t] = 0]
              /\ UNCHANGED <<sharedQueueVars, at, seen, consumer, tail, array, count,
                             pushed, victim, task, scheduled>>

PushOverflow(t) == /\ pc[t] = "overflow"
                   /\ PushLoad(t, t, list[t])
                   /\ UNCHANGED <<bufferVars, scheduled>>
-----------------------------------------------------------------------------
Looking(t) == pc[t] = "out" /\ task[t] = Null

(* pop()                                                                   *)
PopOrLeave(t, h) ==
  IF Size(t, h) = 0 THEN pc' = [pc EXCEPT ![t] = "out"] /\ bhead' = [bhead EXCEPT ![t] = 0]
  ELSE pc' = [pc EXCEPT ![t] = "take"] /\ bhead' = [bhead EXCEPT ![t] = h]

Pop(t) == /\ Looking(t)
          /\ PopOrLeave(t, head[t])
          /\ UNCHANGED <<head, tail, array, task, new, scheduled>>
          /\ BufferFrame

TakeFails(t) == /\ pc[t] = "take" /\ bhead[t] # head[t]
                /\ PopOrLeave(t, head[t])
                /\ UNCHANGED <<head, tail, array, task, new, scheduled>>
                /\ BufferFrame

Take(t) == /\ Goto(t, "take", "out")
           /\ bhead[t] = head[t]
           /\ head' = [head EXCEPT ![t] = Plus(@, 1)]
           /\ task' = [task EXCEPT ![t] = Slot(t, head[t])]
           /\ bhead' = [bhead EXCEPT ![t] = 0]
           /\ UNCHANGED <<tail, array, new, scheduled>>
           /\ BufferFrame
-----------------------------------------------------------------------------
(* consume(queue), when the own buffer is empty: fill it, and one more.    *)

Consume(t, o) == /\ Looking(t) /\ Size(t, head[t]) = 0
                 /\ AcquireLoad(t, o)
                 /\ UNCHANGED <<bufferVars, scheduled>>

ConsumeFrame == UNCHANGED <<head, tail, bhead, count, victim, new, scheduled>>

(* The node is stored beyond the tail, or is the one to return.            *)
Keep(t, k) ==
  /\ IF pc[t] \in {"pop", "swap"}
     THEN /\ Store(t, Plus(tail[t], pushed[t]), k)
          /\ pushed' = [pushed EXCEPT ![t] = @ + 1]
          /\ pc' = [pc EXCEPT ![t] = IF pushed[t] + 1 < capacity THEN "pop" ELSE "extra"]
          /\ UNCHANGED task
     ELSE /\ task' = [task EXCEPT ![t] = k]
          /\ pc' = [pc EXCEPT ![t] = IF pushed[t] = 0 THEN "cache" ELSE "tail"]
          /\ UNCHANGED <<array, pushed>>
  /\ ConsumeFrame

ConsumePop(t) == /\ pc[t] \in {"pop", "extra"}
                 /\ \E k \in Tasks : PopCached(t, k) /\ Keep(t, k)

ConsumeFind(t) == /\ \/ Goto(t, "pop", "swap") \/ Goto(t, "extra", "extraswap")
                  /\ PopFinds(t)
                  /\ UNCHANGED <<bufferVars, scheduled>>

ConsumeSwap(t) == /\ pc[t] \in {"swap", "extraswap"}
                  /\ \E k \in Tasks : PopSwap(t, k) /\ Keep(t, k)

ConsumeNoMore(t) == /\ Goto(t, "pop", "extra")
                    /\ PopNothing(t)
                    /\ UNCHANGED <<bufferVars, scheduled>>

(* Nothing extra, so the last one that was stored.                         *)
ConsumeLast(t) ==
  /\ pc[t] = "extra"
  /\ PopNothing(t)
  /\ task' = [task EXCEPT ![t] = Slot(t, Plus(tail[t], pushed[t] - 1))]
  /\ pushed' = [pushed EXCEPT ![t] = @ - 1]
  /\ pc' = [pc EXCEPT ![t] = IF pushed[t] = 1 THEN "cache" ELSE "tail"]
  /\ UNCHANGED array
  /\ ConsumeFrame

(* The thieves see the rest; the queue is released after that.             *)
Show(t, a, b) == /\ Goto(t, a, b)
                 /\ tail' = [tail EXCEPT ![t] = Plus(@, pushed[t])]
                 /\ pushed' = [pushed EXCEPT ![t] = 0]
                 /\ UNCHANGED <<queueVars, head, array, bhead, count, victim, task,
                                new, scheduled>>

ConsumeTail(t) == Show(t, "tail", "cache")

ConsumeStep(t) == \/ ConsumePop(t) \/ ConsumeFind(t) \/ ConsumeSwap(t)
                  \/ ConsumeNoMore(t) \/ ConsumeLast(t) \/ ConsumeTail(t)
-----------------------------------------------------------------------------
(* steal(v), when the own buffer is empty.                                 *)

StealFrame == UNCHANGED <<queueVars, tail, new, scheduled>>

StealHead(t, v) == /\ bhead' = [bhead EXCEPT ![t] = head[v]]
                   /\ victim' = [victim EXCEPT ![t] = v]
                   /\ pc' = [pc EXCEPT ![t] = "look"]
                   /\ UNCHANGED <<head, array, count, pushed, task>>
                   /\ StealFrame

Steal(t, v) == Looking(t) /\ Size(t, head[t]) = 0 /\ StealHead(t, v)

StealAgain(t) == pc[t] = "again" /\ StealHead(t, victim[t])

(* The size as the mask of a slot would give it.                           *)
StealTailMasked(t) ==
  LET size == Size(victim[t], bhead[t]) % capacity
  IN  /\ pc[t] = "look"
      /\ IF size = 0
         THEN /\ pc' = [pc EXCEPT ![t] = "out"]
              /\ bhead' = [bhead EXCEPT ![t] = 0]
              /\ victim' = [victim EXCEPT ![t] = Nobody]
              /\ UNCHANGED count
         ELSE /\ pc' = [pc EXCEPT ![t] = "copy"]
              /\ count' = [count EXCEPT ![t] = size - size \div 2]
              /\ UNCHANGED <<bhead, victim>>
      /\ UNCHANGED <<head, array, pushed, task>>
      /\ StealFrame

StealTail(t) ==
  LET size == Size(victim[t], bhead[t])
  IN  /\ pc[t] = "look"
      /\ IF size = 0
         THEN /\ pc' = [pc EXCEPT ![t] = "out"]
              /\ bhead' = [bhead EXCEPT ![t] = 0]
              /\ victim' = [victim EXCEPT ![t] = Nobody]
              /\ UNCHANGED count
         ELSE /\ pc' = [pc EXCEPT ![t] = IF size > capacity THEN "again" ELSE "copy"]
              /\ count' = [count EXCEPT ![t] = IF size > capacity THEN 0
                                               ELSE size - size \div 2]
              /\ UNCHANGED <<bhead, victim>>
      /\ UNCHANGED <<head, array, pushed, task>>
      /\ StealFrame

StealCopy(t) ==
  /\ pc[t] = "copy"
  /\ Store(t, Plus(tail[t], pushed[t]), Slot(victim[t], Plus(bhead[t], pushed[t])))
  /\ pushed' = [pushed EXCEPT ![t] = @ + 1]
  /\ pc' = [pc EXCEPT ![t] = IF pushed[t] + 1 < count[t] THEN "copy" ELSE "commit"]
  /\ UNCHANGED <<head, bhead, count, victim, task>>
  /\ StealFrame

(* The thief tries again with the head it found and the copies it has.     *)
StealFailsKept(t) == /\ pc[t] = "commit" /\ head[victim[t]] # bhead[t]
                     /\ bhead' = [bhead EXCEPT ![t] = head[victim[t]]]
                     /\ UNCHANGED <<pc, head, array, count, pushed, victim, task>>
                     /\ StealFrame

StealFails(t) == /\ Goto(t, "commit", "again")
                 /\ head[victim[t]] # bhead[t]
                 /\ pushed' = [pushed EXCEPT ![t] = 0]
                 /\ count' = [count EXCEPT ![t] = 0]
                 /\ UNCHANGED <<head, array, bhead, victim, task>>
                 /\ StealFrame

(* The copies are the thief's; it keeps the last one.                      *)
StealCommit(t) ==
  /\ pc[t] = "commit" /\ head[victim[t]] = bhead[t]
  /\ head' = [head EXCEPT ![victim[t]] = Plus(@, count[t])]
  /\ task' = [task EXCEPT ![t] = Slot(t, Plus(tail[t], count[t] - 1))]
  /\ pushed' = [pushed EXCEPT ![t] = count[t] - 1]
  /\ pc' = [pc EXCEPT ![t] = IF count[t] = 1 THEN "out" ELSE "stolen"]
  /\ count' = [count EXCEPT ![t] = 0]
  /\ bhead' = [bhead EXCEPT ![t] = 0]
  /\ victim' = [victim EXCEPT ![t] = Nobody]
  /\ UNCHANGED array
  /\ StealFrame

StealShow(t) == Show(t, "stolen", "out")

StealStep(t) == \/ StealAgain(t) \/ StealTail(t) \/ StealCopy(t) \/ StealFails(t)
                \/ StealCommit(t) \/ StealShow(t)
-----------------------------------------------------------------------------
(* The callback returns, if it ever does.                                  *)
Finish(t) == /\ pc[t] = "out" /\ task[t] \notin Forever \cup {Null}
             /\ task' = [task EXCEPT ![t] = Null]
             /\ UNCHANGED <<queueVars, pc, head, tail, array, bhead, count, pushed,
                            victim, new, scheduled>>

Next == \/ \E p \in Procs : QueueStep(p) /\ UNCHANGED <<bufferVars, scheduled>>
        \/ \E c \in Clients, k \in External : Put(c, k)
        \/ \E t \in Threads :
             \/ PushSlot(t) \/ PushTail(t) \/ MigrateFails(t) \/ Migrate(t)
             \/ PushOverflow(t) \/ Pop(t) \/ TakeFails(t) \/ Take(t)
             \/ ConsumeStep(t) \/ StealStep(t) \/ Finish(t)
             \/ \E k \in Tasks \ External : Push(t, k)
             \/ \E o \in Owners : Consume(t, o)
             \/ \E v \in Threads \ {t} : Steal(t, v)

Spec == Init /\ [][Next]_vars
-----------------------------------------------------------------------------
Between(t, h, n) == {Slot(t, Plus(h, i)) : i \in 0..(n - 1)}
Buffered(t) == Between(t, head[t], Size(t, head[t]))
Unshown(t) == Between(t, tail[t], pushed[t])

(* A buffer holds what its indices say, no task twice, none that another   *)
(* buffer holds, and never more than fits; whoever fills it from a queue   *)
(* or another buffer found it empty (the assertions of 593, 654, 683-684   *)
(* and 716-717).                                                           *)
Ring(t) == /\ Size(t, head[t]) =< capacity
           /\ Buffered(t) \subseteq scheduled
           /\ Cardinality(Buffered(t)) = Size(t, head[t])
           /\ pc[t] \in Popping \cup {"look", "again", "copy", "commit"}
                => Size(t, head[t]) = 0

Rings == \A t \in Threads : /\ Ring(t)
                            /\ \A u \in Threads \ {t} : Buffered(t) \cap Buffered(u) = {}

(* Queues are handed from consumer to consumer, who never are two, and     *)
(* what one leaves in the cache the next one finds (475-572).              *)
Words == \A o \in Owners : Word(o)

(* steal() gives up on a victim only when there is nothing to take, though *)
(* it reads the tail after the head (719-734).                              *)
GivesUpOnEmpty ==
  [][\A t \in Threads : pc[t] = "look" /\ pc'[t] = "out" => Buffered(victim[t]) = {}]_vars

(* What a consumer has popped is its own from its last look at the queue   *)
(* on, what a thief has copied from its compare-exchange on.               *)
Queued(o) ==
  Chain(stack[o].top) \cup
  IF stack[o].consuming
  THEN UNION {Chain(consumer[t]) \cup (IF pc[t] \in Popping THEN Unshown(t) ELSE {}) :
              t \in {t \in Threads : Consumes(t, o)}}
  ELSE Chain(cache[o])
Held(t) == ({task[t]} \cap Tasks) \cup
           (IF pc[t] \in {"tail", "stolen"} THEN Unshown(t) ELSE {})
Listed(p) == {list[p][i] : i \in DOMAIN list[p]}

(* Queues and buffers implement TaskSets: whatever is scheduled is in one  *)
(* place and nothing is lost, while consumers, pushers, thieves and the    *)
(* owner of a buffer race (475-766).                                       *)
Sets == INSTANCE TaskSets WITH
          queue <- [o \in Owners |-> Queued(o)],
          buffer <- [t \in Threads |-> Buffered(t)],
          overflow <- [t \in Threads |-> Listed(t)],
          hold <- [t \in Threads |-> Held(t)],
          consumer <- [o \in Owners |-> IF stack[o].consuming
                                        THEN CHOOSE t \in Threads : Consumes(t, o)
                                        ELSE Nobody],
          scheduled <- scheduled \ ({new[t] : t \in Threads}
                                     \cup UNION {Listed(c) : c \in Clients})
TaskSetsSpec == Sets!Spec
=============================================================================

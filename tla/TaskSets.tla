------------------------------ MODULE TaskSets ------------------------------
(***************************************************************************)
(* What the containers of the thread pool promise, whatever the order in   *)
(* which they give their tasks out: a task is in one place, a queue has    *)
(* one consumer, who takes all of it or what a full buffer and one more    *)
(* can hold, a thief takes at most half of a buffer.  WorkQueues           *)
(* implements it access by access, ThreadPool relies on it.                *)
(***************************************************************************)
EXTENDS Naturals, FiniteSets

CONSTANTS Threads, Pool, Nobody, Tasks, capacity

Queues == Threads \cup {Pool}

VARIABLES queue,      (* of the pool and of each thread                    *)
          buffer,     (* of each thread                                    *)
          overflow,   (* what a push took out of a full buffer             *)
          hold,       (* the tasks in a thread's hands                     *)
          consumer,   (* of each queue                                     *)
          scheduled

vars == <<queue, buffer, overflow, hold, consumer, scheduled>>

Init == /\ queue = [o \in Queues |-> {}]
        /\ buffer = [t \in Threads |-> {}]
        /\ overflow = [t \in Threads |-> {}]
        /\ hold = [t \in Threads |-> {}]
        /\ consumer = [o \in Queues |-> Nobody]
        /\ scheduled = {}

New(k) == k \notin scheduled /\ scheduled' = scheduled \cup {k}

Idle(t) == hold[t] = {} /\ overflow[t] = {}
Busy(t) == Cardinality(hold[t]) = 1 /\ overflow[t] = {}

(* A client puts a task into the pool's queue.                             *)
Put(k) == /\ New(k)
          /\ queue' = [queue EXCEPT ![Pool] = @ \cup {k}]
          /\ UNCHANGED <<buffer, overflow, hold, consumer>>

(* A callback puts one into its thread's buffer, or into the thread's      *)
(* queue, behind half of a buffer that was full.                           *)
Push(t, k) == /\ Busy(t) /\ New(k)
              /\ Cardinality(buffer[t]) < capacity
              /\ buffer' = [buffer EXCEPT ![t] = @ \cup {k}]
              /\ UNCHANGED <<queue, overflow, hold, consumer>>

Overflow(t, k) == /\ Busy(t) /\ New(k)
                  /\ Cardinality(buffer[t]) = capacity
                  /\ \E half \in SUBSET buffer[t] :
                       /\ Cardinality(half) = capacity \div 2
                       /\ buffer' = [buffer EXCEPT ![t] = @ \ half]
                       /\ overflow' = [overflow EXCEPT ![t] = half \cup {k}]
                  /\ UNCHANGED <<queue, hold, consumer>>

PushOverflow(t) == /\ overflow[t] # {}
                   /\ queue' = [queue EXCEPT ![t] = @ \cup overflow[t]]
                   /\ overflow' = [overflow EXCEPT ![t] = {}]
                   /\ UNCHANGED <<buffer, hold, consumer, scheduled>>

Pop(t) == /\ Idle(t)
          /\ \E k \in buffer[t] :
               /\ buffer' = [buffer EXCEPT ![t] = @ \ {k}]
               /\ hold' = [hold EXCEPT ![t] = {k}]
          /\ UNCHANGED <<queue, overflow, consumer, scheduled>>

Acquire(t, o) == /\ Idle(t) /\ buffer[t] = {}
                 /\ consumer[o] = Nobody /\ queue[o] # {}
                 /\ consumer' = [consumer EXCEPT ![o] = t]
                 /\ UNCHANGED <<queue, buffer, overflow, hold, scheduled>>

(* One task is all there was; of more, a push may have come too late.      *)
Take(t, o) == /\ Idle(t) /\ consumer[o] = t
              /\ \E ks \in SUBSET queue[o] :
                   /\ Cardinality(ks) \in 1..(capacity + 1)
                   /\ Cardinality(ks) = 1 => ks = queue[o]
                   /\ hold' = [hold EXCEPT ![t] = ks]
                   /\ queue' = [queue EXCEPT ![o] = @ \ ks]
              /\ UNCHANGED <<buffer, overflow, consumer, scheduled>>

Steal(t, v) == /\ Idle(t) /\ buffer[t] = {}
               /\ \E ks \in SUBSET buffer[v] :
                    /\ Cardinality(ks) \in 1..((Cardinality(buffer[v]) + 1) \div 2)
                    /\ hold' = [hold EXCEPT ![t] = ks]
                    /\ buffer' = [buffer EXCEPT ![v] = @ \ ks]
               /\ UNCHANGED <<queue, overflow, consumer, scheduled>>

(* All but one of what was taken is there for others to steal.             *)
Publish(t) == /\ Cardinality(hold[t]) > 1
              /\ \E k \in hold[t] :
                   /\ hold' = [hold EXCEPT ![t] = {k}]
                   /\ buffer' = [buffer EXCEPT ![t] = @ \cup (hold[t] \ {k})]
              /\ UNCHANGED <<queue, overflow, consumer, scheduled>>

Release(t, o) == /\ consumer[o] = t
                 /\ consumer' = [consumer EXCEPT ![o] = Nobody]
                 /\ UNCHANGED <<queue, buffer, overflow, hold, scheduled>>

Done(t) == /\ Busy(t)
           /\ hold' = [hold EXCEPT ![t] = {}]
           /\ UNCHANGED <<queue, buffer, overflow, consumer, scheduled>>

Next == \/ \E k \in Tasks : Put(k)
        \/ \E t \in Threads :
             \/ PushOverflow(t) \/ Pop(t) \/ Publish(t) \/ Done(t)
             \/ \E k \in Tasks : Push(t, k) \/ Overflow(t, k)
             \/ \E o \in Queues : Acquire(t, o) \/ Take(t, o) \/ Release(t, o)
             \/ \E v \in Threads \ {t} : Steal(t, v)

(* A step that changes nothing comes first: most steps of who implements    *)
(* this are such, and TLC has done with them then.                          *)
Spec == Init /\ [][UNCHANGED vars \/ Next]_vars
=============================================================================

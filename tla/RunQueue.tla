------------------------------ MODULE RunQueue ------------------------------
(***************************************************************************)
(* src/thread_pool.zig, Node.Queue (475-572): queues that many push to and *)
(* one at a time consumes.  The atomic word `stack` is the top of a linked *)
(* stack and the bits HAS_CACHE and IS_CONSUMING.  Whoever sets            *)
(* IS_CONSUMING owns `cache`, the rest of a stack that was taken before,   *)
(* and hands it on when it clears the bit.                                 *)
(*                                                                         *)
(* A step is one access of the word or of the cache, with the accesses of  *)
(* nodes that nobody else can reach.  A compare-exchange that fails        *)
(* returns the word it found.                                              *)
(***************************************************************************)
EXTENDS Integers, Sequences, FiniteSets

CONSTANTS Procs,    (* the threads that use the queues                     *)
          Owners,   (* the owners of a queue                               *)
          Tasks,
          Null

ASSUME RunQueueAssumption == IsFiniteSet(Tasks) /\ Null \notin Tasks \cup Owners

VARIABLES stack,    (* of each queue: [top, cached, consuming]             *)
          cache,    (* of each queue                                       *)
          next,     (* of each node                                        *)
          pc,       (* where a thread is                                   *)
          at,       (* the queue it is busy with                           *)
          seen,     (* the word as it last read it                         *)
          list,     (* the linked list it pushes                           *)
          consumer  (* what it has of the consumer's chain                 *)

sharedQueueVars == <<stack, cache, next>>
localQueueVars  == <<at, seen, list, consumer>>

Free == [top |-> Null, cached |-> FALSE, consuming |-> FALSE]

QueueInit == /\ stack = [o \in Owners |-> Free]
             /\ cache = [o \in Owners |-> Null]
             /\ next = [k \in Tasks |-> Null]
             /\ pc = [p \in Procs |-> "out"]
             /\ at = [p \in Procs |-> Null]
             /\ seen = [p \in Procs |-> Free]
             /\ list = [p \in Procs |-> <<>>]
             /\ consumer = [p \in Procs |-> Null]

Goto(p, a, b) == pc[p] = a /\ pc' = [pc EXCEPT ![p] = b]

(* The order of a list and, for its tail, what it is put on.               *)
Linked(ks, top) ==
  [k \in Tasks |-> IF \E i \in DOMAIN ks : ks[i] = k
                   THEN LET i == CHOOSE j \in DOMAIN ks : ks[j] = k
                        IN  IF i = Len(ks) THEN top ELSE ks[i + 1]
                   ELSE next[k]]
-----------------------------------------------------------------------------
(* push(list)                                                              *)

PushLoad(p, o, ks) ==
  /\ pc' = [pc EXCEPT ![p] = "push"]
  /\ at' = [at EXCEPT ![p] = o]
  /\ seen' = [seen EXCEPT ![p] = stack[o]]
  /\ list' = [list EXCEPT ![p] = ks]
  /\ next' = Linked(ks, stack[o].top)
  /\ UNCHANGED <<stack, cache, consumer>>

PushFails(p) ==
  /\ pc[p] = "push" /\ seen[p] # stack[at[p]]
  /\ seen' = [seen EXCEPT ![p] = stack[at[p]]]
  /\ next' = Linked(list[p], stack[at[p]].top)
  /\ UNCHANGED <<stack, cache, pc, at, list, consumer>>

(* The bits of the consumer stay as they are.                              *)
PushCas(p) ==
  /\ Goto(p, "push", "out")
  /\ seen[p] = stack[at[p]]
  /\ stack' = [stack EXCEPT ![at[p]].top = Head(list[p])]
  /\ list' = [list EXCEPT ![p] = <<>>]
  /\ seen' = [seen EXCEPT ![p] = Free]
  /\ at' = [at EXCEPT ![p] = Null]
  /\ UNCHANGED <<cache, next, consumer>>
-----------------------------------------------------------------------------
(* tryAcquireConsumer(): Contended and Empty are the same to the caller.   *)

Taken(word) == word.consuming
Empty(word) == ~word.cached /\ word.top = Null
Available(word) == ~Taken(word) /\ ~Empty(word)

AcquireLoad(p, o) ==
  /\ Available(stack[o])
  /\ pc' = [pc EXCEPT ![p] = "acquire"]
  /\ at' = [at EXCEPT ![p] = o]
  /\ seen' = [seen EXCEPT ![p] = stack[o]]
  /\ UNCHANGED <<sharedQueueVars, list, consumer>>

AcquireFails(p) ==
  /\ pc[p] = "acquire" /\ seen[p] # stack[at[p]]
  /\ IF Available(stack[at[p]])
     THEN seen' = [seen EXCEPT ![p] = stack[at[p]]] /\ UNCHANGED <<pc, at>>
     ELSE /\ seen' = [seen EXCEPT ![p] = Free]
          /\ at' = [at EXCEPT ![p] = Null]
          /\ pc' = [pc EXCEPT ![p] = "out"]
  /\ UNCHANGED <<sharedQueueVars, list, consumer>>

(* The stack becomes the consumer's unless there is a cache.               *)
AcquireCas(p) ==
  /\ Goto(p, "acquire", "pop")
  /\ seen[p] = stack[at[p]]
  /\ stack' = [stack EXCEPT ![at[p]] = [top |-> IF seen[p].cached THEN seen[p].top
                                                ELSE Null,
                                        cached |-> TRUE, consuming |-> TRUE]]
  /\ consumer' = [consumer EXCEPT ![p] = IF cache[at[p]] # Null THEN cache[at[p]]
                                         ELSE seen[p].top]
  /\ seen' = [seen EXCEPT ![p] = Free]
  /\ UNCHANGED <<cache, next, at, list>>
-----------------------------------------------------------------------------
(* pop(&consumer) takes node k, from the chain or, when that is at its     *)
(* end, from what was pushed since; or there is nothing.  Where the thread *)
(* goes next is the caller's.                                              *)

PopCached(p, k) == /\ k = consumer[p] /\ k # Null
                   /\ consumer' = [consumer EXCEPT ![p] = next[k]]
                   /\ UNCHANGED <<sharedQueueVars, at, seen, list>>

PopFinds(p) == /\ consumer[p] = Null /\ stack[at[p]].top # Null
               /\ UNCHANGED <<sharedQueueVars, localQueueVars>>

PopNothing(p) == /\ consumer[p] = Null /\ stack[at[p]].top = Null
                 /\ UNCHANGED <<sharedQueueVars, localQueueVars>>

PopSwap(p, k) == /\ k = stack[at[p]].top
                 /\ stack' = [stack EXCEPT ![at[p]] = [top |-> Null, cached |-> TRUE,
                                                       consuming |-> TRUE]]
                 /\ consumer' = [consumer EXCEPT ![p] = next[k]]
                 /\ UNCHANGED <<cache, next, at, seen, list>>
-----------------------------------------------------------------------------
(* releaseConsumer(consumer): first the cache, then the word.              *)

ReleaseCache(p) ==
  /\ Goto(p, "cache", "sub")
  /\ cache' = [cache EXCEPT ![at[p]] = consumer[p]]
  /\ UNCHANGED <<stack, next, localQueueVars>>

(* HAS_CACHE stays although the cache is empty.                            *)
ReleaseSubCached(p) ==
  /\ Goto(p, "sub", "out")
  /\ stack' = [stack EXCEPT ![at[p]].consuming = FALSE]
  /\ consumer' = [consumer EXCEPT ![p] = Null]
  /\ at' = [at EXCEPT ![p] = Null]
  /\ UNCHANGED <<cache, next, seen, list>>

ReleaseSub(p) ==
  /\ Goto(p, "sub", "out")
  /\ stack' = [stack EXCEPT ![at[p]].consuming = FALSE,
                            ![at[p]].cached = @ /\ consumer[p] # Null]
  /\ consumer' = [consumer EXCEPT ![p] = Null]
  /\ at' = [at EXCEPT ![p] = Null]
  /\ UNCHANGED <<cache, next, seen, list>>

QueueStep(p) == \/ PushFails(p) \/ PushCas(p) \/ AcquireFails(p) \/ AcquireCas(p)
                \/ ReleaseCache(p) \/ ReleaseSub(p)
-----------------------------------------------------------------------------
(* The nodes that are linked, from k on.                                   *)
Chain(k) ==
  LET within[n \in 0..Cardinality(Tasks)] ==
        IF n = 0 THEN {k}
        ELSE LET ks == within[n - 1] IN ks \cup ({next[j] : j \in ks} \cap Tasks)
  IN  IF k = Null THEN {} ELSE within[Cardinality(Tasks)]

Popping == {"pop", "swap", "extra", "extraswap"}
Consumes(p, o) == pc[p] \in Popping \cup {"tail", "cache", "sub"} /\ at[p] = o

(* The bits mean what they say: IS_CONSUMING that some thread is, and no   *)
(* second one, HAS_CACHE while nobody is that the cache is not empty; no   *)
(* assertion of 546, 558 or 565 fails.                                     *)
Word(o) ==
  /\ \A p, q \in Procs : Consumes(p, o) /\ Consumes(q, o) => p = q
  /\ stack[o].consuming <=> \E p \in Procs : Consumes(p, o)
  /\ stack[o].consuming => stack[o].cached
  /\ ~stack[o].consuming => (stack[o].cached <=> cache[o] # Null)
=============================================================================

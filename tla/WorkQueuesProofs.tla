-------------------------- MODULE WorkQueuesProofs --------------------------
(***************************************************************************)
(* For any number of threads, clients, queues and tasks, and buffers of    *)
(* any size:                                                               *)
(*  - the word of a queue: one consumer at a time, who owns the cache and  *)
(*    hands it on (QueueInv);                                              *)
(*  - the ring of a thread: positions, counted from first_index, of what   *)
(*    is in it and of what others have read of it (PosInv), and one place  *)
(*    for each task, in a stack, a cache, a list or a slot (Located), so   *)
(*    that no slot is lost, shown twice or overwritten (RingInv).          *)
(***************************************************************************)
EXTENDS WorkQueues, FiniteSetTheorems, SequenceTheorems, TLAPS

(* What a client schedules is a task.                                      *)
LEMMA Externals == External \subseteq Tasks
BY WorkQueuesAssumption

Consuming == Popping \cup {"tail", "cache", "sub"}

(* Functions of queues and threads, and records with two bits; what is at  *)
(* the top does not matter here.                                           *)
Cell(w) == /\ w = [top |-> w.top, cached |-> w.cached, consuming |-> w.consuming]
           /\ w.cached \in BOOLEAN /\ w.consuming \in BOOLEAN

Shape == /\ stack = [o \in Owners |-> stack[o]]
         /\ \A o \in Owners : Cell(stack[o])
         /\ cache = [o \in Owners |-> cache[o]]
         /\ pc = [p \in Procs |-> pc[p]]
         /\ at = [p \in Procs |-> at[p]]
         /\ seen = [p \in Procs |-> seen[p]]
         /\ consumer = [p \in Procs |-> consumer[p]]

(* A thread that waits for its compare-exchange saw a queue it can have;   *)
(* one that has written the cache has only the bits to clear.              *)
Local == \A p \in Procs :
           /\ pc[p] \in Consuming \cup {"push", "acquire"} => at[p] \in Owners
           /\ pc[p] = "acquire" => Available(seen[p])
           /\ pc[p] = "sub" => cache[at[p]] = consumer[p]

QueueInv == Shape /\ Local /\ Words

Make(a, b, c) == [top |-> a, cached |-> b, consuming |-> c]

LEMMA Cells ==
  ASSUME NEW a, NEW b \in BOOLEAN, NEW c \in BOOLEAN
  PROVE  /\ Cell(Make(a, b, c))
         /\ Make(a, b, c).cached = b /\ Make(a, b, c).consuming = c
<1>1. Make(a, b, c).top = a /\ Make(a, b, c).cached = b /\ Make(a, b, c).consuming = c
  BY DEF Make
<1> QED
  BY <1>1 DEF Cell, Make

LEMMA QueueInitInv == Init => QueueInv
<1> SUFFICES ASSUME Init PROVE QueueInv
  OBVIOUS
<1>1. /\ stack = [o \in Owners |-> Free] /\ cache = [o \in Owners |-> Null]
      /\ pc = [p \in Procs |-> "out"] /\ at = [p \in Procs |-> Null]
      /\ seen = [p \in Procs |-> Free] /\ consumer = [p \in Procs |-> Null]
  BY DEF Init, QueueInit
<1>2. Shape
  BY <1>1 DEF Shape, Free, Cell
<1>3. \A p \in Procs : pc[p] = "out"
  BY <1>1
<1>4. Local
  BY <1>3 DEF Local, Consuming, Popping
<1>5. Words
  BY <1>1, <1>3 DEF Words, Word, Consumes, Free, Popping
<1> QED
  BY <1>2, <1>4, <1>5 DEF QueueInv

(* A step of one thread that leaves the bits and the caches as they are,   *)
(* and begins or ends no consuming.                                        *)
Alone(p) ==
  /\ \A q \in Procs \ {p} : /\ pc'[q] = pc[q] /\ at'[q] = at[q]
                            /\ seen'[q] = seen[q] /\ consumer'[q] = consumer[q]

LEMMA Kept ==
  ASSUME QueueInv, Shape', NEW p \in Procs, Alone(p), cache' = cache,
         \A o \in Owners : /\ stack'[o].cached = stack[o].cached
                           /\ stack'[o].consuming = stack[o].consuming,
         pc[p] \in Consuming <=> pc'[p] \in Consuming,
         pc'[p] \in Consuming => at'[p] = at[p],
         pc'[p] \in {"push", "acquire"} => at'[p] \in Owners,
         pc'[p] = "acquire" => Available(seen'[p]),
         pc'[p] # "sub"
  PROVE  QueueInv'
<1>1. Local'
  <2> SUFFICES ASSUME NEW q \in Procs
               PROVE  /\ pc'[q] \in Consuming \cup {"push", "acquire"} => at'[q] \in Owners
                      /\ pc'[q] = "acquire" => Available(seen'[q])
                      /\ pc'[q] = "sub" => cache'[at'[q]] = consumer'[q]
    BY DEF Local, Available, Taken, Empty, Consuming, Popping
  <2>1. CASE q = p
    BY <2>1 DEF QueueInv, Local
  <2>2. CASE q # p
    BY <2>2 DEF QueueInv, Local, Alone
  <2> QED
    BY <2>1, <2>2
<1>2. \A q \in Procs, o \in Owners : Consumes(q, o)' <=> Consumes(q, o)
  BY DEF Consumes, Alone, Consuming
<1>3. Words'
  BY <1>2 DEF QueueInv, Words, Word
<1> QED
  BY <1>1, <1>3 DEF QueueInv

(* Outside of queues.                                                      *)
LEMMA Elsewhere ==
  ASSUME QueueInv, UNCHANGED <<stack, cache, at, seen, consumer>>,
         NEW p \in Procs, pc[p] \notin Consuming,
         NEW s, s \notin Consuming \cup {"push", "acquire"},
         pc' = [pc EXCEPT ![p] = s]
  PROVE  QueueInv'
<1>1. Shape'
  BY DEF QueueInv, Shape
<1>2. pc'[p] = s /\ \A q \in Procs \ {p} : pc'[q] = pc[q]
  BY DEF QueueInv, Shape
<1>3. Alone(p)
  BY <1>2 DEF Alone
<1>4. s # "sub"
  BY DEF Consuming
<1> QED
  BY <1>1, <1>2, <1>3, <1>4, Kept

(* A consumer pops.                                                        *)
LEMMA Consumer ==
  ASSUME QueueInv, UNCHANGED <<cache, at, seen>>,
         NEW p \in Procs, pc[p] \in Consuming,
         NEW s, s \in Consuming \ {"sub"},
         pc' = [pc EXCEPT ![p] = s],
         \/ stack' = stack
         \/ stack' = [stack EXCEPT ![at[p]] = [top |-> Null, cached |-> TRUE,
                                               consuming |-> TRUE]],
         NEW k,
         consumer' = [consumer EXCEPT ![p] = k]
  PROVE  QueueInv'
<1>1. at[p] \in Owners /\ Consumes(p, at[p])
  BY DEF QueueInv, Local, Consumes, Consuming
<1>2. stack[at[p]].consuming = TRUE /\ stack[at[p]].cached = TRUE
  BY <1>1 DEF QueueInv, Words, Word, Shape, Cell
<1>3. stack' = [o \in Owners |-> stack'[o]] /\ \A o \in Owners \ {at[p]} : stack'[o] = stack[o]
  BY <1>1 DEF QueueInv, Shape
<1>4. stack'[at[p]] = stack[at[p]]
      \/ stack'[at[p]] = [top |-> Null, cached |-> TRUE, consuming |-> TRUE]
  BY <1>1 DEF QueueInv, Shape
<1>5. \A o \in Owners :
        /\ Cell(stack'[o])
        /\ stack'[o].cached = stack[o].cached /\ stack'[o].consuming = stack[o].consuming
  <2>1. \A o \in Owners : stack'[o] = stack[o] => Cell(stack'[o])
    BY DEF QueueInv, Shape
  <2>2. CASE stack'[at[p]] = [top |-> Null, cached |-> TRUE, consuming |-> TRUE]
    <3>1. Cell(stack'[at[p]]) /\ stack'[at[p]].cached = TRUE /\ stack'[at[p]].consuming = TRUE
      <4>1. stack'[at[p]] = Make(Null, TRUE, TRUE)
        BY <2>2 DEF Make
      <4> QED
        BY <4>1, Cells
    <3> QED
      BY <1>2, <1>3, <2>1, <3>1
  <2>3. CASE stack'[at[p]] = stack[at[p]]
    BY <1>3, <2>1, <2>3
  <2> QED
    BY <1>4, <2>2, <2>3
<1>6. Shape'
  BY <1>3, <1>5 DEF QueueInv, Shape
<1>7. /\ pc'[p] = s /\ \A q \in Procs \ {p} : pc'[q] = pc[q] /\ consumer'[q] = consumer[q]
  BY DEF QueueInv, Shape
<1>8. Alone(p)
  BY <1>7 DEF Alone
<1>9. s # "sub" /\ s \notin {"push", "acquire"}
  BY DEF Consuming, Popping
<1> QED
  BY <1>5, <1>6, <1>7, <1>8, <1>9, Kept

(***************************************************************************)
(* push()                                                                  *)
(***************************************************************************)
LEMMA PushLoadInv ==
  ASSUME QueueInv, NEW p \in Procs, NEW o \in Owners, NEW ks,
         pc[p] \notin Consuming, PushLoad(p, o, ks)
  PROVE  QueueInv'
<1>1. /\ pc' = [pc EXCEPT ![p] = "push"] /\ at' = [at EXCEPT ![p] = o]
      /\ seen' = [seen EXCEPT ![p] = stack[o]]
      /\ UNCHANGED <<stack, cache, consumer>>
  BY DEF PushLoad
<1>2. Shape'
  BY <1>1 DEF QueueInv, Shape
<1>3. pc'[p] = "push" /\ at'[p] = o /\ Alone(p)
  BY <1>1 DEF QueueInv, Shape, Alone
<1>4. pc'[p] \notin Consuming
  BY <1>3 DEF Consuming, Popping
<1> QED
  BY <1>1, <1>2, <1>3, <1>4, Kept

LEMMA PushFailsInv ==
  ASSUME QueueInv, NEW p \in Procs, PushFails(p)
  PROVE  QueueInv'
<1>1. /\ pc[p] = "push" /\ seen' = [seen EXCEPT ![p] = stack[at[p]]]
      /\ UNCHANGED <<stack, cache, pc, at, consumer>>
  BY DEF PushFails
<1>2. Shape'
  BY <1>1 DEF QueueInv, Shape
<1>3. Alone(p)
  BY <1>1 DEF QueueInv, Shape, Alone
<1>4. pc[p] \notin Consuming /\ at[p] \in Owners
  BY <1>1 DEF Consuming, Popping, QueueInv, Local
<1> QED
  BY <1>1, <1>2, <1>3, <1>4, Kept

LEMMA PushCasInv ==
  ASSUME QueueInv, NEW p \in Procs, PushCas(p)
  PROVE  QueueInv'
<1> DEFINE k == Head(list[p])
<1>1. /\ pc[p] = "push" /\ pc' = [pc EXCEPT ![p] = "out"]
      /\ stack' = [stack EXCEPT ![at[p]].top = k]
      /\ seen' = [seen EXCEPT ![p] = Free] /\ at' = [at EXCEPT ![p] = Null]
      /\ UNCHANGED <<cache, consumer>>
  BY DEF PushCas, Goto
<1> HIDE DEF k
<1>2. at[p] \in Owners
  BY <1>1 DEF QueueInv, Local
<1>3. /\ stack' = [o \in Owners |-> stack'[o]]
      /\ \A o \in Owners \ {at[p]} : stack'[o] = stack[o]
      /\ stack'[at[p]] = [stack[at[p]] EXCEPT !.top = k]
  BY <1>1, <1>2 DEF QueueInv, Shape
<1>4. stack[at[p]] = [top |-> stack[at[p]].top, cached |-> stack[at[p]].cached,
                      consuming |-> stack[at[p]].consuming]
      /\ stack[at[p]].cached \in BOOLEAN /\ stack[at[p]].consuming \in BOOLEAN
  BY <1>2 DEF QueueInv, Shape, Cell
<1>5. stack'[at[p]] = [top |-> k, cached |-> stack[at[p]].cached,
                       consuming |-> stack[at[p]].consuming]
  BY <1>3, <1>4
<1>6. \A o \in Owners :
        /\ Cell(stack'[o])
        /\ stack'[o].cached = stack[o].cached /\ stack'[o].consuming = stack[o].consuming
  <2>1. \A o \in Owners : Cell(stack[o])
    BY DEF QueueInv, Shape
  <2>2. /\ Cell(stack'[at[p]])
        /\ stack'[at[p]].cached = stack[at[p]].cached
        /\ stack'[at[p]].consuming = stack[at[p]].consuming
    <3>1. stack'[at[p]] = Make(k, stack[at[p]].cached, stack[at[p]].consuming)
      BY <1>5 DEF Make
    <3> QED
      BY <1>4, <3>1, Cells
  <2> QED
    BY <1>3, <2>1, <2>2
<1>7. Shape'
  BY <1>1, <1>3, <1>6 DEF QueueInv, Shape
<1>8. pc'[p] = "out" /\ Alone(p)
  BY <1>1 DEF QueueInv, Shape, Alone
<1>9. pc[p] \notin Consuming /\ pc'[p] \notin Consuming
  BY <1>1, <1>8 DEF Consuming, Popping
<1> QED
  BY <1>1, <1>6, <1>7, <1>8, <1>9, Kept

(***************************************************************************)
(* tryAcquireConsumer()                                                    *)
(***************************************************************************)
LEMMA AcquireLoadInv ==
  ASSUME QueueInv, NEW p \in Procs, NEW o \in Owners,
         pc[p] \notin Consuming, AcquireLoad(p, o)
  PROVE  QueueInv'
<1>1. /\ pc' = [pc EXCEPT ![p] = "acquire"] /\ at' = [at EXCEPT ![p] = o]
      /\ Available(stack[o]) /\ seen' = [seen EXCEPT ![p] = stack[o]]
      /\ UNCHANGED <<stack, cache, consumer>>
  BY DEF AcquireLoad, sharedQueueVars
<1>2. Shape'
  BY <1>1 DEF QueueInv, Shape
<1>3. pc'[p] = "acquire" /\ at'[p] = o /\ seen'[p] = stack[o] /\ Alone(p)
  BY <1>1 DEF QueueInv, Shape, Alone
<1>4. pc'[p] \notin Consuming
  BY <1>3 DEF Consuming, Popping
<1> QED
  BY <1>1, <1>2, <1>3, <1>4, Kept

LEMMA AcquireFailsInv ==
  ASSUME QueueInv, NEW p \in Procs, AcquireFails(p)
  PROVE  QueueInv'
<1>1. pc[p] = "acquire" /\ at[p] \in Owners /\ UNCHANGED <<stack, cache, consumer>>
  BY DEF AcquireFails, sharedQueueVars, QueueInv, Local
<1>2. CASE Available(stack[at[p]])
  <2>1. seen' = [seen EXCEPT ![p] = stack[at[p]]] /\ UNCHANGED <<pc, at>>
    BY <1>2 DEF AcquireFails
  <2>2. Shape'
    BY <1>1, <2>1 DEF QueueInv, Shape
  <2>3. seen'[p] = stack[at[p]] /\ Alone(p)
    BY <1>1, <2>1 DEF QueueInv, Shape, Alone
  <2>4. pc[p] \notin Consuming
    BY <1>1 DEF Consuming, Popping
  <2> QED
    BY <1>1, <1>2, <2>1, <2>2, <2>3, <2>4, Kept
<1>3. CASE ~Available(stack[at[p]])
  <2>1. /\ seen' = [seen EXCEPT ![p] = Free] /\ at' = [at EXCEPT ![p] = Null]
        /\ pc' = [pc EXCEPT ![p] = "out"]
    BY <1>3 DEF AcquireFails
  <2>2. Shape'
    BY <1>1, <2>1 DEF QueueInv, Shape
  <2>3. pc'[p] = "out" /\ Alone(p)
    BY <1>1, <2>1 DEF QueueInv, Shape, Alone
  <2>4. pc[p] \notin Consuming /\ pc'[p] \notin Consuming
    BY <1>1, <2>3 DEF Consuming, Popping
  <2> QED
    BY <1>1, <2>2, <2>3, <2>4, Kept
<1> QED
  BY <1>2, <1>3

(* The bits of one queue and the position of one thread change.            *)
LEMMA AcquireCasInv ==
  ASSUME QueueInv, NEW p \in Procs, AcquireCas(p)
  PROVE  QueueInv'
<1> DEFINE o == at[p]
           top == IF seen[p].cached THEN seen[p].top ELSE Null
           k == IF cache[o] # Null THEN cache[o] ELSE seen[p].top
<1>1. /\ pc[p] = "acquire" /\ pc' = [pc EXCEPT ![p] = "pop"]
      /\ seen[p] = stack[o]
      /\ stack' = [stack EXCEPT ![o] = [top |-> top, cached |-> TRUE, consuming |-> TRUE]]
      /\ consumer' = [consumer EXCEPT ![p] = k]
      /\ seen' = [seen EXCEPT ![p] = Free]
      /\ UNCHANGED <<cache, at>>
  BY DEF AcquireCas, Goto
<1>2. o \in Owners /\ Available(stack[o])
  BY <1>1 DEF QueueInv, Local
<1>3. stack[o].consuming = FALSE
  BY <1>2 DEF Available, Taken, QueueInv, Shape, Cell
<1>4. \A q \in Procs : ~Consumes(q, o)
  BY <1>2, <1>3 DEF QueueInv, Words, Word
<1> HIDE DEF top, k
<1>5. /\ stack'[o] = [top |-> top, cached |-> TRUE, consuming |-> TRUE]
      /\ \A oo \in Owners \ {o} : stack'[oo] = stack[oo]
      /\ stack' = [oo \in Owners |-> stack'[oo]]
  BY <1>1, <1>2 DEF QueueInv, Shape
<1>6. Shape' /\ stack'[o].cached = TRUE /\ stack'[o].consuming = TRUE
  <2>1. /\ Cell(stack'[o])
        /\ stack'[o].cached = TRUE /\ stack'[o].consuming = TRUE
    <3>1. stack'[o] = Make(top, TRUE, TRUE)
      BY <1>5 DEF Make
    <3> QED
      BY <3>1, Cells
  <2>2. \A oo \in Owners : Cell(stack[oo])
    BY DEF QueueInv, Shape
  <2>3. \A oo \in Owners : Cell(stack'[oo])
    BY <1>5, <2>1, <2>2
  <2> QED
    BY <1>1, <1>5, <2>1, <2>3 DEF QueueInv, Shape
<1>7. /\ pc'[p] = "pop" /\ \A q \in Procs \ {p} : pc'[q] = pc[q]
      /\ at' = at /\ cache' = cache
      /\ \A q \in Procs \ {p} : seen'[q] = seen[q] /\ consumer'[q] = consumer[q]
  BY <1>1 DEF QueueInv, Shape
<1>8. Local'
  <2> SUFFICES ASSUME NEW q \in Procs
               PROVE  /\ pc'[q] \in Consuming \cup {"push", "acquire"} => at'[q] \in Owners
                      /\ pc'[q] = "acquire" => Available(seen'[q])
                      /\ pc'[q] = "sub" => cache'[at'[q]] = consumer'[q]
    BY DEF Local, Available, Taken, Empty, Consuming, Popping
  <2>1. CASE q = p
    BY <1>2, <1>7, <2>1
  <2>2. CASE q # p
    BY <1>7, <2>2 DEF QueueInv, Local
  <2> QED
    BY <2>1, <2>2
<1>9. Words'
  <2> SUFFICES ASSUME NEW oo \in Owners PROVE Word(oo)'
    BY DEF Words
  <2>1. CASE oo = o
    <3>1. \A q \in Procs : Consumes(q, oo)' <=> q = p
      BY <1>4, <1>7, <2>1 DEF Consumes, Popping
    <3> QED
      BY <1>6, <2>1, <3>1 DEF Word
  <2>2. CASE oo # o
    <3>1. \A q \in Procs : Consumes(q, oo)' <=> Consumes(q, oo)
      BY <1>1, <1>7, <2>2 DEF Consumes, Popping
    <3> QED
      BY <1>5, <1>7, <2>2, <3>1 DEF Word, QueueInv, Words
  <2> QED
    BY <2>1, <2>2
<1> QED
  BY <1>6, <1>8, <1>9 DEF QueueInv

(***************************************************************************)
(* releaseConsumer()                                                       *)
(***************************************************************************)
LEMMA ReleaseCacheInv ==
  ASSUME QueueInv, NEW p \in Procs, ReleaseCache(p)
  PROVE  QueueInv'
<1> DEFINE o == at[p]
<1>1. /\ pc[p] = "cache" /\ pc' = [pc EXCEPT ![p] = "sub"]
      /\ cache' = [cache EXCEPT ![o] = consumer[p]]
      /\ UNCHANGED <<stack, at, seen, consumer>>
  BY DEF ReleaseCache, Goto, localQueueVars
<1>2. o \in Owners /\ Consumes(p, o)
  BY <1>1 DEF QueueInv, Local, Consuming, Consumes
<1>3. /\ \A q \in Procs : Consumes(q, o) => q = p
      /\ stack[o].consuming
  BY <1>2 DEF QueueInv, Words, Word
<1>4. Shape'
  BY <1>1 DEF QueueInv, Shape
<1>5. /\ pc'[p] = "sub" /\ \A q \in Procs \ {p} : pc'[q] = pc[q]
      /\ cache'[o] = consumer[p] /\ \A oo \in Owners \ {o} : cache'[oo] = cache[oo]
  BY <1>1, <1>2 DEF QueueInv, Shape
<1>6. Local'
  <2> SUFFICES ASSUME NEW q \in Procs
               PROVE  /\ pc'[q] \in Consuming \cup {"push", "acquire"} => at'[q] \in Owners
                      /\ pc'[q] = "acquire" => Available(seen'[q])
                      /\ pc'[q] = "sub" => cache'[at'[q]] = consumer'[q]
    BY DEF Local, Available, Taken, Empty, Consuming, Popping
  <2>1. CASE q = p
    BY <1>1, <1>2, <1>5, <2>1
  <2>2. CASE q # p
    <3>1. pc[q] = "sub" => at[q] # o /\ at[q] \in Owners
      BY <1>3, <2>2 DEF Consumes, QueueInv, Local, Consuming
    <3> QED
      BY <1>1, <1>5, <2>2, <3>1 DEF QueueInv, Local
  <2> QED
    BY <2>1, <2>2
<1>7. Words'
  <2> SUFFICES ASSUME NEW oo \in Owners PROVE Word(oo)'
    BY DEF Words
  <2>1. \A q \in Procs : Consumes(q, oo)' <=> Consumes(q, oo)
    BY <1>1, <1>5 DEF Consumes
  <2>2. CASE oo = o
    BY <1>1, <1>3, <2>1, <2>2 DEF Word, QueueInv, Words
  <2>3. CASE oo # o
    BY <1>1, <1>5, <2>1, <2>3 DEF Word, QueueInv, Words
  <2> QED
    BY <2>2, <2>3
<1> QED
  BY <1>4, <1>6, <1>7 DEF QueueInv

LEMMA ReleaseSubInv ==
  ASSUME QueueInv, NEW p \in Procs, ReleaseSub(p)
  PROVE  QueueInv'
<1> DEFINE o == at[p]
<1>1. /\ pc[p] = "sub" /\ pc' = [pc EXCEPT ![p] = "out"]
      /\ stack' = [stack EXCEPT ![o].consuming = FALSE, ![o].cached = @ /\ consumer[p] # Null]
      /\ consumer' = [consumer EXCEPT ![p] = Null]
      /\ at' = [at EXCEPT ![p] = Null]
      /\ UNCHANGED <<cache, seen>>
  BY DEF ReleaseSub, Goto
<1>2. o \in Owners /\ Consumes(p, o) /\ cache[o] = consumer[p]
  BY <1>1 DEF QueueInv, Local, Consuming, Consumes
<1>3. /\ \A q \in Procs : Consumes(q, o) => q = p
      /\ stack[o].consuming = TRUE /\ stack[o].cached = TRUE
  BY <1>2 DEF QueueInv, Words, Word, Shape, Cell
<1>4. stack[o] = [top |-> stack[o].top, cached |-> TRUE, consuming |-> TRUE]
  BY <1>2, <1>3 DEF QueueInv, Shape, Cell
<1>5. /\ stack'[o] = Make(stack[o].top, consumer[p] # Null, FALSE)
      /\ \A oo \in Owners \ {o} : stack'[oo] = stack[oo]
      /\ stack' = [oo \in Owners |-> stack'[oo]]
  <2> DEFINE no == FALSE
             yes == stack[o].cached
             s == [stack EXCEPT ![o].consuming = no]
             kept == s[o].cached /\ consumer[p] # Null
  <2>1. stack' = [s EXCEPT ![o].cached = kept]
    BY <1>1
  <2> HIDE DEF no, yes
  <2>2. stack[o] = Make(stack[o].top, yes, stack[o].consuming)
    BY <1>4 DEF yes, Make
  <2>3. /\ s[o] = Make(stack[o].top, yes, no)
        /\ \A oo \in Owners \ {o} : s[oo] = stack[oo]
        /\ s = [oo \in Owners |-> s[oo]]
    <3>1. /\ s[o] = [stack[o] EXCEPT !.consuming = no]
          /\ \A oo \in Owners \ {o} : s[oo] = stack[oo]
          /\ s = [oo \in Owners |-> s[oo]]
      BY <1>2 DEF QueueInv, Shape
    <3> HIDE DEF s
    <3> QED
      BY <2>2, <3>1 DEF Make
  <2>4. kept = (consumer[p] # Null)
    <3> HIDE DEF s
    <3>1. s[o].cached = yes
      BY <2>3 DEF Make
    <3> QED
      BY <1>3, <3>1 DEF yes
  <2> HIDE DEF s, kept
  <2>5. /\ stack'[o] = [s[o] EXCEPT !.cached = kept]
        /\ \A oo \in Owners \ {o} : stack'[oo] = s[oo]
        /\ stack' = [oo \in Owners |-> stack'[oo]]
    BY <1>2, <2>1, <2>3
  <2>6. stack'[o] = Make(stack[o].top, kept, no)
    BY <2>3, <2>5 DEF Make
  <2> QED
    BY <2>3, <2>4, <2>5, <2>6 DEF no
<1>6. Shape' /\ stack'[o].cached = (consumer[p] # Null) /\ stack'[o].consuming = FALSE
  <2>1. /\ Cell(stack'[o])
        /\ stack'[o].cached = (consumer[p] # Null) /\ stack'[o].consuming = FALSE
    BY <1>5, Cells
  <2>2. \A oo \in Owners : Cell(stack[oo])
    BY DEF QueueInv, Shape
  <2>3. \A oo \in Owners : Cell(stack'[oo])
    BY <1>5, <2>1, <2>2
  <2> QED
    BY <1>1, <1>5, <2>1, <2>3 DEF QueueInv, Shape
<1>7. /\ pc'[p] = "out" /\ \A q \in Procs \ {p} : pc'[q] = pc[q] /\ at'[q] = at[q]
      /\ cache' = cache /\ seen' = seen
      /\ \A q \in Procs \ {p} : consumer'[q] = consumer[q]
  BY <1>1 DEF QueueInv, Shape
<1>8. Local'
  <2> SUFFICES ASSUME NEW q \in Procs
               PROVE  /\ pc'[q] \in Consuming \cup {"push", "acquire"} => at'[q] \in Owners
                      /\ pc'[q] = "acquire" => Available(seen'[q])
                      /\ pc'[q] = "sub" => cache'[at'[q]] = consumer'[q]
    BY DEF Local, Available, Taken, Empty, Consuming, Popping
  <2>1. CASE q = p
    BY <1>7, <2>1 DEF Consuming, Popping
  <2>2. CASE q # p
    BY <1>7, <2>2 DEF QueueInv, Local
  <2> QED
    BY <2>1, <2>2
<1>9. Words'
  <2> SUFFICES ASSUME NEW oo \in Owners PROVE Word(oo)'
    BY DEF Words
  <2>1. CASE oo = o
    <3>1. \A q \in Procs : ~Consumes(q, oo)'
      BY <1>3, <1>7, <2>1 DEF Consumes, Popping
    <3> QED
      BY <1>2, <1>6, <1>7, <2>1, <3>1 DEF Word
  <2>2. CASE oo # o
    <3>1. \A q \in Procs : Consumes(q, oo)' <=> Consumes(q, oo)
      BY <1>7, <2>2 DEF Consumes, Popping
    <3> QED
      BY <1>5, <1>7, <2>2, <3>1 DEF Word, QueueInv, Words
  <2> QED
    BY <2>1, <2>2
<1> QED
  BY <1>6, <1>8, <1>9 DEF QueueInv

(***************************************************************************)
(* The threads that use the queues                                         *)
(***************************************************************************)
LEMMA QueueStepInv ==
  ASSUME QueueInv, NEW p \in Procs, QueueStep(p)
  PROVE  QueueInv'
BY PushFailsInv, PushCasInv, AcquireFailsInv, AcquireCasInv, ReleaseCacheInv,
   ReleaseSubInv DEF QueueStep

LEMMA ConsumeStepInv ==
  ASSUME QueueInv, NEW t \in Procs, ConsumeStep(t)
  PROVE  QueueInv'
<1>1. ASSUME NEW k, Keep(t, k), pc[t] \in Popping
      PROVE  \E s \in Consuming \ {"sub"} : pc' = [pc EXCEPT ![t] = s]
  BY <1>1 DEF Keep, Consuming, Popping
<1>2. pc[t] \in Consuming /\ UNCHANGED <<cache, at, seen>>
  BY DEF ConsumeStep, ConsumePop, ConsumeFind, ConsumeSwap, ConsumeNoMore, ConsumeLast,
         ConsumeTail, Show, Goto, PopCached, PopFinds, PopSwap, PopNothing, Consuming,
         Popping, queueVars, sharedQueueVars, localQueueVars
<1>3. \E s \in Consuming \ {"sub"} : pc' = [pc EXCEPT ![t] = s]
  <2>1. CASE ConsumePop(t) \/ ConsumeSwap(t)
    BY <1>1, <2>1 DEF ConsumePop, ConsumeSwap, Popping
  <2>2. CASE ConsumeFind(t) \/ ConsumeNoMore(t) \/ ConsumeLast(t) \/ ConsumeTail(t)
    BY <2>2 DEF ConsumeFind, ConsumeNoMore, ConsumeLast, ConsumeTail, Show, Goto, Consuming,
                Popping
  <2> QED
    BY <2>1, <2>2 DEF ConsumeStep
<1>4. \/ stack' = stack
      \/ stack' = [stack EXCEPT ![at[t]] = [top |-> Null, cached |-> TRUE,
                                            consuming |-> TRUE]]
  BY DEF ConsumeStep, ConsumePop, ConsumeFind, ConsumeSwap, ConsumeNoMore, ConsumeLast,
         ConsumeTail, Show, PopCached, PopFinds, PopSwap, PopNothing, queueVars,
         sharedQueueVars
<1>5. \E k : consumer' = [consumer EXCEPT ![t] = k]
  <2>1. CASE consumer' = consumer
    <3>1. consumer' = [consumer EXCEPT ![t] = consumer[t]]
      BY <2>1 DEF QueueInv, Shape
    <3> QED
      BY <3>1
  <2>2. CASE ConsumePop(t) \/ ConsumeSwap(t)
    BY <2>2 DEF ConsumePop, ConsumeSwap, PopCached, PopSwap
  <2>3. CASE ConsumeFind(t) \/ ConsumeNoMore(t) \/ ConsumeLast(t) \/ ConsumeTail(t)
    BY <2>1, <2>3 DEF ConsumeFind, ConsumeNoMore, ConsumeLast, ConsumeTail, Show, PopFinds,
                      PopNothing, queueVars, localQueueVars
  <2> QED
    BY <2>2, <2>3 DEF ConsumeStep
<1> QED
  BY <1>2, <1>3, <1>4, <1>5, Consumer

(* The positions of a thread that has to do with buffers only.             *)
Apart == {"out", "slot", "shown", "migrate", "overflow", "take", "look", "again", "copy",
          "commit", "stolen"}

LEMMA ApartStep ==
  ASSUME QueueInv, UNCHANGED <<stack, cache, at, seen, consumer>>, NEW t \in Procs,
         pc[t] \in Apart, NEW s \in Apart, pc' = [pc EXCEPT ![t] = s]
  PROVE  QueueInv'
<1>1. pc[t] \notin Consuming /\ s \notin Consuming \cup {"push", "acquire"}
  BY DEF Apart, Consuming, Popping
<1> QED
  BY <1>1, Elsewhere

LEMMA BufferStepInv ==
  ASSUME QueueInv, NEW t \in Procs,
         \/ PushSlot(t) \/ PushTail(t) \/ MigrateFails(t) \/ Migrate(t)
         \/ Pop(t) \/ TakeFails(t) \/ Take(t) \/ StealStep(t)
         \/ (\E k \in Tasks : Push(t, k))
         \/ (\E v \in Threads : Steal(t, v))
  PROVE  QueueInv'
<1>1. UNCHANGED <<stack, cache, at, seen, consumer>>
  BY DEF PushSlot, PushTail, MigrateFails, Migrate, Pop, TakeFails, Take, StealStep, Push,
         Steal, StealHead, StealAgain, StealTail, StealCopy, StealFails, StealCommit,
         StealShow, Show, BufferFrame, StealFrame, queueVars, sharedQueueVars,
         localQueueVars
<1>2. pc[t] \in Apart
  BY DEF PushSlot, PushTail, MigrateFails, Migrate, Pop, Looking, TakeFails, Take, StealStep,
         Push, Steal, StealAgain, StealTail, StealCopy, StealFails, StealCommit, StealShow,
         Show, Goto, Apart
<1>3. \E s \in Apart : pc' = [pc EXCEPT ![t] = s]
  <2>1. CASE PushSlot(t) \/ PushTail(t) \/ Migrate(t) \/ Take(t)
    BY <2>1 DEF PushSlot, PushTail, Migrate, Take, Goto, Apart
  <2>2. CASE MigrateFails(t) \/ \E k \in Tasks : Push(t, k)
    BY <2>2 DEF MigrateFails, Push, PushOrMigrate, Apart
  <2>3. CASE Pop(t) \/ TakeFails(t)
    BY <2>3 DEF Pop, TakeFails, PopOrLeave, Apart
  <2>4. CASE StealStep(t)
    BY <2>4 DEF StealStep, StealAgain, StealHead, StealTail, StealCopy, StealFails,
                StealCommit, StealShow, Show, Goto, Apart
  <2>5. CASE \E v \in Threads : Steal(t, v)
    BY <2>5 DEF Steal, StealHead, Apart
  <2> QED
    BY <2>1, <2>2, <2>3, <2>4, <2>5
<1> QED
  BY <1>1, <1>2, <1>3, ApartStep

LEMMA QueueNextInv == QueueInv /\ [Next]_vars => QueueInv'
<1> SUFFICES ASSUME QueueInv, [Next]_vars PROVE QueueInv'
  OBVIOUS
<1>1. CASE UNCHANGED <<stack, cache, pc, at, seen, consumer>>
  BY <1>1 DEF QueueInv, Shape, Local, Words, Word, Consumes
<1>2. /\ Threads \subseteq Procs /\ Clients \subseteq Procs
      /\ Threads \subseteq Owners /\ Pool \in Owners
  BY WorkQueuesAssumption
<1>3. ASSUME NEW p \in Procs, QueueStep(p) PROVE QueueInv'
  BY <1>3, QueueStepInv
<1>4. ASSUME NEW c \in Clients, NEW k \in Tasks, Put(c, k) PROVE QueueInv'
  <2>1. pc[c] \notin Consuming /\ PushLoad(c, Pool, <<k>>)
    BY <1>4 DEF Put, Consuming, Popping
  <2> QED
    BY <1>2, <2>1, PushLoadInv
<1>5. ASSUME NEW t \in Threads, PushOverflow(t) PROVE QueueInv'
  <2>1. pc[t] \notin Consuming /\ PushLoad(t, t, list[t])
    BY <1>5 DEF PushOverflow, Consuming, Popping
  <2> QED
    BY <1>2, <2>1, PushLoadInv
<1>6. ASSUME NEW t \in Threads, NEW o \in Owners, Consume(t, o) PROVE QueueInv'
  <2>1. pc[t] \notin Consuming /\ AcquireLoad(t, o)
    BY <1>6 DEF Consume, Looking, Consuming, Popping
  <2> QED
    BY <1>2, <2>1, AcquireLoadInv
<1>7. ASSUME NEW t \in Threads, ConsumeStep(t) PROVE QueueInv'
  BY <1>2, <1>7, ConsumeStepInv
<1>8. ASSUME NEW t \in Threads, Finish(t) PROVE QueueInv'
  BY <1>1, <1>8 DEF Finish, queueVars, sharedQueueVars, localQueueVars
<1>9. ASSUME NEW t \in Threads,
             \/ PushSlot(t) \/ PushTail(t) \/ MigrateFails(t) \/ Migrate(t)
             \/ Pop(t) \/ TakeFails(t) \/ Take(t) \/ StealStep(t)
             \/ (\E k \in Tasks : Push(t, k))
             \/ (\E v \in Threads : Steal(t, v))
      PROVE  QueueInv'
  BY <1>2, <1>9, BufferStepInv
<1>10. CASE UNCHANGED vars
  BY <1>1, <1>10 DEF vars, queueVars, sharedQueueVars, localQueueVars
<1> QED
  BY <1>3, <1>4, <1>5, <1>6, <1>7, <1>8, <1>9, <1>10, Externals DEF Next

(* However threads push and consume, a queue has one consumer at a time,   *)
(* the bits of its word are true, and no assertion about them fails.       *)
THEOREM OneConsumer == Spec => []Words
<1>1. QueueInv => Words
  BY DEF QueueInv
<1> QED
  BY <1>1, QueueInitInv, QueueNextInv, PTL DEF Spec

-----------------------------------------------------------------------------
LEMMA Tasked == Cardinality(Tasks) \in Nat /\ indices # 0
<1>1. Cardinality(Tasks) \in Nat
  BY RunQueueAssumption, FS_CardinalityType
<1>2. capacity \in Nat /\ indices \in Nat /\ first_index \in 0..(indices - 1)
  BY WorkQueuesAssumption
<1>3. indices # 0
  BY <1>2
<1> QED BY <1>1, <1>3

(* The arithmetic of indices: numbers that differ by a multiple of c ...   *)
Congruent(c, x, y) == \E q \in Int : y = x + c * q

LEMMA Symmetric ==
  ASSUME NEW c \in Nat, NEW x \in Int, NEW y \in Int, Congruent(c, x, y)
  PROVE  Congruent(c, y, x)
<1>1. PICK q \in Int : y = x + c * q
  BY DEF Congruent
<1>2. x = y + c * (-q) /\ -q \in Int
  BY <1>1
<1> QED BY <1>2 DEF Congruent

LEMMA Transitive ==
  ASSUME NEW c \in Nat, NEW x \in Int, NEW y \in Int, NEW z \in Int,
         Congruent(c, x, y), Congruent(c, y, z)
  PROVE  Congruent(c, x, z)
<1>1. PICK p \in Int : y = x + c * p
  BY DEF Congruent
<1>2. PICK q \in Int : z = y + c * q
  BY DEF Congruent
<1>3. z = x + c * (p + q) /\ p + q \in Int
  BY <1>1, <1>2
<1> QED BY <1>3 DEF Congruent

LEMMA Shifted ==
  ASSUME NEW c \in Nat, NEW x \in Int, NEW y \in Int, NEW n \in Int,
         NEW a, a = x + n, NEW b, b = y + n, Congruent(c, x, y)
  PROVE  Congruent(c, a, b)
<1>1. PICK q \in Int : y = x + c * q
  BY DEF Congruent
<1>2. b = a + c * q
  BY <1>1
<1> QED BY <1>2 DEF Congruent

LEMMA Divided ==
  ASSUME NEW c \in Nat \ {0}, NEW x \in Int
  PROVE  x % c \in 0..(c - 1) /\ x % c \in Int /\ Congruent(c, x % c, x)
<1>1. x = c * (x \div c) + (x % c) /\ x % c \in 0..(c - 1) /\ (x \div c) \in Int
  OBVIOUS
<1> DEFINE d == x \div c
           r == x % c
<1> HIDE DEF d, r
<1>2. d \in Int /\ r \in Int /\ x = c * d + r
  BY <1>1 DEF d, r
<1>3. x = r + c * d
  BY <1>2
<1>4. Congruent(c, r, x)
  BY <1>2, <1>3 DEF Congruent
<1> QED BY <1>1, <1>4 DEF r

LEMMA Close ==
  ASSUME NEW c \in Nat \ {0}, NEW x \in Int, NEW y \in Int, Congruent(c, x, y),
         y - x < c, x - y < c
  PROVE  x = y
<1>1. PICK q \in Int : y = x + c * q
  BY DEF Congruent
<1>2. -c < c * q /\ c * q < c
  BY <1>1
<1>3. q = 0
  BY <1>2
<1> QED BY <1>1, <1>3

LEMMA Remainder ==
  ASSUME NEW c \in Nat \ {0}, NEW x \in Int, NEW r \in 0..(c - 1), Congruent(c, r, x)
  PROVE  x % c = r
<1>1. x % c \in 0..(c - 1) /\ x % c \in Int /\ r \in Int /\ Congruent(c, x % c, x)
  BY Divided
<1>2. Congruent(c, x, r)
  BY <1>1, Symmetric
<1>3. Congruent(c, x % c, r)
  BY <1>1, <1>2, Transitive
<1>4. (x % c) - r < c /\ r - (x % c) < c
  BY <1>1
<1> QED BY <1>1, <1>3, <1>4, Close

LEMMA SameRemainder ==
  ASSUME NEW c \in Nat \ {0}, NEW x \in Int, NEW y \in Int, Congruent(c, x, y)
  PROVE  y % c = x % c
<1>1. x % c \in 0..(c - 1) /\ x % c \in Int /\ Congruent(c, x % c, x)
  BY Divided
<1>2. Congruent(c, x % c, y)
  BY <1>1, Transitive
<1> QED BY <1>1, <1>2, Remainder

(* Indices and positions: how far an index is from where it began.         *)
Indices == 0..(indices - 1)
IndexAt(p) == (first_index + p) % indices
Pos(i) == (i - first_index) % indices

LEMMA Numbers ==
  /\ indices \in Nat \ {0} /\ capacity \in Nat \ {0} /\ first_index \in Int
  /\ \A i \in Indices : i \in Int /\ i \in 0..(indices - 1)
BY WorkQueuesAssumption, Tasked DEF Indices

LEMMA PosIs ==
  ASSUME NEW i \in Indices
  PROVE  /\ Pos(i) \in Indices /\ Pos(i) \in Int
         /\ Congruent(indices, first_index + Pos(i), i)
<1>1. i - first_index \in Int
  BY Numbers
<1>2. /\ Pos(i) \in 0..(indices - 1) /\ Pos(i) \in Int
      /\ Congruent(indices, Pos(i), i - first_index)
  BY <1>1, Numbers, Divided DEF Pos
<1> DEFINE a == Pos(i)
           b == i - first_index
<1>3. /\ a \in Int /\ b \in Int /\ first_index \in Int /\ indices \in Nat
      /\ first_index + a = a + first_index /\ i = b + first_index
  BY <1>1, <1>2, Numbers
<1> HIDE DEF a, b
<1>4. Congruent(indices, first_index + a, i)
  BY <1>2, <1>3, Shifted DEF a, b
<1> QED BY <1>2, <1>4 DEF Indices, a

LEMMA Positions ==
  ASSUME NEW i \in Indices
  PROVE  Pos(i) \in Indices /\ IndexAt(Pos(i)) = i
<1>1. /\ Pos(i) \in Indices /\ first_index + Pos(i) \in Int
      /\ Congruent(indices, first_index + Pos(i), i)
  BY PosIs, Numbers
<1>2. Congruent(indices, i, first_index + Pos(i))
  BY <1>1, Numbers, Symmetric
<1>3. (first_index + Pos(i)) % indices = i
  BY <1>1, <1>2, Numbers, Remainder
<1> QED BY <1>1, <1>3 DEF IndexAt

LEMMA Moved ==
  ASSUME NEW i \in Indices, NEW n \in Int
  PROVE  /\ Plus(i, n) \in Indices /\ Plus(i, n) = IndexAt(Pos(i) + n)
         /\ Pos(i) + n \in Indices => Pos(Plus(i, n)) = Pos(i) + n
<1>1. /\ i \in Int /\ first_index \in Int /\ indices \in Nat \ {0} /\ Pos(i) \in Int
      /\ Congruent(indices, first_index + Pos(i), i)
  BY PosIs, Numbers
<1>2. /\ i + n \in Int /\ Plus(i, n) \in 0..(indices - 1) /\ Plus(i, n) \in Int
      /\ Congruent(indices, Plus(i, n), i + n)
  BY <1>1, Divided DEF Plus
<1>3. /\ first_index + (Pos(i) + n) \in Int
      /\ Congruent(indices, first_index + (Pos(i) + n), i + n)
  <2> DEFINE a == first_index + Pos(i)
             b == first_index + (Pos(i) + n)
             d == i + n
  <2>1. a \in Int /\ b \in Int /\ b = a + n /\ d = i + n /\ Congruent(indices, a, i)
    BY <1>1
  <2> HIDE DEF a, b, d
  <2>2. Congruent(indices, b, d)
    BY <1>1, <2>1, Shifted
  <2> QED BY <2>1, <2>2 DEF b, d
<1>4. Plus(i, n) = IndexAt(Pos(i) + n)
  BY <1>1, <1>2, <1>3, SameRemainder DEF Plus, IndexAt
<1>5. ASSUME Pos(i) + n \in Indices PROVE Pos(Plus(i, n)) = Pos(i) + n
  <2> DEFINE a == Pos(i) + n
             b == Plus(i, n)
  <2>1. a \in 0..(indices - 1) /\ a \in Int /\ b \in Int
    BY <1>1, <1>2, <1>5, Numbers
  <2>2. Congruent(indices, first_index + a, i + n) /\ Congruent(indices, i + n, b)
    BY <1>1, <1>2, <1>3, Symmetric
  <2> HIDE DEF a, b
  <2>3. Congruent(indices, first_index + a, b)
    BY <1>1, <1>2, <2>1, <2>2, Transitive
  <2> DEFINE c == first_index + a
             d == b - first_index
             n1 == -first_index
  <2>4. c \in Int /\ n1 \in Int /\ a = c + n1 /\ d = b + n1 /\ d \in Int
    BY <1>1, <2>1
  <2>5. Congruent(indices, c, b)
    BY <2>3
  <2> HIDE DEF c, d, n1
  <2>6. Congruent(indices, a, d)
    BY <1>1, <2>1, <2>4, <2>5, Shifted
  <2>7. d % indices = a
    BY <1>1, <2>1, <2>4, <2>6, Remainder
  <2> QED BY <2>7 DEF Pos, a, b, d
<1> QED BY <1>2, <1>4, <1>5 DEF Indices

LEMMA Distance ==
  ASSUME NEW i \in Indices, NEW j \in Indices, Pos(j) =< Pos(i)
  PROVE  (i - j) % indices = Pos(i) - Pos(j)
<1> DEFINE a == Pos(i)
           b == Pos(j)
<1>1. /\ i \in Int /\ j \in Int /\ first_index \in Int /\ indices \in Nat \ {0}
      /\ a \in Indices /\ b \in Indices /\ a \in Int /\ b \in Int
      /\ Congruent(indices, first_index + a, i) /\ Congruent(indices, first_index + b, j)
  BY PosIs, Numbers
<1>2. b =< a /\ a \in 0..(indices - 1) /\ b \in 0..(indices - 1)
  BY <1>1, Numbers
<1> HIDE DEF a, b
<1> DEFINE x == first_index + a
           y == first_index + b
           m == -j
           n == (a - b) + (-j)
           u == x + m
           d == a - b
           e == i - j
<1>3. /\ x \in Int /\ y \in Int /\ m \in Int /\ n \in Int /\ u \in Int /\ e \in Int
      /\ d \in 0..(indices - 1) /\ d \in Int
      /\ u = x + m /\ e = i + m /\ u = y + n /\ d = j + n
  BY <1>1, <1>2
<1>4. Congruent(indices, x, i) /\ Congruent(indices, y, j)
  BY <1>1
<1> HIDE DEF x, y, m, n, u, d, e
<1>5. Congruent(indices, u, e)
  <2>1. indices \in Nat /\ x \in Int /\ i \in Int /\ m \in Int /\ u = x + m /\ e = i + m
    BY <1>1, <1>3
  <2> QED BY <2>1, <1>4, Shifted
<1>6. Congruent(indices, u, d)
  <2>1. indices \in Nat /\ y \in Int /\ j \in Int /\ n \in Int /\ u = y + n /\ d = j + n
    BY <1>1, <1>3
  <2> QED BY <2>1, <1>4, Shifted
<1>7. Congruent(indices, d, e)
  BY <1>1, <1>3, <1>5, <1>6, Symmetric, Transitive
<1>8. e % indices = d
  BY <1>1, <1>3, <1>7, Remainder
<1> QED BY <1>8 DEF a, b, d, e

LEMMA SlotsDiffer ==
  ASSUME NEW p \in Nat, NEW q \in Nat, IndexAt(p) % capacity = IndexAt(q) % capacity,
         p - q < capacity, q - p < capacity
  PROVE  p = q
<1>1. /\ indices \in Nat \ {0} /\ capacity \in Nat \ {0} /\ first_index \in Int
      /\ indices % capacity = 0
  BY WorkQueuesAssumption, Tasked
<1>2. Congruent(capacity, 0, indices)
  BY <1>1, Divided
<1>3. PICK m \in Int : indices = capacity * m
  <2>1. PICK m \in Int : indices = 0 + capacity * m
    BY <1>2 DEF Congruent
  <2>2. indices = capacity * m
    BY <1>1, <2>1
  <2> QED BY <2>2
<1>4. ASSUME NEW x \in Int PROVE Congruent(capacity, x % indices, x)
  <2>1. x % indices \in Int /\ Congruent(indices, x % indices, x)
    BY <1>1, Divided
  <2> DEFINE y == x % indices
  <2> HIDE DEF y
  <2>2. PICK d \in Int : x = y + indices * d
    BY <2>1 DEF y, Congruent
  <2>3. x = y + capacity * (m * d) /\ m * d \in Int
    BY <1>1, <1>3, <2>1, <2>2 DEF y
  <2>4. Congruent(capacity, y, x)
    BY <2>3 DEF Congruent
  <2> QED BY <2>4 DEF y
<1>5. ASSUME NEW x \in Nat
      PROVE  IndexAt(x) % capacity = (first_index + x) % capacity
  <2>1. first_index + x \in Int
    BY <1>1
  <2>2. IndexAt(x) \in Int /\ Congruent(capacity, IndexAt(x), first_index + x)
    BY <1>1, <1>4, <2>1, Divided DEF IndexAt
  <2> QED BY <1>1, <2>1, <2>2, SameRemainder
<1>6. (first_index + p) % capacity = (first_index + q) % capacity
  BY <1>5
<1> DEFINE a == first_index + p
           b == first_index + q
           r == a % capacity
<1>7. /\ a \in Int /\ b \in Int /\ r \in Int
      /\ Congruent(capacity, r, a) /\ Congruent(capacity, r, b)
      /\ b - a < capacity /\ a - b < capacity
  <2>1. a \in Int /\ b \in Int /\ b - a < capacity /\ a - b < capacity
    BY <1>1
  <2>2. r = b % capacity
    BY <1>6
  <2> HIDE DEF a, b
  <2>3. a % capacity \in Int /\ Congruent(capacity, a % capacity, a)
    BY <1>1, <2>1, Divided
  <2>4. Congruent(capacity, b % capacity, b)
    BY <1>1, <2>1, Divided
  <2> QED BY <2>1, <2>2, <2>3, <2>4
<1> HIDE DEF a, b, r
<1>8. Congruent(capacity, a, r)
  BY <1>1, <1>7, Symmetric
<1>9. Congruent(capacity, a, b)
  BY <1>1, <1>7, <1>8, Transitive
<1>10. a = b
  BY <1>1, <1>7, <1>9, Close
<1> QED BY <1>1, <1>10 DEF a, b

(* Where the indices of a thread's buffer are, and what is at a position.  *)
Front(t) == Pos(head[t])
Back(t) == Pos(tail[t])
Saw(t) == Pos(bhead[t])
Mask(p) == IndexAt(p) % capacity
Entry(t, p) == array[t][Mask(p)]

RingTypes ==
  /\ head \in [Threads -> Indices] /\ tail \in [Threads -> Indices]
  /\ bhead \in [Threads -> Indices]
  /\ array \in [Threads -> [0..(capacity - 1) -> Tasks \cup {Null}]]
  /\ count \in [Threads -> Int] /\ pushed \in [Threads -> Int]
  /\ victim \in [Threads -> Threads \cup {Nobody}]
  /\ new \in [Threads -> Tasks \cup {Null}]
  /\ list \in [Procs -> Seq(Tasks \cup {Null})] /\ next = [k \in Tasks |-> next[k]]
  /\ scheduled \in SUBSET Tasks

LEMMA Placed ==
  ASSUME RingTypes, NEW t \in Threads
  PROVE  /\ Front(t) \in Indices /\ Back(t) \in Indices /\ Saw(t) \in Indices
         /\ Front(t) \in Nat /\ Back(t) \in Nat /\ Saw(t) \in Nat
         /\ capacity \in Nat /\ capacity > 1 /\ indices \in Nat /\ pushed[t] \in Int
         /\ count[t] \in Int
<1>1. head[t] \in Indices /\ tail[t] \in Indices /\ bhead[t] \in Indices
  BY DEF RingTypes
<1>2. Front(t) \in Indices /\ Back(t) \in Indices /\ Saw(t) \in Indices
  BY <1>1, Positions DEF Front, Back, Saw
<1>3. \A i \in Indices : i \in Nat
  BY WorkQueuesAssumption DEF Indices
<1> QED BY <1>2, <1>3, WorkQueuesAssumption DEF RingTypes

LEMMA PlacedNext ==
  ASSUME RingTypes', NEW t \in Threads
  PROVE  /\ Front(t)' \in Indices /\ Back(t)' \in Indices /\ Saw(t)' \in Indices
         /\ Front(t)' \in Nat /\ Back(t)' \in Nat /\ Saw(t)' \in Nat
         /\ pushed'[t] \in Int /\ count'[t] \in Int
<1>1. head'[t] \in Indices /\ tail'[t] \in Indices /\ bhead'[t] \in Indices
  BY DEF RingTypes
<1>2. Front(t)' \in Indices /\ Back(t)' \in Indices /\ Saw(t)' \in Indices
  BY <1>1, Positions DEF Front, Back, Saw
<1>3. \A i \in Indices : i \in Nat
  BY WorkQueuesAssumption DEF Indices
<1> QED BY <1>2, <1>3 DEF RingTypes

(* What the program computes, in positions.                                *)
LEMMA SizeIs ==
  ASSUME RingTypes, NEW t \in Threads, NEW i \in Indices, Pos(i) =< Back(t)
  PROVE  Size(t, i) = Back(t) - Pos(i)
<1>1. tail[t] \in Indices
  BY DEF RingTypes
<1> QED BY <1>1, Distance DEF Size, Back

LEMMA SlotIs ==
  ASSUME NEW t \in Threads, NEW i \in Indices, NEW n \in Int
  PROVE  Slot(t, Plus(i, n)) = Entry(t, Pos(i) + n) /\ Slot(t, i) = Entry(t, Pos(i))
<1>1. Plus(i, n) = IndexAt(Pos(i) + n) /\ i = IndexAt(Pos(i))
  BY Moved, Positions
<1> QED BY <1>1 DEF Slot, Entry, Mask

(* A slot is written, and what is in the ring around it stays.             *)
Writes(t, p, k) ==
  /\ array' \in [Threads -> [0..(capacity - 1) -> Tasks \cup {Null}]]
  /\ \A u \in Threads \ {t} : array'[u] = array[u]
  /\ array'[t][Mask(p)] = k
  /\ \A q \in Nat : q # p /\ p - q < capacity /\ q - p < capacity
       => array'[t][Mask(q)] = array[t][Mask(q)]

LEMMA StoreIs ==
  ASSUME RingTypes, NEW t \in Threads, NEW p \in Nat, NEW k \in Tasks \cup {Null},
         Store(t, IndexAt(p), k)
  PROVE  Writes(t, p, k)
<1> DEFINE s == Mask(p)
<1>1. array' = [array EXCEPT ![t][s] = k]
  BY DEF Store, Mask
<1>2. \A q \in Nat : Mask(q) \in 0..(capacity - 1)
  <2> SUFFICES ASSUME NEW q \in Nat PROVE Mask(q) \in 0..(capacity - 1)
    OBVIOUS
  <2>1. first_index + q \in Int /\ indices \in Nat \ {0} /\ capacity \in Nat \ {0}
    BY Numbers
  <2>2. IndexAt(q) \in Int
    BY <2>1, Divided DEF IndexAt
  <2> QED BY <2>1, <2>2, Divided DEF Mask
<1>3. s \in 0..(capacity - 1)
  BY <1>2
<1>4. \A q \in Nat : q # p /\ p - q < capacity /\ q - p < capacity => Mask(q) # s
  BY SlotsDiffer DEF Mask
<1> HIDE DEF s
<1>5. /\ array' \in [Threads -> [0..(capacity - 1) -> Tasks \cup {Null}]]
      /\ \A u \in Threads \ {t} : array'[u] = array[u]
      /\ array'[t][s] = k
      /\ \A j \in 0..(capacity - 1) : j # s => array'[t][j] = array[t][j]
  BY <1>1, <1>3 DEF RingTypes
<1> QED BY <1>2, <1>4, <1>5 DEF Writes, s

(* The same, where the program stores beyond an index.                     *)
LEMMA StoreBeyond ==
  ASSUME RingTypes, NEW t \in Threads, NEW i \in Indices, NEW n \in Nat,
         NEW k \in Tasks \cup {Null}, Store(t, Plus(i, n), k)
  PROVE  Writes(t, Pos(i) + n, k)
<1>1. Plus(i, n) = IndexAt(Pos(i) + n) /\ Pos(i) \in Nat
  BY Moved, Positions, WorkQueuesAssumption DEF Indices
<1> QED BY <1>1, StoreIs

(***************************************************************************)
(* Where head and tail, and what a thread has read of them, can be.        *)
(***************************************************************************)
Emptied == {"acquire"} \cup Popping \cup {"tail", "look", "again", "copy", "commit", "stolen"}
Copying == {"copy", "commit"}
Filling == Popping \cup {"tail", "stolen"} \cup Copying

Ranged(t) ==
  /\ Front(t) =< Back(t) /\ Back(t) =< Front(t) + capacity
  /\ pc[t] \in Emptied => Front(t) = Back(t)
  /\ pc[t] \in {"slot", "shown"} => Back(t) - Front(t) < capacity
  /\ pc[t] = "migrate" => Saw(t) =< Front(t) /\ Back(t) = Saw(t) + capacity
  /\ pc[t] = "take" => Saw(t) =< Front(t) /\ Saw(t) < Back(t)

(* What a thread has pushed beyond its tail.                               *)
Filled(t) ==
  /\ pc[t] \in {"pop", "swap"} => pushed[t] \in 0..(capacity - 1)
  /\ pc[t] = "pop" /\ pushed[t] = 0 => consumer[t] # Null
  /\ pc[t] \in {"extra", "extraswap", "tail", "stolen"} => pushed[t] \in 1..capacity
  /\ pc[t] \notin Filling => pushed[t] = 0
  /\ pc[t] \in Copying => count[t] \in 1..capacity
  /\ pc[t] = "copy" => pushed[t] \in 0..(count[t] - 1)
  /\ pc[t] = "commit" => pushed[t] = count[t]
  /\ pc[t] \in {"look", "again"} \cup Copying => victim[t] \in Threads \ {t}

(* What a thief t knows of its victim v: the tail is no further back than  *)
(* it was, and as long as the head is where it was, so are the tasks.      *)
Watches(t, v) ==
  /\ pc[t] \in {"look"} \cup Copying => Saw(t) =< Front(v)
  /\ pc[t] \in Copying =>
       /\ Saw(t) + count[t] =< Back(v)
       /\ Front(v) = Saw(t) =>
            \A i \in 0..(pushed[t] - 1) : Entry(t, Back(t) + i) = Entry(v, Saw(t) + i)

PosInv == /\ \A t \in Threads : Ranged(t) /\ Filled(t)
          /\ \A t, v \in Threads : victim[t] = v => Watches(t, v)

(* Indices do not come round: there is room for what was scheduled and will*)
(* be pushed, or was taken and will be shown.                              *)
Due(t) == IF pc[t] \in {"slot", "shown", "migrate"} THEN 1
          ELSE IF pc[t] \in {"tail", "stolen"} THEN pushed[t] ELSE 0
Near == \A t \in Threads : Back(t) + Due(t) \in Indices

(* Other threads do not move the tail nor write the slots of u, only a     *)
(* thief the head; who reads the buffer of v sees it grow and move on.     *)
Moves(v) == /\ Front(v) =< Front(v)' /\ Back(v) =< Back(v)'
            /\ Front(v)' = Front(v) =>
                 \A p \in Front(v)..(Back(v) - 1) : Entry(v, p)' = Entry(v, p)

Waits(u) == /\ pc'[u] = pc[u] /\ tail'[u] = tail[u] /\ bhead'[u] = bhead[u]
            /\ count'[u] = count[u] /\ pushed'[u] = pushed[u] /\ victim'[u] = victim[u]
            /\ consumer'[u] = consumer[u] /\ array'[u] = array[u]

LEMMA WaitsRanged ==
  ASSUME RingTypes, RingTypes', NEW u \in Threads, Ranged(u), Filled(u), Waits(u),
         Front(u) =< Front(u)', Front(u)' =< Back(u)
  PROVE  Ranged(u)' /\ Filled(u)'
<1>1. /\ Front(u) \in Nat /\ Back(u) \in Nat /\ Saw(u) \in Nat /\ capacity \in Nat
      /\ Front(u)' \in Nat
  BY Placed, PlacedNext
<1>2. Back(u)' = Back(u) /\ Saw(u)' = Saw(u)
  BY DEF Waits, Back, Saw
<1>3. Ranged(u)'
  BY <1>1, <1>2 DEF Ranged, Waits
<1>4. Filled(u)'
  BY DEF Filled, Waits
<1> QED BY <1>3, <1>4

LEMMA WaitsWatches ==
  ASSUME RingTypes, RingTypes', NEW u \in Threads, NEW v \in Threads, Filled(u), Watches(u, v),
         Waits(u), Moves(v)
  PROVE  Watches(u, v)'
<1>1. /\ Front(v) \in Nat /\ Back(v) \in Nat /\ Front(v)' \in Nat /\ Back(v)' \in Nat
      /\ Saw(u) \in Nat /\ count[u] \in Int /\ pushed[u] \in Int
  BY Placed, PlacedNext
<1>2. /\ Back(u)' = Back(u) /\ Saw(u)' = Saw(u) /\ \A p : Entry(u, p)' = Entry(u, p)
      /\ pc'[u] = pc[u] /\ count'[u] = count[u] /\ pushed'[u] = pushed[u]
  BY DEF Waits, Back, Saw, Entry
<1>3. Front(v) =< Front(v)' /\ Back(v) =< Back(v)'
  BY DEF Moves
<1>4. ASSUME pc[u] \in Copying, Front(v)' = Saw(u), NEW i \in 0..(pushed[u] - 1)
      PROVE  Entry(u, Back(u) + i) = Entry(v, Saw(u) + i)'
  <2>1. /\ Saw(u) =< Front(v) /\ Saw(u) + count[u] =< Back(v) /\ pushed[u] =< count[u]
    BY <1>1, <1>4 DEF Watches, Filled, Copying
  <2>2. Front(v) = Saw(u) /\ Front(v)' = Front(v)
    BY <1>1, <1>3, <1>4, <2>1
  <2>3. Saw(u) + i \in Front(v)..(Back(v) - 1)
    BY <1>1, <1>4, <2>1, <2>2
  <2>4. Entry(u, Back(u) + i) = Entry(v, Saw(u) + i)
    BY <1>4, <2>2 DEF Watches
  <2>5. \A p : p = Saw(u) + i => array'[v][Mask(p)] = array[v][Mask(p)]
    BY <2>2, <2>3 DEF Moves, Entry
  <2> QED BY <1>2, <2>4, <2>5 DEF Entry, Saw
<1>5. \A i : Entry(u, Back(u) + i)' = Entry(u, Back(u) + i)
  BY <1>2 DEF Entry, Back
<1>6. pc[u] \in {"look"} \cup Copying => Saw(u)' =< Front(v)'
  BY <1>1, <1>2, <1>3 DEF Watches
<1>7. pc[u] \in Copying => Saw(u)' + count'[u] =< Back(v)'
  BY <1>1, <1>2, <1>3 DEF Watches
<1> QED BY <1>2, <1>4, <1>5, <1>6, <1>7 DEF Watches

(* Positions after a step of t: only t's own need to be looked at.         *)
LEMMA PosStep ==
  ASSUME RingTypes, RingTypes', PosInv, NEW t \in Threads,
         \A u \in Threads \ {t} : Waits(u) /\ Front(u) =< Front(u)' /\ Front(u)' =< Back(u),
         Moves(t), Ranged(t)', Filled(t)',
         \A v \in Threads : victim'[t] = v => Watches(t, v)'
  PROVE  PosInv'
<1>1. \A u \in Threads : Front(u) \in Nat /\ Back(u) \in Nat
  BY Placed
<1>2. \A v \in Threads : Moves(v)
  BY <1>1 DEF Moves, Waits, Back, Entry
<1>3. ASSUME NEW u \in Threads PROVE Ranged(u)' /\ Filled(u)'
  BY WaitsRanged DEF PosInv
<1>4. ASSUME NEW u \in Threads, NEW v \in Threads, victim'[u] = v PROVE Watches(u, v)'
  <2>1. CASE u = t
    BY <1>4, <2>1
  <2>2. CASE u # t
    <3>1. victim[u] = v /\ Waits(u)
      BY <1>4, <2>2 DEF Waits
    <3> QED BY <1>2, <3>1, WaitsWatches DEF PosInv
  <2> QED BY <2>1, <2>2
<1> QED BY <1>3, <1>4 DEF PosInv

Others(t) == \A u \in Threads \ {t} : Waits(u)

(* A step of t that only reads the indices.                                *)
LEMMA PureStep ==
  ASSUME RingTypes, RingTypes', PosInv, NEW t \in Threads, UNCHANGED <<head, tail, array>>,
         Others(t), Filled(t)', pc'[t] \notin {"look"} \cup Copying,
         pc'[t] \in Emptied => Front(t) = Back(t),
         pc'[t] \in {"slot", "shown"} => Back(t) - Front(t) < capacity,
         pc'[t] = "migrate" => bhead'[t] = head[t] /\ Back(t) = Front(t) + capacity,
         pc'[t] = "take" => bhead'[t] = head[t] /\ Front(t) < Back(t)
  PROVE  PosInv'
<1>1. \A u \in Threads : /\ Front(u)' = Front(u) /\ Back(u)' = Back(u)
                         /\ \A p : Entry(u, p)' = Entry(u, p)
  BY DEF Front, Back, Entry
<1>2. \A u \in Threads : Front(u) \in Nat /\ Back(u) \in Nat /\ capacity \in Nat
  BY Placed
<1>3. \A u \in Threads : Front(u) =< Back(u) /\ Back(u) =< Front(u) + capacity
  BY DEF PosInv, Ranged
<1>4. Moves(t)
  BY <1>1, <1>2 DEF Moves
<1>5. bhead'[t] = head[t] => Saw(t)' = Front(t)
  BY DEF Saw, Front
<1>6. Ranged(t)'
  BY <1>1, <1>2, <1>3, <1>5 DEF Ranged
<1>7. \A v \in Threads : Watches(t, v)'
  BY DEF Watches
<1>8. \A u \in Threads \ {t} : Waits(u) /\ Front(u) =< Front(u)' /\ Front(u)' =< Back(u)
  BY <1>1, <1>2, <1>3 DEF Others
<1> QED BY <1>4, <1>6, <1>7, <1>8, PosStep

LEMMA IsProc == Threads \subseteq Procs /\ Nobody \notin Threads /\ Clients \cap Threads = {}
BY WorkQueuesAssumption

LEMMA Goes ==
  ASSUME QueueInv, NEW t \in Threads, NEW s, pc' = [pc EXCEPT ![t] = s]
  PROVE  pc'[t] = s /\ \A u \in Threads \ {t} : pc'[u] = pc[u]
BY IsProc DEF QueueInv, Shape

(* The size of the own buffer.                                             *)
LEMMA OwnSize ==
  ASSUME RingTypes, PosInv, NEW t \in Threads
  PROVE  /\ Size(t, head[t]) = Back(t) - Front(t)
         /\ Front(t) \in Nat /\ Back(t) \in Nat /\ Front(t) =< Back(t)
         /\ Back(t) =< Front(t) + capacity /\ capacity \in Nat /\ capacity > 1
<1>1. head[t] \in Indices /\ Front(t) =< Back(t) /\ Back(t) =< Front(t) + capacity
  BY DEF RingTypes, PosInv, Ranged
<1> QED BY <1>1, SizeIs, Placed DEF Front

LEMMA Zero == 0 \in Indices
BY Numbers DEF Indices

(* Reading the head, then one of two ways.                                 *)
LEMMA PushOrMigratePos ==
  ASSUME QueueInv, RingTypes, RingTypes', PosInv, NEW t \in Threads,
         pc[t] \in {"out", "migrate"},
         bhead' = [bhead EXCEPT ![t] = head[t]], PushOrMigrate(t, head[t]),
         UNCHANGED <<head, tail, array, count, pushed, victim, consumer>>
  PROVE  PosInv' /\ pc'[t] \in {"slot", "migrate"}
<1>1. /\ Size(t, head[t]) = Back(t) - Front(t)
      /\ Front(t) \in Nat /\ Back(t) \in Nat /\ Front(t) =< Back(t)
      /\ Back(t) =< Front(t) + capacity /\ capacity \in Nat
  BY OwnSize
<1>2. /\ pc'[t] = IF Back(t) - Front(t) < capacity THEN "slot" ELSE "migrate"
      /\ \A u \in Threads \ {t} : pc'[u] = pc[u] /\ bhead'[u] = bhead[u]
      /\ bhead'[t] = head[t]
  BY <1>1, IsProc DEF PushOrMigrate, QueueInv, Shape, RingTypes
<1>3. Others(t)
  BY <1>2 DEF Others, Waits
<1>4. Filled(t)'
  BY <1>2 DEF PosInv, Filled, Filling, Popping, Copying
<1> QED BY <1>1, <1>2, <1>3, <1>4, PureStep DEF Copying, Emptied, Popping

LEMMA PushPos ==
  ASSUME QueueInv, RingTypes, PosInv, NEW t \in Threads, NEW k \in Tasks, Push(t, k)
  PROVE  RingTypes' /\ PosInv'
<1>1. /\ pc[t] = "out" /\ bhead' = [bhead EXCEPT ![t] = head[t]] /\ PushOrMigrate(t, head[t])
      /\ scheduled' = scheduled \cup {k} /\ new' = [new EXCEPT ![t] = k]
      /\ UNCHANGED <<head, tail, array, count, pushed, victim, consumer, list, next>>
  BY DEF Push, BufferFrame, Schedules, queueVars, sharedQueueVars, localQueueVars
<1>2. RingTypes'
  BY <1>1 DEF RingTypes
<1> QED BY <1>1, <1>2, PushOrMigratePos

LEMMA MigrateFailsPos ==
  ASSUME QueueInv, RingTypes, PosInv, NEW t \in Threads, MigrateFails(t)
  PROVE  RingTypes' /\ PosInv'
<1>1. /\ pc[t] = "migrate" /\ bhead' = [bhead EXCEPT ![t] = head[t]]
      /\ PushOrMigrate(t, head[t])
      /\ UNCHANGED <<head, tail, array, count, pushed, victim, consumer, list, next, new,
                     scheduled>>
  BY DEF MigrateFails, BufferFrame, queueVars, sharedQueueVars, localQueueVars
<1>2. RingTypes'
  BY <1>1 DEF RingTypes
<1> QED BY <1>1, <1>2, PushOrMigratePos

LEMMA PopOrLeavePos ==
  ASSUME QueueInv, RingTypes, PosInv, NEW t \in Threads,
         pc[t] \in {"out", "take"}, PopOrLeave(t, head[t]),
         UNCHANGED <<head, tail, array, count, pushed, victim, consumer, list, next, new,
                     scheduled>>
  PROVE  RingTypes' /\ PosInv' /\ pc'[t] \in {"out", "take"}
<1>1. /\ Size(t, head[t]) = Back(t) - Front(t)
      /\ Front(t) \in Nat /\ Back(t) \in Nat /\ Front(t) =< Back(t)
      /\ Back(t) =< Front(t) + capacity /\ capacity \in Nat
  BY OwnSize
<1>2. /\ \/ pc'[t] = "out"
         \/ pc'[t] = "take" /\ bhead'[t] = head[t] /\ Front(t) < Back(t)
      /\ \A u \in Threads \ {t} : pc'[u] = pc[u] /\ bhead'[u] = bhead[u]
      /\ bhead' \in [Threads -> Indices]
  <2>1. head[t] \in Indices /\ bhead \in [Threads -> Indices]
    BY DEF RingTypes
  <2>2. CASE Size(t, head[t]) = 0
    <3>1. pc' = [pc EXCEPT ![t] = "out"] /\ bhead' = [bhead EXCEPT ![t] = 0]
      BY <2>2 DEF PopOrLeave
    <3> QED BY <2>1, <3>1, Zero, Goes
  <2>3. CASE Size(t, head[t]) # 0
    <3>1. pc' = [pc EXCEPT ![t] = "take"] /\ bhead' = [bhead EXCEPT ![t] = head[t]]
      BY <2>3 DEF PopOrLeave
    <3> QED BY <1>1, <2>1, <2>3, <3>1, Goes
  <2> QED BY <2>2, <2>3
<1>3. Others(t)
  BY <1>2 DEF Others, Waits
<1>4. RingTypes'
  BY <1>2 DEF RingTypes
<1>5. Filled(t)'
  BY <1>2 DEF PosInv, Filled, Filling, Popping, Copying
<1> QED BY <1>1, <1>2, <1>3, <1>4, <1>5, PureStep DEF Copying, Emptied, Popping

LEMMA PopPos ==
  ASSUME QueueInv, RingTypes, PosInv, NEW t \in Threads, Pop(t) \/ TakeFails(t)
  PROVE  RingTypes' /\ PosInv'
<1>1. /\ pc[t] \in {"out", "take"} /\ PopOrLeave(t, head[t])
      /\ UNCHANGED <<head, tail, array, count, pushed, victim, consumer, list, next, new,
                     scheduled>>
  BY DEF Pop, TakeFails, Looking, BufferFrame, queueVars, sharedQueueVars, localQueueVars
<1> QED BY <1>1, PopOrLeavePos

LEMMA StoreAt ==
  ASSUME RingTypes, NEW t \in Threads, NEW i \in Indices, NEW k \in Tasks \cup {Null},
         Store(t, i, k)
  PROVE  Writes(t, Pos(i), k)
<1>1. i = IndexAt(Pos(i)) /\ Pos(i) \in Nat
  BY Positions, WorkQueuesAssumption DEF Indices
<1> QED BY <1>1, StoreIs

(* A step of t that writes a slot beyond its tail.                         *)
LEMMA WriteStep ==
  ASSUME RingTypes, RingTypes', PosInv, NEW t \in Threads, NEW n \in Nat, NEW k,
         Writes(t, Back(t) + n, k), Back(t) + n < Front(t) + capacity,
         UNCHANGED <<head, tail>>, Others(t), Filled(t)',
         pc'[t] \notin {"migrate", "take"}, pc'[t] \in Emptied => Front(t) = Back(t),
         \A v \in Threads : victim'[t] = v => Watches(t, v)'
  PROVE  PosInv'
<1>1. \A u \in Threads : Front(u)' = Front(u) /\ Back(u)' = Back(u)
  BY DEF Front, Back
<1>2. \A u \in Threads : Front(u) \in Nat /\ Back(u) \in Nat /\ capacity \in Nat
  BY Placed
<1>3. \A u \in Threads : Front(u) =< Back(u) /\ Back(u) =< Front(u) + capacity
  BY DEF PosInv, Ranged
<1>4. ASSUME NEW p \in Front(t)..(Back(t) - 1) PROVE Entry(t, p)' = Entry(t, p)
  <2>1. /\ p \in Nat /\ p # Back(t) + n
        /\ (Back(t) + n) - p < capacity /\ p - (Back(t) + n) < capacity
    BY <1>2, <1>3
  <2> QED BY <2>1 DEF Writes, Entry
<1>5. Moves(t)
  BY <1>1, <1>2, <1>4 DEF Moves
<1>6. Ranged(t)'
  BY <1>1, <1>2, <1>3 DEF Ranged
<1>7. \A u \in Threads \ {t} : Waits(u) /\ Front(u) =< Front(u)' /\ Front(u)' =< Back(u)
  BY <1>1, <1>2, <1>3 DEF Others
<1> QED BY <1>5, <1>6, <1>7, PosStep

LEMMA PushSlotPos ==
  ASSUME QueueInv, RingTypes, PosInv, NEW t \in Threads, PushSlot(t)
  PROVE  RingTypes' /\ PosInv' /\ Writes(t, Back(t), new[t])
<1>1. /\ pc[t] = "slot" /\ pc' = [pc EXCEPT ![t] = "shown"] /\ Store(t, tail[t], new[t])
      /\ UNCHANGED <<head, tail, bhead, count, pushed, victim, consumer, list, next, new,
                     scheduled>>
  BY DEF PushSlot, Goto, BufferFrame, queueVars, sharedQueueVars, localQueueVars
<1>2. /\ Front(t) \in Nat /\ Back(t) \in Nat /\ Back(t) + 0 < Front(t) + capacity
      /\ Back(t) + 0 = Back(t) /\ capacity \in Nat
  BY <1>1, OwnSize DEF PosInv, Ranged
<1>3. Writes(t, Back(t), new[t])
  BY <1>1, StoreAt DEF RingTypes, Back
<1>4. pc'[t] = "shown" /\ \A u \in Threads \ {t} : pc'[u] = pc[u]
  BY <1>1, Goes
<1>5. RingTypes'
  BY <1>1, <1>3 DEF RingTypes, Writes
<1>6. Others(t)
  BY <1>1, <1>3, <1>4 DEF Others, Waits, Writes
<1>7. Filled(t)'
  BY <1>1, <1>4 DEF PosInv, Filled, Filling, Popping, Copying
<1>8. \A v \in Threads : Watches(t, v)'
  BY <1>4 DEF Watches, Copying
<1>9. Writes(t, Back(t) + 0, new[t])
  BY <1>2, <1>3
<1>10. pc'[t] \notin {"migrate", "take"} /\ pc'[t] \notin Emptied
  BY <1>4 DEF Emptied, Popping
<1>11. head' = head /\ tail' = tail
  BY <1>1
<1> QED BY <1>2, <1>3, <1>5, <1>6, <1>7, <1>8, <1>9, <1>10, <1>11, WriteStep

(* A step of t that moves its tail.                                        *)
LEMMA TailStep ==
  ASSUME RingTypes, RingTypes', PosInv, NEW t \in Threads, NEW n \in Nat,
         Back(t)' = Back(t) + n, Back(t) + n =< Front(t) + capacity,
         UNCHANGED <<head, array>>, Others(t), Filled(t)', pc'[t] \in {"out", "cache"}
  PROVE  PosInv'
<1>1. \A u \in Threads : Front(u)' = Front(u) /\ \A p : Entry(u, p)' = Entry(u, p)
  BY DEF Front, Entry
<1>2. \A u \in Threads : Front(u) \in Nat /\ Back(u) \in Nat /\ capacity \in Nat
  BY Placed
<1>3. \A u \in Threads : Front(u) =< Back(u) /\ Back(u) =< Front(u) + capacity
  BY DEF PosInv, Ranged
<1>4. Moves(t)
  BY <1>1, <1>2 DEF Moves
<1>5. Ranged(t)'
  BY <1>1, <1>2, <1>3 DEF Ranged, Emptied, Popping
<1>6. \A u \in Threads \ {t} : Waits(u) /\ Front(u) =< Front(u)' /\ Front(u)' =< Back(u)
  BY <1>1, <1>2, <1>3 DEF Others
<1>7. \A v \in Threads : Watches(t, v)'
  BY DEF Watches, Copying
<1> QED BY <1>4, <1>5, <1>6, <1>7, PosStep

LEMMA TailMoves ==
  ASSUME RingTypes, NEW t \in Threads, NEW n \in Nat, Back(t) + n \in Indices,
         tail' = [tail EXCEPT ![t] = Plus(@, n)]
  PROVE  /\ tail' \in [Threads -> Indices] /\ Back(t)' = Back(t) + n
         /\ \A u \in Threads \ {t} : tail'[u] = tail[u]
<1>1. tail \in [Threads -> Indices] /\ tail[t] \in Indices
  BY DEF RingTypes
<1>2. Plus(tail[t], n) \in Indices /\ Pos(Plus(tail[t], n)) = Back(t) + n
  BY <1>1, Moved DEF Back
<1> QED BY <1>1, <1>2 DEF Back

LEMMA PushTailPos ==
  ASSUME QueueInv, RingTypes, PosInv, Near, NEW t \in Threads, PushTail(t)
  PROVE  RingTypes' /\ PosInv' /\ Back(t)' = Back(t) + 1
<1>1. /\ pc[t] = "shown" /\ pc' = [pc EXCEPT ![t] = "out"]
      /\ tail' = [tail EXCEPT ![t] = Plus(@, 1)]
      /\ new' = [new EXCEPT ![t] = Null] /\ bhead' = [bhead EXCEPT ![t] = 0]
      /\ UNCHANGED <<head, array, count, pushed, victim, consumer, list, next, scheduled>>
  BY DEF PushTail, Goto, BufferFrame, queueVars, sharedQueueVars, localQueueVars
<1>2. /\ Front(t) \in Nat /\ Back(t) \in Nat /\ Back(t) < Front(t) + capacity /\ capacity \in Nat
      /\ Back(t) + 1 \in Indices
  BY <1>1, OwnSize DEF PosInv, Ranged, Near, Due
<1>3. pc'[t] = "out" /\ \A u \in Threads \ {t} : pc'[u] = pc[u]
  BY <1>1, Goes
<1>4. /\ tail' \in [Threads -> Indices] /\ Back(t)' = Back(t) + 1
      /\ \A u \in Threads \ {t} : tail'[u] = tail[u]
  BY <1>1, <1>2, TailMoves
<1>5. RingTypes'
  BY <1>1, <1>4, Zero DEF RingTypes
<1>6. Others(t)
  BY <1>1, <1>3, <1>4 DEF Others, Waits, RingTypes
<1>7. Filled(t)'
  BY <1>1, <1>3 DEF PosInv, Filled, Filling, Popping, Copying
<1>8. Back(t) + 1 =< Front(t) + capacity /\ 1 \in Nat /\ head' = head /\ array' = array
  BY <1>1, <1>2
<1> QED BY <1>3, <1>4, <1>5, <1>6, <1>7, <1>8, TailStep

(* What was pushed is shown.                                               *)
LEMMA ShowPos ==
  ASSUME QueueInv, RingTypes, PosInv, Near, NEW t \in Threads,
         ConsumeTail(t) \/ StealShow(t)
  PROVE  /\ RingTypes' /\ PosInv' /\ Back(t)' = Back(t) + pushed[t]
         /\ pc[t] \in {"tail", "stolen"} /\ pc'[t] \in {"cache", "out"}
<1>1. /\ \/ pc[t] = "tail" /\ pc' = [pc EXCEPT ![t] = "cache"]
         \/ pc[t] = "stolen" /\ pc' = [pc EXCEPT ![t] = "out"]
      /\ tail' = [tail EXCEPT ![t] = Plus(@, pushed[t])]
      /\ pushed' = [pushed EXCEPT ![t] = 0]
      /\ UNCHANGED <<head, array, bhead, count, victim, consumer, list, next, new, scheduled>>
  BY DEF ConsumeTail, StealShow, Show, Goto, queueVars, sharedQueueVars, localQueueVars
<1>2. /\ Front(t) \in Nat /\ Back(t) \in Nat /\ Back(t) = Front(t) /\ capacity \in Nat
      /\ pushed[t] \in 1..capacity /\ pushed[t] \in Nat /\ Back(t) + pushed[t] \in Indices
  <2>1. Back(t) = Front(t)
    BY <1>1 DEF PosInv, Ranged, Emptied
  <2>2. pushed[t] \in 1..capacity
    BY <1>1 DEF PosInv, Filled
  <2>3. Due(t) = pushed[t]
    BY <1>1 DEF Due
  <2> QED BY <2>1, <2>2, <2>3, Placed DEF Near
<1>3. pc'[t] \in {"cache", "out"} /\ \A u \in Threads \ {t} : pc'[u] = pc[u]
  BY <1>1, Goes
<1>4. /\ tail' \in [Threads -> Indices] /\ Back(t)' = Back(t) + pushed[t]
      /\ \A u \in Threads \ {t} : tail'[u] = tail[u]
  BY <1>1, <1>2, TailMoves
<1>5. RingTypes'
  BY <1>1, <1>4 DEF RingTypes
<1>6. Others(t)
  BY <1>1, <1>3, <1>4 DEF Others, Waits, RingTypes
<1>7. pushed'[t] = 0
  BY <1>1 DEF RingTypes
<1>8. Filled(t)'
  BY <1>3, <1>7 DEF Filled, Filling, Popping, Copying
<1>9. Back(t) + pushed[t] =< Front(t) + capacity /\ pushed[t] \in Nat
  BY <1>2
<1> QED BY <1>1, <1>3, <1>4, <1>5, <1>6, <1>8, <1>9, TailStep

(* A step of t that moves a head: its own, or its victim's.                *)
LEMMA HeadMoves ==
  ASSUME RingTypes, NEW v \in Threads, NEW n \in Nat, Front(v) + n =< Back(v),
         head' = [head EXCEPT ![v] = Plus(@, n)]
  PROVE  /\ head' \in [Threads -> Indices] /\ Front(v)' = Front(v) + n
         /\ \A u \in Threads \ {v} : head'[u] = head[u] /\ Front(u)' = Front(u)
<1>1. head \in [Threads -> Indices] /\ head[v] \in Indices
  BY DEF RingTypes
<1>2. Front(v) + n \in Indices
  <2>1. Back(v) \in Indices /\ Front(v) \in Nat /\ indices \in Nat
    BY Placed
  <2> QED BY <2>1 DEF Indices
<1>3. Plus(head[v], n) \in Indices /\ Pos(Plus(head[v], n)) = Front(v) + n
  BY <1>1, <1>2, Moved DEF Front
<1> QED BY <1>1, <1>3 DEF Front

LEMMA OwnHeadStep ==
  ASSUME RingTypes, RingTypes', PosInv, NEW t \in Threads, NEW n \in Nat,
         Front(t) + n =< Back(t), head' = [head EXCEPT ![t] = Plus(@, n)],
         UNCHANGED <<tail, array>>, Others(t), Filled(t)', pc'[t] \in {"out", "overflow"}
  PROVE  PosInv'
<1>1. /\ Front(t)' = Front(t) + n
      /\ \A u \in Threads \ {t} : Front(u)' = Front(u)
  BY HeadMoves
<1>2. \A u \in Threads : Back(u)' = Back(u) /\ \A p : Entry(u, p)' = Entry(u, p)
  BY DEF Back, Entry
<1>3. \A u \in Threads : Front(u) \in Nat /\ Back(u) \in Nat /\ capacity \in Nat
  BY Placed
<1>4. \A u \in Threads : Front(u) =< Back(u) /\ Back(u) =< Front(u) + capacity
  BY DEF PosInv, Ranged
<1>5. Moves(t)
  BY <1>1, <1>2, <1>3 DEF Moves
<1>6. Ranged(t)'
  BY <1>1, <1>2, <1>3, <1>4 DEF Ranged, Emptied, Popping
<1>7. \A u \in Threads \ {t} : Waits(u) /\ Front(u) =< Front(u)' /\ Front(u)' =< Back(u)
  BY <1>1, <1>3, <1>4 DEF Others
<1>8. \A v \in Threads : Watches(t, v)'
  BY DEF Watches, Copying
<1> QED BY <1>5, <1>6, <1>7, <1>8, PosStep

LEMMA TakePos ==
  ASSUME QueueInv, RingTypes, PosInv, NEW t \in Threads, Take(t)
  PROVE  /\ RingTypes' /\ PosInv' /\ Front(t)' = Front(t) + 1 /\ Front(t) < Back(t)
         /\ \A u \in Threads \ {t} : Front(u)' = Front(u)
<1>1. /\ pc[t] = "take" /\ pc' = [pc EXCEPT ![t] = "out"] /\ bhead[t] = head[t]
      /\ head' = [head EXCEPT ![t] = Plus(@, 1)] /\ bhead' = [bhead EXCEPT ![t] = 0]
      /\ UNCHANGED <<tail, array, count, pushed, victim, consumer, list, next, new, scheduled>>
  BY DEF Take, Goto, BufferFrame, queueVars, sharedQueueVars, localQueueVars
<1>2. /\ Front(t) \in Nat /\ Back(t) \in Nat /\ Front(t) < Back(t)
      /\ Front(t) + 1 =< Back(t) /\ 1 \in Nat
  BY <1>1, OwnSize DEF PosInv, Ranged, Saw, Front
<1>3. pc'[t] = "out" /\ \A u \in Threads \ {t} : pc'[u] = pc[u]
  BY <1>1, Goes
<1>4. /\ head' \in [Threads -> Indices] /\ Front(t)' = Front(t) + 1
      /\ \A u \in Threads \ {t} : Front(u)' = Front(u)
  BY <1>1, <1>2, HeadMoves
<1>5. RingTypes'
  BY <1>1, <1>4, Zero DEF RingTypes
<1>6. Others(t)
  BY <1>1, <1>3 DEF Others, Waits, RingTypes
<1>7. Filled(t)'
  BY <1>1, <1>3 DEF PosInv, Filled, Filling, Popping, Copying
<1>8. tail' = tail /\ array' = array
  BY <1>1
<1> QED BY <1>1, <1>2, <1>3, <1>4, <1>5, <1>6, <1>7, <1>8, OwnHeadStep

(* What goes to the queue of t: half of its buffer and what did not fit.   *)
Half == capacity \div 2
Overflowing(t) == /\ list' \in [Procs -> Seq(Tasks \cup {Null})]
                  /\ Len(list'[t]) = Half + 1
                  /\ \A i \in 1..Half : list'[t][i] = Entry(t, Front(t) + (i - 1))
                  /\ list'[t][Half + 1] = new[t]
                  /\ \A p \in Procs \ {t} : list'[p] = list[p]

LEMMA HalfIs == Half \in Nat /\ Half =< capacity /\ Half > 0
BY WorkQueuesAssumption DEF Half

LEMMA EntryIs ==
  ASSUME RingTypes, NEW t \in Threads, NEW p \in Nat
  PROVE  Entry(t, p) \in Tasks \cup {Null} /\ Mask(p) \in 0..(capacity - 1)
<1>1. first_index + p \in Int /\ indices \in Nat \ {0} /\ capacity \in Nat \ {0}
  BY Numbers
<1>2. IndexAt(p) \in Int
  BY <1>1, Divided DEF IndexAt
<1>3. Mask(p) \in 0..(capacity - 1)
  BY <1>1, <1>2, Divided DEF Mask
<1> QED BY <1>3 DEF Entry, RingTypes

LEMMA MigrateList ==
  ASSUME RingTypes, NEW t \in Threads,
         list' = [list EXCEPT ![t] = [i \in 1..Half |-> Slot(t, Plus(head[t], i - 1))]
                                     \o <<new[t]>>]
  PROVE  Overflowing(t)
<1> DEFINE S == Tasks \cup {Null}
           half == [i \in 1..Half |-> Slot(t, Plus(head[t], i - 1))]
<1>1. head[t] \in Indices /\ Front(t) \in Nat /\ new[t] \in S /\ t \in Procs
      /\ list \in [Procs -> Seq(S)]
  BY Placed, IsProc DEF RingTypes
<1>2. ASSUME NEW i \in 1..Half
      PROVE  /\ Slot(t, Plus(head[t], i - 1)) = Entry(t, Front(t) + (i - 1))
             /\ Entry(t, Front(t) + (i - 1)) \in S
  <2>1. i - 1 \in Int /\ Front(t) + (i - 1) \in Nat
    BY <1>1, HalfIs
  <2>2. Slot(t, Plus(head[t], i - 1)) = Entry(t, Front(t) + (i - 1))
    BY <1>1, <2>1, SlotIs DEF Front
  <2> QED BY <2>1, <2>2, EntryIs
<1>3. half \in Seq(S) /\ Len(half) = Half
  BY <1>2, HalfIs
<1>4. \A i \in 1..Half : half[i] = Entry(t, Front(t) + (i - 1))
  BY <1>2
<1>5. <<new[t]>> \in Seq(S) /\ Len(<<new[t]>>) = 1 /\ <<new[t]>>[1] = new[t]
  BY <1>1
<1> HIDE DEF half
<1>6. /\ half \o <<new[t]>> \in Seq(S) /\ Len(half \o <<new[t]>>) = Half + 1
      /\ \A i \in 1..Half : (half \o <<new[t]>>)[i] = half[i]
      /\ (half \o <<new[t]>>)[Half + 1] = new[t]
  BY <1>3, <1>5, HalfIs, ConcatProperties
<1>7. list' = [list EXCEPT ![t] = half \o <<new[t]>>]
  BY DEF half
<1> HIDE DEF S
<1> QED BY <1>1, <1>4, <1>6, <1>7 DEF Overflowing, S

LEMMA MigratePos ==
  ASSUME QueueInv, RingTypes, PosInv, NEW t \in Threads, Migrate(t)
  PROVE  /\ RingTypes' /\ PosInv' /\ Overflowing(t)
         /\ Front(t)' = Front(t) + Half /\ Back(t) = Front(t) + capacity
         /\ \A u \in Threads \ {t} : Front(u)' = Front(u)
<1>1. /\ pc[t] = "migrate" /\ pc' = [pc EXCEPT ![t] = "overflow"] /\ bhead[t] = head[t]
      /\ head' = [head EXCEPT ![t] = Plus(@, Half)] /\ bhead' = [bhead EXCEPT ![t] = 0]
      /\ list' = [list EXCEPT ![t] = [i \in 1..Half |-> Slot(t, Plus(head[t], i - 1))]
                                     \o <<new[t]>>]
      /\ new' = [new EXCEPT ![t] = Null]
      /\ UNCHANGED <<next, tail, array, count, pushed, victim, consumer, scheduled>>
  BY DEF Migrate, Goto, BufferFrame, sharedQueueVars, Half
<1>2. /\ Front(t) \in Nat /\ Back(t) \in Nat /\ Back(t) = Front(t) + capacity
      /\ Front(t) + Half =< Back(t) /\ Half \in Nat
  BY <1>1, OwnSize, HalfIs DEF PosInv, Ranged, Saw, Front
<1>3. pc'[t] = "overflow" /\ \A u \in Threads \ {t} : pc'[u] = pc[u]
  BY <1>1, Goes
<1>4. /\ head' \in [Threads -> Indices] /\ Front(t)' = Front(t) + Half
      /\ \A u \in Threads \ {t} : Front(u)' = Front(u)
  BY <1>1, <1>2, HeadMoves
<1>5. Overflowing(t)
  BY <1>1, MigrateList
<1>6. RingTypes'
  BY <1>1, <1>4, <1>5, Zero DEF RingTypes, Overflowing
<1>7. Others(t)
  BY <1>1, <1>3 DEF Others, Waits, RingTypes
<1>8. Filled(t)'
  BY <1>1, <1>3 DEF PosInv, Filled, Filling, Popping, Copying
<1>9. tail' = tail /\ array' = array
  BY <1>1
<1> QED BY <1>1, <1>2, <1>3, <1>4, <1>5, <1>6, <1>7, <1>8, <1>9, OwnHeadStep

(* A step that moves no index and no thread.                               *)
LEMMA IdleStep ==
  ASSUME RingTypes, RingTypes', PosInv, UNCHANGED <<head, tail, array>>,
         \A u \in Threads : Waits(u)
  PROVE  PosInv'
<1>1. \A u \in Threads : /\ Front(u)' = Front(u) /\ Back(u)' = Back(u)
                         /\ \A p : Entry(u, p)' = Entry(u, p)
  BY DEF Front, Back, Entry
<1>2. \A u \in Threads : Front(u) \in Nat /\ Back(u) \in Nat /\ capacity \in Nat
  BY Placed
<1>3. \A u \in Threads : Front(u) =< Back(u)
  BY DEF PosInv, Ranged
<1>4. \A u \in Threads : Moves(u) /\ Front(u) =< Front(u)' /\ Front(u)' =< Back(u)
  BY <1>1, <1>2, <1>3 DEF Moves
<1>5. \A u \in Threads : Ranged(u)' /\ Filled(u)'
  BY <1>4, WaitsRanged DEF PosInv
<1>6. ASSUME NEW u \in Threads, NEW v \in Threads, victim'[u] = v PROVE Watches(u, v)'
  <2>1. victim[u] = v /\ Watches(u, v) /\ Filled(u)
    BY <1>6 DEF Waits, PosInv
  <2> QED BY <1>4, <2>1, WaitsWatches
<1> QED BY <1>5, <1>6 DEF PosInv

(* Where a step on a queue takes a thread.                                 *)
Walks(p) ==
  /\ \A q \in Procs \ {p} : pc'[q] = pc[q] /\ consumer'[q] = consumer[q]
  /\ \/ pc'[p] = pc[p] /\ pc[p] \in {"push", "acquire"} /\ consumer'[p] = consumer[p]
     \/ pc[p] \in {"push", "acquire", "sub"} /\ pc'[p] = "out"
     \/ pc[p] = "acquire" /\ pc'[p] = "pop" /\ consumer'[p] # Null
     \/ pc[p] = "cache" /\ pc'[p] = "sub"
  /\ list' \in [Procs -> Seq(Tasks \cup {Null})] /\ next' = [k \in Tasks |-> next'[k]]

LEMMA AcquireWalks ==
  ASSUME QueueInv, RingTypes, NEW p \in Procs, AcquireCas(p)
  PROVE  Walks(p)
<1> DEFINE o == at[p]
<1>1. /\ pc[p] = "acquire" /\ pc' = [pc EXCEPT ![p] = "pop"] /\ seen[p] = stack[o]
      /\ consumer' = [consumer EXCEPT ![p] = IF cache[o] # Null THEN cache[o] ELSE seen[p].top]
      /\ UNCHANGED <<next, list>>
  BY DEF AcquireCas, Goto
<1>2. o \in Owners /\ Available(stack[o])
  BY <1>1 DEF QueueInv, Local
<1>3. Word(o)
  BY <1>2 DEF QueueInv, Words
<1>4. cache[o] = Null => stack[o].top # Null
  BY <1>2, <1>3 DEF Word, Available, Taken, Empty
<1>5. consumer'[p] # Null
  BY <1>1, <1>4 DEF QueueInv, Shape
<1>6. /\ pc'[p] = "pop"
      /\ \A q \in Procs \ {p} : pc'[q] = pc[q] /\ consumer'[q] = consumer[q]
  BY <1>1 DEF QueueInv, Shape
<1> QED BY <1>1, <1>5, <1>6 DEF Walks, RingTypes

LEMMA QueueStepWalks ==
  ASSUME QueueInv, RingTypes, NEW p \in Procs, QueueStep(p)
  PROVE  Walks(p)
<1>1. /\ pc = [q \in Procs |-> pc[q]] /\ consumer = [q \in Procs |-> consumer[q]]
      /\ list \in [Procs -> Seq(Tasks \cup {Null})] /\ next = [k \in Tasks |-> next[k]]
  BY DEF QueueInv, Shape, RingTypes
<1>2. CASE PushFails(p)
  <2>1. /\ pc[p] = "push" /\ UNCHANGED <<pc, list, consumer>>
        /\ next' = Linked(list[p], stack[at[p]].top)
    BY <1>2 DEF PushFails
  <2>2. next' = [k \in Tasks |-> next'[k]]
    BY <2>1 DEF Linked
  <2> QED BY <1>1, <2>1, <2>2 DEF Walks
<1>3. CASE PushCas(p)
  <2>1. /\ pc[p] = "push" /\ pc' = [pc EXCEPT ![p] = "out"] /\ UNCHANGED <<next, consumer>>
        /\ list' = [list EXCEPT ![p] = <<>>]
    BY <1>3 DEF PushCas, Goto
  <2>2. <<>> \in Seq(Tasks \cup {Null})
    OBVIOUS
  <2>3. list' \in [Procs -> Seq(Tasks \cup {Null})]
    BY <1>1, <2>1, <2>2
  <2> QED BY <1>1, <2>1, <2>3 DEF Walks
<1>4. CASE AcquireFails(p)
  <2>1. /\ pc[p] = "acquire" /\ UNCHANGED <<next, list, consumer>>
        /\ pc' = pc \/ pc' = [pc EXCEPT ![p] = "out"]
    BY <1>4 DEF AcquireFails, sharedQueueVars
  <2> QED BY <1>1, <2>1 DEF Walks
<1>5. CASE ReleaseCache(p)
  <2>1. /\ pc[p] = "cache" /\ pc' = [pc EXCEPT ![p] = "sub"] /\ UNCHANGED <<next, list, consumer>>
    BY <1>5 DEF ReleaseCache, Goto, localQueueVars
  <2> QED BY <1>1, <2>1 DEF Walks
<1>6. CASE ReleaseSub(p)
  <2>1. /\ pc[p] = "sub" /\ pc' = [pc EXCEPT ![p] = "out"] /\ UNCHANGED <<next, list>>
        /\ consumer' = [consumer EXCEPT ![p] = Null]
    BY <1>6 DEF ReleaseSub, Goto
  <2> QED BY <1>1, <2>1 DEF Walks
<1> QED BY <1>2, <1>3, <1>4, <1>5, <1>6, AcquireWalks DEF QueueStep

(* The indices do not mind a step on a queue.                              *)
LEMMA QueueStepPos ==
  ASSUME QueueInv, RingTypes, PosInv, NEW p \in Procs, QueueStep(p),
         UNCHANGED <<bufferVars, scheduled>>
  PROVE  RingTypes' /\ PosInv'
<1>1. Walks(p)
  BY QueueStepWalks
<1>2. UNCHANGED <<head, tail, array, bhead, count, pushed, victim, new, scheduled>>
  BY DEF bufferVars
<1>3. RingTypes'
  BY <1>1, <1>2 DEF RingTypes, Walks
<1>4. \A u \in Threads \ {p} : Waits(u)
  BY <1>1, <1>2, IsProc DEF Waits, Walks
<1>5. CASE p \notin Threads
  BY <1>2, <1>3, <1>4, <1>5, IdleStep
<1>6. CASE p \in Threads
  <2>1. Others(p)
    BY <1>4, <1>6 DEF Others
  <2>2. Filled(p) /\ Ranged(p) /\ pushed'[p] = pushed[p]
    BY <1>2, <1>6 DEF PosInv
  <2>3. Filled(p)'
    <3>1. pc'[p] \in {"push", "acquire", "out", "pop", "sub"} /\ pushed[p] = 0
      BY <1>1, <2>2 DEF Walks, Filled, Filling, Popping, Copying
    <3>2. pc'[p] = "pop" => consumer'[p] # Null
      BY <1>1 DEF Walks
    <3>3. 0 \in 0..(capacity - 1)
      BY WorkQueuesAssumption
    <3> QED BY <2>2, <3>1, <3>2, <3>3 DEF Filled, Filling, Popping, Copying
  <2>4. pc'[p] \in Emptied => pc[p] \in Emptied
    BY <1>1 DEF Walks, Emptied, Popping
  <2>5. /\ pc'[p] \in Emptied => Front(p) = Back(p)
        /\ pc'[p] \notin {"look", "slot", "shown", "migrate", "take"} \cup Copying
    BY <1>1, <2>2, <2>4 DEF Walks, Ranged, Copying
  <2> QED BY <1>2, <1>3, <1>6, <2>1, <2>3, <2>5, PureStep
<1> QED BY <1>5, <1>6

LEMMA PushLoadTypes ==
  ASSUME RingTypes, NEW p \in Procs, NEW o, NEW ks \in Seq(Tasks \cup {Null}), PushLoad(p, o, ks)
  PROVE  /\ list' \in [Procs -> Seq(Tasks \cup {Null})] /\ next' = [k \in Tasks |-> next'[k]]
         /\ list'[p] = ks /\ \A q \in Procs \ {p} : list'[q] = list[q]
<1>1. list' = [list EXCEPT ![p] = ks] /\ next' = Linked(ks, stack[o].top)
  BY DEF PushLoad
<1>2. next' = [k \in Tasks |-> next'[k]]
  BY <1>1 DEF Linked
<1> QED BY <1>1, <1>2 DEF RingTypes

LEMMA PutPos ==
  ASSUME QueueInv, RingTypes, PosInv, NEW c \in Clients, NEW k \in Tasks, Put(c, k)
  PROVE  RingTypes' /\ PosInv'
<1>1. /\ pc[c] = "out" /\ PushLoad(c, Pool, <<k>>) /\ scheduled' = scheduled \cup {k}
      /\ UNCHANGED <<head, tail, array, bhead, count, pushed, victim, new>>
  BY DEF Put, Schedules, bufferVars
<1>2. pc' = [pc EXCEPT ![c] = "push"] /\ consumer' = consumer
  BY <1>1 DEF PushLoad
<1>3. c \in Procs /\ c \notin Threads /\ <<k>> \in Seq(Tasks \cup {Null})
  BY WorkQueuesAssumption
<1>4. RingTypes'
  BY <1>1, <1>3, PushLoadTypes DEF RingTypes
<1>5. \A u \in Threads : Waits(u)
  BY <1>1, <1>2, <1>3, IsProc DEF Waits, QueueInv, Shape
<1> QED BY <1>1, <1>4, <1>5, IdleStep

LEMMA PushOverflowPos ==
  ASSUME QueueInv, RingTypes, PosInv, NEW t \in Threads, PushOverflow(t)
  PROVE  RingTypes' /\ PosInv'
<1>1. /\ pc[t] = "overflow" /\ PushLoad(t, t, list[t])
      /\ UNCHANGED <<head, tail, array, bhead, count, pushed, victim, new, scheduled>>
  BY DEF PushOverflow, bufferVars
<1>2. pc' = [pc EXCEPT ![t] = "push"] /\ consumer' = consumer
  BY <1>1 DEF PushLoad
<1>3. t \in Procs /\ list[t] \in Seq(Tasks \cup {Null})
  BY IsProc DEF RingTypes
<1>4. RingTypes'
  BY <1>1, <1>3, PushLoadTypes DEF RingTypes
<1>5. pc'[t] = "push" /\ \A u \in Threads \ {t} : pc'[u] = pc[u]
  BY <1>2, Goes
<1>6. Others(t)
  BY <1>1, <1>2, <1>5 DEF Others, Waits
<1>7. Filled(t)'
  BY <1>1, <1>5 DEF PosInv, Filled, Filling, Popping, Copying
<1>8. head' = head /\ tail' = tail /\ array' = array
  BY <1>1
<1> QED BY <1>4, <1>5, <1>6, <1>7, <1>8, PureStep DEF Emptied, Popping, Copying

LEMMA FinishPos ==
  ASSUME QueueInv, RingTypes, PosInv, NEW t \in Threads, Finish(t)
  PROVE  RingTypes' /\ PosInv'
<1>1. UNCHANGED <<pc, consumer, list, next, head, tail, array, bhead, count, pushed, victim,
                  new, scheduled>>
  BY DEF Finish, queueVars, sharedQueueVars, localQueueVars
<1> QED BY <1>1, IdleStep DEF RingTypes, Waits

LEMMA ConsumePos ==
  ASSUME QueueInv, RingTypes, PosInv, NEW t \in Threads, NEW o, Consume(t, o)
  PROVE  RingTypes' /\ PosInv'
<1>1. /\ pc[t] = "out" /\ Size(t, head[t]) = 0 /\ pc' = [pc EXCEPT ![t] = "acquire"]
      /\ UNCHANGED <<consumer, list, next, head, tail, array, bhead, count, pushed, victim,
                     new, scheduled>>
  BY DEF Consume, Looking, AcquireLoad, bufferVars, sharedQueueVars
<1>2. pc'[t] = "acquire" /\ \A u \in Threads \ {t} : pc'[u] = pc[u]
  BY <1>1, Goes
<1>3. RingTypes'
  BY <1>1 DEF RingTypes
<1>4. Others(t)
  BY <1>1, <1>2 DEF Others, Waits
<1>5. Filled(t)'
  BY <1>1, <1>2 DEF PosInv, Filled, Filling, Popping, Copying
<1>6. Front(t) = Back(t)
  BY <1>1, OwnSize
<1>7. head' = head /\ tail' = tail /\ array' = array
  BY <1>1
<1> QED BY <1>2, <1>3, <1>4, <1>5, <1>6, <1>7, PureStep DEF Copying

(* From one of the positions of a consumer to another.                     *)
LEMMA ConsumingPos ==
  ASSUME QueueInv, RingTypes, PosInv, NEW t \in Threads,
         ConsumeFind(t) \/ ConsumeNoMore(t) \/ ConsumeLast(t)
  PROVE  /\ RingTypes' /\ PosInv' /\ pushed[t] \in 0..capacity
         /\ ConsumeLast(t) => pushed[t] >= 1 /\ pushed'[t] = pushed[t] - 1
         /\ ~ConsumeLast(t) => pushed' = pushed
<1>1. /\ UNCHANGED <<consumer, list, next, head, tail, array, bhead, count, victim, new,
                     scheduled>>
      /\ \/ pc[t] = "pop" /\ pc' = [pc EXCEPT ![t] = "swap"] /\ pushed' = pushed
         \/ pc[t] = "extra" /\ pc' = [pc EXCEPT ![t] = "extraswap"] /\ pushed' = pushed
         \/ /\ pc[t] = "pop" /\ pc' = [pc EXCEPT ![t] = "extra"] /\ pushed' = pushed
            /\ consumer[t] = Null
         \/ /\ pc[t] = "extra" /\ pushed' = [pushed EXCEPT ![t] = @ - 1] /\ ConsumeLast(t)
            /\ pc' = [pc EXCEPT ![t] = IF pushed[t] = 1 THEN "cache" ELSE "tail"]
  BY DEF ConsumeFind, ConsumeNoMore, ConsumeLast, Goto, PopFinds, PopNothing, ConsumeFrame,
         bufferVars, sharedQueueVars, localQueueVars
<1>2. ConsumeLast(t) => /\ pc[t] = "extra" /\ pushed' = [pushed EXCEPT ![t] = @ - 1]
                        /\ pc' = [pc EXCEPT ![t] = IF pushed[t] = 1 THEN "cache" ELSE "tail"]
  BY DEF ConsumeLast
<1>3. RingTypes'
  BY <1>1 DEF RingTypes
<1>4. pushed[t] \in Int /\ capacity \in Nat /\ Filled(t) /\ Ranged(t)
  BY Placed DEF PosInv
<1>5. /\ \A u \in Threads \ {t} : pc'[u] = pc[u] /\ pushed'[u] = pushed[u]
      /\ \/ pc[t] = "pop" /\ pc'[t] = "swap" /\ pushed' = pushed
         \/ pc[t] = "extra" /\ pc'[t] = "extraswap" /\ pushed' = pushed
         \/ pc[t] = "pop" /\ pc'[t] = "extra" /\ pushed' = pushed /\ consumer[t] = Null
         \/ /\ pc[t] = "extra" /\ pushed'[t] = pushed[t] - 1
            /\ pc'[t] = IF pushed[t] = 1 THEN "cache" ELSE "tail"
  <2>1. \A s : pc' = [pc EXCEPT ![t] = s] => pc'[t] = s /\ \A u \in Threads \ {t} : pc'[u] = pc[u]
    BY Goes
  <2>2. \A u \in Threads \ {t} : pushed'[u] = pushed[u]
    BY <1>1 DEF RingTypes
  <2>3. pushed' = [pushed EXCEPT ![t] = @ - 1] => pushed'[t] = pushed[t] - 1
    BY DEF RingTypes
  <2> QED BY <1>1, <2>1, <2>2, <2>3
<1>6. Others(t)
  BY <1>1, <1>5 DEF Others, Waits
<1>7. pushed[t] \in 0..capacity /\ (pc[t] = "extra" => pushed[t] \in 1..capacity)
  BY <1>4, <1>5 DEF Filled
<1>8. Filled(t)'
  BY <1>4, <1>5, <1>7 DEF Filled, Filling, Popping, Copying
<1>9. Front(t) = Back(t)
  BY <1>1, <1>4 DEF Ranged, Emptied, Popping
<1>10. pc'[t] \in {"swap", "extraswap", "extra", "cache", "tail"}
  BY <1>5
<1>11. head' = head /\ tail' = tail /\ array' = array
  BY <1>1
<1>12. PosInv'
  BY <1>3, <1>6, <1>8, <1>9, <1>10, <1>11, PureStep DEF Copying
<1>13. ConsumeLast(t) => pushed[t] >= 1 /\ pushed'[t] = pushed[t] - 1
  BY <1>2, <1>4, <1>7 DEF RingTypes
<1>14. ~ConsumeLast(t) => pushed' = pushed
  BY <1>1
<1> QED BY <1>3, <1>7, <1>12, <1>13, <1>14

(* A node is kept.                                                         *)
LEMMA KeepPos ==
  ASSUME QueueInv, RingTypes, PosInv, NEW t \in Threads, NEW k \in Tasks,
         pc[t] \in Popping, Keep(t, k), list' = list, next' = next,
         \A u \in Threads \ {t} : consumer'[u] = consumer[u]
  PROVE  /\ RingTypes' /\ PosInv'
         /\ \/ /\ pc[t] \in {"pop", "swap"} /\ pushed[t] \in 0..(capacity - 1)
               /\ Writes(t, Back(t) + pushed[t], k)
               /\ pushed'[t] = pushed[t] + 1 /\ pc'[t] \in {"pop", "extra"}
            \/ /\ pc[t] \in {"extra", "extraswap"} /\ array' = array /\ pushed' = pushed
               /\ pushed[t] \in 1..capacity /\ pc'[t] = "tail"
<1>1. UNCHANGED <<head, tail, bhead, count, victim, new, scheduled>>
  BY DEF Keep, ConsumeFrame
<1>2. /\ Filled(t) /\ Ranged(t) /\ pushed[t] \in Int /\ capacity \in Nat /\ capacity > 1
      /\ Back(t) \in Nat /\ Front(t) \in Nat
  BY Placed DEF PosInv
<1>3. Front(t) = Back(t)
  BY <1>2 DEF Ranged, Emptied
<1>4. CASE pc[t] \in {"pop", "swap"}
  <2>1. /\ Store(t, Plus(tail[t], pushed[t]), k) /\ pushed' = [pushed EXCEPT ![t] = @ + 1]
        /\ pc' = [pc EXCEPT ![t] = IF pushed[t] + 1 < capacity THEN "pop" ELSE "extra"]
    BY <1>4 DEF Keep
  <2>2. pushed[t] \in 0..(capacity - 1) /\ pushed[t] \in Nat
    BY <1>2, <1>4 DEF Filled
  <2>3. Writes(t, Back(t) + pushed[t], k)
    <3> DEFINE n == pushed[t]
               i == tail[t]
    <3>1. i \in Indices /\ n \in Nat /\ k \in Tasks \cup {Null} /\ Store(t, Plus(i, n), k)
      BY <2>1, <2>2 DEF RingTypes
    <3> HIDE DEF n, i
    <3>2. Writes(t, Pos(i) + n, k)
      BY <3>1, StoreBeyond
    <3> QED BY <3>2 DEF Back, i, n
  <2>4. /\ pc'[t] = IF pushed[t] + 1 < capacity THEN "pop" ELSE "extra"
        /\ \A u \in Threads \ {t} : pc'[u] = pc[u]
    BY <2>1, Goes
  <2>5. pushed'[t] = pushed[t] + 1 /\ \A u \in Threads \ {t} : pushed'[u] = pushed[u]
    BY <2>1 DEF RingTypes
  <2>6. RingTypes'
    <3>1. array' \in [Threads -> [0..(capacity - 1) -> Tasks \cup {Null}]]
      BY <2>3 DEF Writes
    <3>2. pushed' \in [Threads -> Int]
      BY <1>2, <2>1 DEF RingTypes
    <3> QED BY <1>1, <3>1, <3>2 DEF RingTypes
  <2>7. Others(t)
    BY <1>1, <2>3, <2>4, <2>5 DEF Others, Waits, Writes
  <2>8. Filled(t)'
    BY <1>2, <2>2, <2>4, <2>5 DEF Filled, Filling, Popping, Copying
  <2>9. pc'[t] \in {"pop", "extra"} /\ Back(t) + pushed[t] < Front(t) + capacity
    BY <1>2, <1>3, <2>2, <2>4
  <2>10. \A v \in Threads : Watches(t, v)'
    BY <2>9 DEF Watches, Copying
  <2>11. head' = head /\ tail' = tail /\ pc'[t] \notin {"migrate", "take"}
    BY <1>1, <2>9
  <2>12. PosInv'
    <3> DEFINE n == pushed[t]
    <3>1. n \in Nat /\ Writes(t, Back(t) + n, k) /\ Back(t) + n < Front(t) + capacity
      BY <2>2, <2>3, <2>9
    <3> HIDE DEF n
    <3> QED BY <1>3, <2>6, <2>7, <2>8, <2>10, <2>11, <3>1, WriteStep
  <2> QED BY <1>4, <2>2, <2>3, <2>5, <2>6, <2>9, <2>12
<1>5. CASE pc[t] \in {"extra", "extraswap"}
  <2>1. /\ array' = array /\ pushed' = pushed
        /\ pc' = [pc EXCEPT ![t] = IF pushed[t] = 0 THEN "cache" ELSE "tail"]
    BY <1>5 DEF Keep
  <2>2. pushed[t] \in 1..capacity
    BY <1>2, <1>5 DEF Filled
  <2>3. pc'[t] = "tail" /\ \A u \in Threads \ {t} : pc'[u] = pc[u]
    <3>1. pushed[t] # 0
      BY <1>2, <2>2
    <3>2. pc' = [pc EXCEPT ![t] = "tail"]
      BY <2>1, <3>1
    <3> QED BY <3>2, Goes
  <2>4. RingTypes'
    BY <1>1, <2>1 DEF RingTypes
  <2>5. Others(t)
    BY <1>1, <2>1, <2>3 DEF Others, Waits
  <2>6. Filled(t)'
    BY <2>1, <2>2, <2>3 DEF Filled, Filling, Popping, Copying
  <2>7. head' = head /\ tail' = tail
    BY <1>1
  <2>8. PosInv'
    BY <1>3, <2>1, <2>3, <2>4, <2>5, <2>6, <2>7, PureStep DEF Copying
  <2> QED BY <1>5, <2>1, <2>2, <2>3, <2>4, <2>8
<1> QED BY <1>4, <1>5 DEF Popping

LEMMA ConsumePopPos ==
  ASSUME QueueInv, RingTypes, PosInv, NEW t \in Threads, NEW k \in Tasks,
         \/ pc[t] \in {"pop", "extra"} /\ PopCached(t, k)
         \/ pc[t] \in {"swap", "extraswap"} /\ PopSwap(t, k),
         Keep(t, k)
  PROVE  RingTypes' /\ PosInv'
<1>1. list' = list /\ next' = next /\ \A u \in Threads \ {t} : consumer'[u] = consumer[u]
  BY IsProc DEF PopCached, PopSwap, sharedQueueVars, QueueInv, Shape
<1> QED BY <1>1, KeepPos DEF Popping

(* A step of a thief that looks at its victim.                             *)
LEMMA LookStep ==
  ASSUME RingTypes, RingTypes', PosInv, NEW t \in Threads, UNCHANGED <<head, tail, array>>,
         Others(t), Filled(t)', Front(t) = Back(t), pc'[t] \in {"look", "copy"},
         \A v \in Threads : victim'[t] = v => Watches(t, v)'
  PROVE  PosInv'
<1>1. \A u \in Threads : /\ Front(u)' = Front(u) /\ Back(u)' = Back(u)
                         /\ \A p : Entry(u, p)' = Entry(u, p)
  BY DEF Front, Back, Entry
<1>2. \A u \in Threads : Front(u) \in Nat /\ Back(u) \in Nat /\ capacity \in Nat
  BY Placed
<1>3. \A u \in Threads : Front(u) =< Back(u) /\ Back(u) =< Front(u) + capacity
  BY DEF PosInv, Ranged
<1>4. Moves(t)
  BY <1>1, <1>2 DEF Moves
<1>5. Ranged(t)'
  BY <1>1, <1>2, <1>3 DEF Ranged
<1>6. \A u \in Threads \ {t} : Waits(u) /\ Front(u) =< Front(u)' /\ Front(u)' =< Back(u)
  BY <1>1, <1>2, <1>3 DEF Others
<1> QED BY <1>4, <1>5, <1>6, PosStep

LEMMA StealHeadPos ==
  ASSUME QueueInv, RingTypes, PosInv, NEW t \in Threads, NEW v \in Threads \ {t},
         StealHead(t, v), pushed[t] = 0, Front(t) = Back(t)
  PROVE  RingTypes' /\ PosInv' /\ pc'[t] = "look"
<1>1. /\ bhead' = [bhead EXCEPT ![t] = head[v]] /\ victim' = [victim EXCEPT ![t] = v]
      /\ pc' = [pc EXCEPT ![t] = "look"]
      /\ UNCHANGED <<head, tail, array, count, pushed, consumer, list, next, new, scheduled>>
  BY DEF StealHead, StealFrame, queueVars, sharedQueueVars, localQueueVars
<1>2. pc'[t] = "look" /\ \A u \in Threads \ {t} : pc'[u] = pc[u]
  BY <1>1, Goes
<1>3. /\ head[v] \in Indices /\ victim \in [Threads -> Threads \cup {Nobody}]
      /\ bhead \in [Threads -> Indices]
  BY DEF RingTypes
<1>4. RingTypes'
  BY <1>1, <1>3 DEF RingTypes
<1>5. /\ bhead'[t] = head[v] /\ victim'[t] = v
      /\ \A u \in Threads \ {t} : bhead'[u] = bhead[u] /\ victim'[u] = victim[u]
  BY <1>1, <1>3
<1>6. Others(t)
  BY <1>1, <1>2, <1>5 DEF Others, Waits
<1>7. Filled(t)'
  BY <1>1, <1>2, <1>5 DEF Filled, Filling, Popping, Copying
<1>8. Saw(t)' = Front(v) /\ Front(v)' = Front(v) /\ Front(v) \in Nat
  BY <1>1, <1>5, Placed DEF Saw, Front
<1>9. \A w \in Threads : victim'[t] = w => Watches(t, w)'
  BY <1>2, <1>5, <1>8 DEF Watches, Copying
<1>10. head' = head /\ tail' = tail /\ array' = array
  BY <1>1
<1> QED BY <1>2, <1>4, <1>6, <1>7, <1>9, <1>10, LookStep

LEMMA StealPos ==
  ASSUME QueueInv, RingTypes, PosInv, NEW t \in Threads, NEW v \in Threads \ {t}, Steal(t, v)
  PROVE  RingTypes' /\ PosInv' /\ pc'[t] = "look"
<1>1. pc[t] = "out" /\ Size(t, head[t]) = 0 /\ StealHead(t, v)
  BY DEF Steal, Looking
<1>2. Front(t) = Back(t)
  BY <1>1, OwnSize
<1>3. pushed[t] = 0
  BY <1>1 DEF PosInv, Filled, Filling, Popping, Copying
<1> QED BY <1>1, <1>2, <1>3, StealHeadPos

LEMMA StealAgainPos ==
  ASSUME QueueInv, RingTypes, PosInv, NEW t \in Threads, StealAgain(t)
  PROVE  RingTypes' /\ PosInv' /\ pc'[t] = "look"
<1>1. pc[t] = "again" /\ StealHead(t, victim[t])
  BY DEF StealAgain
<1>2. Front(t) = Back(t) /\ pushed[t] = 0 /\ victim[t] \in Threads \ {t}
  BY <1>1 DEF PosInv, Ranged, Emptied, Filled, Filling, Popping, Copying
<1> QED BY <1>1, <1>2, StealHeadPos

(* What a thief knows of its victim.                                       *)
LEMMA Victim ==
  ASSUME RingTypes, PosInv, NEW t \in Threads, pc[t] \in {"look"} \cup Copying
  PROVE  /\ victim[t] \in Threads \ {t} /\ Watches(t, victim[t])
         /\ Saw(t) \in Nat /\ Front(victim[t]) \in Nat /\ Back(victim[t]) \in Nat
         /\ Saw(t) =< Front(victim[t]) /\ Front(victim[t]) =< Back(victim[t])
         /\ Front(t) = Back(t) /\ Front(t) \in Nat
         /\ Back(victim[t]) =< Front(victim[t]) + capacity
<1>1. victim[t] \in Threads \ {t} /\ Front(t) = Back(t)
  BY DEF PosInv, Filled, Ranged, Emptied, Copying
<1>2. Watches(t, victim[t]) /\ Ranged(victim[t])
  BY <1>1 DEF PosInv
<1>3. Saw(t) =< Front(victim[t])
  BY <1>2 DEF Watches
<1>4. /\ Saw(t) \in Nat /\ Front(victim[t]) \in Nat /\ Back(victim[t]) \in Nat
      /\ Front(t) \in Nat
  BY <1>1, Placed
<1> QED BY <1>1, <1>2, <1>3, <1>4 DEF Ranged

LEMMA VictimSize ==
  ASSUME RingTypes, PosInv, NEW t \in Threads, pc[t] = "look"
  PROVE  /\ Size(victim[t], bhead[t]) = Back(victim[t]) - Saw(t)
         /\ Size(victim[t], bhead[t]) \in Nat
<1>1. /\ victim[t] \in Threads \ {t}
      /\ Saw(t) \in Nat /\ Front(victim[t]) \in Nat /\ Back(victim[t]) \in Nat
      /\ Saw(t) =< Front(victim[t]) /\ Front(victim[t]) =< Back(victim[t])
  BY Victim
<1>2. bhead[t] \in Indices /\ Pos(bhead[t]) =< Back(victim[t])
  <2>1. Saw(t) =< Back(victim[t])
    BY <1>1
  <2> QED BY <2>1 DEF RingTypes, Saw
<1>3. Size(victim[t], bhead[t]) = Back(victim[t]) - Saw(t)
  BY <1>1, <1>2, SizeIs DEF Saw
<1> QED BY <1>1, <1>3

LEMMA StealTailPos ==
  ASSUME QueueInv, RingTypes, PosInv, NEW t \in Threads, StealTail(t)
  PROVE  /\ RingTypes' /\ PosInv' /\ pc[t] = "look"
         /\ pc'[t] \in {"out", "again", "copy"}
         /\ pc'[t] = "out" => Back(victim[t]) = Saw(t)
<1> DEFINE size == Size(victim[t], bhead[t])
           v == victim[t]
<1>1. /\ pc[t] = "look"
      /\ UNCHANGED <<head, tail, array, pushed, consumer, list, next, new, scheduled>>
  BY DEF StealTail, StealFrame, queueVars, sharedQueueVars, localQueueVars
<1>2. /\ size = 0 => /\ pc' = [pc EXCEPT ![t] = "out"] /\ bhead' = [bhead EXCEPT ![t] = 0]
                     /\ victim' = [victim EXCEPT ![t] = Nobody] /\ count' = count
      /\ size # 0 /\ size > capacity =>
           /\ pc' = [pc EXCEPT ![t] = "again"] /\ count' = [count EXCEPT ![t] = 0]
           /\ bhead' = bhead /\ victim' = victim
      /\ size # 0 /\ ~(size > capacity) =>
           /\ pc' = [pc EXCEPT ![t] = "copy"]
           /\ count' = [count EXCEPT ![t] = size - size \div 2]
           /\ bhead' = bhead /\ victim' = victim
  BY DEF StealTail
<1>3. /\ v \in Threads \ {t} /\ Saw(t) \in Nat /\ Front(v) \in Nat /\ Back(v) \in Nat
      /\ Saw(t) =< Front(v) /\ Front(v) =< Back(v) /\ Front(t) = Back(t) /\ Front(t) \in Nat
      /\ size = Back(v) - Saw(t) /\ size \in Nat /\ capacity \in Nat /\ capacity > 1
  BY <1>1, Victim, VictimSize, Placed
<1>4. pushed[t] = 0
  BY <1>1 DEF PosInv, Filled, Filling, Popping, Copying
<1> HIDE DEF size
<1>5. CASE size = 0
  <2>1. /\ pc' = [pc EXCEPT ![t] = "out"] /\ bhead' = [bhead EXCEPT ![t] = 0]
        /\ victim' = [victim EXCEPT ![t] = Nobody] /\ count' = count
    BY <1>2, <1>5
  <2>2. pc'[t] = "out" /\ \A u \in Threads \ {t} : pc'[u] = pc[u]
    BY <2>1, Goes
  <2>3. RingTypes'
    BY <1>1, <2>1, Zero DEF RingTypes
  <2>4. Others(t)
    BY <1>1, <2>1, <2>2 DEF Others, Waits, RingTypes
  <2>5. Filled(t)'
    BY <1>1, <1>4, <2>2 DEF Filled, Filling, Popping, Copying
  <2>6. PosInv'
    BY <1>1, <2>2, <2>3, <2>4, <2>5, PureStep DEF Copying, Emptied, Popping
  <2> QED BY <1>1, <1>3, <1>5, <2>2, <2>3, <2>6
<1>6. CASE size # 0 /\ size > capacity
  <2>1. /\ pc' = [pc EXCEPT ![t] = "again"] /\ count' = [count EXCEPT ![t] = 0]
        /\ bhead' = bhead /\ victim' = victim
    BY <1>2, <1>6
  <2>2. pc'[t] = "again" /\ \A u \in Threads \ {t} : pc'[u] = pc[u]
    BY <2>1, Goes
  <2>3. RingTypes'
    BY <1>1, <2>1 DEF RingTypes
  <2>4. Others(t)
    BY <1>1, <2>1, <2>2 DEF Others, Waits, RingTypes
  <2>5. Filled(t)'
    BY <1>1, <1>3, <1>4, <2>1, <2>2 DEF Filled, Filling, Popping, Copying
  <2>6. PosInv'
    BY <1>1, <1>3, <2>2, <2>3, <2>4, <2>5, PureStep DEF Copying
  <2> QED BY <1>1, <2>2, <2>3, <2>6
<1>7. CASE size # 0 /\ ~(size > capacity)
  <2> DEFINE n == size - size \div 2
  <2>1. /\ pc' = [pc EXCEPT ![t] = "copy"] /\ count' = [count EXCEPT ![t] = n]
        /\ bhead' = bhead /\ victim' = victim
    BY <1>2, <1>7
  <2>2. n \in 1..capacity /\ n =< size /\ n \in Int
    BY <1>3, <1>7
  <2> HIDE DEF n
  <2>3. pc'[t] = "copy" /\ \A u \in Threads \ {t} : pc'[u] = pc[u]
    BY <2>1, Goes
  <2>4. RingTypes'
    BY <1>1, <2>1, <2>2 DEF RingTypes
  <2>5. count'[t] = n /\ \A u \in Threads \ {t} : count'[u] = count[u]
    BY <2>1 DEF RingTypes
  <2>6. Others(t)
    BY <1>1, <2>1, <2>3, <2>5 DEF Others, Waits
  <2>7. Filled(t)'
    BY <1>1, <1>3, <1>4, <2>1, <2>2, <2>3, <2>5 DEF Filled, Filling, Popping, Copying
  <2>8. Saw(t)' = Saw(t) /\ \A u \in Threads : Front(u)' = Front(u) /\ Back(u)' = Back(u)
    BY <1>1, <2>1 DEF Saw, Front, Back
  <2>9. ASSUME NEW w \in Threads, victim'[t] = w PROVE Watches(t, w)'
    <3>1. w = v
      BY <2>1, <2>9
    <3>2. Front(w)' = Front(v) /\ Back(w)' = Back(v)
      BY <2>8, <3>1
    <3>3. Saw(t) + n =< Back(v)
      BY <1>3, <2>2
    <3>4. pushed'[t] = 0 /\ \A i : i \notin 0..(0 - 1)
      BY <1>1, <1>4
    <3> HIDE DEF v
    <3> QED BY <1>3, <2>3, <2>5, <2>8, <3>2, <3>3, <3>4 DEF Watches
  <2>10. head' = head /\ tail' = tail /\ array' = array /\ Front(t) = Back(t)
    BY <1>1, <1>3
  <2>11. PosInv'
    BY <2>3, <2>4, <2>6, <2>7, <2>9, <2>10, LookStep
  <2> QED BY <1>1, <2>3, <2>4, <2>11
<1> QED BY <1>5, <1>6, <1>7

LEMMA StealFailsPos ==
  ASSUME QueueInv, RingTypes, PosInv, NEW t \in Threads, StealFails(t)
  PROVE  RingTypes' /\ PosInv' /\ pc[t] = "commit" /\ pc'[t] = "again"
<1>1. /\ pc[t] = "commit" /\ pc' = [pc EXCEPT ![t] = "again"]
      /\ pushed' = [pushed EXCEPT ![t] = 0] /\ count' = [count EXCEPT ![t] = 0]
      /\ UNCHANGED <<head, tail, array, bhead, victim, consumer, list, next, new, scheduled>>
  BY DEF StealFails, Goto, StealFrame, queueVars, sharedQueueVars, localQueueVars
<1>2. pc'[t] = "again" /\ \A u \in Threads \ {t} : pc'[u] = pc[u]
  BY <1>1, Goes
<1>3. RingTypes'
  BY <1>1 DEF RingTypes
<1>4. Others(t)
  BY <1>1, <1>2 DEF Others, Waits, RingTypes
<1>5. pushed'[t] = 0 /\ victim'[t] \in Threads \ {t} /\ Front(t) = Back(t)
  BY <1>1, Victim DEF RingTypes, Copying
<1>6. Filled(t)'
  BY <1>2, <1>5 DEF Filled, Filling, Popping, Copying
<1>7. head' = head /\ tail' = tail /\ array' = array
  BY <1>1
<1> QED BY <1>1, <1>2, <1>3, <1>4, <1>5, <1>6, <1>7, PureStep DEF Copying

LEMMA StealCopyPos ==
  ASSUME QueueInv, RingTypes, PosInv, NEW t \in Threads, StealCopy(t)
  PROVE  /\ RingTypes' /\ PosInv' /\ pc[t] = "copy" /\ pc'[t] \in Copying
         /\ pushed[t] \in 0..(capacity - 1)
         /\ \E k : Writes(t, Back(t) + pushed[t], k)
<1>1. /\ pc[t] = "copy"
      /\ Store(t, Plus(tail[t], pushed[t]), Slot(victim[t], Plus(bhead[t], pushed[t])))
      /\ pushed' = [pushed EXCEPT ![t] = @ + 1]
      /\ pc' = [pc EXCEPT ![t] = IF pushed[t] + 1 < count[t] THEN "copy" ELSE "commit"]
      /\ UNCHANGED <<head, tail, bhead, count, victim, consumer, list, next, new, scheduled>>
  BY DEF StealCopy, StealFrame, queueVars, sharedQueueVars, localQueueVars
<1>2. PICK v \in Threads \ {t} : victim[t] = v
  BY <1>1, Victim DEF Copying
<1>3. /\ Watches(t, v) /\ Saw(t) \in Nat /\ Front(v) \in Nat /\ Back(v) \in Nat
      /\ Saw(t) =< Front(v) /\ Front(v) =< Back(v) /\ Back(v) =< Front(v) + capacity
      /\ Front(t) = Back(t) /\ Front(t) \in Nat /\ Back(t) \in Nat
      /\ capacity \in Nat /\ pushed[t] \in Int /\ count[t] \in Int
  BY <1>1, <1>2, Victim, Placed DEF Copying
<1>4. count[t] \in 1..capacity /\ pushed[t] \in 0..(count[t] - 1)
  BY <1>1 DEF PosInv, Filled, Copying
<1>5. /\ pushed[t] \in Nat /\ pushed[t] < capacity /\ pushed[t] < count[t]
      /\ pushed[t] \in 0..(capacity - 1)
  BY <1>3, <1>4
<1> DEFINE n == pushed[t]
           i == tail[t]
           k == Entry(v, Saw(t) + n)
<1>6. Slot(v, Plus(bhead[t], n)) = k /\ k \in Tasks \cup {Null}
  <2>1. bhead[t] \in Indices /\ n \in Int /\ Saw(t) + n \in Nat
    BY <1>3, <1>5 DEF RingTypes
  <2> HIDE DEF n
  <2>2. Slot(v, Plus(bhead[t], n)) = Entry(v, Pos(bhead[t]) + n)
    BY <2>1, SlotIs
  <2> QED BY <2>1, <2>2, EntryIs DEF Saw
<1>7. i \in Indices /\ n \in Nat /\ Store(t, Plus(i, n), k)
  BY <1>1, <1>2, <1>5, <1>6 DEF RingTypes
<1> HIDE DEF n, i, k
<1>8. Writes(t, Back(t) + n, k)
  <2>1. Writes(t, Pos(i) + n, k)
    BY <1>6, <1>7, StoreBeyond
  <2> QED BY <2>1 DEF Back, i
<1>9. /\ pc'[t] = IF n + 1 < count[t] THEN "copy" ELSE "commit"
      /\ \A u \in Threads \ {t} : pc'[u] = pc[u]
  BY <1>1, Goes DEF n
<1>10. pushed'[t] = n + 1 /\ \A u \in Threads \ {t} : pushed'[u] = pushed[u]
  BY <1>1 DEF RingTypes, n
<1>11. RingTypes'
  <2>1. array' \in [Threads -> [0..(capacity - 1) -> Tasks \cup {Null}]]
    BY <1>8 DEF Writes
  <2>2. pushed' \in [Threads -> Int]
    BY <1>1, <1>3 DEF RingTypes
  <2> QED BY <1>1, <2>1, <2>2 DEF RingTypes
<1>12. Others(t)
  BY <1>1, <1>8, <1>9, <1>10 DEF Others, Waits, Writes
<1>13. pc'[t] \in Copying /\ n < count[t]
  BY <1>5, <1>9 DEF n, Copying
<1>14. Filled(t)'
  BY <1>1, <1>2, <1>3, <1>4, <1>5, <1>7, <1>9, <1>10 DEF Filled, Filling, Popping, Copying, n
<1>15. Saw(t)' = Saw(t) /\ \A u \in Threads : Front(u)' = Front(u) /\ Back(u)' = Back(u)
  BY <1>1 DEF Saw, Front, Back
<1>16. ASSUME Front(v) = Saw(t), NEW j \in 0..(pushed'[t] - 1)
       PROVE  Entry(t, Back(t) + j)' = Entry(v, Saw(t) + j)'
  <2>1. array'[v] = array[v]
    BY <1>8 DEF Writes
  <2>2. Entry(v, Saw(t) + j)' = Entry(v, Saw(t) + j)
    BY <1>15, <2>1 DEF Entry
  <2>3. Entry(t, Back(t) + j)' = array'[t][Mask(Back(t) + j)]
    BY <1>15 DEF Entry
  <2>4. CASE j = n
    BY <1>8, <2>2, <2>3, <2>4 DEF Writes, k
  <2>5. CASE j # n
    <3>1. j \in 0..(n - 1) /\ j \in Nat
      BY <1>7, <1>10, <2>5
    <3>2. Entry(t, Back(t) + j) = Entry(v, Saw(t) + j)
      BY <1>1, <1>3, <1>16, <3>1 DEF Watches, Copying, n
    <3> DEFINE q == Back(t) + j
               p == Back(t) + n
    <3>3. q \in Nat /\ q # p /\ p - q < capacity /\ q - p < capacity
      BY <1>3, <1>5, <1>7, <3>1 DEF n
    <3>4. Writes(t, p, k)
      BY <1>8
    <3> HIDE DEF p, q
    <3>5. array'[t][Mask(q)] = array[t][Mask(q)]
      BY <3>3, <3>4 DEF Writes
    <3> QED BY <2>2, <2>3, <3>2, <3>5 DEF q, Entry
  <2> QED BY <2>4, <2>5
<1>17. ASSUME NEW w \in Threads, victim'[t] = w PROVE Watches(t, w)'
  <2>1. w = v
    BY <1>1, <1>2, <1>17
  <2>2. Saw(t)' =< Front(w)'
    BY <1>3, <1>15, <2>1
  <2>3. Saw(t)' + count'[t] =< Back(w)'
    <3>1. Saw(t) + count[t] =< Back(v)
      BY <1>1, <1>3 DEF Watches, Copying
    <3> QED BY <1>1, <1>15, <2>1, <3>1
  <2>4. \A j : Entry(w, Saw(t) + j)' = Entry(v, Saw(t) + j)'
    BY <2>1
  <2> QED BY <1>15, <1>16, <2>1, <2>2, <2>3, <2>4 DEF Watches
<1>18. pc'[t] \notin {"migrate", "take"} /\ Back(t) + n < Front(t) + capacity
  <2>1. n < capacity
    BY <1>5 DEF n
  <2> QED BY <1>3, <1>7, <1>13, <2>1 DEF Copying
<1>19. head' = head /\ tail' = tail
  BY <1>1
<1>20. PosInv'
  BY <1>3, <1>7, <1>8, <1>11, <1>12, <1>14, <1>17, <1>18, <1>19, WriteStep
<1> QED BY <1>1, <1>5, <1>8, <1>11, <1>13, <1>20 DEF n

(* The thief has what its victim had.                                      *)
LEMMA StealCommitPos ==
  ASSUME QueueInv, RingTypes, PosInv, NEW t \in Threads, NEW v, v = victim[t], StealCommit(t)
  PROVE  /\ RingTypes' /\ PosInv' /\ pc[t] = "commit" /\ v \in Threads \ {t}
         /\ count[t] \in 1..capacity /\ pushed'[t] = count[t] - 1
         /\ Front(t) = Back(t) /\ Front(v) + count[t] =< Back(v)
         /\ Front(v)' = Front(v) + count[t]
         /\ \A u \in Threads \ {v} : Front(u)' = Front(u)
         /\ \A i \in 0..(count[t] - 1) : Entry(t, Back(t) + i) = Entry(v, Front(v) + i)
         /\ pc'[t] \in {"out", "stolen"}
<1>1. /\ pc[t] = "commit" /\ head[v] = bhead[t]
      /\ head' = [head EXCEPT ![v] = Plus(@, count[t])]
      /\ pushed' = [pushed EXCEPT ![t] = count[t] - 1]
      /\ pc' = [pc EXCEPT ![t] = IF count[t] = 1 THEN "out" ELSE "stolen"]
      /\ count' = [count EXCEPT ![t] = 0] /\ bhead' = [bhead EXCEPT ![t] = 0]
      /\ victim' = [victim EXCEPT ![t] = Nobody]
      /\ UNCHANGED <<tail, array, consumer, list, next, new, scheduled>>
  BY DEF StealCommit, StealFrame, queueVars, sharedQueueVars, localQueueVars
<1>2. /\ v \in Threads \ {t} /\ Watches(t, v) /\ Front(v) \in Nat /\ Back(v) \in Nat
      /\ Front(v) =< Back(v) /\ Front(t) = Back(t) /\ Front(t) \in Nat
      /\ Back(v) =< Front(v) + capacity /\ capacity \in Nat
  BY <1>1, Victim, Placed DEF Copying
<1>3. count[t] \in 1..capacity /\ count[t] \in Nat /\ pushed[t] = count[t]
  <2>1. count[t] \in 1..capacity /\ pushed[t] = count[t]
    BY <1>1 DEF PosInv, Filled, Copying
  <2> QED BY <1>2, <2>1
<1>4. Saw(t) = Front(v)
  BY <1>1 DEF Saw, Front
<1>5. Front(v) + count[t] =< Back(v)
  BY <1>1, <1>2, <1>4 DEF Watches, Copying
<1>6. \A i \in 0..(count[t] - 1) : Entry(t, Back(t) + i) = Entry(v, Front(v) + i)
  BY <1>1, <1>2, <1>3, <1>4 DEF Watches, Copying
<1>7. /\ head' \in [Threads -> Indices] /\ Front(v)' = Front(v) + count[t]
      /\ \A u \in Threads \ {v} : Front(u)' = Front(u)
  <2>1. v \in Threads
    BY <1>2
  <2> QED BY <1>1, <1>3, <1>5, <2>1, HeadMoves
<1>8. /\ pc'[t] = IF count[t] = 1 THEN "out" ELSE "stolen"
      /\ \A u \in Threads \ {t} : pc'[u] = pc[u]
  BY <1>1, Goes
<1>9. pushed'[t] = count[t] - 1 /\ \A u \in Threads \ {t} : pushed'[u] = pushed[u]
  BY <1>1 DEF RingTypes
<1>10. RingTypes'
  <2>1. pushed' \in [Threads -> Int]
    BY <1>1, <1>3 DEF RingTypes
  <2> QED BY <1>1, <1>7, <2>1, Zero DEF RingTypes
<1>11. Others(t)
  BY <1>1, <1>8, <1>9 DEF Others, Waits, RingTypes
<1>12. pc'[t] \in {"out", "stolen"}
  BY <1>8
<1>13. Filled(t)'
  BY <1>2, <1>3, <1>8, <1>9 DEF Filled, Filling, Popping, Copying
<1>14. \A u \in Threads : Back(u)' = Back(u) /\ \A p : Entry(u, p)' = Entry(u, p)
  BY <1>1 DEF Back, Entry
<1>15. Moves(t)
  BY <1>2, <1>7, <1>14 DEF Moves
<1>16. Ranged(t)'
  BY <1>2, <1>7, <1>12, <1>14 DEF Ranged, Emptied
<1>17. \A u \in Threads : Front(u) \in Nat /\ Back(u) \in Nat /\ Front(u) =< Back(u)
  BY Placed DEF PosInv, Ranged
<1>18. \A u \in Threads \ {t} : Waits(u) /\ Front(u) =< Front(u)' /\ Front(u)' =< Back(u)
  BY <1>3, <1>5, <1>7, <1>11, <1>17 DEF Others
<1>19. \A w \in Threads : Watches(t, w)'
  BY <1>12 DEF Watches, Copying
<1>20. PosInv'
  BY <1>10, <1>13, <1>15, <1>16, <1>18, <1>19, PosStep
<1> QED BY <1>1, <1>2, <1>3, <1>5, <1>6, <1>7, <1>9, <1>10, <1>12, <1>20

(***************************************************************************)
(* Each task is in one place.                                              *)
(***************************************************************************)
InStack(o) == <<"stack", o, 0>>
InCache(o) == <<"cache", o, 0>>
InList(p, i) == <<"list", p, i>>
InRing(t, p) == <<"ring", t, p>>
IsNew(t) == <<"new", t, 0>>
Ran == <<"ran", Null, 0>>
None == <<"none", Null, 0>>

LEMMA Places ==
  /\ \A o, u : InStack(o) # InCache(u) /\ InStack(o) # IsNew(u) /\ InCache(o) # IsNew(u)
  /\ \A o, u : InStack(o) = InStack(u) => o = u
  /\ \A o, u : InCache(o) = InCache(u) => o = u
  /\ \A o, u : IsNew(o) = IsNew(u) => o = u
  /\ \A o, u, i, j : /\ InList(u, i) # InStack(o) /\ InList(u, i) # InCache(o)
                     /\ InList(u, i) # IsNew(o) /\ InRing(u, i) # InStack(o)
                     /\ InRing(u, i) # InCache(o) /\ InRing(u, i) # IsNew(o)
                     /\ InList(u, i) # InRing(o, j)
                     /\ InList(u, i) = InList(o, j) => u = o /\ i = j
                     /\ InRing(u, i) = InRing(o, j) => u = o /\ i = j
  /\ \A l \in {Ran, None} :
       /\ \A o : l # InStack(o) /\ l # InCache(o) /\ l # IsNew(o)
       /\ \A o, i : l # InList(o, i) /\ l # InRing(o, i)
  /\ Ran # None
BY DEF InStack, InCache, InList, InRing, IsNew, Ran, None

(* The nodes at l are linked to each other or to nothing, no two to the    *)
(* same one, none to the first, h.                                         *)
Strung(f, nx, h, l) ==
  /\ h # Null => h \in Tasks /\ f[h] = l
  /\ \A k \in Tasks : f[k] = l /\ nx[k] # Null => nx[k] \in Tasks /\ f[nx[k]] = l /\ nx[k] # h
  /\ \A j, k \in Tasks : f[j] = l /\ f[k] = l /\ nx[j] = nx[k] /\ nx[j] # Null => j = k

LEMMA StrungKept ==
  ASSUME NEW f, NEW g, NEW nx, NEW mx, NEW h, NEW l, Strung(f, nx, h, l),
         \A k \in Tasks : f[k] = l <=> g[k] = l,
         \A k \in Tasks : f[k] = l => mx[k] = nx[k]
  PROVE  Strung(g, mx, h, l)
BY DEF Strung

Relabel(f, k, l) == [j \in Tasks |-> IF j = k THEN l ELSE f[j]]

LEMMA StrungPop ==
  ASSUME NEW f, NEW nx, NEW k, NEW l, NEW m, Strung(f, nx, k, l), k # Null, m # l
  PROVE  Strung(Relabel(f, k, m), nx, nx[k], l) /\ k \in Tasks /\ f[k] = l
<1> DEFINE g == Relabel(f, k, m)
<1>1. k \in Tasks /\ f[k] = l
  BY DEF Strung
<1>2. \A j \in Tasks : g[j] = IF j = k THEN m ELSE f[j]
  BY DEF Relabel
<1> HIDE DEF g
<1>3. Strung(g, nx, nx[k], l)
  BY <1>1, <1>2 DEF Strung
<1> QED BY <1>1, <1>3 DEF g

LEMMA StrungMerge ==
  ASSUME NEW f, NEW g, NEW nx, NEW h, NEW c, NEW l, NEW m, l # m,
         Strung(f, nx, h, l), Strung(f, nx, c, m),
         \A k \in Tasks : g[k] = IF f[k] = l THEN m ELSE f[k]
  PROVE  Strung(g, nx, h, m) /\ Strung(g, nx, Null, l)
<1>1. \A k \in Tasks : g[k] = m <=> f[k] = l \/ f[k] = m
  OBVIOUS
<1>2. \A k \in Tasks : g[k] # l
  OBVIOUS
<1>3. Strung(g, nx, Null, l)
  BY <1>2 DEF Strung
<1>4. h # Null => h \in Tasks /\ g[h] = m
  BY <1>1 DEF Strung
<1>5. \A k \in Tasks : g[k] = m /\ nx[k] # Null => nx[k] \in Tasks /\ g[nx[k]] = m /\ nx[k] # h
  <2> SUFFICES ASSUME NEW k \in Tasks, g[k] = m, nx[k] # Null
               PROVE  nx[k] \in Tasks /\ g[nx[k]] = m /\ nx[k] # h
    OBVIOUS
  <2>1. CASE f[k] = l
    BY <1>1, <2>1 DEF Strung
  <2>2. CASE f[k] = m
    BY <1>1, <2>2 DEF Strung
  <2> QED BY <1>1, <2>1, <2>2
<1>6. \A j, k \in Tasks : g[j] = m /\ g[k] = m /\ nx[j] = nx[k] /\ nx[j] # Null => j = k
  <2> SUFFICES ASSUME NEW j \in Tasks, NEW k \in Tasks, g[j] = m, g[k] = m, nx[j] = nx[k],
                      nx[j] # Null
               PROVE  j = k
    OBVIOUS
  <2>1. f[j] \in {l, m} /\ f[k] \in {l, m}
    BY <1>1
  <2>2. f[nx[j]] = f[j] /\ f[nx[k]] = f[k]
    BY <2>1 DEF Strung
  <2>3. f[j] = f[k]
    BY <2>2
  <2> QED BY <2>1, <2>3 DEF Strung
<1>7. Strung(g, nx, h, m)
  BY <1>4, <1>5, <1>6 DEF Strung
<1> QED BY <1>3, <1>7

(* Where f says the tasks are, there they are.                             *)
StackAt(f, o) == Strung(f, next, stack[o].top, InStack(o))
CacheAt(f, o) == /\ \A p \in Procs : Consumes(p, o) => Strung(f, next, consumer[p], InCache(o))
                 /\ ~stack[o].consuming => Strung(f, next, cache[o], InCache(o))
QueuesAt(f) == \A o \in Owners : StackAt(f, o) /\ CacheAt(f, o)

ListAt(f, p) ==
  /\ \A i \in 1..Len(list[p]) : list[p][i] \in Tasks /\ f[list[p][i]] = InList(p, i)
  /\ pc[p] \in {"push", "overflow"} => Len(list[p]) > 0
  /\ pc[p] = "push" =>
       \A i \in 1..Len(list[p]) :
         next[list[p][i]] = IF i = Len(list[p]) THEN seen[p].top ELSE list[p][i + 1]
ListsAt(f) == \A p \in Procs : ListAt(f, p)

(* What a thief has copied is its victim's.                                *)
Own(t) == IF pc[t] \in Copying THEN 0 ELSE pushed[t]
Presents == {"slot", "shown", "migrate"}
Holds(f, t) == \A p \in Front(t)..(Back(t) + Own(t) - 1) :
                 Entry(t, p) \in Tasks /\ f[Entry(t, p)] = InRing(t, p)
RingAt(f, t) ==
  /\ Holds(f, t)
  /\ pc[t] \in Presents => new[t] \in Tasks /\ f[new[t]] = IsNew(t)
  /\ pc[t] = "shown" => Entry(t, Back(t)) = new[t]
RingsAt(f) == \A t \in Threads : RingAt(f, t)

(* A tail moves by one for a push, and by no more than the capacity for    *)
(* what was taken with a task that is then run.                            *)
Done(f) == {k \in Tasks : f[k] = Ran}
Room(f) == Cardinality(scheduled) + capacity * Cardinality(Done(f))
RoomAt(f) == /\ \A k \in Tasks \ scheduled : f[k] = None
             /\ \A t \in Threads : Back(t) + Due(t) =< Room(f)

Located(f) == QueuesAt(f) /\ ListsAt(f) /\ RingsAt(f) /\ RoomAt(f)

(* What a step does not touch.                                             *)
LEMMA StackKept ==
  ASSUME NEW f, NEW g, NEW o \in Owners, StackAt(f, o), stack'[o].top = stack[o].top,
         \A k \in Tasks : f[k] = InStack(o) <=> g[k] = InStack(o),
         \A k \in Tasks : f[k] = InStack(o) => next'[k] = next[k]
  PROVE  StackAt(g, o)'
<1> DEFINE nx == next
           mx == next'
           h == stack[o].top
           l == InStack(o)
<1>1. Strung(f, nx, h, l) /\ \A k \in Tasks : f[k] = l <=> g[k] = l
  BY DEF StackAt
<1>2. \A k \in Tasks : f[k] = l => mx[k] = nx[k]
  OBVIOUS
<1> HIDE DEF nx, mx, h, l
<1>3. Strung(g, mx, h, l)
  BY <1>1, <1>2, StrungKept
<1>4. Strung(g, next', stack'[o].top, InStack(o))
  BY <1>3 DEF mx, h, l
<1> QED BY <1>4 DEF StackAt, Strung, InStack

LEMMA CacheKept ==
  ASSUME NEW f, NEW g, NEW o \in Owners, CacheAt(f, o), cache'[o] = cache[o],
         stack'[o].consuming = stack[o].consuming,
         \A p \in Procs : Consumes(p, o)' => Consumes(p, o) /\ consumer'[p] = consumer[p],
         \A k \in Tasks : f[k] = InCache(o) <=> g[k] = InCache(o),
         \A k \in Tasks : f[k] = InCache(o) => next'[k] = next[k]
  PROVE  CacheAt(g, o)'
<1>1. \A h : Strung(f, next, h, InCache(o)) => Strung(g, next', h, InCache(o))
  <2> SUFFICES ASSUME NEW h, Strung(f, next, h, InCache(o))
               PROVE  Strung(g, next', h, InCache(o))
    OBVIOUS
  <2> DEFINE nx == next
             mx == next'
             l == InCache(o)
  <2>1. /\ Strung(f, nx, h, l) /\ \A k \in Tasks : f[k] = l <=> g[k] = l
        /\ \A k \in Tasks : f[k] = l => mx[k] = nx[k]
    OBVIOUS
  <2> HIDE DEF nx, mx, l
  <2>2. Strung(g, mx, h, l)
    BY <2>1, StrungKept
  <2> QED BY <2>2 DEF mx, l
<1>2. \A p \in Procs : Consumes(p, o)' => Strung(g, next', consumer'[p], InCache(o))
  BY <1>1 DEF CacheAt
<1>3. ~stack'[o].consuming => Strung(g, next', cache'[o], InCache(o))
  BY <1>1 DEF CacheAt
<1> QED BY <1>2, <1>3 DEF CacheAt, Strung, InCache

LEMMA ListKept ==
  ASSUME NEW f, NEW g, NEW p \in Procs, ListAt(f, p), list'[p] = list[p],
         \A k \in Tasks, i \in 1..Len(list[p]) : f[k] = InList(p, i) => g[k] = InList(p, i),
         pc'[p] = "overflow" => pc[p] = "overflow",
         pc'[p] = "push" => /\ pc[p] = "push" /\ seen'[p] = seen[p]
                            /\ \A k \in Tasks, i \in 1..Len(list[p]) :
                                 f[k] = InList(p, i) => next'[k] = next[k]
  PROVE  ListAt(g, p)'
<1>1. \A i \in 1..Len(list[p]) : list[p][i] \in Tasks /\ g[list[p][i]] = InList(p, i)
  BY DEF ListAt
<1>2. pc'[p] \in {"push", "overflow"} => Len(list[p]) > 0
  BY DEF ListAt
<1>3. ASSUME pc'[p] = "push", NEW i \in 1..Len(list[p])
      PROVE  next'[list[p][i]] = IF i = Len(list[p]) THEN seen'[p].top ELSE list[p][i + 1]
  <2>1. list[p][i] \in Tasks /\ f[list[p][i]] = InList(p, i)
    BY DEF ListAt
  <2>2. next'[list[p][i]] = next[list[p][i]] /\ pc[p] = "push" /\ seen'[p] = seen[p]
    BY <1>3, <2>1
  <2> QED BY <2>2 DEF ListAt
<1> QED BY <1>1, <1>2, <1>3 DEF ListAt, InList

LEMMA HoldsKept ==
  ASSUME NEW f, NEW g, NEW t \in Threads, RingTypes, RingTypes', Holds(f, t),
         Front(t) =< Front(t)',
         \A p \in Front(t)'..(Back(t)' + Own(t)' - 1) :
           /\ p =< Back(t) + Own(t) - 1 /\ Entry(t, p)' = Entry(t, p)
           /\ \A k \in Tasks : f[k] = InRing(t, p) => g[k] = InRing(t, p)
  PROVE  Holds(g, t)'
<1>1. /\ Front(t) \in Nat /\ Back(t) \in Nat /\ Front(t)' \in Nat /\ Back(t)' \in Nat
      /\ Own(t) \in Int /\ Own(t)' \in Int
  BY Placed, PlacedNext DEF Own
<1>2. ASSUME NEW p \in Front(t)'..(Back(t)' + Own(t)' - 1)
      PROVE  Entry(t, p)' \in Tasks /\ g[Entry(t, p)'] = InRing(t, p)
  <2>1. p \in Front(t)..(Back(t) + Own(t) - 1)
    BY <1>1, <1>2
  <2>2. Entry(t, p) \in Tasks /\ f[Entry(t, p)] = InRing(t, p)
    BY <2>1 DEF Holds
  <2> QED BY <1>2, <2>2
<1> QED BY <1>2 DEF Holds, InRing

LEMMA RingKept ==
  ASSUME NEW f, NEW g, NEW t \in Threads, RingTypes, RingTypes', RingAt(f, t),
         Front(t) =< Front(t)',
         \A p \in Front(t)'..(Back(t)' + Own(t)' - 1) :
           /\ p =< Back(t) + Own(t) - 1 /\ Entry(t, p)' = Entry(t, p)
           /\ \A k \in Tasks : f[k] = InRing(t, p) => g[k] = InRing(t, p),
         pc'[t] \in Presents => /\ pc[t] \in Presents /\ new'[t] = new[t]
                                /\ \A k \in Tasks : f[k] = IsNew(t) => g[k] = IsNew(t),
         pc'[t] = "shown" => Entry(t, Back(t))' = new'[t]
  PROVE  RingAt(g, t)'
<1>1. Holds(g, t)'
  BY HoldsKept DEF RingAt
<1>2. pc'[t] \in Presents => new'[t] \in Tasks /\ g[new'[t]] = IsNew(t)
  BY DEF RingAt
<1> QED BY <1>1, <1>2 DEF RingAt, IsNew, Presents

LEMMA DoneIs ==
  ASSUME NEW f
  PROVE  /\ IsFiniteSet(Done(f)) /\ Cardinality(Done(f)) \in Nat
         /\ Cardinality(Done(f)) =< Cardinality(Tasks) /\ Cardinality(Tasks) \in Nat
<1>1. Done(f) \subseteq Tasks /\ IsFiniteSet(Tasks)
  BY RunQueueAssumption DEF Done
<1> QED BY <1>1, FS_Subset, FS_CardinalityType

LEMMA ScheduledIs ==
  ASSUME NEW S \in SUBSET Tasks
  PROVE  /\ IsFiniteSet(S) /\ Cardinality(S) \in Nat /\ Cardinality(S) =< Cardinality(Tasks)
BY RunQueueAssumption, FS_Subset, FS_CardinalityType

LEMMA SmallerSet ==
  ASSUME NEW S \in SUBSET Tasks, NEW T \in SUBSET Tasks, S \subseteq T
  PROVE  /\ Cardinality(S) \in Nat /\ Cardinality(T) \in Nat /\ Cardinality(S) =< Cardinality(T)
         /\ (\E k \in T : k \notin S) => Cardinality(S) + 1 =< Cardinality(T)
<1>1. /\ IsFiniteSet(S) /\ IsFiniteSet(T) /\ Cardinality(S) \in Nat /\ Cardinality(T) \in Nat
  BY ScheduledIs
<1>2. Cardinality(S) =< Cardinality(T)
  BY <1>1, FS_Subset
<1>3. ASSUME NEW k \in T, k \notin S PROVE Cardinality(S) + 1 =< Cardinality(T)
  <2>1. Cardinality(S \cup {k}) = Cardinality(S) + 1 /\ IsFiniteSet(S \cup {k})
    BY <1>1, <1>3, FS_AddElement
  <2>2. S \cup {k} \subseteq T
    BY <1>3
  <2>3. Cardinality(S \cup {k}) =< Cardinality(T)
    BY <1>1, <2>2, FS_Subset
  <2> QED BY <2>1, <2>3
<1> QED BY <1>1, <1>2, <1>3

(* No index comes round.                                                   *)
LEMMA RoomIsNear ==
  ASSUME NEW f, RingTypes, PosInv, RoomAt(f)
  PROVE  Near
<1> SUFFICES ASSUME NEW t \in Threads PROVE Back(t) + Due(t) \in Indices
  BY DEF Near
<1> DEFINE a == Cardinality(scheduled)
           b == Cardinality(Done(f))
           c == Cardinality(Tasks)
           s == Back(t) + Due(t)
<1>1. a \in Nat /\ a =< c /\ b \in Nat /\ b =< c /\ c \in Nat
  BY DoneIs, ScheduledIs DEF RingTypes
<1>2. s =< a + capacity * b
  BY DEF RoomAt, Room
<1>3. s \in Nat
  <2>1. pc[t] \in {"tail", "stolen"} => pushed[t] \in 1..capacity
    BY DEF PosInv, Filled
  <2>2. Due(t) \in Nat
    BY <2>1, Placed DEF Due
  <2> QED BY <2>2, Placed
<1>4. capacity \in Nat /\ indices \in Nat /\ indices > (capacity + 1) * c
  BY WorkQueuesAssumption
<1> HIDE DEF a, b, c, s
<1>5. capacity * b =< capacity * c
  BY <1>1, <1>4
<1>6. (capacity + 1) * c = capacity * c + c
  BY <1>1, <1>4
<1>7. s =< indices - 1
  BY <1>1, <1>2, <1>3, <1>4, <1>5, <1>6
<1> QED BY <1>3, <1>4, <1>7 DEF Indices, s

(* Threads other than t stand still, but for what is taken of their heads. *)
Leaves(t) == \A u \in Threads \ {t} :
               /\ pc'[u] = pc[u] /\ tail'[u] = tail[u] /\ pushed'[u] = pushed[u]
               /\ array'[u] = array[u] /\ new'[u] = new[u] /\ Front(u) =< Front(u)'

(* How much more room there is by a step.                                  *)
Grows(f, g, d) == \/ d = 0
                  \/ d = 1 /\ scheduled' # scheduled
                  \/ d = capacity /\ \E k \in Tasks : f[k] # Ran /\ g[k] = Ran

LEMMA RoomKept ==
  ASSUME NEW f, NEW g, NEW t, NEW d, RingTypes, RingTypes', RoomAt(f), Leaves(t),
         scheduled \subseteq scheduled', Grows(f, g, d),
         \A k \in Tasks : f[k] = Ran => g[k] = Ran,
         \A k \in Tasks \ scheduled' : g[k] = None,
         t \in Threads => Back(t)' + Due(t)' =< Back(t) + Due(t) + d
  PROVE  RoomAt(g)'
<1>1. scheduled \in SUBSET Tasks /\ scheduled' \in SUBSET Tasks
  BY DEF RingTypes
<1> DEFINE a == Cardinality(scheduled)
           b == Cardinality(Done(f))
           c == Cardinality(scheduled')
           e == Cardinality(Done(g))
<1>2. a \in Nat /\ c \in Nat /\ a =< c /\ (scheduled' # scheduled => a + 1 =< c)
  BY <1>1, SmallerSet
<1>3. /\ b \in Nat /\ e \in Nat /\ b =< e
      /\ (\E k \in Tasks : f[k] # Ran /\ g[k] = Ran) => b + 1 =< e
  <2>1. Done(f) \in SUBSET Tasks /\ Done(g) \in SUBSET Tasks /\ Done(f) \subseteq Done(g)
    BY DEF Done
  <2>2. (\E k \in Tasks : f[k] # Ran /\ g[k] = Ran) => \E k \in Done(g) : k \notin Done(f)
    BY DEF Done
  <2> QED BY <2>1, <2>2, SmallerSet
<1>4. Room(f) = a + capacity * b /\ Room(g)' = c + capacity * e
  BY DEF Room, Done, Ran
<1>5. capacity \in Nat /\ d \in Nat
  BY WorkQueuesAssumption DEF Grows
<1>6. Room(f) \in Nat /\ Room(g)' \in Nat /\ Room(f) + d =< Room(g)'
  <2> HIDE DEF a, b, c, e
  <2>1. capacity * b =< capacity * e /\ (b + 1 =< e => capacity * b + capacity =< capacity * e)
    <3>1. capacity * b =< capacity * e
      BY <1>3, <1>5
    <3>2. b + 1 =< e => capacity * (b + 1) =< capacity * e
      BY <1>3, <1>5
    <3>3. capacity * (b + 1) = capacity * b + capacity
      BY <1>3, <1>5
    <3> QED BY <3>1, <3>2, <3>3
  <2>2. capacity * b \in Nat /\ capacity * e \in Nat
    BY <1>3, <1>5
  <2>3. CASE d = 0
    BY <1>2, <1>4, <2>1, <2>2, <2>3
  <2>4. CASE d = 1 /\ scheduled' # scheduled
    BY <1>2, <1>4, <2>1, <2>2, <2>4
  <2>5. CASE d = capacity /\ \E k \in Tasks : f[k] # Ran /\ g[k] = Ran
    BY <1>2, <1>3, <1>4, <1>5, <2>1, <2>2, <2>5
  <2> QED BY <2>3, <2>4, <2>5 DEF Grows
<1> HIDE DEF a, b, c, e
<1>7. ASSUME NEW u \in Threads PROVE Back(u)' + Due(u)' =< Room(g)'
  <2>1. Back(u) + Due(u) =< Room(f)
    BY DEF RoomAt
  <2>2. Back(u) \in Int /\ Due(u) \in Int /\ Back(u)' \in Int /\ Due(u)' \in Int
    BY Placed, PlacedNext DEF Due
  <2>3. CASE u = t
    BY <1>5, <1>6, <2>1, <2>2, <2>3
  <2>4. CASE u # t
    <3>1. Back(u)' = Back(u) /\ Due(u)' = Due(u)
      BY <2>4 DEF Leaves, Back, Due
    <3> QED BY <1>5, <1>6, <2>1, <2>2, <3>1
  <2> QED BY <2>3, <2>4
<1> QED BY <1>7 DEF RoomAt, None

LEMMA RingsKept ==
  ASSUME NEW f, NEW g, NEW t, RingTypes, RingTypes', RingsAt(f), Leaves(t),
         \A u \in Threads \ {t}, k \in Tasks :
           /\ f[k] = IsNew(u) => g[k] = f[k]
           /\ \A p \in Nat : p >= Front(u)' /\ f[k] = InRing(u, p) => g[k] = f[k]
  PROVE  \A u \in Threads \ {t} : RingAt(g, u)'
<1> SUFFICES ASSUME NEW u \in Threads \ {t} PROVE RingAt(g, u)'
  OBVIOUS
<1>1. /\ pc'[u] = pc[u] /\ Back(u)' = Back(u) /\ Own(u)' = Own(u) /\ new'[u] = new[u]
      /\ \A p : Entry(u, p)' = Entry(u, p)
  BY DEF Leaves, Back, Own, Entry
<1>2. Front(u) =< Front(u)' /\ Front(u)' \in Nat /\ RingAt(f, u)
  BY PlacedNext DEF Leaves, RingsAt
<1>3. ASSUME NEW p \in Front(u)'..(Back(u)' + Own(u)' - 1)
      PROVE  /\ p =< Back(u) + Own(u) - 1 /\ Entry(u, p)' = Entry(u, p)
             /\ \A k \in Tasks : f[k] = InRing(u, p) => g[k] = InRing(u, p)
  <2>1. p \in Nat /\ p >= Front(u)' /\ p =< Back(u)' + Own(u)' - 1
    <3>1. Back(u)' \in Int /\ Own(u)' \in Int
      BY PlacedNext DEF Own
    <3> QED BY <1>2, <1>3, <3>1
  <2> QED BY <1>1, <2>1
<1>4. pc'[u] \in Presents => /\ pc[u] \in Presents /\ new'[u] = new[u]
                             /\ \A k \in Tasks : f[k] = IsNew(u) => g[k] = IsNew(u)
  BY <1>1
<1>5. pc'[u] = "shown" => Entry(u, Back(u))' = new'[u]
  <2>1. pc[u] = "shown" => Entry(u, Back(u)) = new[u]
    BY <1>2 DEF RingAt
  <2>2. Entry(u, Back(u))' = Entry(u, Back(u))
    BY DEF Leaves, Entry, Back
  <2> QED BY <1>1, <2>1, <2>2
<1>6. u \in Threads
  OBVIOUS
<1> QED BY <1>2, <1>3, <1>4, <1>5, <1>6, RingKept

(* The labels of buffers are none of queues and lists.                     *)
Off(l) == \A o, i : l # InStack(o) /\ l # InCache(o) /\ l # InList(o, i)

LEMMA OffIs == /\ \A t, p : Off(InRing(t, p)) /\ Off(IsNew(t))
               /\ Off(Ran) /\ Off(None)
BY Places DEF Off

LEMMA QueuesKept ==
  ASSUME NEW f, NEW g, QueuesAt(f), UNCHANGED <<stack, cache>>,
         \A p \in Procs, o \in Owners :
           Consumes(p, o)' => Consumes(p, o) /\ consumer'[p] = consumer[p],
         \A k \in Tasks, o \in Owners :
           /\ f[k] = InStack(o) <=> g[k] = InStack(o)
           /\ f[k] = InCache(o) <=> g[k] = InCache(o)
           /\ f[k] = InStack(o) \/ f[k] = InCache(o) => next'[k] = next[k]
  PROVE  QueuesAt(g)'
<1> SUFFICES ASSUME NEW o \in Owners PROVE StackAt(g, o)' /\ CacheAt(g, o)'
  BY DEF QueuesAt
<1>1. StackAt(f, o) /\ CacheAt(f, o)
  BY DEF QueuesAt
<1> QED BY <1>1, StackKept, CacheKept

(* A step on a buffer.                                                     *)
LEMMA BufferStep ==
  ASSUME NEW f, NEW g, NEW t \in Threads, QueuesAt(f), ListsAt(f), UNCHANGED queueVars,
         \A q \in Procs \ {t} : pc'[q] = pc[q],
         pc'[t] \notin {"push", "overflow"}, pc'[t] \in Consuming => pc[t] \in Consuming,
         \A k \in Tasks : g[k] = f[k] \/ (Off(f[k]) /\ Off(g[k]))
  PROVE  QueuesAt(g)' /\ ListsAt(g)'
<1>1. UNCHANGED <<stack, cache, next, list, at, seen, consumer>>
  BY DEF queueVars, sharedQueueVars, localQueueVars
<1>2. \A p \in Procs, o \in Owners :
        Consumes(p, o)' => Consumes(p, o) /\ consumer'[p] = consumer[p]
  BY <1>1 DEF Consumes, Consuming
<1>3. \A k \in Tasks : g[k] # f[k] => \A o, i : /\ f[k] # InStack(o) /\ g[k] # InStack(o)
                                               /\ f[k] # InCache(o) /\ g[k] # InCache(o)
                                               /\ f[k] # InList(o, i) /\ g[k] # InList(o, i)
  BY DEF Off
<1>4. QueuesAt(g)'
  BY <1>1, <1>2, <1>3, QueuesKept
<1>5. ASSUME NEW p \in Procs PROVE ListAt(g, p)'
  <2>1. \A k \in Tasks, i \in 1..Len(list[p]) : f[k] = InList(p, i) => g[k] = InList(p, i)
    BY <1>3
  <2>2. pc'[p] \in {"push", "overflow"} => pc[p] = pc'[p]
    OBVIOUS
  <2>3. ListAt(f, p)
    BY DEF ListsAt
  <2> QED BY <1>1, <2>1, <2>2, <2>3, ListKept
<1> QED BY <1>4, <1>5 DEF ListsAt

(* A step that puts tasks from the buffer of t, or from nowhere, elsewhere *)
(* but not to a queue or a list.                                           *)
Shifts(f, g, t) ==
  \A k \in Tasks : \/ g[k] = f[k]
                   \/ /\ Off(f[k]) /\ Off(g[k]) /\ f[k] # Ran /\ k \in scheduled'
                      /\ \A u \in Threads \ {t} :
                           /\ f[k] # IsNew(u)
                           /\ \A p \in Nat : p >= Front(u)' => f[k] # InRing(u, p)

LEMMA RingStep ==
  ASSUME NEW f, NEW g, NEW d, NEW t \in Threads, Located(f), RingTypes, RingTypes',
         UNCHANGED queueVars, \A q \in Procs \ {t} : pc'[q] = pc[q], Leaves(t),
         pc'[t] \notin {"push", "overflow"}, pc'[t] \in Consuming => pc[t] \in Consuming,
         scheduled \subseteq scheduled', Grows(f, g, d), Shifts(f, g, t), RingAt(g, t)',
         Back(t)' + Due(t)' =< Back(t) + Due(t) + d
  PROVE  Located(g)'
<1>1. QueuesAt(f) /\ ListsAt(f) /\ RingsAt(f) /\ RoomAt(f)
  BY DEF Located
<1>2. \A k \in Tasks : g[k] = f[k] \/ (Off(f[k]) /\ Off(g[k]))
  BY DEF Shifts
<1>3. QueuesAt(g)' /\ ListsAt(g)'
  BY <1>1, <1>2, BufferStep
<1>4. \A u \in Threads \ {t}, k \in Tasks :
        /\ f[k] = IsNew(u) => g[k] = f[k]
        /\ \A p \in Nat : p >= Front(u)' /\ f[k] = InRing(u, p) => g[k] = f[k]
  BY DEF Shifts
<1>5. \A u \in Threads \ {t} : RingAt(g, u)'
  BY <1>1, <1>4, RingsKept
<1>6. \A k \in Tasks : f[k] = Ran => g[k] = Ran
  BY DEF Shifts
<1>7. \A k \in Tasks \ scheduled' : g[k] = None
  BY <1>1 DEF Shifts, RoomAt
<1>8. RoomAt(g)'
  BY <1>1, <1>6, <1>7, RoomKept
<1>9. RingsAt(g)'
  BY <1>5 DEF RingsAt
<1> QED BY <1>3, <1>8, <1>9 DEF Located

(* A step that puts no task elsewhere.                                     *)
LEMMA PlainStep ==
  ASSUME NEW f, NEW t \in Threads, Located(f), RingTypes, RingTypes',
         UNCHANGED <<queueVars, scheduled, new>>,
         \A q \in Procs \ {t} : pc'[q] = pc[q], Leaves(t),
         pc'[t] \notin {"push", "overflow"}, pc'[t] \in Consuming => pc[t] \in Consuming,
         Front(t) =< Front(t)', Back(t)' + Own(t)' =< Back(t) + Own(t),
         \A p \in Front(t)'..(Back(t)' + Own(t)' - 1) : Entry(t, p)' = Entry(t, p),
         pc'[t] \in Presents => pc[t] \in Presents,
         pc'[t] = "shown" => Entry(t, Back(t))' = new'[t],
         Back(t)' + Due(t)' =< Back(t) + Due(t)
  PROVE  Located(f)'
<1>1. /\ Front(t) \in Nat /\ Back(t) \in Nat /\ Front(t)' \in Nat /\ Back(t)' \in Nat
      /\ Own(t) \in Int /\ Own(t)' \in Int /\ Due(t) \in Int /\ Due(t)' \in Int
  BY Placed, PlacedNext DEF Own, Due
<1>2. RingAt(f, t)'
  <2>1. RingAt(f, t)
    BY DEF Located, RingsAt
  <2>2. \A p \in Front(t)'..(Back(t)' + Own(t)' - 1) :
           /\ p =< Back(t) + Own(t) - 1 /\ Entry(t, p)' = Entry(t, p)
           /\ \A k \in Tasks : f[k] = InRing(t, p) => f[k] = InRing(t, p)
    BY <1>1
  <2>3. pc'[t] \in Presents => /\ pc[t] \in Presents /\ new'[t] = new[t]
                                /\ \A k \in Tasks : f[k] = IsNew(t) => f[k] = IsNew(t)
    OBVIOUS
  <2> QED BY <2>1, <2>2, <2>3, RingKept
<1>3. Shifts(f, f, t) /\ Grows(f, f, 0)
  BY DEF Shifts, Grows
<1>4. Back(t)' + Due(t)' =< Back(t) + Due(t) + 0
  BY <1>1
<1>5. UNCHANGED queueVars /\ scheduled \subseteq scheduled'
  OBVIOUS
<1> QED BY <1>2, <1>3, <1>4, <1>5, RingStep

(* Where a program counter of t says nothing of pushed slots or tails.     *)
LEMMA NoOwn ==
  ASSUME PosInv, NEW t \in Threads
  PROVE  /\ pc[t] \notin Filling => pushed[t] = 0 /\ Own(t) = 0
         /\ pc[t] \in Copying => Own(t) = 0
         /\ pc[t] \notin Copying => Own(t) = pushed[t]
BY DEF PosInv, Filled, Own, Filling

LEMMA NoOwnNext ==
  ASSUME PosInv', NEW t \in Threads
  PROVE  /\ pc'[t] \notin Filling => pushed'[t] = 0 /\ Own(t)' = 0
         /\ pc'[t] \in Copying => Own(t)' = 0
         /\ pc'[t] \notin Copying => Own(t)' = pushed'[t]
BY DEF PosInv, Filled, Own, Filling, Copying, Popping

LEMMA AllGo ==
  ASSUME QueueInv, NEW t \in Threads, NEW s, pc' = [pc EXCEPT ![t] = s]
  PROVE  pc'[t] = s /\ \A q \in Procs \ {t} : pc'[q] = pc[q]
BY IsProc DEF QueueInv, Shape

(* Steps that only read.                                                   *)
LEMMA ReadStep ==
  ASSUME QueueInv, RingTypes, RingTypes', PosInv, PosInv', NEW f, Located(f), NEW t \in Threads,
         UNCHANGED <<queueVars, scheduled, new, head, tail, array>>,
         \A q \in Procs \ {t} : pc'[q] = pc[q],
         \A u \in Threads \ {t} : pushed'[u] = pushed[u],
         pc'[t] \notin {"push", "overflow"}, pc'[t] \in Consuming => pc[t] \in Consuming,
         Own(t)' = Own(t), Due(t)' =< Due(t),
         pc'[t] \in Presents => pc[t] \in Presents,
         pc'[t] # "shown"
  PROVE  Located(f)'
<1>1. \A u \in Threads : /\ Front(u)' = Front(u) /\ Back(u)' = Back(u)
                         /\ \A p : Entry(u, p)' = Entry(u, p)
  BY DEF Front, Back, Entry
<1>2. \A u \in Threads : /\ Front(u) \in Nat /\ Back(u) \in Nat /\ Own(u) \in Int
                         /\ Due(u) \in Int /\ Due(u)' \in Int
  BY Placed, PlacedNext DEF Own, Due
<1>3. Leaves(t)
  BY <1>1, <1>2, IsProc DEF Leaves
<1>4. UNCHANGED <<queueVars, scheduled, new>>
  OBVIOUS
<1>5. /\ Front(t) =< Front(t)' /\ Back(t)' + Own(t)' =< Back(t) + Own(t)
      /\ Back(t)' + Due(t)' =< Back(t) + Due(t)
      /\ \A p \in Front(t)'..(Back(t)' + Own(t)' - 1) : Entry(t, p)' = Entry(t, p)
  BY <1>1, <1>2
<1> QED BY <1>3, <1>4, <1>5, PlainStep

LEMMA ReadAt ==
  ASSUME QueueInv, RingTypes, RingTypes', PosInv, PosInv', NEW f, Located(f), NEW t \in Threads,
         MigrateFails(t) \/ Pop(t) \/ TakeFails(t)
  PROVE  Located(f)'
<1>1. /\ UNCHANGED <<queueVars, scheduled, new, head, tail, array, pushed>>
      /\ \/ /\ pc[t] = "migrate"
            /\ \E s \in {"slot", "migrate"} : pc' = [pc EXCEPT ![t] = s]
         \/ /\ pc[t] \in {"out", "take"}
            /\ \E s \in {"out", "take"} : pc' = [pc EXCEPT ![t] = s]
  <2>1. UNCHANGED <<queueVars, scheduled, new, head, tail, array, pushed>>
    BY DEF MigrateFails, Pop, TakeFails, BufferFrame
  <2>2. CASE MigrateFails(t)
    BY <2>1, <2>2 DEF MigrateFails, PushOrMigrate
  <2>3. CASE Pop(t) \/ TakeFails(t)
    BY <2>1, <2>3 DEF Pop, TakeFails, Looking, PopOrLeave
  <2> QED BY <2>2, <2>3
<1>2. \A q \in Procs \ {t} : pc'[q] = pc[q]
  BY <1>1, AllGo
<1>3. \/ pc[t] = "migrate" /\ pc'[t] \in {"slot", "migrate"}
      \/ pc[t] \in {"out", "take"} /\ pc'[t] \in {"out", "take"}
  BY <1>1, AllGo
<1>4. Own(t)' = Own(t)
  BY <1>1, <1>3 DEF Own, Copying
<1>5. Due(t)' = Due(t) /\ Due(t) \in Int
  BY <1>1, <1>3, Placed DEF Due
<1>6. UNCHANGED <<queueVars, scheduled, new, head, tail, array>> /\ Due(t)' =< Due(t)
  BY <1>1, <1>5
<1> QED BY <1>1, <1>2, <1>3, <1>4, <1>6, ReadStep DEF Presents, Consuming, Popping

LEMMA ConsumeReadAt ==
  ASSUME QueueInv, RingTypes, RingTypes', PosInv, PosInv', NEW f, Located(f), NEW t \in Threads,
         ConsumeFind(t) \/ ConsumeNoMore(t)
  PROVE  Located(f)'
<1>1. /\ UNCHANGED <<queueVars, scheduled, new, head, tail, array, pushed>>
      /\ pc[t] \in {"pop", "extra"}
      /\ \E s \in {"swap", "extraswap", "extra"} : pc' = [pc EXCEPT ![t] = s]
  BY DEF ConsumeFind, ConsumeNoMore, Goto, PopFinds, PopNothing, bufferVars, queueVars
<1>2. \A q \in Procs \ {t} : pc'[q] = pc[q]
  BY <1>1, AllGo
<1>3. pc[t] \in {"pop", "extra"} /\ pc'[t] \in {"swap", "extraswap", "extra"}
  BY <1>1, AllGo
<1>4. Own(t)' = Own(t)
  BY <1>1, <1>3 DEF Own, Copying
<1>5. Due(t)' = Due(t) /\ Due(t) \in Int
  BY <1>1, <1>3, Placed DEF Due
<1>6. UNCHANGED <<queueVars, scheduled, new, head, tail, array>> /\ Due(t)' =< Due(t)
  BY <1>1, <1>5
<1> QED BY <1>1, <1>2, <1>3, <1>4, <1>6, ReadStep DEF Presents, Consuming, Popping

LEMMA StealReadAt ==
  ASSUME QueueInv, RingTypes, RingTypes', PosInv, PosInv', NEW f, Located(f), NEW t \in Threads,
         \/ \E v \in Threads : Steal(t, v)
         \/ StealAgain(t) \/ StealTail(t) \/ StealFails(t)
  PROVE  Located(f)'
<1>1. /\ UNCHANGED <<queueVars, scheduled, new, head, tail, array>>
      /\ pc[t] \in {"out", "again", "look", "commit"}
      /\ \E s \in {"look", "out", "again", "copy"} : pc' = [pc EXCEPT ![t] = s]
      /\ pushed' = pushed \/ pushed' = [pushed EXCEPT ![t] = 0]
  <2>1. CASE \E v \in Threads : Steal(t, v)
    BY <2>1 DEF Steal, Looking, StealHead, StealFrame
  <2>2. CASE StealAgain(t)
    BY <2>2 DEF StealAgain, StealHead, StealFrame
  <2>3. CASE StealTail(t)
    <3> DEFINE size == Size(victim[t], bhead[t])
    <3>1. /\ pc[t] = "look" /\ pushed' = pushed
          /\ UNCHANGED <<queueVars, scheduled, new, head, tail, array>>
      BY <2>3 DEF StealTail, StealFrame
    <3>2. \/ pc' = [pc EXCEPT ![t] = "out"]
          \/ pc' = [pc EXCEPT ![t] = IF size > capacity THEN "again" ELSE "copy"]
      BY <2>3 DEF StealTail
    <3> HIDE DEF size
    <3> QED BY <3>1, <3>2
  <2>4. CASE StealFails(t)
    BY <2>4 DEF StealFails, Goto, StealFrame
  <2> QED BY <2>1, <2>2, <2>3, <2>4
<1>2. \A q \in Procs \ {t} : pc'[q] = pc[q]
  BY <1>1, AllGo
<1>3. pc[t] \in {"out", "again", "look", "commit"} /\ pc'[t] \in {"look", "out", "again", "copy"}
  BY <1>1, AllGo
<1>4. Own(t)' = 0 /\ Own(t) = 0
  <2>1. pc[t] \notin Filling \/ pc[t] \in Copying
    BY <1>3 DEF Filling, Popping, Copying
  <2>2. pc'[t] \notin Filling \/ pc'[t] \in Copying
    BY <1>3 DEF Filling, Popping, Copying
  <2> QED BY <2>1, <2>2, NoOwn, NoOwnNext
<1>5. Due(t)' = 0 /\ Due(t) = 0
  BY <1>3 DEF Due
<1>6. \A u \in Threads \ {t} : pushed'[u] = pushed[u]
  BY <1>1 DEF RingTypes
<1>7. UNCHANGED <<queueVars, scheduled, new, head, tail, array>> /\ Due(t)' =< Due(t)
  BY <1>1, <1>5
<1> QED BY <1>2, <1>3, <1>4, <1>6, <1>7, ReadStep DEF Presents, Consuming, Popping

LEMMA FinishAt ==
  ASSUME QueueInv, RingTypes, RingTypes', PosInv, PosInv', NEW f, Located(f), NEW t \in Threads,
         Finish(t)
  PROVE  Located(f)'
<1>1. UNCHANGED <<queueVars, pc, scheduled, new, head, tail, array, pushed>> /\ pc[t] = "out"
  BY DEF Finish
<1>2. Own(t)' = Own(t) /\ Due(t)' = Due(t) /\ Due(t) \in Int
  BY <1>1, Placed DEF Own, Due
<1>3. pc'[t] = "out" /\ Due(t)' =< Due(t)
  BY <1>1, <1>2
<1>4. UNCHANGED <<queueVars, scheduled, new, head, tail, array>>
  BY <1>1
<1>5. \A u \in Threads \ {t} : pushed'[u] = pushed[u]
  BY <1>1
<1>6. \A q \in Procs \ {t} : pc'[q] = pc[q]
  BY <1>1
<1>7. pc'[t] \notin {"push", "overflow"} \cup Consuming \cup Presents
  BY <1>3 DEF Consuming, Popping, Presents
<1> QED BY <1>2, <1>3, <1>4, <1>5, <1>6, <1>7, ReadStep

(* Steps that write a slot or show some.                                   *)
LEMMA PushSlotAt ==
  ASSUME QueueInv, RingTypes, RingTypes', PosInv, PosInv', NEW f, Located(f), NEW t \in Threads,
         PushSlot(t)
  PROVE  Located(f)'
<1>1. /\ UNCHANGED <<queueVars, scheduled, new, head, tail, pushed>> /\ pc[t] = "slot"
      /\ pc' = [pc EXCEPT ![t] = "shown"]
  BY DEF PushSlot, Goto, BufferFrame
<1>2. Writes(t, Back(t), new[t])
  BY PushSlotPos
<1>3. pc'[t] = "shown" /\ \A q \in Procs \ {t} : pc'[q] = pc[q]
  BY <1>1, AllGo
<1>4. \A u \in Threads : Front(u)' = Front(u) /\ Back(u)' = Back(u) /\ Front(u) \in Nat
  BY <1>1, Placed DEF Front, Back
<1>5. Leaves(t)
  <2>1. \A u \in Threads \ {t} : array'[u] = array[u]
    BY <1>2 DEF Writes
  <2> QED BY <1>1, <1>3, <1>4, <2>1, IsProc DEF Leaves
<1>6. /\ Front(t) \in Nat /\ Back(t) \in Nat /\ capacity \in Nat
      /\ Front(t) =< Back(t) /\ Back(t) - Front(t) < capacity
  BY <1>1, Placed DEF PosInv, Ranged
<1>7. Own(t) = 0 /\ Own(t)' = 0
  BY <1>1, <1>3, NoOwn, NoOwnNext DEF Filling, Popping, Copying
<1>8. Due(t) = 1 /\ Due(t)' = 1
  BY <1>1, <1>3 DEF Due
<1>9. ASSUME NEW p \in Front(t)'..(Back(t)' + Own(t)' - 1) PROVE Entry(t, p)' = Entry(t, p)
  <2>1. p \in Nat /\ p # Back(t) /\ Back(t) - p < capacity /\ p - Back(t) < capacity
    BY <1>4, <1>6, <1>7
  <2> QED BY <1>2, <2>1 DEF Writes, Entry
<1>10. Entry(t, Back(t))' = new'[t]
  <2>1. array'[t][Mask(Back(t))] = new[t]
    BY <1>2 DEF Writes
  <2> QED BY <1>1, <1>4, <2>1 DEF Entry
<1>11. UNCHANGED <<queueVars, scheduled, new>>
  BY <1>1
<1>12. /\ Front(t) =< Front(t)' /\ Back(t)' + Own(t)' =< Back(t) + Own(t)
       /\ Back(t)' + Due(t)' =< Back(t) + Due(t)
  BY <1>4, <1>6, <1>7, <1>8
<1>13. pc'[t] \notin {"push", "overflow"} \cup Consuming /\ pc[t] \in Presents
  BY <1>1, <1>3 DEF Consuming, Popping, Presents
<1> QED BY <1>3, <1>5, <1>9, <1>10, <1>11, <1>12, <1>13, PlainStep

LEMMA StealCopyAt ==
  ASSUME QueueInv, RingTypes, RingTypes', PosInv, PosInv', NEW f, Located(f), NEW t \in Threads,
         StealCopy(t)
  PROVE  Located(f)'
<1>1. /\ UNCHANGED <<queueVars, scheduled, new, head, tail>> /\ pc[t] = "copy"
      /\ \E s \in {"copy", "commit"} : pc' = [pc EXCEPT ![t] = s]
      /\ pushed' = [pushed EXCEPT ![t] = @ + 1]
  <2>1. /\ UNCHANGED <<queueVars, scheduled, new, head, tail>> /\ pc[t] = "copy"
        /\ pc' = [pc EXCEPT ![t] = IF pushed[t] + 1 < count[t] THEN "copy" ELSE "commit"]
        /\ pushed' = [pushed EXCEPT ![t] = @ + 1]
    BY DEF StealCopy, StealFrame
  <2> QED BY <2>1
<1>2. PICK k : Writes(t, Back(t) + pushed[t], k)
  BY StealCopyPos
<1>3. pc'[t] \in Copying /\ \A q \in Procs \ {t} : pc'[q] = pc[q]
  BY <1>1, AllGo DEF Copying
<1>4. \A u \in Threads : /\ Front(u)' = Front(u) /\ Back(u)' = Back(u) /\ Front(u) \in Nat
                         /\ Back(u) \in Nat
  BY <1>1, Placed DEF Front, Back
<1>5. \A u \in Threads \ {t} : array'[u] = array[u] /\ pushed'[u] = pushed[u]
  BY <1>1, <1>2 DEF Writes, RingTypes
<1>6. Leaves(t)
  BY <1>1, <1>3, <1>4, <1>5, IsProc DEF Leaves
<1>7. Own(t) = 0 /\ Own(t)' = 0
  BY <1>1, <1>3, NoOwn, NoOwnNext DEF Copying
<1>8. Due(t) = 0 /\ Due(t)' = 0
  BY <1>1, <1>3 DEF Due, Copying
<1>9. Front(t) = Back(t)
  BY <1>1 DEF PosInv, Ranged, Emptied
<1>10. \A p : p \notin Front(t)'..(Back(t)' + Own(t)' - 1)
  BY <1>4, <1>7, <1>9
<1>11. UNCHANGED <<queueVars, scheduled, new>>
  BY <1>1
<1>12. /\ Front(t) =< Front(t)' /\ Back(t)' + Own(t)' =< Back(t) + Own(t)
       /\ Back(t)' + Due(t)' =< Back(t) + Due(t)
  BY <1>4, <1>7, <1>8
<1>13. pc'[t] \notin {"push", "overflow", "shown"} \cup Consuming \cup Presents
  BY <1>3 DEF Consuming, Popping, Presents, Copying
<1> QED BY <1>3, <1>6, <1>10, <1>11, <1>12, <1>13, PlainStep

LEMMA ShowAt ==
  ASSUME QueueInv, RingTypes, RingTypes', PosInv, PosInv', Near, NEW f, Located(f),
         NEW t \in Threads, ConsumeTail(t) \/ StealShow(t)
  PROVE  Located(f)'
<1>1. /\ UNCHANGED <<queueVars, scheduled, new, head, array>>
      /\ \/ pc[t] = "tail" /\ pc' = [pc EXCEPT ![t] = "cache"]
         \/ pc[t] = "stolen" /\ pc' = [pc EXCEPT ![t] = "out"]
      /\ tail' = [tail EXCEPT ![t] = Plus(@, pushed[t])]
      /\ pushed' = [pushed EXCEPT ![t] = 0]
  BY DEF ConsumeTail, StealShow, Show, Goto
<1>2. Back(t)' = Back(t) + pushed[t]
  BY ShowPos
<1>3. /\ \/ pc[t] = "tail" /\ pc'[t] = "cache"
         \/ pc[t] = "stolen" /\ pc'[t] = "out"
      /\ \A q \in Procs \ {t} : pc'[q] = pc[q]
  BY <1>1, AllGo
<1>4. \A u \in Threads : /\ Front(u)' = Front(u) /\ Front(u) \in Nat /\ Back(u) \in Nat
                         /\ \A p : Entry(u, p)' = Entry(u, p)
  BY <1>1, Placed DEF Front, Entry
<1>5. Leaves(t)
  <2>1. \A u \in Threads \ {t} : tail'[u] = tail[u] /\ pushed'[u] = pushed[u]
    BY <1>1 DEF RingTypes
  <2> QED BY <1>1, <1>3, <1>4, <2>1, IsProc DEF Leaves
<1>6. Own(t) = pushed[t] /\ Own(t)' = 0 /\ pushed[t] \in Int
  BY <1>3, NoOwn, NoOwnNext, Placed DEF Filling, Popping, Copying
<1>7. Due(t) = pushed[t] /\ Due(t)' = 0
  BY <1>3 DEF Due
<1>8. /\ Front(t) =< Front(t)' /\ Back(t)' + Own(t)' =< Back(t) + Own(t)
       /\ Back(t)' + Due(t)' =< Back(t) + Due(t)
  BY <1>2, <1>4, <1>6, <1>7
<1>9. UNCHANGED <<queueVars, scheduled, new>>
  BY <1>1
<1>10. /\ pc'[t] \notin {"push", "overflow", "shown"} \cup Presents
       /\ pc'[t] \in Consuming => pc[t] \in Consuming
  BY <1>3 DEF Consuming, Popping, Presents
<1> QED BY <1>3, <1>4, <1>5, <1>8, <1>9, <1>10, PlainStep

LEMMA RelabelIs ==
  ASSUME NEW f, NEW k, NEW l
  PROVE  \A j \in Tasks : Relabel(f, k, l)[j] = IF j = k THEN l ELSE f[j]
BY DEF Relabel

LEMMA PushAt ==
  ASSUME QueueInv, RingTypes, RingTypes', PosInv, PosInv', NEW f, Located(f),
         NEW t \in Threads, NEW k \in Tasks, Push(t, k)
  PROVE  \E g : Located(g)'
<1>1. /\ UNCHANGED <<queueVars, head, tail, array, pushed>> /\ pc[t] = "out"
      /\ k \notin scheduled /\ scheduled' = scheduled \cup {k} /\ new' = [new EXCEPT ![t] = k]
      /\ \E s \in {"slot", "migrate"} : pc' = [pc EXCEPT ![t] = s]
  BY DEF Push, BufferFrame, Schedules, PushOrMigrate
<1>2. pc'[t] \in {"slot", "migrate"} /\ \A q \in Procs \ {t} : pc'[q] = pc[q]
  BY <1>1, AllGo
<1>3. PICK g : g = Relabel(f, k, IsNew(t))
  OBVIOUS
<1>4. \A j \in Tasks : g[j] = IF j = k THEN IsNew(t) ELSE f[j]
  BY <1>3, RelabelIs
<1>5. f[k] = None
  BY <1>1 DEF Located, RoomAt
<1>6. Shifts(f, g, t)
  <2> SUFFICES ASSUME NEW j \in Tasks, g[j] # f[j]
               PROVE  /\ Off(f[j]) /\ Off(g[j]) /\ f[j] # Ran /\ j \in scheduled'
                      /\ \A u \in Threads \ {t} :
                           /\ f[j] # IsNew(u)
                           /\ \A p \in Nat : p >= Front(u)' => f[j] # InRing(u, p)
    BY DEF Shifts
  <2>1. j = k /\ f[j] = None /\ g[j] = IsNew(t)
    BY <1>4, <1>5
  <2> QED BY <1>1, <2>1, OffIs, Places
<1>7. \A u \in Threads : /\ Front(u)' = Front(u) /\ Back(u)' = Back(u) /\ Front(u) \in Nat
                         /\ Back(u) \in Nat /\ \A p : Entry(u, p)' = Entry(u, p)
  BY <1>1, Placed DEF Front, Back, Entry
<1>8. \A u \in Threads \ {t} : new'[u] = new[u]
  BY <1>1 DEF RingTypes
<1>9. Leaves(t)
  BY <1>1, <1>2, <1>7, <1>8, IsProc DEF Leaves
<1>10. Own(t) = 0 /\ Own(t)' = 0
  BY <1>1, <1>2, NoOwn, NoOwnNext DEF Filling, Popping, Copying
<1>11. Due(t) = 0 /\ Due(t)' = 1
  BY <1>1, <1>2 DEF Due
<1>12. Holds(g, t)'
  <2>1. Holds(f, t)
    BY DEF Located, RingsAt, RingAt
  <2>2. \A p, j : j \in Tasks /\ f[j] = InRing(t, p) => g[j] = InRing(t, p)
    BY <1>4, <1>5, Places
  <2>3. Front(t) =< Front(t)'
    BY <1>7
  <2>4. \A p \in Front(t)'..(Back(t)' + Own(t)' - 1) :
           /\ p =< Back(t) + Own(t) - 1 /\ Entry(t, p)' = Entry(t, p)
           /\ \A j \in Tasks : f[j] = InRing(t, p) => g[j] = InRing(t, p)
    BY <1>7, <1>10, <2>2
  <2> QED BY <2>1, <2>3, <2>4, HoldsKept
<1>13. new'[t] = k /\ g[k] = IsNew(t)
  BY <1>1, <1>4 DEF RingTypes
<1>14. RingAt(g, t)'
  BY <1>2, <1>12, <1>13 DEF RingAt, IsNew
<1>15. Grows(f, g, 1) /\ Back(t)' + Due(t)' =< Back(t) + Due(t) + 1
  BY <1>1, <1>7, <1>11 DEF Grows
<1>16. pc'[t] \notin {"push", "overflow"} \cup Consuming
  BY <1>2 DEF Consuming, Popping
<1>17. scheduled \subseteq scheduled' /\ UNCHANGED queueVars
  BY <1>1
<1> QED BY <1>2, <1>6, <1>9, <1>14, <1>15, <1>16, <1>17, RingStep

LEMMA PushTailAt ==
  ASSUME QueueInv, RingTypes, RingTypes', PosInv, PosInv', Near, NEW f, Located(f),
         NEW t \in Threads, PushTail(t)
  PROVE  \E g : Located(g)'
<1>1. /\ UNCHANGED <<queueVars, head, array, pushed, scheduled>> /\ pc[t] = "shown"
      /\ pc' = [pc EXCEPT ![t] = "out"] /\ new' = [new EXCEPT ![t] = Null]
      /\ tail' = [tail EXCEPT ![t] = Plus(@, 1)]
  BY DEF PushTail, Goto, BufferFrame
<1>2. pc'[t] = "out" /\ \A q \in Procs \ {t} : pc'[q] = pc[q]
  BY <1>1, AllGo
<1> DEFINE k == new[t]
<1>3. PICK g : g = Relabel(f, k, InRing(t, Back(t)))
  OBVIOUS
<1>4. \A j \in Tasks : g[j] = IF j = k THEN InRing(t, Back(t)) ELSE f[j]
  BY <1>3, RelabelIs
<1>5. k \in Tasks /\ f[k] = IsNew(t) /\ Entry(t, Back(t)) = k
  BY <1>1 DEF Located, RingsAt, RingAt, Presents
<1>6. k \in scheduled
  <2>1. \A j \in Tasks \ scheduled : f[j] = None
    BY DEF Located, RoomAt
  <2> QED BY <1>5, <2>1, Places
<1> HIDE DEF k
<1>7. Shifts(f, g, t)
  <2> SUFFICES ASSUME NEW j \in Tasks, g[j] # f[j]
               PROVE  /\ Off(f[j]) /\ Off(g[j]) /\ f[j] # Ran /\ j \in scheduled'
                      /\ \A u \in Threads \ {t} :
                           /\ f[j] # IsNew(u)
                           /\ \A p \in Nat : p >= Front(u)' => f[j] # InRing(u, p)
    BY DEF Shifts
  <2>1. j = k /\ f[j] = IsNew(t) /\ g[j] = InRing(t, Back(t))
    BY <1>4, <1>5
  <2> QED BY <1>1, <1>6, <2>1, OffIs, Places
<1>8. Back(t)' = Back(t) + 1
  BY PushTailPos
<1>9. \A u \in Threads : /\ Front(u)' = Front(u) /\ Front(u) \in Nat
                         /\ Back(u) \in Nat /\ \A p : Entry(u, p)' = Entry(u, p)
  BY <1>1, Placed DEF Front, Entry
<1>10. \A u \in Threads \ {t} : new'[u] = new[u] /\ tail'[u] = tail[u]
  BY <1>1 DEF RingTypes
<1>11. Leaves(t)
  BY <1>1, <1>2, <1>9, <1>10, IsProc DEF Leaves
<1>12. Own(t) = 0 /\ Own(t)' = 0
  BY <1>1, <1>2, NoOwn, NoOwnNext DEF Filling, Popping, Copying
<1>13. Due(t) = 1 /\ Due(t)' = 0
  BY <1>1, <1>2 DEF Due
<1>14. Holds(g, t)'
  <2>1. Holds(f, t)
    BY DEF Located, RingsAt, RingAt
  <2>2. ASSUME NEW p \in Front(t)..Back(t)
        PROVE  Entry(t, p) \in Tasks /\ g[Entry(t, p)] = InRing(t, p)
    <3>1. CASE p = Back(t)
      BY <1>4, <1>5, <3>1
    <3>2. CASE p # Back(t)
      <4>1. p \in Front(t)..(Back(t) + Own(t) - 1)
        BY <1>9, <1>12, <3>2
      <4>2. Entry(t, p) \in Tasks /\ f[Entry(t, p)] = InRing(t, p)
        BY <2>1, <4>1 DEF Holds
      <4> QED BY <1>4, <1>5, <4>2, Places
    <3> QED BY <3>1, <3>2
  <2>3. \A p : p \in Front(t)'..(Back(t)' + Own(t)' - 1) => p \in Front(t)..Back(t)
    BY <1>8, <1>9, <1>12
  <2>4. \A p \in Front(t)'..(Back(t)' + Own(t)' - 1) :
          Entry(t, p)' \in Tasks /\ g[Entry(t, p)'] = InRing(t, p)
    BY <1>9, <2>2, <2>3
  <2> QED BY <2>4 DEF Holds, InRing
<1>15. RingAt(g, t)'
  BY <1>2, <1>14 DEF RingAt, Presents
<1>16. Grows(f, g, 0) /\ Back(t)' + Due(t)' =< Back(t) + Due(t) + 0
  BY <1>8, <1>9, <1>13 DEF Grows
<1>17. pc'[t] \notin {"push", "overflow"} \cup Consuming
  BY <1>2 DEF Consuming, Popping
<1>18. scheduled \subseteq scheduled' /\ UNCHANGED queueVars
  BY <1>1
<1> QED BY <1>2, <1>7, <1>11, <1>15, <1>16, <1>17, <1>18, RingStep

(* A task that is taken from the own buffer, at position r: the first or   *)
(* the last.                                                               *)
LEMMA RunAt ==
  ASSUME QueueInv, RingTypes, RingTypes', PosInv, PosInv', NEW f, Located(f),
         NEW t \in Threads, NEW r \in Nat, NEW d,
         UNCHANGED <<queueVars, tail, array, new, scheduled>>,
         \A q \in Procs \ {t} : pc'[q] = pc[q],
         \A u \in Threads \ {t} : Front(u)' = Front(u) /\ pushed'[u] = pushed[u],
         pc'[t] \notin {"push", "overflow"} \cup Presents,
         pc'[t] \in Consuming => pc[t] \in Consuming,
         r >= Front(t), r =< Back(t) + Own(t) - 1,
         Front(t) =< Front(t)', Own(t)' =< Own(t),
         r < Front(t)' \/ r > Back(t) + Own(t)' - 1,
         d \in {0, capacity}, Due(t)' =< Due(t) + d
  PROVE  \E g : Located(g)'
<1> DEFINE k == Entry(t, r)
<1>1. PICK g : g = Relabel(f, k, Ran)
  OBVIOUS
<1>2. \A j \in Tasks : g[j] = IF j = k THEN Ran ELSE f[j]
  BY <1>1, RelabelIs
<1>3. /\ Front(t) \in Nat /\ Back(t) \in Nat /\ Own(t) \in Int /\ Own(t)' \in Int
      /\ Front(t)' \in Nat /\ Back(t)' = Back(t) /\ Due(t) \in Int /\ Due(t)' \in Int
      /\ capacity \in Nat /\ \A p : Entry(t, p)' = Entry(t, p)
  BY Placed, PlacedNext DEF Own, Due, Back, Entry
<1>4. Holds(f, t)
  BY DEF Located, RingsAt, RingAt
<1>5. k \in Tasks /\ f[k] = InRing(t, r)
  <2>1. r \in Front(t)..(Back(t) + Own(t) - 1)
    BY <1>3
  <2> QED BY <1>4, <2>1 DEF Holds
<1>6. k \in scheduled
  <2>1. \A j \in Tasks \ scheduled : f[j] = None
    BY DEF Located, RoomAt
  <2> QED BY <1>5, <2>1, Places
<1> HIDE DEF k
<1>7. Shifts(f, g, t)
  <2> SUFFICES ASSUME NEW j \in Tasks, g[j] # f[j]
               PROVE  /\ Off(f[j]) /\ Off(g[j]) /\ f[j] # Ran /\ j \in scheduled'
                      /\ \A u \in Threads \ {t} :
                           /\ f[j] # IsNew(u)
                           /\ \A p \in Nat : p >= Front(u)' => f[j] # InRing(u, p)
    BY DEF Shifts
  <2>1. j = k /\ f[j] = InRing(t, r) /\ g[j] = Ran
    BY <1>2, <1>5
  <2> QED BY <1>6, <2>1, OffIs, Places
<1>8. Leaves(t)
  <2>1. \A u \in Threads : Front(u) \in Nat
    BY Placed
  <2> QED BY <2>1, IsProc DEF Leaves
<1>9. Holds(g, t)'
  <2>1. ASSUME NEW p \in Front(t)'..(Back(t)' + Own(t)' - 1)
        PROVE  /\ p =< Back(t) + Own(t) - 1 /\ Entry(t, p)' = Entry(t, p)
               /\ \A j \in Tasks : f[j] = InRing(t, p) => g[j] = InRing(t, p)
    <3>1. p # r /\ p =< Back(t) + Own(t) - 1
      BY <1>3
    <3> QED BY <1>2, <1>3, <1>5, <3>1, Places
  <2> QED BY <1>4, <2>1, HoldsKept
<1>10. RingAt(g, t)'
  BY <1>9 DEF RingAt, Presents
<1>11. Grows(f, g, d)
  BY <1>2, <1>5, Places DEF Grows
<1>12. Back(t)' + Due(t)' =< Back(t) + Due(t) + d
  BY <1>3
<1>13. scheduled \subseteq scheduled' /\ UNCHANGED queueVars
  OBVIOUS
<1> QED BY <1>7, <1>8, <1>10, <1>11, <1>12, <1>13, RingStep

LEMMA TakeAt ==
  ASSUME QueueInv, RingTypes, RingTypes', PosInv, PosInv', NEW f, Located(f),
         NEW t \in Threads, Take(t)
  PROVE  \E g : Located(g)'
<1>1. /\ UNCHANGED <<queueVars, tail, array, new, pushed, scheduled>> /\ pc[t] = "take"
      /\ pc' = [pc EXCEPT ![t] = "out"]
  BY DEF Take, Goto, BufferFrame
<1>2. pc'[t] = "out" /\ \A q \in Procs \ {t} : pc'[q] = pc[q]
  BY <1>1, AllGo
<1>3. /\ Front(t)' = Front(t) + 1 /\ Front(t) < Back(t)
      /\ \A u \in Threads \ {t} : Front(u)' = Front(u)
  BY TakePos
<1>4. Own(t) = 0 /\ Own(t)' = 0 /\ Due(t) = 0 /\ Due(t)' = 0
  BY <1>1, <1>2, NoOwn, NoOwnNext DEF Filling, Popping, Copying, Due
<1>5. Front(t) \in Nat /\ Back(t) \in Nat
  BY Placed
<1> DEFINE r == Front(t)
<1>6. /\ r \in Nat /\ r >= Front(t) /\ r =< Back(t) + Own(t) - 1 /\ Front(t) =< Front(t)'
      /\ Own(t)' =< Own(t) /\ r < Front(t)' /\ Due(t)' =< Due(t) + 0
  BY <1>3, <1>4, <1>5
<1>7. /\ pc'[t] \notin {"push", "overflow"} \cup Presents
      /\ pc'[t] \in Consuming => pc[t] \in Consuming
  BY <1>2 DEF Consuming, Popping, Presents
<1>8. /\ UNCHANGED <<queueVars, tail, array, new, scheduled>>
      /\ \A u \in Threads \ {t} : Front(u)' = Front(u) /\ pushed'[u] = pushed[u]
  BY <1>1, <1>3
<1> HIDE DEF r
<1> QED BY <1>2, <1>6, <1>7, <1>8, RunAt

LEMMA ConsumeLastAt ==
  ASSUME QueueInv, RingTypes, RingTypes', PosInv, PosInv', NEW f, Located(f),
         NEW t \in Threads, ConsumeLast(t)
  PROVE  \E g : Located(g)'
<1>1. /\ UNCHANGED <<queueVars, head, tail, array, new, scheduled>> /\ pc[t] = "extra"
      /\ pc' = [pc EXCEPT ![t] = IF pushed[t] = 1 THEN "cache" ELSE "tail"]
      /\ pushed' = [pushed EXCEPT ![t] = @ - 1]
  BY DEF ConsumeLast, PopNothing, ConsumeFrame, queueVars
<1>2. pc'[t] \in {"cache", "tail"} /\ \A q \in Procs \ {t} : pc'[q] = pc[q]
  BY <1>1, AllGo
<1>3. pushed[t] \in 1..capacity /\ pushed'[t] = pushed[t] - 1
  BY <1>1, ConsumingPos DEF PosInv, Filled
<1>4. /\ \A u \in Threads \ {t} : pushed'[u] = pushed[u]
      /\ \A u \in Threads : Front(u)' = Front(u)
  BY <1>1 DEF RingTypes, Front
<1>5. Own(t) = pushed[t] /\ Own(t)' = pushed[t] - 1
  BY <1>1, <1>2, <1>3, NoOwn, NoOwnNext DEF Copying
<1>6. Due(t) = 0 /\ Due(t)' \in {0, pushed[t] - 1}
  BY <1>1, <1>2, <1>3 DEF Due
<1>7. Front(t) \in Nat /\ Back(t) \in Nat /\ Front(t) = Back(t) /\ capacity \in Nat
  BY <1>1, Placed DEF PosInv, Ranged, Emptied, Popping
<1> DEFINE r == Back(t) + pushed[t] - 1
<1>8. /\ r \in Nat /\ r >= Front(t) /\ r =< Back(t) + Own(t) - 1 /\ Front(t) =< Front(t)'
      /\ Own(t)' =< Own(t) /\ r > Back(t) + Own(t)' - 1 /\ Due(t)' =< Due(t) + capacity
  BY <1>3, <1>4, <1>5, <1>6, <1>7
<1>9. /\ pc'[t] \notin {"push", "overflow"} \cup Presents
      /\ pc'[t] \in Consuming => pc[t] \in Consuming
  BY <1>1, <1>2 DEF Consuming, Popping, Presents
<1>10. /\ UNCHANGED <<queueVars, tail, array, new, scheduled>>
       /\ \A u \in Threads \ {t} : Front(u)' = Front(u) /\ pushed'[u] = pushed[u]
  BY <1>1, <1>4
<1> HIDE DEF r
<1> QED BY <1>2, <1>8, <1>9, <1>10, RunAt

LEMMA OwnIs ==
  ASSUME RingTypes, PosInv, NEW t \in Threads
  PROVE  Own(t) \in Nat
<1>1. capacity \in Nat /\ pushed[t] \in Int /\ Filled(t)
  BY Placed DEF PosInv
<1> QED BY <1>1 DEF Own, Filled, Filling, Popping

(* A thief has the tasks of its victim, and runs the last.                 *)
Stolen(f, t, v) ==
  [j \in Tasks |->
     IF \E i \in 0..(count[t] - 2) : f[j] = InRing(v, Front(v) + i)
     THEN InRing(t, Back(t) + (f[j][3] - Front(v)))
     ELSE IF f[j] = InRing(v, Front(v) + count[t] - 1) THEN Ran ELSE f[j]]

LEMMA StolenIs ==
  ASSUME NEW f, NEW t \in Threads, NEW v \in Threads, NEW g, g = Stolen(f, t, v),
         Front(v) \in Nat, Back(t) \in Nat, count[t] \in Nat, count[t] > 0
  PROVE  /\ \A j \in Tasks, i \in 0..(count[t] - 2) :
              f[j] = InRing(v, Front(v) + i) => g[j] = InRing(t, Back(t) + i)
         /\ \A j \in Tasks : f[j] = InRing(v, Front(v) + (count[t] - 1)) => g[j] = Ran
         /\ \A j \in Tasks : g[j] # f[j] =>
              /\ \E i \in 0..(count[t] - 1) : f[j] = InRing(v, Front(v) + i)
              /\ g[j] = Ran \/ \E p : g[j] = InRing(t, p)
<1> DEFINE F == Front(v)
           B == Back(t)
           c == count[t]
<1>1. F \in Nat /\ B \in Nat /\ c \in Nat /\ c > 0 /\ F + c - 1 = F + (c - 1)
  OBVIOUS
<1>2. \A j \in Tasks :
        g[j] = IF \E i \in 0..(c - 2) : f[j] = InRing(v, F + i)
               THEN InRing(t, B + (f[j][3] - F))
               ELSE IF f[j] = InRing(v, F + (c - 1)) THEN Ran ELSE f[j]
  BY <1>1 DEF Stolen
<1> HIDE DEF F, B, c
<1>3. ASSUME NEW j \in Tasks, NEW i \in 0..(c - 2), f[j] = InRing(v, F + i)
      PROVE  g[j] = InRing(t, B + i)
  <2>1. f[j][3] = F + i
    BY <1>3 DEF InRing
  <2>2. B + (f[j][3] - F) = B + i
    BY <1>1, <2>1
  <2>3. g[j] = InRing(t, B + (f[j][3] - F))
    BY <1>2, <1>3
  <2> QED BY <2>2, <2>3
<1>4. ASSUME NEW j \in Tasks, f[j] = InRing(v, F + (c - 1)) PROVE g[j] = Ran
  <2>1. \A i \in 0..(c - 2) : F + i # F + (c - 1)
    BY <1>1
  <2>2. \A i \in 0..(c - 2) : f[j] # InRing(v, F + i)
    BY <1>4, <2>1, Places
  <2> QED BY <1>2, <1>4, <2>2
<1>5. ASSUME NEW j \in Tasks, g[j] # f[j]
      PROVE  /\ \E i \in 0..(c - 1) : f[j] = InRing(v, F + i)
             /\ g[j] = Ran \/ \E p : g[j] = InRing(t, p)
  <2>1. CASE \E i \in 0..(c - 2) : f[j] = InRing(v, F + i)
    <3>1. \A i \in 0..(c - 2) : i \in 0..(c - 1)
      BY <1>1
    <3> QED BY <1>3, <2>1, <3>1
  <2>2. CASE ~\E i \in 0..(c - 2) : f[j] = InRing(v, F + i)
    <3>1. f[j] = InRing(v, F + (c - 1)) /\ c - 1 \in 0..(c - 1)
      BY <1>1, <1>2, <1>5, <2>2
    <3> QED BY <1>4, <3>1
  <2> QED BY <2>1, <2>2
<1> QED BY <1>3, <1>4, <1>5 DEF F, B, c

LEMMA StealCommitAt ==
  ASSUME QueueInv, RingTypes, RingTypes', PosInv, PosInv', NEW f, Located(f),
         NEW t \in Threads, StealCommit(t)
  PROVE  \E g : Located(g)'
<1>1. /\ UNCHANGED <<queueVars, tail, array, new, scheduled>>
      /\ pushed' = [pushed EXCEPT ![t] = count[t] - 1]
      /\ pc' = [pc EXCEPT ![t] = IF count[t] = 1 THEN "out" ELSE "stolen"]
  BY DEF StealCommit, StealFrame
<1>2. PICK v : v = victim[t]
  OBVIOUS
<1>3. /\ pc[t] = "commit" /\ v \in Threads \ {t}
      /\ count[t] \in 1..capacity /\ pushed'[t] = count[t] - 1
      /\ Front(t) = Back(t) /\ Front(v) + count[t] =< Back(v)
      /\ Front(v)' = Front(v) + count[t]
      /\ \A u \in Threads \ {v} : Front(u)' = Front(u)
      /\ \A i \in 0..(count[t] - 1) : Entry(t, Back(t) + i) = Entry(v, Front(v) + i)
      /\ pc'[t] \in {"out", "stolen"}
  BY <1>2, StealCommitPos
<1>4. PICK F : F = Front(v)
  OBVIOUS
<1>5. PICK B : B = Back(t)
  OBVIOUS
<1>6. PICK c : c = count[t]
  OBVIOUS
<1>7. PICK g : g = Stolen(f, t, v)
  OBVIOUS
<1>8. /\ F \in Nat /\ B \in Nat /\ c \in Nat /\ c > 0 /\ c =< capacity /\ capacity \in Nat
      /\ Back(v) \in Nat /\ F + c =< Back(v) /\ v \in Threads
  BY <1>3, <1>4, <1>5, <1>6, Placed
<1>9. /\ \A j \in Tasks, i \in 0..(c - 2) : f[j] = InRing(v, F + i) => g[j] = InRing(t, B + i)
      /\ \A j \in Tasks : f[j] = InRing(v, F + (c - 1)) => g[j] = Ran
      /\ \A j \in Tasks : g[j] # f[j] =>
              /\ \E i \in 0..(c - 1) : f[j] = InRing(v, F + i)
              /\ g[j] = Ran \/ \E p : g[j] = InRing(t, p)
  BY <1>4, <1>5, <1>6, <1>7, <1>8, StolenIs
<1>10. \A i \in 0..(c - 1) : /\ Entry(t, B + i) \in Tasks
                             /\ f[Entry(t, B + i)] = InRing(v, F + i)
  <2> SUFFICES ASSUME NEW i \in 0..(c - 1)
               PROVE  Entry(t, B + i) \in Tasks /\ f[Entry(t, B + i)] = InRing(v, F + i)
    OBVIOUS
  <2>1. Own(v) \in Nat
    BY <1>8, OwnIs
  <2>2. F + i \in Front(v)..(Back(v) + Own(v) - 1)
    BY <1>4, <1>8, <2>1
  <2>3. Holds(f, v)
    BY <1>8 DEF Located, RingsAt, RingAt
  <2>4. Entry(v, F + i) \in Tasks /\ f[Entry(v, F + i)] = InRing(v, F + i)
    BY <2>2, <2>3 DEF Holds
  <2>5. Entry(t, B + i) = Entry(v, F + i)
    BY <1>3, <1>4, <1>5, <1>6
  <2> QED BY <2>4, <2>5
<1>11. \A q \in Procs \ {t} : pc'[q] = pc[q]
  BY <1>1, AllGo
<1>12. Leaves(t)
  <2>1. \A u \in Threads \ {t} : pushed'[u] = pushed[u]
    BY <1>1 DEF RingTypes
  <2>2. \A u \in Threads : Front(u) \in Nat
    BY Placed
  <2>3. \A u \in Threads : Front(u) =< Front(u)'
    BY <1>3, <1>4, <1>6, <1>8, <2>2
  <2> QED BY <1>1, <1>11, <2>1, <2>3, IsProc DEF Leaves
<1>13. Shifts(f, g, t)
  <2> SUFFICES ASSUME NEW j \in Tasks, g[j] # f[j]
               PROVE  /\ Off(f[j]) /\ Off(g[j]) /\ f[j] # Ran /\ j \in scheduled'
                      /\ \A u \in Threads \ {t} :
                           /\ f[j] # IsNew(u)
                           /\ \A p \in Nat : p >= Front(u)' => f[j] # InRing(u, p)
    BY DEF Shifts
  <2>1. PICK i \in 0..(c - 1) : f[j] = InRing(v, F + i)
    BY <1>9
  <2>2. Off(f[j]) /\ Off(g[j]) /\ f[j] # Ran
    BY <1>9, <2>1, OffIs, Places
  <2>3. j \in scheduled'
    <3>1. f[j] # None
      BY <2>1, Places
    <3> QED BY <1>1, <3>1 DEF Located, RoomAt
  <2>4. ASSUME NEW u \in Threads \ {t}
        PROVE  /\ f[j] # IsNew(u)
               /\ \A p \in Nat : p >= Front(u)' => f[j] # InRing(u, p)
    <3>1. CASE u = v
      <4>1. Front(u)' = F + c
        BY <1>3, <1>4, <1>6, <3>1
      <4>2. \A p \in Nat : p >= Front(u)' => p # F + i
        BY <1>8, <4>1
      <4> QED BY <2>1, <4>2, Places
    <3>2. CASE u # v
      BY <2>1, <3>2, Places
    <3> QED BY <3>1, <3>2
  <2> QED BY <2>2, <2>3, <2>4
<1>14. /\ Front(t)' = B /\ Back(t)' = B /\ Own(t)' = c - 1
       /\ \A p : Entry(t, p)' = Entry(t, p)
  <2>1. Front(t)' = B
    BY <1>3, <1>5
  <2>2. Back(t)' = B /\ \A p : Entry(t, p)' = Entry(t, p)
    BY <1>1, <1>5 DEF Back, Entry
  <2>3. Own(t)' = c - 1
    BY <1>3, <1>6 DEF Own, Copying
  <2> QED BY <2>1, <2>2, <2>3
<1>15. Holds(g, t)'
  <2>1. ASSUME NEW p \in B..(B + (c - 1) - 1)
        PROVE  Entry(t, p) \in Tasks /\ g[Entry(t, p)] = InRing(t, p)
    <3>1. PICK i \in 0..(c - 2) : p = B + i
      <4>1. p - B \in 0..(c - 2) /\ p = B + (p - B)
        BY <1>8, <2>1
      <4> QED BY <4>1
    <3>2. i \in 0..(c - 1)
      BY <1>8, <3>1
    <3> QED BY <1>9, <1>10, <3>1, <3>2
  <2>2. \A p \in Front(t)'..(Back(t)' + Own(t)' - 1) :
          Entry(t, p)' \in Tasks /\ g[Entry(t, p)'] = InRing(t, p)
    BY <1>14, <2>1
  <2> QED BY <2>2 DEF Holds, InRing
<1>16. RingAt(g, t)'
  BY <1>3, <1>15 DEF RingAt, Presents
<1>17. Grows(f, g, capacity)
  <2>1. c - 1 \in 0..(c - 1)
    BY <1>8
  <2> QED BY <1>9, <1>10, <2>1, Places DEF Grows
<1>18. Due(t) = 0 /\ Due(t)' \in {0, c - 1}
  BY <1>3, <1>6 DEF Due
<1>19. Back(t)' + Due(t)' =< Back(t) + Due(t) + capacity
  BY <1>5, <1>8, <1>14, <1>18
<1>20. pc'[t] \notin {"push", "overflow"} \cup Consuming
  BY <1>3 DEF Consuming, Popping
<1>21. scheduled \subseteq scheduled' /\ UNCHANGED queueVars
  BY <1>1
<1> QED BY <1>11, <1>12, <1>13, <1>16, <1>17, <1>19, <1>20, <1>21, RingStep

(* Half of the buffer and the new task are listed.                         *)
Migrated(f, t) ==
  [j \in Tasks |-> IF f[j] = IsNew(t) THEN InList(t, Half + 1)
                   ELSE IF \E i \in 1..Half : f[j] = InRing(t, Front(t) + (i - 1))
                   THEN InList(t, (f[j][3] - Front(t)) + 1) ELSE f[j]]

LEMMA MigratedIs ==
  ASSUME NEW f, NEW t \in Threads, NEW g, g = Migrated(f, t), Front(t) \in Nat
  PROVE  /\ \A j \in Tasks : f[j] = IsNew(t) => g[j] = InList(t, Half + 1)
         /\ \A j \in Tasks, i \in 1..Half :
              f[j] = InRing(t, Front(t) + (i - 1)) => g[j] = InList(t, i)
         /\ \A j \in Tasks : g[j] # f[j] =>
              /\ f[j] = IsNew(t) \/ \E i \in 1..Half : f[j] = InRing(t, Front(t) + (i - 1))
              /\ \E i : g[j] = InList(t, i)
<1> DEFINE F == Front(t)
<1>1. F \in Nat /\ Half \in Nat
  BY HalfIs
<1>2. \A j \in Tasks :
        g[j] = IF f[j] = IsNew(t) THEN InList(t, Half + 1)
               ELSE IF \E i \in 1..Half : f[j] = InRing(t, F + (i - 1))
               THEN InList(t, (f[j][3] - F) + 1) ELSE f[j]
  BY DEF Migrated
<1> HIDE DEF F
<1>3. ASSUME NEW j \in Tasks, f[j] = IsNew(t) PROVE g[j] = InList(t, Half + 1)
  BY <1>2, <1>3
<1>4. ASSUME NEW j \in Tasks, NEW i \in 1..Half, f[j] = InRing(t, F + (i - 1))
      PROVE  g[j] = InList(t, i)
  <2>1. f[j][3] = F + (i - 1)
    BY <1>4 DEF InRing
  <2>2. (f[j][3] - F) + 1 = i
    BY <1>1, <2>1
  <2>3. f[j] # IsNew(t)
    BY <1>4, Places
  <2>4. g[j] = InList(t, (f[j][3] - F) + 1)
    BY <1>2, <1>4, <2>3
  <2> QED BY <2>2, <2>4
<1>5. ASSUME NEW j \in Tasks, g[j] # f[j]
      PROVE  /\ f[j] = IsNew(t) \/ \E i \in 1..Half : f[j] = InRing(t, F + (i - 1))
             /\ \E i : g[j] = InList(t, i)
  <2>1. f[j] = IsNew(t) \/ \E i \in 1..Half : f[j] = InRing(t, F + (i - 1))
    BY <1>2, <1>5
  <2> QED BY <1>3, <1>4, <2>1
<1> QED BY <1>3, <1>4, <1>5 DEF F

LEMMA MigrateAt ==
  ASSUME QueueInv, RingTypes, RingTypes', PosInv, PosInv', NEW f, Located(f),
         NEW t \in Threads, Migrate(t)
  PROVE  \E g : Located(g)'
<1>1. /\ UNCHANGED <<stack, cache, next, at, seen, consumer, tail, array, pushed, scheduled>>
      /\ pc[t] = "migrate" /\ pc' = [pc EXCEPT ![t] = "overflow"]
      /\ new' = [new EXCEPT ![t] = Null]
  BY DEF Migrate, Goto, sharedQueueVars
<1>2. /\ Overflowing(t) /\ Front(t)' = Front(t) + Half /\ Back(t) = Front(t) + capacity
      /\ \A u \in Threads \ {t} : Front(u)' = Front(u)
  BY MigratePos
<1>3. pc'[t] = "overflow" /\ \A q \in Procs \ {t} : pc'[q] = pc[q]
  BY <1>1, AllGo
<1>4. /\ Half \in Nat /\ Half =< capacity /\ capacity \in Nat /\ t \in Procs
      /\ \A u \in Threads : Front(u) \in Nat
  BY HalfIs, Placed, IsProc
<1>5. PICK F : F = Front(t)
  OBVIOUS
<1>6. PICK g : g = Migrated(f, t)
  OBVIOUS
<1>7. F \in Nat /\ Front(t)' = F + Half /\ Back(t) = F + capacity
  BY <1>2, <1>4, <1>5
<1>8. /\ \A j \in Tasks : f[j] = IsNew(t) => g[j] = InList(t, Half + 1)
      /\ \A j \in Tasks, i \in 1..Half : f[j] = InRing(t, F + (i - 1)) => g[j] = InList(t, i)
      /\ \A j \in Tasks : g[j] # f[j] =>
              /\ f[j] = IsNew(t) \/ \E i \in 1..Half : f[j] = InRing(t, F + (i - 1))
              /\ \E i : g[j] = InList(t, i)
  BY <1>4, <1>5, <1>6, MigratedIs
<1>9. Own(t) = 0 /\ Own(t)' = 0 /\ Due(t) = 1 /\ Due(t)' = 0
  BY <1>1, <1>3, NoOwn, NoOwnNext DEF Filling, Popping, Copying, Due
<1>10. /\ QueuesAt(f) /\ ListsAt(f) /\ RingsAt(f) /\ RoomAt(f) /\ RingAt(f, t)
  BY DEF Located, RingsAt
<1>11. \A i \in 1..(Half + 1) : list'[t][i] \in Tasks /\ g[list'[t][i]] = InList(t, i)
  <2> SUFFICES ASSUME NEW i \in 1..(Half + 1)
               PROVE  list'[t][i] \in Tasks /\ g[list'[t][i]] = InList(t, i)
    OBVIOUS
  <2>1. CASE i = Half + 1
    <3>1. list'[t][i] = new[t]
      BY <1>2, <2>1 DEF Overflowing
    <3>2. new[t] \in Tasks /\ f[new[t]] = IsNew(t)
      BY <1>1, <1>10 DEF RingAt, Presents
    <3> QED BY <1>8, <2>1, <3>1, <3>2
  <2>2. CASE i \in 1..Half
    <3>1. list'[t][i] = Entry(t, F + (i - 1))
      BY <1>2, <1>5, <2>2 DEF Overflowing
    <3>2. F + (i - 1) \in Front(t)..(Back(t) + Own(t) - 1)
      BY <1>4, <1>5, <1>7, <1>9, <2>2
    <3>3. Entry(t, F + (i - 1)) \in Tasks /\ f[Entry(t, F + (i - 1))] = InRing(t, F + (i - 1))
      BY <1>10, <3>2 DEF RingAt, Holds
    <3> QED BY <1>8, <2>2, <3>1, <3>3
  <2> QED BY <1>4, <2>1, <2>2
<1>12. ListsAt(g)'
  <2>1. Len(list'[t]) = Half + 1 /\ \A p \in Procs \ {t} : list'[p] = list[p]
    BY <1>2 DEF Overflowing
  <2>2. ListAt(g, t)'
    <3>1. Len(list'[t]) > 0
      BY <1>4, <2>1
    <3> QED BY <1>3, <1>11, <2>1, <3>1 DEF ListAt, InList
  <2>3. ASSUME NEW p \in Procs \ {t} PROVE ListAt(g, p)'
    <3>1. \A k \in Tasks, i \in 1..Len(list[p]) : f[k] = InList(p, i) => g[k] = InList(p, i)
      BY <1>8, Places
    <3>2. ListAt(f, p) /\ p \in Procs
      BY <1>10 DEF ListsAt
    <3>3. pc'[p] = pc[p] /\ list'[p] = list[p] /\ seen'[p] = seen[p] /\ next' = next
      BY <1>1, <1>3, <2>1
    <3> QED BY <3>1, <3>2, <3>3, ListKept
  <2> QED BY <2>2, <2>3 DEF ListsAt
<1>13. QueuesAt(g)'
  <2>1. \A p \in Procs, o \in Owners :
           Consumes(p, o)' => Consumes(p, o) /\ consumer'[p] = consumer[p]
    BY <1>1, <1>3 DEF Consumes, Popping
  <2>2. \A k \in Tasks, o \in Owners :
           /\ f[k] = InStack(o) <=> g[k] = InStack(o)
           /\ f[k] = InCache(o) <=> g[k] = InCache(o)
           /\ f[k] = InStack(o) \/ f[k] = InCache(o) => next'[k] = next[k]
    BY <1>1, <1>8, Places
  <2>3. UNCHANGED <<stack, cache>>
    BY <1>1
  <2> QED BY <1>10, <2>1, <2>2, <2>3, QueuesKept
<1>14. Leaves(t)
  <2>1. \A u \in Threads \ {t} : new'[u] = new[u]
    BY <1>1 DEF RingTypes
  <2> QED BY <1>1, <1>2, <1>3, <1>4, <2>1, IsProc DEF Leaves
<1>15. \A u \in Threads \ {t} : RingAt(g, u)'
  <2>1. \A u \in Threads \ {t}, k \in Tasks :
          /\ f[k] = IsNew(u) => g[k] = f[k]
          /\ \A p \in Nat : p >= Front(u)' /\ f[k] = InRing(u, p) => g[k] = f[k]
    BY <1>8, Places
  <2> QED BY <1>10, <1>14, <2>1, RingsKept
<1>16. RingAt(g, t)'
  <2>1. ASSUME NEW p \in Front(t)'..(Back(t)' + Own(t)' - 1)
        PROVE  /\ p =< Back(t) + Own(t) - 1 /\ Entry(t, p)' = Entry(t, p)
               /\ \A k \in Tasks : f[k] = InRing(t, p) => g[k] = InRing(t, p)
    <3>1. Back(t)' = Back(t) /\ Entry(t, p)' = Entry(t, p)
      BY <1>1 DEF Back, Entry
    <3>2. p \in Nat /\ p >= F + Half /\ p =< Back(t) + Own(t) - 1
      BY <1>4, <1>7, <1>9, <2>1, <3>1
    <3>3. \A i \in 1..Half : F + (i - 1) # p
      BY <1>4, <1>7, <3>2
    <3>4. \A k \in Tasks : f[k] = InRing(t, p) => g[k] = f[k]
      BY <1>8, <3>3, Places
    <3> QED BY <3>1, <3>2, <3>4
  <2>2. Front(t) =< Front(t)'
    BY <1>4, <1>5, <1>7
  <2>3. Holds(g, t)'
    BY <1>10, <2>1, <2>2, HoldsKept DEF RingAt
  <2> QED BY <1>3, <2>3 DEF RingAt, Presents
<1>17. RoomAt(g)'
  <2>1. \A k \in Tasks : f[k] = Ran => g[k] = Ran
    BY <1>8, Places
  <2>2. \A k \in Tasks \ scheduled' : g[k] = None
    BY <1>1, <1>8, <1>10, Places DEF RoomAt
  <2>3. Back(t)' + Due(t)' =< Back(t) + Due(t) + 0
    <3>1. Back(t)' = Back(t)
      BY <1>1 DEF Back
    <3> QED BY <1>4, <1>7, <1>9, <3>1
  <2>4. Grows(f, g, 0) /\ scheduled \subseteq scheduled'
    BY <1>1 DEF Grows
  <2> QED BY <1>10, <1>14, <2>1, <2>2, <2>3, <2>4, RoomKept
<1>18. RingsAt(g)'
  BY <1>15, <1>16 DEF RingsAt
<1> QED BY <1>12, <1>13, <1>17, <1>18 DEF Located

(* A step on a queue leaves the buffers alone.                             *)
Aside(f, g) == \A k \in Tasks :
                 \/ g[k] = f[k]
                 \/ /\ k \in scheduled' /\ f[k] # Ran
                    /\ \A u, i : f[k] # IsNew(u) /\ f[k] # InRing(u, i)

LEMMA RingsAside ==
  ASSUME NEW f, NEW g, NEW p \in Procs, RingTypes, RingTypes', PosInv, PosInv',
         RingsAt(f), RoomAt(f), UNCHANGED <<head, tail, array, pushed, new>>,
         \A q \in Procs \ {p} : pc'[q] = pc[q],
         pc[p] \notin Copying \cup Presents \cup {"tail", "stolen"},
         pc'[p] \notin Copying \cup Presents \cup {"tail", "stolen"},
         scheduled \subseteq scheduled', Aside(f, g)
  PROVE  RingsAt(g)' /\ RoomAt(g)'
<1>1. \A u \in Threads : /\ Front(u)' = Front(u) /\ Back(u)' = Back(u) /\ Front(u) \in Nat
                         /\ Back(u) \in Nat /\ \A i : Entry(u, i)' = Entry(u, i)
  BY Placed DEF Front, Back, Entry
<1>2. Leaves(p)
  BY <1>1, IsProc DEF Leaves
<1>3. \A u \in Threads \ {p} : RingAt(g, u)'
  <2>1. \A u \in Threads \ {p}, k \in Tasks :
          /\ f[k] = IsNew(u) => g[k] = f[k]
          /\ \A i \in Nat : i >= Front(u)' /\ f[k] = InRing(u, i) => g[k] = f[k]
    BY DEF Aside
  <2> QED BY <1>2, <2>1, RingsKept
<1>4. ASSUME p \in Threads PROVE RingAt(g, p)'
  <2>1. Own(p)' = Own(p) /\ Holds(f, p)
    BY <1>4 DEF Own, RingsAt, RingAt
  <2>2. ASSUME NEW i \in Front(p)'..(Back(p)' + Own(p)' - 1)
        PROVE  /\ i =< Back(p) + Own(p) - 1 /\ Entry(p, i)' = Entry(p, i)
               /\ \A k \in Tasks : f[k] = InRing(p, i) => g[k] = InRing(p, i)
    <3>1. \A k \in Tasks : f[k] = InRing(p, i) => g[k] = InRing(p, i)
      BY DEF Aside
    <3>2. Own(p) \in Int
      BY <1>4, Placed DEF Own
    <3> QED BY <1>1, <1>4, <2>1, <2>2, <3>1, <3>2
  <2>3. Holds(g, p)'
    BY <1>1, <1>4, <2>1, <2>2, HoldsKept
  <2> QED BY <2>3 DEF RingAt, Presents
<1>5. p \in Threads => Back(p)' + Due(p)' =< Back(p) + Due(p) + 0
  <2>1. Due(p) = 0 /\ Due(p)' = 0
    BY DEF Due, Presents
  <2> QED BY <1>1, <2>1
<1>6. RoomAt(g)'
  <2>1. \A k \in Tasks : f[k] = Ran => g[k] = Ran
    BY DEF Aside
  <2>2. \A k \in Tasks \ scheduled' : g[k] = None
    BY DEF Aside, RoomAt
  <2>3. Grows(f, g, 0)
    BY DEF Grows
  <2> QED BY <1>2, <1>5, <2>1, <2>2, <2>3, RoomKept
<1> QED BY <1>3, <1>4, <1>6 DEF RingsAt

(* The order of a list, and nothing else.                                  *)
LEMMA Links ==
  ASSUME NEW ks \in Seq(Tasks \cup {Null}), NEW top, next' = Linked(ks, top),
         \A i \in 1..Len(ks) : ks[i] \in Tasks,
         \A i, j \in 1..Len(ks) : ks[i] = ks[j] => i = j
  PROVE  /\ \A i \in 1..Len(ks) : next'[ks[i]] = IF i = Len(ks) THEN top ELSE ks[i + 1]
         /\ \A k \in Tasks : (\A i \in 1..Len(ks) : ks[i] # k) => next'[k] = next[k]
<1>1. DOMAIN ks = 1..Len(ks)
  OBVIOUS
<1>2. ASSUME NEW i \in 1..Len(ks)
      PROVE  next'[ks[i]] = IF i = Len(ks) THEN top ELSE ks[i + 1]
  <2> DEFINE c == CHOOSE j \in DOMAIN ks : ks[j] = ks[i]
  <2>1. c \in DOMAIN ks /\ ks[c] = ks[i]
    BY <1>1, <1>2
  <2>2. c = i
    BY <1>1, <1>2, <2>1
  <2>3. ks[i] \in Tasks /\ \E j \in DOMAIN ks : ks[j] = ks[i]
    BY <1>1, <1>2
  <2>4. next'[ks[i]] = IF c = Len(ks) THEN top ELSE ks[c + 1]
    BY <2>3 DEF Linked
  <2> QED BY <2>2, <2>4
<1>3. ASSUME NEW k \in Tasks, \A i \in 1..Len(ks) : ks[i] # k PROVE next'[k] = next[k]
  BY <1>1, <1>3 DEF Linked
<1> QED BY <1>2, <1>3

(* A list is linked to what is the top.                                    *)
LEMMA LinkAt ==
  ASSUME NEW f, NEW g, NEW p \in Procs, NEW ks \in Seq(Tasks \cup {Null}), NEW top,
         QueuesAt(f), ListsAt(f), UNCHANGED <<stack, cache, consumer>>,
         \A q \in Procs \ {p} : /\ pc'[q] = pc[q] /\ list'[q] = list[q]
                                /\ seen'[q] = seen[q] /\ at'[q] = at[q],
         pc'[p] = "push", list'[p] = ks, Len(ks) > 0, seen'[p].top = top,
         next' = Linked(ks, top),
         \A i \in 1..Len(ks) : ks[i] \in Tasks /\ g[ks[i]] = InList(p, i),
         \A k \in Tasks : g[k] = f[k] \/ (f[k] = None /\ \E i : g[k] = InList(p, i))
  PROVE  QueuesAt(g)' /\ ListsAt(g)'
<1>1. \A i, j \in 1..Len(ks) : ks[i] = ks[j] => i = j
  BY Places
<1>2. /\ \A i \in 1..Len(ks) : next'[ks[i]] = IF i = Len(ks) THEN top ELSE ks[i + 1]
      /\ \A k \in Tasks : (\A i \in 1..Len(ks) : ks[i] # k) => next'[k] = next[k]
  BY <1>1, Links
<1>3. QueuesAt(g)'
  <2>1. \A q \in Procs, o \in Owners :
           Consumes(q, o)' => Consumes(q, o) /\ consumer'[q] = consumer[q]
    BY DEF Consumes, Popping
  <2>2. \A k \in Tasks, o \in Owners :
           /\ f[k] = InStack(o) <=> g[k] = InStack(o)
           /\ f[k] = InCache(o) <=> g[k] = InCache(o)
           /\ f[k] = InStack(o) \/ f[k] = InCache(o) => next'[k] = next[k]
    BY <1>2, Places
  <2>3. UNCHANGED <<stack, cache>>
    OBVIOUS
  <2> QED BY <2>1, <2>2, <2>3, QueuesKept
<1>4. ListAt(g, p)'
  BY <1>2 DEF ListAt, InList
<1>5. ASSUME NEW q \in Procs \ {p} PROVE ListAt(g, q)'
  <2>1. \A k \in Tasks, i \in 1..Len(list[q]) : f[k] = InList(q, i) => g[k] = InList(q, i)
    BY Places
  <2>2. \A k \in Tasks, i \in 1..Len(list[q]) : f[k] = InList(q, i) => next'[k] = next[k]
    BY <1>2, <2>1, Places
  <2>3. ListAt(f, q) /\ q \in Procs
    BY DEF ListsAt
  <2>4. pc'[q] = pc[q] /\ list'[q] = list[q] /\ seen'[q] = seen[q]
    OBVIOUS
  <2> QED BY <2>1, <2>2, <2>3, <2>4, ListKept
<1> QED BY <1>3, <1>4, <1>5 DEF ListsAt

LEMMA PushLoadAt ==
  ASSUME QueueInv, RingTypes, RingTypes', PosInv, PosInv', NEW f, NEW g, Located(f),
         NEW p \in Procs, NEW o, NEW ks \in Seq(Tasks \cup {Null}), PushLoad(p, o, ks),
         UNCHANGED bufferVars, pc[p] \in {"out", "overflow"}, scheduled \subseteq scheduled',
         Len(ks) > 0, \A i \in 1..Len(ks) : ks[i] \in Tasks /\ g[ks[i]] = InList(p, i),
         \A k \in Tasks : \/ g[k] = f[k]
                          \/ f[k] = None /\ (\E i : g[k] = InList(p, i)) /\ k \in scheduled'
  PROVE  Located(g)'
<1> DEFINE top == stack[o].top
<1>1. /\ pc' = [pc EXCEPT ![p] = "push"] /\ at' = [at EXCEPT ![p] = o]
      /\ seen' = [seen EXCEPT ![p] = stack[o]] /\ next' = Linked(ks, top)
      /\ UNCHANGED <<stack, cache, consumer>>
  BY DEF PushLoad
<1>2. list'[p] = ks /\ \A q \in Procs \ {p} : list'[q] = list[q]
  BY PushLoadTypes
<1>3. /\ pc'[p] = "push" /\ seen'[p].top = top
      /\ \A q \in Procs \ {p} : pc'[q] = pc[q] /\ seen'[q] = seen[q] /\ at'[q] = at[q]
  BY <1>1 DEF QueueInv, Shape
<1>4. QueuesAt(f) /\ ListsAt(f) /\ RingsAt(f) /\ RoomAt(f)
  BY DEF Located
<1> HIDE DEF top
<1>5. QueuesAt(g)' /\ ListsAt(g)'
  BY <1>1, <1>2, <1>3, <1>4, LinkAt
<1>6. Aside(f, g)
  BY Places DEF Aside
<1>7. UNCHANGED <<head, tail, array, pushed, new>>
  BY DEF bufferVars
<1>8. RingsAt(g)' /\ RoomAt(g)'
  <2>1. pc[p] \notin Copying \cup Presents \cup {"tail", "stolen"}
    BY DEF Copying, Presents
  <2>2. pc'[p] \notin Copying \cup Presents \cup {"tail", "stolen"}
    BY <1>3 DEF Copying, Presents
  <2> QED BY <1>3, <1>4, <1>6, <1>7, <2>1, <2>2, RingsAside
<1> QED BY <1>5, <1>8 DEF Located

LEMMA PutAt ==
  ASSUME QueueInv, RingTypes, RingTypes', PosInv, PosInv', NEW f, Located(f),
         NEW c \in Clients, NEW k \in Tasks, Put(c, k)
  PROVE  \E g : Located(g)'
<1>1. /\ pc[c] = "out" /\ PushLoad(c, Pool, <<k>>) /\ k \notin scheduled
      /\ scheduled' = scheduled \cup {k} /\ UNCHANGED bufferVars
  BY DEF Put, Schedules
<1>2. PICK g : g = Relabel(f, k, InList(c, 1))
  OBVIOUS
<1>3. \A j \in Tasks : g[j] = IF j = k THEN InList(c, 1) ELSE f[j]
  BY <1>2, RelabelIs
<1>4. f[k] = None
  BY <1>1 DEF Located, RoomAt
<1>5. c \in Procs /\ <<k>> \in Seq(Tasks \cup {Null}) /\ Len(<<k>>) = 1 /\ <<k>>[1] = k
  BY WorkQueuesAssumption
<1> DEFINE ks == <<k>>
<1>6. \A i \in 1..Len(ks) : ks[i] \in Tasks /\ g[ks[i]] = InList(c, i)
  BY <1>3, <1>5
<1>7. ks \in Seq(Tasks \cup {Null}) /\ Len(ks) > 0 /\ PushLoad(c, Pool, ks)
  BY <1>1, <1>5
<1>8. scheduled \subseteq scheduled'
  BY <1>1
<1>9. \A j \in Tasks : \/ g[j] = f[j]
                       \/ f[j] = None /\ (\E i : g[j] = InList(c, i)) /\ j \in scheduled'
  BY <1>1, <1>3, <1>4
<1> HIDE DEF ks
<1>10. Located(g)'
  BY <1>1, <1>5, <1>6, <1>7, <1>8, <1>9, PushLoadAt
<1> QED BY <1>10

LEMMA PushOverflowAt ==
  ASSUME QueueInv, RingTypes, RingTypes', PosInv, PosInv', NEW f, Located(f),
         NEW t \in Threads, PushOverflow(t)
  PROVE  Located(f)'
<1>1. /\ pc[t] = "overflow" /\ PushLoad(t, t, list[t]) /\ UNCHANGED <<bufferVars, scheduled>>
  BY DEF PushOverflow
<1>2. t \in Procs /\ list[t] \in Seq(Tasks \cup {Null})
  BY IsProc DEF RingTypes
<1>3. ListAt(f, t)
  BY <1>2 DEF Located, ListsAt
<1> DEFINE ks == list[t]
<1>4. /\ Len(ks) > 0 /\ \A i \in 1..Len(ks) : ks[i] \in Tasks /\ f[ks[i]] = InList(t, i)
      /\ ks \in Seq(Tasks \cup {Null}) /\ PushLoad(t, t, ks)
  BY <1>1, <1>2, <1>3 DEF ListAt
<1>5. UNCHANGED bufferVars /\ scheduled \subseteq scheduled'
  BY <1>1
<1> HIDE DEF ks
<1> QED BY <1>1, <1>2, <1>4, <1>5, PushLoadAt

LEMMA PushFailsAt ==
  ASSUME QueueInv, RingTypes, RingTypes', PosInv, PosInv', NEW f, Located(f),
         NEW p \in Procs, PushFails(p), UNCHANGED <<bufferVars, scheduled>>
  PROVE  Located(f)'
<1> DEFINE top == stack[at[p]].top
           ks == list[p]
<1>1. /\ pc[p] = "push" /\ seen' = [seen EXCEPT ![p] = stack[at[p]]]
      /\ next' = Linked(ks, top) /\ UNCHANGED <<stack, cache, pc, at, list, consumer>>
  BY DEF PushFails
<1>2. ks \in Seq(Tasks \cup {Null}) /\ ListAt(f, p)
  BY DEF RingTypes, Located, ListsAt
<1>3. Len(ks) > 0 /\ \A i \in 1..Len(ks) : ks[i] \in Tasks /\ f[ks[i]] = InList(p, i)
  BY <1>1, <1>2 DEF ListAt
<1>4. seen'[p].top = top /\ \A q \in Procs \ {p} : seen'[q] = seen[q]
  BY <1>1 DEF QueueInv, Shape
<1>5. list'[p] = ks /\ pc'[p] = "push"
  BY <1>1
<1> HIDE DEF top, ks
<1>6. QueuesAt(f) /\ ListsAt(f) /\ RingsAt(f) /\ RoomAt(f)
  BY DEF Located
<1>7. QueuesAt(f)' /\ ListsAt(f)'
  BY <1>1, <1>2, <1>3, <1>4, <1>5, <1>6, LinkAt
<1>8. RingsAt(f)' /\ RoomAt(f)'
  <2>1. pc[p] \notin Copying \cup Presents \cup {"tail", "stolen"}
    BY <1>1 DEF Copying, Presents
  <2>2. /\ Aside(f, f) /\ UNCHANGED <<head, tail, array, pushed, new>>
        /\ scheduled \subseteq scheduled'
    BY DEF Aside, bufferVars
  <2>3. \A q \in Procs \ {p} : pc'[q] = pc[q]
    BY <1>1
  <2>4. pc'[p] \notin Copying \cup Presents \cup {"tail", "stolen"}
    BY <1>1, <2>1
  <2> QED BY <1>6, <2>1, <2>2, <2>3, <2>4, RingsAside
<1> QED BY <1>7, <1>8 DEF Located

(* A list is on top of what was there.                                     *)
Strings(f, g, nx, h, l, p, ks) ==
  /\ Len(ks) \in Nat /\ Len(ks) > 0 /\ Strung(f, nx, h, l)
  /\ \A i \in 1..Len(ks) : ks[i] \in Tasks /\ f[ks[i]] = InList(p, i) /\ l # InList(p, i)
  /\ \A i \in 1..Len(ks) : nx[ks[i]] = IF i = Len(ks) THEN h ELSE ks[i + 1]
  /\ \A j \in Tasks : g[j] = IF \E i \in 1..Len(ks) : ks[i] = j THEN l ELSE f[j]

LEMMA StrungPush ==
  ASSUME NEW f, NEW g, NEW nx, NEW h, NEW l, NEW p, NEW ks, Strings(f, g, nx, h, l, p, ks)
  PROVE  Strung(g, nx, ks[1], l)
<1> USE DEF Strings
<1> DEFINE n == Len(ks)
<1>1. n \in Nat /\ n > 0 /\ 1 \in 1..n
  OBVIOUS
<1> HIDE DEF n
<1>2. \A i, j \in 1..n : ks[i] = ks[j] => i = j
  BY Places DEF n
<1>3. \A i \in 1..n : ks[i] \in Tasks /\ g[ks[i]] = l /\ f[ks[i]] # l
  BY DEF n
<1>4. \A j \in Tasks : g[j] = l <=> (f[j] = l \/ \E i \in 1..n : ks[i] = j)
  BY DEF n
<1>5. \A i \in 1..n : nx[ks[i]] = IF i = n THEN h ELSE ks[i + 1]
  BY DEF n
<1>6. \A i \in 1..n : i # n => i + 1 \in 1..n
  BY <1>1
<1>7. h # Null => h \in Tasks /\ f[h] = l
  BY DEF Strung
<1>8. ASSUME NEW j \in Tasks, g[j] = l, nx[j] # Null
      PROVE  nx[j] \in Tasks /\ g[nx[j]] = l /\ nx[j] # ks[1]
  <2>1. CASE f[j] = l
    <3>1. nx[j] \in Tasks /\ f[nx[j]] = l
      BY <1>8, <2>1 DEF Strung
    <3> QED BY <1>1, <1>3, <1>4, <3>1
  <2>2. CASE \E i \in 1..n : ks[i] = j
    <3>1. PICK i \in 1..n : ks[i] = j
      BY <2>2
    <3>2. CASE i = n
      BY <1>1, <1>3, <1>4, <1>5, <1>7, <1>8, <3>1, <3>2
    <3>3. CASE i # n
      <4>1. nx[j] = ks[i + 1] /\ i + 1 \in 1..n /\ i + 1 # 1
        BY <1>1, <1>5, <1>6, <3>1, <3>3
      <4> QED BY <1>1, <1>2, <1>3, <4>1
    <3> QED BY <3>2, <3>3
  <2> QED BY <1>4, <1>8, <2>1, <2>2
<1>9. ASSUME NEW j \in Tasks, NEW k \in Tasks, g[j] = l, f[k] = l, nx[j] = nx[k], nx[j] # Null
      PROVE  j = k
  <2>1. nx[k] \in Tasks /\ f[nx[k]] = l /\ nx[k] # h
    BY <1>9 DEF Strung
  <2>2. CASE f[j] = l
    BY <1>9, <2>2 DEF Strung
  <2>3. CASE \E i \in 1..n : ks[i] = j
    <3>1. PICK i \in 1..n : ks[i] = j
      BY <2>3
    <3>2. i # n
      BY <1>5, <1>9, <2>1, <3>1
    <3>3. nx[j] = ks[i + 1] /\ i + 1 \in 1..n
      BY <1>5, <1>6, <3>1, <3>2
    <3>4. f[nx[j]] # l
      BY <1>3, <3>3
    <3> QED BY <1>9, <2>1, <3>4
  <2> QED BY <1>4, <1>9, <2>2, <2>3
<1>10. ASSUME NEW i \in 1..n, NEW j \in 1..n, nx[ks[i]] = nx[ks[j]], nx[ks[i]] # Null
       PROVE  i = j
  <2>1. CASE i = n /\ j # n
    <3>1. h = ks[j + 1] /\ j + 1 \in 1..n /\ h # Null
      BY <1>5, <1>6, <1>10, <2>1
    <3> QED BY <1>3, <1>7, <3>1
  <2>2. CASE i # n /\ j = n
    <3>1. h = ks[i + 1] /\ i + 1 \in 1..n /\ h # Null
      BY <1>5, <1>6, <1>10, <2>2
    <3> QED BY <1>3, <1>7, <3>1
  <2>3. CASE i # n /\ j # n
    <3>1. ks[i + 1] = ks[j + 1] /\ i + 1 \in 1..n /\ j + 1 \in 1..n
      BY <1>5, <1>6, <1>10, <2>3
    <3>2. i + 1 = j + 1
      BY <1>2, <3>1
    <3> QED BY <1>1, <3>2
  <2> QED BY <2>1, <2>2, <2>3
<1>11. ASSUME NEW j \in Tasks, NEW k \in Tasks, g[j] = l, g[k] = l, nx[j] = nx[k], nx[j] # Null
       PROVE  j = k
  <2>1. CASE f[k] = l
    BY <1>9, <1>11, <2>1
  <2>2. CASE f[j] = l
    BY <1>9, <1>11, <2>2
  <2>3. CASE f[j] # l /\ f[k] # l
    BY <1>4, <1>10, <1>11, <2>3
  <2> QED BY <2>1, <2>2, <2>3
<1> QED BY <1>1, <1>3, <1>8, <1>11 DEF Strung

LEMMA PushCasAt ==
  ASSUME QueueInv, RingTypes, RingTypes', PosInv, PosInv', NEW f, Located(f),
         NEW p \in Procs, PushCas(p), UNCHANGED <<bufferVars, scheduled>>
  PROVE  \E g : Located(g)'
<1>1. PICK o : o = at[p]
  OBVIOUS
<1>2. PICK ks : ks = list[p]
  OBVIOUS
<1>3. /\ pc[p] = "push" /\ pc' = [pc EXCEPT ![p] = "out"] /\ seen[p] = stack[o]
      /\ stack' = [stack EXCEPT ![o].top = Head(ks)]
      /\ list' = [list EXCEPT ![p] = <<>>] /\ seen' = [seen EXCEPT ![p] = Free]
      /\ at' = [at EXCEPT ![p] = Null] /\ UNCHANGED <<cache, next, consumer>>
  BY <1>1, <1>2 DEF PushCas, Goto
<1>4. o \in Owners
  BY <1>1, <1>3 DEF QueueInv, Local
<1>5. ks \in Seq(Tasks \cup {Null}) /\ ListAt(f, p)
  BY <1>2 DEF RingTypes, Located, ListsAt
<1>6. /\ Len(ks) > 0 /\ Len(ks) \in Nat
      /\ \A i \in 1..Len(ks) : ks[i] \in Tasks /\ f[ks[i]] = InList(p, i)
      /\ \A i \in 1..Len(ks) : next[ks[i]] = IF i = Len(ks) THEN stack[o].top ELSE ks[i + 1]
  BY <1>2, <1>3, <1>5 DEF ListAt
<1>7. Head(ks) = ks[1]
  BY <1>5, <1>6
<1>8. PICK g : g = [j \in Tasks |-> IF \E i \in 1..Len(ks) : ks[i] = j THEN InStack(o) ELSE f[j]]
  OBVIOUS
<1>9. \A j \in Tasks : g[j] = IF \E i \in 1..Len(ks) : ks[i] = j THEN InStack(o) ELSE f[j]
  BY <1>8
<1>10. \A j \in Tasks : g[j] # f[j] => g[j] = InStack(o) /\ \E i : f[j] = InList(p, i)
  BY <1>6, <1>9
<1>11. /\ pc'[p] = "out" /\ list'[p] = <<>>
       /\ \A q \in Procs \ {p} : pc'[q] = pc[q] /\ list'[q] = list[q] /\ seen'[q] = seen[q]
                                 /\ at'[q] = at[q]
  BY <1>3 DEF QueueInv, Shape, RingTypes
<1>12. /\ stack'[o].top = ks[1] /\ \A x \in Owners \ {o} : stack'[x] = stack[x]
       /\ stack'[o].consuming = stack[o].consuming
  <2>1. stack'[o] = [stack[o] EXCEPT !.top = ks[1]] /\ \A x \in Owners \ {o} : stack'[x] = stack[x]
    BY <1>3, <1>4, <1>7 DEF QueueInv, Shape
  <2>2. stack[o] = [top |-> stack[o].top, cached |-> stack[o].cached,
                    consuming |-> stack[o].consuming]
    BY <1>4 DEF QueueInv, Shape, Cell
  <2> QED BY <2>1, <2>2
<1>13. QueuesAt(f) /\ ListsAt(f) /\ RingsAt(f) /\ RoomAt(f)
  BY DEF Located
<1>14. StackAt(g, o)'
  <2>1. Strung(f, next, stack[o].top, InStack(o))
    BY <1>4, <1>13 DEF QueuesAt, StackAt
  <2>2. \A i : InStack(o) # InList(p, i)
    BY Places
  <2>3. Strung(g, next, ks[1], InStack(o))
    <3> DEFINE nx == next
               h == stack[o].top
               l == InStack(o)
    <3>1. Strings(f, g, nx, h, l, p, ks)
      BY <1>6, <1>9, <2>1, <2>2 DEF Strings
    <3> HIDE DEF nx, h, l
    <3>2. Strung(g, nx, ks[1], l)
      BY <3>1, StrungPush
    <3> QED BY <3>2 DEF nx, l
  <2>4. Strung(g, next', stack'[o].top, InStack(o))
    BY <1>3, <1>12, <2>3
  <2> QED BY <2>4 DEF StackAt, Strung, InStack
<1>15. \A x \in Owners \ {o} : StackAt(g, x)'
  <2> SUFFICES ASSUME NEW x \in Owners \ {o} PROVE StackAt(g, x)'
    OBVIOUS
  <2>1. /\ stack'[x].top = stack[x].top /\ StackAt(f, x) /\ x \in Owners
        /\ \A k \in Tasks : f[k] = InStack(x) <=> g[k] = InStack(x)
        /\ \A k \in Tasks : f[k] = InStack(x) => next'[k] = next[k]
    BY <1>3, <1>10, <1>12, <1>13, Places DEF QueuesAt
  <2> QED BY <2>1, StackKept
<1>16. \A x \in Owners : CacheAt(g, x)'
  <2> SUFFICES ASSUME NEW x \in Owners PROVE CacheAt(g, x)'
    OBVIOUS
  <2>1. \A q \in Procs : Consumes(q, x)' => Consumes(q, x) /\ consumer'[q] = consumer[q]
    BY <1>3, <1>11 DEF Consumes, Popping
  <2>2. /\ stack'[x].consuming = stack[x].consuming /\ cache'[x] = cache[x] /\ CacheAt(f, x)
        /\ \A k \in Tasks : f[k] = InCache(x) <=> g[k] = InCache(x)
        /\ \A k \in Tasks : f[k] = InCache(x) => next'[k] = next[k]
    BY <1>3, <1>10, <1>12, <1>13, Places DEF QueuesAt
  <2> QED BY <2>1, <2>2, CacheKept
<1>17. ListsAt(g)'
  <2>1. ListAt(g, p)'
    BY <1>11 DEF ListAt
  <2>2. ASSUME NEW q \in Procs \ {p} PROVE ListAt(g, q)'
    <3>1. \A k \in Tasks, i \in 1..Len(list[q]) : f[k] = InList(q, i) => g[k] = InList(q, i)
      BY <1>10, Places
    <3>2. ListAt(f, q) /\ q \in Procs
      BY <1>13 DEF ListsAt
    <3>3. pc'[q] = pc[q] /\ list'[q] = list[q] /\ seen'[q] = seen[q] /\ next' = next
      BY <1>3, <1>11
    <3> QED BY <3>1, <3>2, <3>3, ListKept
  <2> QED BY <2>1, <2>2 DEF ListsAt
<1>18. RingsAt(g)' /\ RoomAt(g)'
  <2>1. pc[p] \notin Copying \cup Presents \cup {"tail", "stolen"}
    BY <1>3 DEF Copying, Presents
  <2>2. pc'[p] \notin Copying \cup Presents \cup {"tail", "stolen"}
    BY <1>11 DEF Copying, Presents
  <2>3. UNCHANGED <<head, tail, array, pushed, new>> /\ scheduled \subseteq scheduled'
    BY DEF bufferVars
  <2>4. \A j \in Tasks : g[j] # f[j] => j \in scheduled'
    BY <1>10, <1>13, Places DEF RoomAt
  <2>5. Aside(f, g)
    BY <1>10, <2>4, Places DEF Aside
  <2>6. \A q \in Procs \ {p} : pc'[q] = pc[q]
    BY <1>11
  <2> QED BY <1>13, <2>1, <2>2, <2>3, <2>5, <2>6, RingsAside
<1> QED BY <1>14, <1>15, <1>16, <1>17, <1>18 DEF Located, QueuesAt

LEMMA ListsAside ==
  ASSUME NEW f, NEW g, NEW p \in Procs, ListsAt(f), list' = list, next' = next,
         \A q \in Procs \ {p} : pc'[q] = pc[q] /\ seen'[q] = seen[q],
         pc'[p] \notin {"push", "overflow"},
         \A k \in Tasks : \A q, i : f[k] = InList(q, i) => g[k] = f[k]
  PROVE  ListsAt(g)'
<1> SUFFICES ASSUME NEW q \in Procs PROVE ListAt(g, q)'
  BY DEF ListsAt
<1>1. ListAt(f, q) /\ list'[q] = list[q]
  BY DEF ListsAt
<1>2. \A k \in Tasks, i \in 1..Len(list[q]) : f[k] = InList(q, i) => g[k] = InList(q, i)
  OBVIOUS
<1>3. pc'[q] = "overflow" => pc[q] = "overflow"
  OBVIOUS
<1>4. pc'[q] = "push" => pc[q] = "push" /\ seen'[q] = seen[q]
  OBVIOUS
<1> QED BY <1>1, <1>2, <1>3, <1>4, ListKept

(* A consumer has what was pushed.                                         *)
Handed(f, g) == \A k \in Tasks : \/ g[k] = f[k]
                                 \/ \E o : f[k] = InStack(o) /\ g[k] = InCache(o)

LEMMA HandedIs ==
  ASSUME NEW f, NEW g, Handed(f, g), RoomAt(f), scheduled \subseteq scheduled'
  PROVE  Aside(f, g) /\ \A k \in Tasks : \A q, i : f[k] = InList(q, i) => g[k] = f[k]
<1>1. \A k \in Tasks : g[k] # f[k] => k \in scheduled'
  <2>1. \A k \in Tasks \ scheduled : f[k] = None
    BY DEF RoomAt
  <2> QED BY <2>1, Places DEF Handed
<1>2. Aside(f, g)
  <2> SUFFICES ASSUME NEW k \in Tasks, g[k] # f[k]
               PROVE  /\ k \in scheduled' /\ f[k] # Ran
                      /\ \A u, i : f[k] # IsNew(u) /\ f[k] # InRing(u, i)
    BY DEF Aside
  <2>1. PICK o : f[k] = InStack(o)
    BY DEF Handed
  <2> QED BY <1>1, <2>1, Places
<1>3. \A k \in Tasks : \A q, i : f[k] = InList(q, i) => g[k] = f[k]
  BY Places DEF Handed
<1> QED BY <1>2, <1>3

Quiet == Copying \cup Presents \cup {"tail", "stolen"}

LEMMA QueueAside ==
  ASSUME QueueInv, RingTypes, RingTypes', PosInv, PosInv', NEW f, NEW g, Located(f),
         NEW p \in Procs, UNCHANGED <<bufferVars, scheduled>>, list' = list, next' = next,
         \A q \in Procs \ {p} : pc'[q] = pc[q] /\ seen'[q] = seen[q],
         pc[p] \notin Quiet, pc'[p] \notin Quiet \cup {"push", "overflow"},
         Handed(f, g), QueuesAt(g)'
  PROVE  Located(g)'
<1>1. ListsAt(f) /\ RingsAt(f) /\ RoomAt(f)
  BY DEF Located
<1>2. scheduled \subseteq scheduled'
  OBVIOUS
<1>3. Aside(f, g) /\ \A k \in Tasks : \A q, i : f[k] = InList(q, i) => g[k] = f[k]
  BY <1>1, <1>2, HandedIs
<1>4. ListsAt(g)'
  BY <1>1, <1>3, ListsAside
<1>5. RingsAt(g)' /\ RoomAt(g)'
  <2>1. UNCHANGED <<head, tail, array, pushed, new>>
    BY DEF bufferVars
  <2>2. pc[p] \notin Copying \cup Presents \cup {"tail", "stolen"}
    BY DEF Quiet
  <2>3. pc'[p] \notin Copying \cup Presents \cup {"tail", "stolen"}
    BY DEF Quiet
  <2>4. \A q \in Procs \ {p} : pc'[q] = pc[q]
    OBVIOUS
  <2> QED BY <1>1, <1>2, <1>3, <2>1, <2>2, <2>3, <2>4, RingsAside
<1> QED BY <1>4, <1>5 DEF Located

LEMMA QueueLooksAt ==
  ASSUME QueueInv, RingTypes, RingTypes', PosInv, PosInv', NEW f, Located(f),
         NEW p \in Procs, NEW o, UNCHANGED <<bufferVars, scheduled>>,
         AcquireFails(p) \/ (pc[p] = "out" /\ AcquireLoad(p, o))
  PROVE  Located(f)'
<1>1. /\ UNCHANGED <<stack, cache, next, list, consumer>>
      /\ pc[p] \in {"out", "acquire"}
      /\ pc' = pc \/ \E s \in {"out", "acquire"} : pc' = [pc EXCEPT ![p] = s]
      /\ \E w : seen' = [seen EXCEPT ![p] = w]
      /\ at' = at \/ \E u : at' = [at EXCEPT ![p] = u]
  <2>1. CASE AcquireFails(p)
    <3>1. pc[p] = "acquire" /\ UNCHANGED <<stack, cache, next, list, consumer>>
      BY <2>1 DEF AcquireFails, sharedQueueVars
    <3>2. CASE Available(stack[at[p]])
      BY <2>1, <3>1, <3>2 DEF AcquireFails
    <3>3. CASE ~Available(stack[at[p]])
      BY <2>1, <3>1, <3>3 DEF AcquireFails
    <3> QED BY <3>2, <3>3
  <2>2. CASE pc[p] = "out" /\ AcquireLoad(p, o)
    BY <2>2 DEF AcquireLoad, sharedQueueVars
  <2> QED BY <2>1, <2>2
<1>2. /\ pc'[p] \in {"out", "acquire"}
      /\ \A q \in Procs \ {p} : pc'[q] = pc[q] /\ seen'[q] = seen[q] /\ at'[q] = at[q]
  BY <1>1 DEF QueueInv, Shape
<1>3. \A q \in Procs, u \in Owners :
        Consumes(q, u)' => Consumes(q, u) /\ consumer'[q] = consumer[q]
  BY <1>1, <1>2 DEF Consumes, Popping
<1>4. QueuesAt(f) /\ UNCHANGED <<stack, cache>>
  BY <1>1 DEF Located
<1>5. \A k \in Tasks, u \in Owners :
        /\ f[k] = InStack(u) <=> f[k] = InStack(u)
        /\ f[k] = InCache(u) <=> f[k] = InCache(u)
        /\ f[k] = InStack(u) \/ f[k] = InCache(u) => next'[k] = next[k]
  BY <1>1
<1>6. QueuesAt(f)'
  BY <1>3, <1>4, <1>5, QueuesKept
<1>7. Handed(f, f)
  BY DEF Handed
<1>8. pc[p] \notin Quiet /\ pc'[p] \notin Quiet \cup {"push", "overflow"}
  BY <1>1, <1>2 DEF Quiet, Copying, Presents
<1>9. list' = list /\ next' = next
  BY <1>1
<1> QED BY <1>2, <1>6, <1>7, <1>8, <1>9, QueueAside

LEMMA CacheIs ==
  ASSUME NEW g, NEW o,
         \A q \in Procs : Consumes(q, o)' => Strung(g, next', consumer'[q], InCache(o)),
         ~stack'[o].consuming => Strung(g, next', cache'[o], InCache(o))
  PROVE  CacheAt(g, o)'
BY DEF CacheAt, Strung, InCache

LEMMA StackIs ==
  ASSUME NEW g, NEW o, Strung(g, next', stack'[o].top, InStack(o))
  PROVE  StackAt(g, o)'
BY DEF StackAt, Strung, InStack

(* A step on one queue.                                                    *)
LEMMA OneQueue ==
  ASSUME NEW f, NEW g, NEW o \in Owners, QueuesAt(f), next' = next,
         \A x \in Owners \ {o} :
           /\ stack'[x] = stack[x] /\ cache'[x] = cache[x]
           /\ \A q \in Procs : Consumes(q, x)' => Consumes(q, x) /\ consumer'[q] = consumer[q]
           /\ \A k \in Tasks : /\ f[k] = InStack(x) <=> g[k] = InStack(x)
                               /\ f[k] = InCache(x) <=> g[k] = InCache(x),
         StackAt(g, o)', CacheAt(g, o)'
  PROVE  QueuesAt(g)'
<1>1. ASSUME NEW x \in Owners \ {o} PROVE StackAt(g, x)' /\ CacheAt(g, x)'
  <2>1. StackAt(f, x) /\ CacheAt(f, x) /\ x \in Owners
    BY DEF QueuesAt
  <2>2. /\ stack'[x].top = stack[x].top /\ stack'[x].consuming = stack[x].consuming
        /\ cache'[x] = cache[x]
    OBVIOUS
  <2>3. \A k \in Tasks : next'[k] = next[k]
    OBVIOUS
  <2>4. StackAt(g, x)'
    BY <2>1, <2>2, <2>3, StackKept
  <2>5. CacheAt(g, x)'
    BY <2>1, <2>2, <2>3, CacheKept
  <2> QED BY <2>4, <2>5
<1> QED BY <1>1 DEF QueuesAt

Hand(f, o) == [j \in Tasks |-> IF f[j] = InStack(o) THEN InCache(o) ELSE f[j]]

LEMMA HandIs ==
  ASSUME NEW f, NEW o
  PROVE  /\ \A j \in Tasks : Hand(f, o)[j] = IF f[j] = InStack(o) THEN InCache(o) ELSE f[j]
         /\ Handed(f, Hand(f, o)) /\ Handed(f, f)
BY DEF Hand, Handed

LEMMA AcquireCasAt ==
  ASSUME QueueInv, RingTypes, RingTypes', PosInv, PosInv', NEW f, Located(f),
         NEW p \in Procs, AcquireCas(p), UNCHANGED <<bufferVars, scheduled>>
  PROVE  \E g : Located(g)'
<1>1. PICK o : o = at[p]
  OBVIOUS
<1>2. /\ pc[p] = "acquire" /\ pc' = [pc EXCEPT ![p] = "pop"] /\ seen[p] = stack[o]
      /\ stack' = [stack EXCEPT ![o] = [top |-> IF stack[o].cached THEN stack[o].top ELSE Null,
                                        cached |-> TRUE, consuming |-> TRUE]]
      /\ consumer' = [consumer EXCEPT ![p] = IF cache[o] # Null THEN cache[o]
                                             ELSE stack[o].top]
      /\ seen' = [seen EXCEPT ![p] = Free] /\ UNCHANGED <<cache, next, at, list>>
  BY <1>1 DEF AcquireCas, Goto
<1>3. o \in Owners /\ Available(stack[o])
  BY <1>1, <1>2 DEF QueueInv, Local
<1>4. ~stack[o].consuming /\ (\A q \in Procs : ~Consumes(q, o))
      /\ (stack[o].cached <=> cache[o] # Null)
  BY <1>3 DEF Available, Taken, QueueInv, Words, Word
<1>5. /\ pc'[p] = "pop"
      /\ \A q \in Procs \ {p} : /\ pc'[q] = pc[q] /\ seen'[q] = seen[q]
                                /\ consumer'[q] = consumer[q]
      /\ \A x \in Owners \ {o} : stack'[x] = stack[x]
  BY <1>2, <1>3 DEF QueueInv, Shape
<1>6. consumer'[p] = IF cache[o] # Null THEN cache[o] ELSE stack[o].top
  BY <1>2 DEF QueueInv, Shape
<1>7. stack'[o].top = (IF stack[o].cached THEN stack[o].top ELSE Null) /\ stack'[o].consuming
  BY <1>2, <1>3 DEF QueueInv, Shape
<1>8. \A q \in Procs : Consumes(q, o)' => q = p
  BY <1>2, <1>4, <1>5 DEF Consumes, Popping
<1>9. \A x \in Owners \ {o}, q \in Procs :
        Consumes(q, x)' => Consumes(q, x) /\ consumer'[q] = consumer[q]
  BY <1>1, <1>2, <1>5 DEF Consumes, Popping
<1>10. Strung(f, next, stack[o].top, InStack(o)) /\ Strung(f, next, cache[o], InCache(o))
  BY <1>3, <1>4 DEF Located, QueuesAt, StackAt, CacheAt
<1>11. \E g : /\ Handed(f, g)
              /\ Strung(g, next, stack'[o].top, InStack(o))
              /\ Strung(g, next, consumer'[p], InCache(o))
              /\ \A x \in Owners \ {o}, k \in Tasks : /\ f[k] = InStack(x) <=> g[k] = InStack(x)
                                                      /\ f[k] = InCache(x) <=> g[k] = InCache(x)
  <2>1. CASE cache[o] # Null
    BY <1>4, <1>6, <1>7, <1>10, <2>1, HandIs
  <2>2. CASE cache[o] = Null
    <3>1. PICK g : g = Hand(f, o)
      OBVIOUS
    <3>2. /\ \A j \in Tasks : g[j] = IF f[j] = InStack(o) THEN InCache(o) ELSE f[j]
          /\ Handed(f, g)
      BY <3>1, HandIs
    <3>3. stack'[o].top = Null /\ consumer'[p] = stack[o].top
      BY <1>4, <1>6, <1>7, <2>2
    <3> DEFINE nx == next
               h == stack[o].top
               c == cache[o]
               l == InStack(o)
               m == InCache(o)
    <3>4. /\ Strung(f, nx, h, l) /\ Strung(f, nx, c, m) /\ l # m
          /\ \A j \in Tasks : g[j] = IF f[j] = l THEN m ELSE f[j]
      BY <1>10, <3>2, Places
    <3> HIDE DEF nx, h, c, l, m
    <3>5. Strung(g, nx, h, m) /\ Strung(g, nx, Null, l)
      BY <3>4, StrungMerge
    <3>6. \A x \in Owners \ {o}, k \in Tasks : /\ f[k] = InStack(x) <=> g[k] = InStack(x)
                                               /\ f[k] = InCache(x) <=> g[k] = InCache(x)
      BY <3>2, Places
    <3> QED BY <3>2, <3>3, <3>5, <3>6 DEF nx, h, l, m
  <2> QED BY <2>1, <2>2
<1>12. PICK g : /\ Handed(f, g)
                /\ Strung(g, next, stack'[o].top, InStack(o))
                /\ Strung(g, next, consumer'[p], InCache(o))
                /\ \A x \in Owners \ {o}, k \in Tasks : /\ f[k] = InStack(x) <=> g[k] = InStack(x)
                                                        /\ f[k] = InCache(x) <=> g[k] = InCache(x)
  BY <1>11
<1>13. Strung(g, next', stack'[o].top, InStack(o)) /\ Strung(g, next', consumer'[p], InCache(o))
  BY <1>2, <1>12
<1>14. StackAt(g, o)'
  BY <1>13, StackIs
<1>15. CacheAt(g, o)'
  <2>1. \A q \in Procs : Consumes(q, o)' => Strung(g, next', consumer'[q], InCache(o))
    BY <1>8, <1>13
  <2> QED BY <1>7, <2>1, CacheIs
<1>16. \A x \in Owners \ {o} :
           /\ stack'[x] = stack[x] /\ cache'[x] = cache[x]
           /\ \A q \in Procs : Consumes(q, x)' => Consumes(q, x) /\ consumer'[q] = consumer[q]
           /\ \A k \in Tasks : /\ f[k] = InStack(x) <=> g[k] = InStack(x)
                               /\ f[k] = InCache(x) <=> g[k] = InCache(x)
  BY <1>2, <1>5, <1>9, <1>12
<1>17. QueuesAt(g)'
  <2>1. QueuesAt(f) /\ next' = next
    BY <1>2 DEF Located
  <2> QED BY <1>3, <1>14, <1>15, <1>16, <2>1, OneQueue
<1>18. pc[p] \notin Quiet /\ pc'[p] \notin Quiet \cup {"push", "overflow"}
  BY <1>2, <1>5 DEF Quiet, Copying, Presents
<1>19. list' = list /\ next' = next /\ \A q \in Procs \ {p} : pc'[q] = pc[q] /\ seen'[q] = seen[q]
  BY <1>2, <1>5
<1> QED BY <1>12, <1>17, <1>18, <1>19, QueueAside

LEMMA ReleaseAt ==
  ASSUME QueueInv, RingTypes, RingTypes', PosInv, PosInv', NEW f, Located(f),
         NEW p \in Procs, ReleaseCache(p) \/ ReleaseSub(p),
         UNCHANGED <<bufferVars, scheduled>>
  PROVE  Located(f)'
<1>1. PICK o : o = at[p]
  OBVIOUS
<1>2. pc[p] \in {"cache", "sub"} /\ Consumes(p, o)
  BY <1>1 DEF ReleaseCache, ReleaseSub, Goto, Consumes
<1>3. o \in Owners /\ (pc[p] = "sub" => cache[o] = consumer[p])
  BY <1>1, <1>2 DEF QueueInv, Local, Consuming
<1>4. /\ stack[o].consuming
      /\ \A q \in Procs : Consumes(q, o) => q = p
  BY <1>2, <1>3 DEF QueueInv, Words, Word
<1>5. Strung(f, next, stack[o].top, InStack(o)) /\ Strung(f, next, consumer[p], InCache(o))
  BY <1>2, <1>3 DEF Located, QueuesAt, StackAt, CacheAt
<1>6. /\ UNCHANGED <<next, seen, list>>
      /\ pc'[p] \in {"sub", "out"} /\ \A q \in Procs \ {p} : /\ pc'[q] = pc[q] /\ at'[q] = at[q]
                                                            /\ consumer'[q] = consumer[q]
      /\ \A x \in Owners \ {o} : stack'[x] = stack[x] /\ cache'[x] = cache[x]
      /\ stack'[o].top = stack[o].top
      /\ \/ /\ pc'[p] = "sub" /\ at'[p] = o /\ consumer'[p] = consumer[p]
            /\ stack'[o].consuming
         \/ pc'[p] = "out" /\ cache'[o] = consumer[p]
  <2>1. CASE ReleaseCache(p)
    <3>1. /\ pc' = [pc EXCEPT ![p] = "sub"] /\ cache' = [cache EXCEPT ![o] = consumer[p]]
          /\ UNCHANGED <<stack, next, at, seen, list, consumer>>
      BY <1>1, <2>1 DEF ReleaseCache, Goto, localQueueVars
    <3> QED BY <1>1, <1>3, <1>4, <3>1 DEF QueueInv, Shape
  <2>2. CASE ReleaseSub(p)
    <3>1. /\ pc[p] = "sub" /\ pc' = [pc EXCEPT ![p] = "out"]
          /\ stack' = [stack EXCEPT ![o].consuming = FALSE,
                                    ![o].cached = @ /\ consumer[p] # Null]
          /\ consumer' = [consumer EXCEPT ![p] = Null] /\ at' = [at EXCEPT ![p] = Null]
          /\ UNCHANGED <<cache, next, seen, list>>
      BY <1>1, <2>2 DEF ReleaseSub, Goto
    <3>2. /\ pc'[p] = "out"
          /\ \A q \in Procs \ {p} : /\ pc'[q] = pc[q] /\ at'[q] = at[q]
                                    /\ consumer'[q] = consumer[q]
      BY <3>1 DEF QueueInv, Shape
    <3>3. \A x \in Owners \ {o} : stack'[x] = stack[x]
      BY <1>3, <3>1 DEF QueueInv, Shape
    <3>4. stack'[o].top = stack[o].top
      <4>1. stack[o] = [top |-> stack[o].top, cached |-> stack[o].cached,
                        consuming |-> stack[o].consuming]
        BY <1>3 DEF QueueInv, Shape, Cell
      <4> DEFINE no == FALSE
                 w == [stack[o] EXCEPT !.consuming = no]
                 b == w.cached /\ consumer[p] # Null
      <4>2. stack'[o] = [w EXCEPT !.cached = b]
        BY <1>3, <3>1 DEF QueueInv, Shape
      <4> HIDE DEF no
      <4>3. w = [top |-> stack[o].top, cached |-> stack[o].cached, consuming |-> no]
        BY <4>1
      <4> HIDE DEF b, w
      <4> QED BY <4>2, <4>3
    <3> QED BY <1>3, <3>1, <3>2, <3>3, <3>4
  <2> QED BY <2>1, <2>2
<1>7. \A x \in Owners \ {o}, q \in Procs :
        Consumes(q, x)' => Consumes(q, x) /\ consumer'[q] = consumer[q]
  BY <1>6 DEF Consumes, Popping
<1>8. Strung(f, next', stack'[o].top, InStack(o)) /\ Strung(f, next', consumer[p], InCache(o))
  BY <1>5, <1>6
<1>9. StackAt(f, o)'
  BY <1>8, StackIs
<1>10. CacheAt(f, o)'
  <2>1. \A q \in Procs : Consumes(q, o)' => Strung(f, next', consumer'[q], InCache(o))
    <3>1. \A q \in Procs : Consumes(q, o)' => q = p /\ pc'[p] # "out"
      BY <1>4, <1>6 DEF Consumes, Popping
    <3> QED BY <1>6, <1>8, <3>1
  <2>2. ~stack'[o].consuming => Strung(f, next', cache'[o], InCache(o))
    BY <1>6, <1>8
  <2> QED BY <2>1, <2>2, CacheIs
<1>11. \A x \in Owners \ {o} :
           /\ stack'[x] = stack[x] /\ cache'[x] = cache[x]
           /\ \A q \in Procs : Consumes(q, x)' => Consumes(q, x) /\ consumer'[q] = consumer[q]
           /\ \A k \in Tasks : /\ f[k] = InStack(x) <=> f[k] = InStack(x)
                               /\ f[k] = InCache(x) <=> f[k] = InCache(x)
  BY <1>6, <1>7
<1>12. QueuesAt(f)'
  <2>1. QueuesAt(f) /\ next' = next
    BY <1>6 DEF Located
  <2> QED BY <1>3, <1>9, <1>10, <1>11, <2>1, OneQueue
<1>13. pc[p] \notin Quiet /\ pc'[p] \notin Quiet \cup {"push", "overflow"}
  BY <1>2, <1>6 DEF Quiet, Copying, Presents
<1>14. list' = list /\ next' = next /\ \A q \in Procs \ {p} : pc'[q] = pc[q] /\ seen'[q] = seen[q]
  BY <1>6
<1>15. Handed(f, f)
  BY HandIs
<1> QED BY <1>12, <1>13, <1>14, <1>15, QueueAside

(* A consumer pops k, which is then at m: in a slot, or run.               *)
Pops(f, g, k, m) ==
  /\ g[k] = m /\ \E o : f[k] \in {InStack(o), InCache(o)}
  /\ \A j \in Tasks \ {k} : g[j] = f[j] \/ \E o : f[j] = InStack(o) /\ g[j] = InCache(o)

Popped(t) == IF pc[t] \in {"pop", "swap"} THEN InRing(t, Back(t) + pushed[t]) ELSE Ran

LEMMA PoppedIs ==
  ASSUME NEW t
  PROVE  /\ Off(Popped(t)) /\ Popped(t) # None
         /\ pc[t] \in {"pop", "swap"} => Popped(t) = InRing(t, Back(t) + pushed[t])
         /\ pc[t] \in {"extra", "extraswap"} => Popped(t) = Ran
BY OffIs, Places DEF Popped

LEMMA KeepAt ==
  ASSUME QueueInv, RingTypes, RingTypes', PosInv, PosInv', NEW f, NEW g,
         RingsAt(f), RoomAt(f), NEW t \in Threads, NEW k \in Tasks,
         pc[t] \in Popping, Keep(t, k), list' = list, next' = next,
         \A u \in Threads \ {t} : consumer'[u] = consumer[u],
         Pops(f, g, k, Popped(t))
  PROVE  RingsAt(g)' /\ RoomAt(g)'
<1>1. /\ UNCHANGED <<head, tail, new, scheduled>>
      /\ \E s : pc' = [pc EXCEPT ![t] = s]
      /\ pushed' = pushed \/ pushed' = [pushed EXCEPT ![t] = @ + 1]
  BY DEF Keep, ConsumeFrame
<1>2. \/ /\ pc[t] \in {"pop", "swap"} /\ pushed[t] \in 0..(capacity - 1)
         /\ Writes(t, Back(t) + pushed[t], k)
         /\ pushed'[t] = pushed[t] + 1 /\ pc'[t] \in {"pop", "extra"}
      \/ /\ pc[t] \in {"extra", "extraswap"} /\ array' = array /\ pushed' = pushed
         /\ pushed[t] \in 1..capacity /\ pc'[t] = "tail"
  BY KeepPos
<1>3. \A q \in Procs \ {t} : pc'[q] = pc[q]
  BY <1>1, AllGo
<1>4. \A u \in Threads : /\ Front(u)' = Front(u) /\ Back(u)' = Back(u) /\ Front(u) \in Nat
                         /\ Back(u) \in Nat /\ capacity \in Nat
  BY <1>1, Placed DEF Front, Back
<1>5. \A u \in Threads \ {t} : array'[u] = array[u] /\ pushed'[u] = pushed[u]
  BY <1>1, <1>2 DEF Writes, RingTypes
<1>6. Leaves(t)
  BY <1>1, <1>3, <1>4, <1>5, IsProc DEF Leaves
<1>7. /\ g[k] = Popped(t) /\ Off(Popped(t)) /\ Popped(t) # None
      /\ pc[t] \in {"pop", "swap"} => Popped(t) = InRing(t, Back(t) + pushed[t])
      /\ pc[t] \in {"extra", "extraswap"} => Popped(t) = Ran
  BY PoppedIs DEF Pops
<1>8. \A j \in Tasks : g[j] # f[j] =>
         /\ f[j] # Ran /\ f[j] # None
         /\ \A u, i : f[j] # IsNew(u) /\ f[j] # InRing(u, i)
  BY Places DEF Pops
<1>9. \A j \in Tasks \ scheduled' : g[j] = None
  <2>1. \A j \in Tasks \ scheduled : f[j] = None
    BY DEF RoomAt
  <2> QED BY <1>1, <1>8, <2>1
<1>10. \A u \in Threads \ {t} : RingAt(g, u)'
  <2>1. \A u \in Threads \ {t}, j \in Tasks :
          /\ f[j] = IsNew(u) => g[j] = f[j]
          /\ \A i \in Nat : i >= Front(u)' /\ f[j] = InRing(u, i) => g[j] = f[j]
    BY <1>8
  <2> QED BY <1>6, <2>1, RingsKept
<1>11. Front(t) = Back(t)
  BY DEF PosInv, Ranged, Emptied
<1>12. Own(t) = pushed[t] /\ Own(t)' = pushed'[t] /\ Due(t) = 0
  BY <1>2, NoOwn, NoOwnNext DEF Copying, Due
<1>13. Holds(f, t)
  BY DEF RingsAt, RingAt
<1>14. pc'[t] \notin Presents
  BY <1>2 DEF Presents
<1>15. \A j \in Tasks : \A p : f[j] = InRing(t, p) => g[j] = InRing(t, p)
  BY <1>8
<1>16. CASE pc[t] \in {"pop", "swap"}
  <2>1. /\ pushed[t] \in 0..(capacity - 1) /\ Writes(t, Back(t) + pushed[t], k)
        /\ pushed'[t] = pushed[t] + 1 /\ pc'[t] \in {"pop", "extra"}
    BY <1>2, <1>16
  <2> DEFINE B == Back(t)
             n == pushed[t]
             r == B + n
  <2>2. B \in Nat /\ n \in Nat /\ n < capacity /\ r \in Nat /\ capacity \in Nat /\ r = B + n
    BY <1>4, <2>1
  <2>3. Writes(t, r, k) /\ g[k] = InRing(t, r)
    BY <1>7, <1>16, <2>1
  <2>4. Own(t)' = n + 1 /\ Own(t) = n /\ Front(t)' = B /\ Back(t)' = B /\ Front(t) = B
    BY <1>4, <1>11, <1>12, <2>1
  <2> HIDE DEF B, n, r
  <2>5. ASSUME NEW p \in B..r PROVE Entry(t, p)' \in Tasks /\ g[Entry(t, p)'] = InRing(t, p)
    <3>1. CASE p = r
      <4>1. array'[t][Mask(p)] = k
        BY <2>3, <3>1 DEF Writes
      <4> QED BY <2>3, <3>1, <4>1 DEF Entry
    <3>2. CASE p # r
      <4>1. p \in Nat /\ r - p < capacity /\ p - r < capacity
        BY <2>2, <2>5, <3>2
      <4>2. array'[t][Mask(p)] = array[t][Mask(p)]
        BY <2>3, <3>2, <4>1 DEF Writes
      <4>3. p \in Front(t)..(Back(t) + Own(t) - 1)
        <5>1. p =< B + n - 1
          BY <2>2, <2>5, <3>2
        <5> QED BY <2>2, <2>4, <2>5, <5>1 DEF B
      <4>4. Entry(t, p) \in Tasks /\ f[Entry(t, p)] = InRing(t, p)
        BY <1>13, <4>3 DEF Holds
      <4> QED BY <1>15, <4>2, <4>4 DEF Entry
    <3> QED BY <3>1, <3>2
  <2>6. \A p \in Front(t)'..(Back(t)' + Own(t)' - 1) :
          Entry(t, p)' \in Tasks /\ g[Entry(t, p)'] = InRing(t, p)
    <3>1. B + (n + 1) - 1 = r
      BY <2>2
    <3> QED BY <2>4, <2>5, <3>1
  <2>7. Holds(g, t)'
    BY <2>6 DEF Holds, InRing
  <2>8. RingAt(g, t)'
    BY <1>14, <2>7 DEF RingAt, Presents
  <2>9. Due(t)' = 0
    BY <2>1 DEF Due
  <2>10. Back(t)' + Due(t)' =< Back(t) + Due(t) + 0 /\ Grows(f, g, 0)
    BY <1>4, <1>12, <2>9 DEF Grows
  <2>11. RoomAt(g)'
    BY <1>1, <1>6, <1>8, <1>9, <2>10, RoomKept
  <2> QED BY <1>10, <2>8, <2>11 DEF RingsAt
<1>17. CASE pc[t] \in {"extra", "extraswap"}
  <2>1. /\ array' = array /\ pushed' = pushed /\ pushed[t] \in 1..capacity /\ pc'[t] = "tail"
    BY <1>2, <1>17
  <2>2. \A p : Entry(t, p)' = Entry(t, p)
    BY <2>1 DEF Entry
  <2>3. Front(t) =< Front(t)'
    BY <1>4
  <2>4. \A p \in Front(t)'..(Back(t)' + Own(t)' - 1) :
           /\ p =< Back(t) + Own(t) - 1 /\ Entry(t, p)' = Entry(t, p)
           /\ \A j \in Tasks : f[j] = InRing(t, p) => g[j] = InRing(t, p)
    <3>1. Own(t)' = Own(t) /\ Own(t) \in Int
      BY <1>12, <2>1
    <3> QED BY <1>4, <1>15, <2>2, <3>1
  <2>5. Holds(g, t)'
    BY <1>13, <2>3, <2>4, HoldsKept
  <2>6. RingAt(g, t)'
    BY <1>14, <2>5 DEF RingAt, Presents
  <2>7. Due(t)' = pushed[t]
    BY <2>1 DEF Due
  <2>8. Back(t)' + Due(t)' =< Back(t) + Due(t) + capacity
    BY <1>4, <1>12, <2>1, <2>7
  <2>9. Grows(f, g, capacity)
    BY <1>7, <1>8, <1>17, Places DEF Grows, Pops
  <2>10. RoomAt(g)'
    BY <1>1, <1>6, <1>8, <1>9, <2>8, <2>9, RoomKept
  <2> QED BY <1>10, <2>6, <2>10 DEF RingsAt
<1> QED BY <1>16, <1>17 DEF Popping

LEMMA ConsumePopAt ==
  ASSUME QueueInv, RingTypes, RingTypes', PosInv, PosInv', NEW f, Located(f),
         NEW t \in Threads, NEW k \in Tasks,
         \/ pc[t] \in {"pop", "extra"} /\ PopCached(t, k)
         \/ pc[t] \in {"swap", "extraswap"} /\ PopSwap(t, k),
         Keep(t, k)
  PROVE  \E g : Located(g)'
<1>1. PICK o : o = at[t]
  OBVIOUS
<1>2. pc[t] \in Popping /\ Consumes(t, o) /\ t \in Procs /\ k # Null
  BY <1>1, IsProc, RunQueueAssumption DEF Consumes, Popping
<1>3. o \in Owners /\ \A q \in Procs : Consumes(q, o) => q = t
  BY <1>1, <1>2 DEF QueueInv, Local, Consuming, Words, Word
<1>4. stack[o].consuming
  BY <1>2, <1>3 DEF QueueInv, Words, Word
<1>5. Strung(f, next, stack[o].top, InStack(o)) /\ Strung(f, next, consumer[t], InCache(o))
  BY <1>2, <1>3 DEF Located, QueuesAt, StackAt, CacheAt
<1>6. /\ UNCHANGED <<cache, next, at, seen, list>>
      /\ consumer' = [consumer EXCEPT ![t] = next[k]]
      /\ \/ k = consumer[t] /\ stack' = stack
         \/ /\ k = stack[o].top
            /\ stack' = [stack EXCEPT ![o] = [top |-> Null, cached |-> TRUE,
                                              consuming |-> TRUE]]
  BY <1>1 DEF PopCached, PopSwap, sharedQueueVars
<1>7. consumer'[t] = next[k] /\ \A q \in Procs \ {t} : consumer'[q] = consumer[q]
  BY <1>2, <1>6 DEF QueueInv, Shape
<1>8. /\ stack'[o].consuming /\ \A x \in Owners \ {o} : stack'[x] = stack[x]
      /\ \/ k = consumer[t] /\ stack'[o].top = stack[o].top
         \/ k = stack[o].top /\ stack'[o].top = Null
  BY <1>3, <1>4, <1>6 DEF QueueInv, Shape
<1>9. \A q \in Procs \ {t} : pc'[q] = pc[q]
  <2>1. \E s : pc' = [pc EXCEPT ![t] = s]
    BY DEF Keep
  <2> QED BY <2>1, AllGo
<1>10. pc'[t] \in {"pop", "extra", "tail"}
  BY <1>2, <1>6, <1>7, KeepPos
<1>11. \A q \in Procs : Consumes(q, o)' => q = t
  BY <1>3, <1>6, <1>9 DEF Consumes, Popping
<1>12. \A x \in Owners \ {o}, q \in Procs :
         Consumes(q, x)' => Consumes(q, x) /\ consumer'[q] = consumer[q]
  BY <1>1, <1>6, <1>7, <1>9 DEF Consumes, Popping
<1>13. PICK m : m = Popped(t)
  OBVIOUS
<1>14. Off(m)
  BY <1>13, PoppedIs
<1>15. \A u : m # InStack(u) /\ m # InCache(u)
  BY <1>14 DEF Off
<1> DEFINE nx == next
           h == stack[o].top
           c == consumer[t]
           l == InStack(o)
           n == InCache(o)
<1>16. Strung(f, nx, h, l) /\ Strung(f, nx, c, n) /\ l # n /\ m # l /\ m # n
  BY <1>5, <1>15, Places
<1>17. \E g : /\ Pops(f, g, k, m)
              /\ Strung(g, nx, stack'[o].top, l) /\ Strung(g, nx, nx[k], n)
              /\ \A x \in Owners \ {o}, j \in Tasks : /\ f[j] = InStack(x) <=> g[j] = InStack(x)
                                                      /\ f[j] = InCache(x) <=> g[j] = InCache(x)
  <2>1. PICK r : r = Relabel(f, k, m)
    OBVIOUS
  <2>2. \A j \in Tasks : r[j] = IF j = k THEN m ELSE f[j]
    BY <2>1, RelabelIs
  <2>3. CASE k = consumer[t] /\ stack'[o].top = stack[o].top
    <3> HIDE DEF nx, h, l, n
    <3>1. Strung(f, nx, k, n)
      BY <1>16, <2>3 DEF c
    <3>2. Strung(r, nx, nx[k], n) /\ f[k] = n
      BY <1>2, <1>16, <2>1, <3>1, StrungPop
    <3>3. \A j \in Tasks : f[j] = l <=> r[j] = l
      BY <1>16, <2>2, <3>2
    <3>4. Strung(r, nx, h, l)
      BY <1>16, <3>3, StrungKept
    <3>5. \A x \in Owners \ {o}, j \in Tasks : /\ f[j] = InStack(x) <=> r[j] = InStack(x)
                                               /\ f[j] = InCache(x) <=> r[j] = InCache(x)
      BY <1>15, <2>2, <3>2, Places DEF n
    <3>6. Pops(f, r, k, m)
      BY <2>2, <3>2 DEF Pops, n
    <3> QED BY <2>3, <3>2, <3>4, <3>5, <3>6 DEF h
  <2>4. CASE k = stack[o].top /\ stack'[o].top = Null
    <3> HIDE DEF nx, c, l, n
    <3>1. Strung(f, nx, k, l)
      BY <1>16, <2>4 DEF h
    <3>2. Strung(r, nx, nx[k], l) /\ f[k] = l
      BY <1>2, <1>16, <2>1, <3>1, StrungPop
    <3>3. \A j \in Tasks : f[j] = n <=> r[j] = n
      BY <1>16, <2>2, <3>2
    <3>4. Strung(r, nx, c, n)
      BY <1>16, <3>3, StrungKept
    <3>5. PICK g : g = Hand(r, o)
      OBVIOUS
    <3>6. \A j \in Tasks : g[j] = IF r[j] = l THEN n ELSE r[j]
      BY <3>5, HandIs DEF l, n
    <3>7. Strung(g, nx, nx[k], n) /\ Strung(g, nx, Null, l)
      BY <1>16, <3>2, <3>4, <3>6, StrungMerge
    <3>8. \A x \in Owners \ {o}, j \in Tasks : /\ f[j] = InStack(x) <=> g[j] = InStack(x)
                                               /\ f[j] = InCache(x) <=> g[j] = InCache(x)
      BY <1>15, <2>2, <3>2, <3>6, Places DEF l, n
    <3>9. Pops(f, g, k, m)
      <4>1. g[k] = m
        BY <1>16, <2>2, <3>6
      <4>2. ASSUME NEW j \in Tasks \ {k}
            PROVE  g[j] = f[j] \/ (f[j] = l /\ g[j] = n)
        BY <2>2, <3>6
      <4> QED BY <3>2, <4>1, <4>2 DEF Pops, l, n
    <3> QED BY <2>4, <3>7, <3>8, <3>9
  <2> QED BY <1>8, <2>3, <2>4
<1>18. PICK g : /\ Pops(f, g, k, m)
                /\ Strung(g, nx, stack'[o].top, l) /\ Strung(g, nx, nx[k], n)
                /\ \A x \in Owners \ {o}, j \in Tasks :
                      /\ f[j] = InStack(x) <=> g[j] = InStack(x)
                      /\ f[j] = InCache(x) <=> g[j] = InCache(x)
  BY <1>17
<1>19. Strung(g, next', stack'[o].top, InStack(o)) /\ Strung(g, next', consumer'[t], InCache(o))
  BY <1>6, <1>7, <1>18
<1>20. StackAt(g, o)'
  BY <1>19, StackIs
<1>21. CacheAt(g, o)'
  <2>1. \A q \in Procs : Consumes(q, o)' => Strung(g, next', consumer'[q], InCache(o))
    BY <1>11, <1>19
  <2> QED BY <1>8, <2>1, CacheIs
<1>22. QueuesAt(g)'
  <2>1. QueuesAt(f) /\ next' = next
    BY <1>6 DEF Located
  <2>2. \A x \in Owners \ {o} :
           /\ stack'[x] = stack[x] /\ cache'[x] = cache[x]
           /\ \A q \in Procs : Consumes(q, x)' => Consumes(q, x) /\ consumer'[q] = consumer[q]
           /\ \A j \in Tasks : /\ f[j] = InStack(x) <=> g[j] = InStack(x)
                               /\ f[j] = InCache(x) <=> g[j] = InCache(x)
    BY <1>6, <1>8, <1>12, <1>18
  <2> QED BY <1>3, <1>20, <1>21, <2>1, <2>2, OneQueue
<1>23. ListsAt(g)'
  <2>1. \A j \in Tasks : \A q, i : f[j] = InList(q, i) => g[j] = f[j]
    <3> SUFFICES ASSUME NEW j \in Tasks, NEW q, NEW i, f[j] = InList(q, i) PROVE g[j] = f[j]
      OBVIOUS
    <3>1. \A u : f[j] # InStack(u) /\ f[j] # InCache(u)
      BY Places
    <3>2. j # k
      BY <1>18, <3>1 DEF Pops
    <3> QED BY <1>18, <3>1, <3>2 DEF Pops
  <2>2. \A q \in Procs \ {t} : pc'[q] = pc[q] /\ seen'[q] = seen[q]
    BY <1>6, <1>9
  <2>3. ListsAt(f) /\ list' = list /\ next' = next
    BY <1>6 DEF Located
  <2>4. pc'[t] \notin {"push", "overflow"}
    BY <1>10
  <2> QED BY <1>2, <2>1, <2>2, <2>3, <2>4, ListsAside
<1>24. RingsAt(g)' /\ RoomAt(g)'
  <2>1. \A u \in Threads \ {t} : consumer'[u] = consumer[u]
    BY <1>7, IsProc
  <2>2. RingsAt(f) /\ RoomAt(f) /\ list' = list /\ next' = next
    BY <1>6 DEF Located
  <2>3. Pops(f, g, k, Popped(t))
    BY <1>13, <1>18
  <2> QED BY <1>2, <2>1, <2>2, <2>3, KeepAt
<1> QED BY <1>22, <1>23, <1>24 DEF Located

(***************************************************************************)
(* Every step keeps the positions and the places.                          *)
(***************************************************************************)
RingInv == RingTypes /\ PosInv /\ \E f : Located(f)

LEMMA RingInit == Init => RingInv
<1> SUFFICES ASSUME Init PROVE RingInv
  OBVIOUS
<1>1. /\ stack = [o \in Owners |-> Free] /\ cache = [o \in Owners |-> Null]
      /\ next = [k \in Tasks |-> Null] /\ pc = [p \in Procs |-> "out"]
      /\ list = [p \in Procs |-> <<>>] /\ consumer = [p \in Procs |-> Null]
      /\ head = [t \in Threads |-> first_index] /\ tail = [t \in Threads |-> first_index]
      /\ array = [t \in Threads |-> [i \in 0..(capacity - 1) |-> Null]]
      /\ bhead = [t \in Threads |-> 0] /\ count = [t \in Threads |-> 0]
      /\ pushed = [t \in Threads |-> 0] /\ victim = [t \in Threads |-> Nobody]
      /\ new = [t \in Threads |-> Null] /\ scheduled = {}
  BY DEF Init, QueueInit
<1>2. first_index \in Indices /\ 0 \in Indices /\ Threads \subseteq Procs
  BY WorkQueuesAssumption, Zero DEF Indices
<1>3. RingTypes
  <2>1. list \in [Procs -> Seq(Tasks \cup {Null})]
    BY <1>1
  <2>2. next = [k \in Tasks |-> next[k]]
    BY <1>1
  <2> QED BY <1>1, <1>2, <2>1, <2>2 DEF RingTypes
<1>4. \A t \in Threads : /\ Front(t) = Back(t) /\ Front(t) \in Nat /\ Back(t) \in Nat
                         /\ pc[t] = "out" /\ pushed[t] = 0 /\ capacity \in Nat
  BY <1>1, <1>2, <1>3, Placed DEF Front, Back
<1>5. PosInv
  <2>1. \A t \in Threads : Ranged(t)
    BY <1>4 DEF Ranged, Emptied, Popping
  <2>2. \A t \in Threads : Filled(t)
    BY <1>4 DEF Filled, Filling, Popping, Copying
  <2>3. \A t, v \in Threads : Watches(t, v)
    BY <1>4 DEF Watches, Copying
  <2> QED BY <2>1, <2>2, <2>3 DEF PosInv
<1>6. PICK f : f = [k \in Tasks |-> None]
  OBVIOUS
<1>7. \A k \in Tasks : f[k] = None
  BY <1>6
<1>8. QueuesAt(f)
  <2>1. \A o : Strung(f, next, Null, InStack(o)) /\ Strung(f, next, Null, InCache(o))
    BY <1>7, Places DEF Strung
  <2>2. \A o \in Owners : stack[o].top = Null /\ cache[o] = Null
    BY <1>1 DEF Free
  <2>3. \A p \in Procs, o \in Owners : ~Consumes(p, o)
    BY <1>1 DEF Consumes, Popping
  <2> QED BY <2>1, <2>2, <2>3 DEF QueuesAt, StackAt, CacheAt
<1>9. ListsAt(f)
  <2> SUFFICES ASSUME NEW p \in Procs PROVE ListAt(f, p)
    BY DEF ListsAt
  <2>1. list[p] = <<>> /\ pc[p] = "out"
    BY <1>1
  <2>2. \A i : i \notin 1..Len(list[p])
    BY <2>1
  <2> QED BY <2>1, <2>2 DEF ListAt
<1>10. RingsAt(f)
  <2> SUFFICES ASSUME NEW t \in Threads PROVE RingAt(f, t)
    BY DEF RingsAt
  <2>1. Own(t) = 0
    BY <1>4 DEF Own
  <2>2. Holds(f, t)
    BY <1>4, <2>1 DEF Holds
  <2> QED BY <1>4, <2>2 DEF RingAt, Presents
<1>11. RoomAt(f)
  <2>1. \A t \in Threads : Back(t) + Due(t) = 0
    <3> SUFFICES ASSUME NEW t \in Threads PROVE Back(t) + Due(t) = 0
      OBVIOUS
    <3>1. Due(t) = 0
      BY <1>4 DEF Due
    <3>2. Back(t) = 0
      <4>1. Back(t) = Pos(first_index)
        BY <1>1 DEF Back
      <4>2. first_index - first_index = 0 /\ indices \in Nat \ {0}
        BY <1>2, Numbers
      <4>3. Pos(first_index) = 0
        BY <4>2 DEF Pos
      <4> QED BY <4>1, <4>3
    <3> QED BY <3>1, <3>2
  <2>2. Room(f) \in Nat
    <3>1. Cardinality(scheduled) \in Nat /\ Cardinality(Done(f)) \in Nat
      BY <1>3, DoneIs, ScheduledIs DEF RingTypes
    <3>2. capacity \in Nat
      BY WorkQueuesAssumption
    <3> QED BY <3>1, <3>2 DEF Room
  <2>3. \A k \in Tasks \ scheduled : f[k] = None
    BY <1>7
  <2>4. ASSUME NEW t \in Threads PROVE Back(t) + Due(t) =< Room(f)
    <3>1. Back(t) + Due(t) = 0
      BY <2>1
    <3> QED BY <2>2, <3>1
  <2> QED BY <2>3, <2>4 DEF RoomAt
<1>12. Located(f)
  BY <1>8, <1>9, <1>10, <1>11 DEF Located
<1> QED BY <1>3, <1>5, <1>12 DEF RingInv

LEMMA StutterAt ==
  ASSUME RingInv, UNCHANGED vars
  PROVE  RingInv'
<1>1. /\ UNCHANGED <<stack, cache, next, pc, at, seen, list, consumer>>
      /\ UNCHANGED <<head, tail, array, bhead, count, pushed, victim, new, scheduled>>
  BY DEF vars, queueVars, sharedQueueVars, localQueueVars, bufferVars
<1>2. RingTypes'
  BY <1>1 DEF RingInv, RingTypes
<1>3. \A t : /\ Front(t)' = Front(t) /\ Back(t)' = Back(t) /\ Saw(t)' = Saw(t)
             /\ Own(t)' = Own(t) /\ Due(t)' = Due(t) /\ \A p : Entry(t, p)' = Entry(t, p)
  BY <1>1 DEF Front, Back, Saw, Own, Due, Entry
<1>4. PosInv'
  <2>1. \A t, p : array'[t][Mask(p)] = array[t][Mask(p)]
    BY <1>1
  <2>2. \A t \in Threads : Ranged(t)'
    BY <1>1, <1>3 DEF RingInv, PosInv, Ranged
  <2>3. \A t \in Threads : Filled(t)'
    BY <1>1 DEF RingInv, PosInv, Filled
  <2>4. \A t, v \in Threads : victim'[t] = v => Watches(t, v)'
    BY <1>1 DEF RingInv, PosInv, Watches, Front, Back, Saw, Entry
  <2> QED BY <2>2, <2>3, <2>4 DEF PosInv
<1>5. PICK f : Located(f)
  BY DEF RingInv
<1>6. QueuesAt(f)'
  <2>1. \A p \in Procs, o \in Owners :
          Consumes(p, o)' => Consumes(p, o) /\ consumer'[p] = consumer[p]
    BY <1>1 DEF Consumes
  <2>2. \A k \in Tasks, o \in Owners :
          /\ f[k] = InStack(o) <=> f[k] = InStack(o)
          /\ f[k] = InCache(o) <=> f[k] = InCache(o)
          /\ f[k] = InStack(o) \/ f[k] = InCache(o) => next'[k] = next[k]
    BY <1>1
  <2>3. QueuesAt(f) /\ UNCHANGED <<stack, cache>>
    BY <1>1, <1>5 DEF Located
  <2> QED BY <2>1, <2>2, <2>3, QueuesKept
<1>7. ListsAt(f)'
  <2> SUFFICES ASSUME NEW p \in Procs PROVE ListAt(f, p)'
    BY DEF ListsAt
  <2>1. ListAt(f, p)
    BY <1>5 DEF Located, ListsAt
  <2>2. list'[p] = list[p] /\ pc'[p] = pc[p] /\ seen'[p] = seen[p] /\ next' = next
    BY <1>1
  <2>3. \A k \in Tasks, i \in 1..Len(list[p]) : f[k] = InList(p, i) => f[k] = InList(p, i)
    OBVIOUS
  <2> QED BY <2>1, <2>2, <2>3, ListKept
<1>8. RingsAt(f)'
  BY <1>1, <1>5 DEF Located, RingsAt, RingAt, Holds, Front, Back, Own, Entry, InRing, IsNew
<1>9. RoomAt(f)'
  BY <1>1, <1>5 DEF Located, RoomAt, Room, Done, Back, Due, None, Ran
<1>10. Located(f)'
  BY <1>6, <1>7, <1>8, <1>9 DEF Located
<1> QED BY <1>2, <1>4, <1>10 DEF RingInv

(* A step that keeps the types and positions and finds a place for tasks.  *)
LEMMA QueueStepAt ==
  ASSUME QueueInv, RingTypes, RingTypes', PosInv, PosInv', NEW f, Located(f),
         NEW p \in Procs, QueueStep(p), UNCHANGED <<bufferVars, scheduled>>
  PROVE  \E g : Located(g)'
<1>1. CASE PushFails(p)
  <2>1. Located(f)'
    BY <1>1, PushFailsAt
  <2> QED BY <2>1
<1>2. CASE PushCas(p)
  BY <1>2, PushCasAt
<1>3. CASE AcquireFails(p)
  <2>1. Located(f)'
    BY <1>3, QueueLooksAt
  <2> QED BY <2>1
<1>4. CASE AcquireCas(p)
  BY <1>4, AcquireCasAt
<1>5. CASE ReleaseCache(p) \/ ReleaseSub(p)
  <2>1. Located(f)'
    BY <1>5, ReleaseAt
  <2> QED BY <2>1
<1> QED BY <1>1, <1>2, <1>3, <1>4, <1>5 DEF QueueStep

OwnStep(t) == \/ PushSlot(t) \/ PushTail(t) \/ MigrateFails(t) \/ Migrate(t)
              \/ PushOverflow(t) \/ Pop(t) \/ TakeFails(t) \/ Take(t)
              \/ ConsumeStep(t) \/ StealStep(t) \/ Finish(t)

(* A step of a thread that does not look for a queue or a victim, nor      *)
(* schedules: it keeps the types and positions and each task has a place.  *)
LEMMA ThreadAt ==
  ASSUME QueueInv, RingTypes, PosInv, Near, NEW f, Located(f), NEW t \in Threads, OwnStep(t)
  PROVE  RingTypes' /\ PosInv' /\ \E g : Located(g)'
<1>1. CASE PushSlot(t)
  <2>1. RingTypes' /\ PosInv'
    BY <1>1, PushSlotPos
  <2>2. \E g : Located(g)'
    BY <1>1, <2>1, PushSlotAt
  <2> QED BY <2>1, <2>2
<1>2. CASE PushTail(t)
  <2>1. RingTypes' /\ PosInv'
    BY <1>2, PushTailPos
  <2>2. \E g : Located(g)'
    BY <1>2, <2>1, PushTailAt
  <2> QED BY <2>1, <2>2
<1>3. CASE MigrateFails(t)
  <2>1. RingTypes' /\ PosInv'
    BY <1>3, MigrateFailsPos
  <2>2. \E g : Located(g)'
    BY <1>3, <2>1, ReadAt
  <2> QED BY <2>1, <2>2
<1>4. CASE Migrate(t)
  <2>1. RingTypes' /\ PosInv'
    BY <1>4, MigratePos
  <2>2. \E g : Located(g)'
    BY <1>4, <2>1, MigrateAt
  <2> QED BY <2>1, <2>2
<1>5. CASE PushOverflow(t)
  <2>1. RingTypes' /\ PosInv'
    BY <1>5, PushOverflowPos
  <2>2. \E g : Located(g)'
    BY <1>5, <2>1, PushOverflowAt
  <2> QED BY <2>1, <2>2
<1>6. CASE Pop(t) \/ TakeFails(t)
  <2>1. RingTypes' /\ PosInv'
    BY <1>6, PopPos
  <2>2. \E g : Located(g)'
    BY <1>6, <2>1, ReadAt
  <2> QED BY <2>1, <2>2
<1>7. CASE Take(t)
  <2>1. RingTypes' /\ PosInv'
    BY <1>7, TakePos
  <2>2. \E g : Located(g)'
    BY <1>7, <2>1, TakeAt
  <2> QED BY <2>1, <2>2
<1>8. CASE ConsumeFind(t) \/ ConsumeNoMore(t)
  <2>1. RingTypes' /\ PosInv'
    BY <1>8, ConsumingPos
  <2>2. \E g : Located(g)'
    BY <1>8, <2>1, ConsumeReadAt
  <2> QED BY <2>1, <2>2
<1>9. CASE ConsumeLast(t)
  <2>1. RingTypes' /\ PosInv'
    BY <1>9, ConsumingPos
  <2>2. \E g : Located(g)'
    BY <1>9, <2>1, ConsumeLastAt
  <2> QED BY <2>1, <2>2
<1>10. CASE ConsumeTail(t) \/ StealShow(t)
  <2>1. RingTypes' /\ PosInv'
    BY <1>10, ShowPos
  <2>2. \E g : Located(g)'
    BY <1>10, <2>1, ShowAt
  <2> QED BY <2>1, <2>2
<1>11. CASE StealAgain(t)
  <2>1. RingTypes' /\ PosInv'
    BY <1>11, StealAgainPos
  <2>2. \E g : Located(g)'
    BY <1>11, <2>1, StealReadAt
  <2> QED BY <2>1, <2>2
<1>12. CASE StealTail(t)
  <2>1. RingTypes' /\ PosInv'
    BY <1>12, StealTailPos
  <2>2. \E g : Located(g)'
    BY <1>12, <2>1, StealReadAt
  <2> QED BY <2>1, <2>2
<1>13. CASE StealFails(t)
  <2>1. RingTypes' /\ PosInv'
    BY <1>13, StealFailsPos
  <2>2. \E g : Located(g)'
    BY <1>13, <2>1, StealReadAt
  <2> QED BY <2>1, <2>2
<1>14. CASE StealCopy(t)
  <2>1. RingTypes' /\ PosInv'
    BY <1>14, StealCopyPos
  <2>2. \E g : Located(g)'
    BY <1>14, <2>1, StealCopyAt
  <2> QED BY <2>1, <2>2
<1>15. CASE StealCommit(t)
  <2>1. RingTypes' /\ PosInv'
    BY <1>15, StealCommitPos
  <2>2. \E g : Located(g)'
    BY <1>15, <2>1, StealCommitAt
  <2> QED BY <2>1, <2>2
<1>16. CASE Finish(t)
  <2>1. RingTypes' /\ PosInv'
    BY <1>16, FinishPos
  <2>2. \E g : Located(g)'
    BY <1>16, <2>1, FinishAt
  <2> QED BY <2>1, <2>2
<1>17. CASE ConsumePop(t) \/ ConsumeSwap(t)
  <2>1. PICK k \in Tasks :
          /\ \/ pc[t] \in {"pop", "extra"} /\ PopCached(t, k)
             \/ pc[t] \in {"swap", "extraswap"} /\ PopSwap(t, k)
          /\ Keep(t, k)
    BY <1>17 DEF ConsumePop, ConsumeSwap
  <2>2. RingTypes' /\ PosInv'
    BY <2>1, ConsumePopPos
  <2>3. \E g : Located(g)'
    BY <2>1, <2>2, ConsumePopAt
  <2> QED BY <2>2, <2>3
<1> QED BY <1>1, <1>2, <1>3, <1>4, <1>5, <1>6, <1>7, <1>8, <1>9, <1>10, <1>11, <1>12,
           <1>13, <1>14, <1>15, <1>16, <1>17
        DEF OwnStep, ConsumeStep, StealStep

LEMMA RingNext == QueueInv /\ RingInv /\ [Next]_vars => RingInv'
<1> SUFFICES ASSUME QueueInv, RingInv, [Next]_vars PROVE RingInv'
  OBVIOUS
<1>1. RingTypes /\ PosInv
  BY DEF RingInv
<1>2. PICK f : Located(f)
  BY DEF RingInv
<1>3. Near
  <2>1. RoomAt(f)
    BY <1>2 DEF Located
  <2> QED BY <1>1, <2>1, RoomIsNear
<1>4. ASSUME RingTypes' /\ PosInv' /\ \E g : Located(g)' PROVE RingInv'
  BY <1>4 DEF RingInv
<1>5. ASSUME NEW p \in Procs, QueueStep(p), UNCHANGED <<bufferVars, scheduled>> PROVE RingInv'
  <2>1. RingTypes' /\ PosInv'
    BY <1>1, <1>5, QueueStepPos
  <2>2. \E g : Located(g)'
    BY <1>1, <1>2, <1>5, <2>1, QueueStepAt
  <2> QED BY <1>4, <2>1, <2>2
<1>6. ASSUME NEW c \in Clients, NEW k \in Tasks, Put(c, k) PROVE RingInv'
  <2>1. RingTypes' /\ PosInv'
    BY <1>1, <1>6, PutPos
  <2>2. \E g : Located(g)'
    BY <1>1, <1>2, <1>6, <2>1, PutAt
  <2> QED BY <1>4, <2>1, <2>2
<1>7. ASSUME NEW t \in Threads, OwnStep(t) PROVE RingInv'
  <2>1. RingTypes' /\ PosInv' /\ \E g : Located(g)'
    BY <1>1, <1>2, <1>3, <1>7, ThreadAt
  <2> QED BY <1>4, <2>1
<1>8. ASSUME NEW t \in Threads, NEW k \in Tasks, Push(t, k) PROVE RingInv'
  <2>1. RingTypes' /\ PosInv'
    BY <1>1, <1>8, PushPos
  <2>2. \E g : Located(g)'
    BY <1>1, <1>2, <1>8, <2>1, PushAt
  <2> QED BY <1>4, <2>1, <2>2
<1>9. ASSUME NEW t \in Threads, NEW o \in Owners, Consume(t, o) PROVE RingInv'
  <2>1. RingTypes' /\ PosInv'
    BY <1>1, <1>9, ConsumePos
  <2>2. /\ UNCHANGED <<bufferVars, scheduled>> /\ pc[t] = "out" /\ AcquireLoad(t, o)
        /\ t \in Procs
    BY <1>9, IsProc DEF Consume, Looking
  <2>3. Located(f)'
    BY <1>1, <1>2, <2>1, <2>2, QueueLooksAt
  <2> QED BY <1>4, <2>1, <2>3
<1>10. ASSUME NEW t \in Threads, NEW v \in Threads \ {t}, Steal(t, v) PROVE RingInv'
  <2>1. RingTypes' /\ PosInv'
    BY <1>1, <1>10, StealPos
  <2>2. Located(f)'
    BY <1>1, <1>2, <1>10, <2>1, StealReadAt
  <2> QED BY <1>4, <2>1, <2>2
<1>11. CASE UNCHANGED vars
  BY <1>11, StutterAt
<1> QED BY <1>5, <1>6, <1>7, <1>8, <1>9, <1>10, <1>11, Externals DEF Next, OwnStep

(* What a buffer shows is at the positions from its head to its tail.      *)
LEMMA BufferedIs ==
  ASSUME RingTypes, PosInv, NEW t \in Threads
  PROVE  Buffered(t) = {Entry(t, Front(t) + i) : i \in 0..(Back(t) - Front(t) - 1)}
<1>1. head[t] \in Indices
  BY DEF RingTypes
<1>2. Size(t, head[t]) = Back(t) - Front(t)
  BY OwnSize
<1>3. \A i \in Int : Slot(t, Plus(head[t], i)) = Entry(t, Front(t) + i)
  BY <1>1, SlotIs DEF Front
<1>4. Buffered(t) = {Slot(t, Plus(head[t], i)) : i \in 0..(Back(t) - Front(t) - 1)}
  BY <1>2 DEF Buffered, Between
<1> QED BY <1>3, <1>4

(* What a buffer shows was scheduled and is placed there, at one position. *)
LEMMA ShownAt ==
  ASSUME RingTypes, PosInv, NEW f, Located(f), NEW t \in Threads
  PROVE  /\ \A i \in 0..(Back(t) - Front(t) - 1) :
              /\ Entry(t, Front(t) + i) \in scheduled
              /\ f[Entry(t, Front(t) + i)] = InRing(t, Front(t) + i)
         /\ \A k \in Buffered(t) : k \in scheduled /\ \E i : f[k] = InRing(t, i)
<1> DEFINE n == Back(t) - Front(t)
<1>1. Holds(f, t) /\ \A k \in Tasks \ scheduled : f[k] = None
  BY DEF Located, RingsAt, RingAt, RoomAt
<1>2. /\ Own(t) \in Nat /\ Front(t) \in Nat /\ Back(t) \in Nat
      /\ Buffered(t) = {Entry(t, Front(t) + i) : i \in 0..(n - 1)}
  BY OwnIs, Placed, BufferedIs
<1>3. \A i \in 0..(n - 1) : Front(t) + i \in Front(t)..(Back(t) + Own(t) - 1)
  BY <1>2
<1>4. \A i \in 0..(n - 1) : /\ Entry(t, Front(t) + i) \in Tasks
                            /\ f[Entry(t, Front(t) + i)] = InRing(t, Front(t) + i)
  BY <1>1, <1>3 DEF Holds
<1>5. \A i \in 0..(n - 1) : Entry(t, Front(t) + i) \in scheduled
  BY <1>1, <1>4, Places
<1> QED BY <1>2, <1>4, <1>5

(* As the tasks there are in different places, there are as many of them   *)
(* as positions.                                                           *)
LEMMA RingHolds ==
  ASSUME RingTypes, PosInv, NEW f, Located(f), NEW t \in Threads
  PROVE  Ring(t)
<1> DEFINE n == Back(t) - Front(t)
<1>1. /\ Size(t, head[t]) = n /\ n \in Nat /\ n =< capacity
      /\ Front(t) \in Nat /\ Back(t) \in Nat /\ capacity \in Nat
  BY OwnSize
<1>2. pc[t] \in Popping \cup {"look", "again", "copy", "commit"} => n = 0
  <2>1. pc[t] \in Emptied => Front(t) = Back(t)
    BY DEF PosInv, Ranged
  <2> QED BY <1>1, <2>1 DEF Emptied
<1>3. /\ Buffered(t) \subseteq scheduled
      /\ \A i \in 0..(n - 1) : f[Entry(t, Front(t) + i)] = InRing(t, Front(t) + i)
  BY ShownAt
<1>4. Buffered(t) = {Entry(t, Front(t) + i) : i \in 0..(n - 1)}
  BY BufferedIs
<1>5. Cardinality(Buffered(t)) = n
  <2> DEFINE m == [i \in 0..(n - 1) |-> Entry(t, Front(t) + i)]
  <2>1. ASSUME NEW i \in 0..(n - 1), NEW j \in 0..(n - 1), m[i] = m[j] PROVE i = j
    <3>1. InRing(t, Front(t) + i) = InRing(t, Front(t) + j)
      BY <1>3, <2>1
    <3>2. Front(t) + i = Front(t) + j
      BY <3>1 DEF InRing
    <3> QED BY <1>1, <3>2
  <2>2. /\ m \in [0..(n - 1) -> Buffered(t)]
        /\ \A k \in Buffered(t) : \E i \in 0..(n - 1) : m[i] = k
    BY <1>4
  <2>3. m \in Bijection(0..(n - 1), Buffered(t))
    <3> HIDE DEF m, n
    <3> QED BY <2>1, <2>2 DEF Bijection, Injection, IsInjective, Surjection
  <2>4. IsFiniteSet(0..(n - 1)) /\ Cardinality(0..(n - 1)) = n
    <3>1. 0 \in Int /\ n - 1 \in Int
      BY <1>1
    <3>2. /\ IsFiniteSet(0..(n - 1))
          /\ Cardinality(0..(n - 1)) = IF 0 > n - 1 THEN 0 ELSE (n - 1) - 0 + 1
      BY <3>1, FS_Interval
    <3> QED BY <1>1, <3>2
  <2>5. ExistsBijection(0..(n - 1), Buffered(t))
    BY <2>3 DEF ExistsBijection
  <2> HIDE DEF m, n
  <2>6. Cardinality(0..(n - 1)) = Cardinality(Buffered(t))
    BY <2>4, <2>5, FS_Bijection
  <2> QED BY <2>4, <2>6
<1> QED BY <1>1, <1>2, <1>3, <1>5 DEF Ring

LEMMA RingsHold == RingInv => Rings
<1> SUFFICES ASSUME RingInv PROVE Rings
  OBVIOUS
<1>1. RingTypes /\ PosInv
  BY DEF RingInv
<1>2. PICK f : Located(f)
  BY DEF RingInv
<1>3. ASSUME NEW t \in Threads PROVE Ring(t)
  BY <1>1, <1>2, RingHolds
<1>4. ASSUME NEW t \in Threads, NEW u \in Threads \ {t},
             NEW k, k \in Buffered(t), k \in Buffered(u)
      PROVE  FALSE
  <2>1. PICK i : f[k] = InRing(t, i)
    BY <1>1, <1>2, <1>4, ShownAt
  <2>2. PICK j : f[k] = InRing(u, j)
    BY <1>1, <1>2, <1>4, ShownAt
  <2>3. <<"ring", t, i>> = <<"ring", u, j>>
    BY <2>1, <2>2 DEF InRing
  <2> QED BY <2>3
<1> QED BY <1>3, <1>4 DEF Rings

(* Only the second look of a thief at its victim leads from "look" to      *)
(* "out".                                                                  *)
LEMMA OnlyStealTail ==
  ASSUME QueueInv, [Next]_vars, NEW t \in Threads, pc[t] = "look", pc'[t] = "out"
  PROVE  StealTail(t)
<1>1. ASSUME NEW p, NEW s, pc' = [pc EXCEPT ![p] = s], p # t PROVE FALSE
  BY <1>1, IsProc DEF QueueInv, Shape
<1>2. ASSUME NEW p, NEW s, pc' = [pc EXCEPT ![p] = s], pc[p] # "look" PROVE FALSE
  BY <1>1, <1>2
<1>3. pc' # pc
  OBVIOUS
<1>4. ASSUME NEW p \in Procs, QueueStep(p) PROVE FALSE
  <2>1. CASE PushFails(p)
    BY <1>3, <2>1 DEF PushFails
  <2>2. CASE AcquireFails(p)
    BY <1>2, <1>3, <2>2 DEF AcquireFails
  <2>3. CASE PushCas(p) \/ AcquireCas(p) \/ ReleaseCache(p) \/ ReleaseSub(p)
    BY <1>2, <2>3 DEF PushCas, AcquireCas, ReleaseCache, ReleaseSub, Goto
  <2> QED BY <1>4, <2>1, <2>2, <2>3 DEF QueueStep
<1>5. ASSUME NEW c \in Clients, NEW k \in Tasks, Put(c, k) PROVE FALSE
  BY <1>2, <1>5 DEF Put, PushLoad
<1>6. ASSUME NEW u \in Threads, NEW o \in Owners, Consume(u, o) PROVE FALSE
  BY <1>2, <1>6 DEF Consume, Looking, AcquireLoad
<1>7. ASSUME NEW u \in Threads, PushOverflow(u) \/ Finish(u) PROVE FALSE
  BY <1>2, <1>3, <1>7 DEF PushOverflow, PushLoad, Finish
<1>8. ASSUME NEW u \in Threads, ConsumeStep(u) PROVE FALSE
  <2>1. CASE ConsumePop(u) \/ ConsumeSwap(u)
    BY <1>2, <2>1 DEF ConsumePop, ConsumeSwap, Keep
  <2>2. CASE ConsumeFind(u) \/ ConsumeNoMore(u) \/ ConsumeLast(u) \/ ConsumeTail(u)
    BY <1>2, <2>2 DEF ConsumeFind, ConsumeNoMore, ConsumeLast, ConsumeTail, Show, Goto
  <2> QED BY <1>8, <2>1, <2>2 DEF ConsumeStep
<1>9. ASSUME NEW u \in Threads, PushSlot(u) \/ PushTail(u) \/ Migrate(u) \/ Take(u) PROVE FALSE
  BY <1>2, <1>9 DEF PushSlot, PushTail, Migrate, Take, Goto
<1>10. ASSUME NEW u \in Threads, MigrateFails(u) \/ \E k \in Tasks : Push(u, k) PROVE FALSE
  BY <1>2, <1>10 DEF MigrateFails, Push, PushOrMigrate
<1>11. ASSUME NEW u \in Threads, Pop(u) \/ TakeFails(u) PROVE FALSE
  BY <1>2, <1>11 DEF Pop, TakeFails, PopOrLeave, Looking
<1>12. ASSUME NEW u \in Threads, \E v \in Threads \ {u} : Steal(u, v) PROVE FALSE
  BY <1>2, <1>12 DEF Steal, StealHead, Looking
<1>13. ASSUME NEW u \in Threads, StealStep(u) PROVE StealTail(t)
  <2>1. CASE StealTail(u)
    <3>1. \E s : pc' = [pc EXCEPT ![u] = s]
      BY <2>1 DEF StealTail
    <3>2. u = t
      BY <1>1, <3>1
    <3> QED BY <2>1, <3>2
  <2>2. CASE StealAgain(u) \/ StealCopy(u) \/ StealFails(u) \/ StealCommit(u) \/ StealShow(u)
    BY <1>2, <2>2 DEF StealAgain, StealHead, StealCopy, StealFails, StealCommit, StealShow,
                      Show, Goto
  <2> QED BY <1>13, <2>1, <2>2 DEF StealStep
<1>14. CASE UNCHANGED vars
  BY <1>3, <1>14 DEF vars
<1> QED BY <1>4, <1>5, <1>6, <1>7, <1>8, <1>9, <1>10, <1>11, <1>12, <1>13, <1>14, Externals DEF Next

(* What it saw then: a tail at the head it had read, so nothing between.   *)
LEMMA EmptyWhenGivenUp ==
  ASSUME QueueInv, RingInv, NEW t \in Threads, StealTail(t), pc'[t] = "out"
  PROVE  Buffered(victim[t]) = {}
<1>1. RingTypes /\ PosInv
  BY DEF RingInv
<1>2. pc[t] = "look" /\ Back(victim[t]) = Saw(t)
  BY <1>1, StealTailPos
<1>3. /\ victim[t] \in Threads /\ Saw(t) \in Nat
      /\ Front(victim[t]) \in Nat /\ Saw(t) =< Front(victim[t])
      /\ Front(victim[t]) =< Back(victim[t])
  BY <1>1, <1>2, Victim
<1>4. Buffered(victim[t]) =
        {Entry(victim[t], Front(victim[t]) + i) :
           i \in 0..(Back(victim[t]) - Front(victim[t]) - 1)}
  BY <1>1, <1>3, BufferedIs
<1>5. 0..(Back(victim[t]) - Front(victim[t]) - 1) = {}
  BY <1>2, <1>3
<1> QED BY <1>4, <1>5

(* Whatever order threads push, pop, consume, migrate and steal in, each   *)
(* buffer holds what its indices say, which was scheduled, no task twice,  *)
(* none that another buffer holds and never more than fits, and the        *)
(* assertions on sizes in Node.Buffer hold.                                *)
THEOREM RingsAlways == Spec => []Rings
BY QueueInitInv, QueueNextInv, RingInit, RingNext, RingsHold, PTL DEF Spec

(* A thief leaves a victim only when the victim's buffer is empty, though  *)
(* it read the head before the tail and both may have moved in between.    *)
THEOREM GivesUpRight == Spec => GivesUpOnEmpty
<1>1. QueueInv /\ RingInv /\ [Next]_vars
        => [\A t \in Threads : pc[t] = "look" /\ pc'[t] = "out" => Buffered(victim[t]) = {}]_vars
  <2> SUFFICES ASSUME QueueInv, RingInv, [Next]_vars
               PROVE  [\A t \in Threads : pc[t] = "look" /\ pc'[t] = "out"
                                            => Buffered(victim[t]) = {}]_vars
    OBVIOUS
  <2>1. ASSUME NEW t \in Threads, pc[t] = "look", pc'[t] = "out"
        PROVE  Buffered(victim[t]) = {}
    BY <2>1, OnlyStealTail, EmptyWhenGivenUp
  <2> QED BY <2>1
<1> QED BY <1>1, QueueInitInv, QueueNextInv, RingInit, RingNext, PTL DEF Spec, GivesUpOnEmpty
=============================================================================

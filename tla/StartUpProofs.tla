---------------------------- MODULE StartUpProofs ----------------------------
(***************************************************************************)
(* The safety of StartUp for any amount of audio, asked for in pieces of   *)
(* any length, any number of failed writes and of queued draws: the latch, *)
(* the event loop that two threads create, and the order of the audio.     *)
(***************************************************************************)
EXTENDS StartUp, SequenceTheorems, TLAPS

(***************************************************************************)
(* Sequences of numbers                                                    *)
(***************************************************************************)
Audio == Seq(Nat)

LEMMA NumbersType ==
  ASSUME NEW m \in Nat, NEW n \in Nat, m =< n
  PROVE  /\ Numbers(m, n) \in Audio
         /\ Len(Numbers(m, n)) = n - m
         /\ \A i \in 1..(n - m) : Numbers(m, n)[i] = m + i
BY DEF Numbers, Audio

LEMMA NumbersConcat ==
  ASSUME NEW m \in Nat, NEW n \in Nat
  PROVE  Numbers(0, m) \o Numbers(m, m + n) = Numbers(0, m + n)
<1> DEFINE a == Numbers(0, m)
           b == Numbers(m, m + n)
           c == Numbers(0, m + n)
<1>1. /\ a \in Seq(Nat) /\ Len(a) = m /\ \A i \in 1..m : a[i] = i
      /\ b \in Seq(Nat) /\ Len(b) = n /\ \A i \in 1..n : b[i] = m + i
      /\ c \in Seq(Nat) /\ Len(c) = m + n /\ \A i \in 1..(m + n) : c[i] = i
  <2>1. m \in Nat /\ 0 =< m /\ m + n \in Nat /\ m =< m + n /\ 0 =< m + n
    OBVIOUS
  <2>2. a \in Seq(Nat) /\ Len(a) = m /\ \A i \in 1..m : a[i] = i
    BY <2>1, NumbersType DEF Audio
  <2>3. b \in Seq(Nat) /\ Len(b) = n /\ \A i \in 1..n : b[i] = m + i
    BY <2>1, NumbersType DEF Audio
  <2>4. c \in Seq(Nat) /\ Len(c) = m + n /\ \A i \in 1..(m + n) : c[i] = i
    BY <2>1, NumbersType DEF Audio
  <2> QED
    BY <2>2, <2>3, <2>4
<1> HIDE DEF a, b, c
<1>2. /\ a \o b \in Seq(Nat) /\ Len(a \o b) = m + n
      /\ \A i \in 1..(m + n) : (a \o b)[i] = IF i <= m THEN a[i] ELSE b[i - m]
  BY <1>1, ConcatProperties
<1>3. ASSUME NEW i \in 1..(m + n) PROVE (a \o b)[i] = c[i]
  <2>1. CASE i <= m
    BY <1>1, <1>2, <2>1
  <2>2. CASE ~(i <= m)
    <3>1. i - m \in 1..n
      BY <2>2
    <3> QED
      BY <1>1, <1>2, <2>2, <3>1
  <2> QED
    BY <2>1, <2>2
<1>4. a \o b = c
  BY <1>1, <1>2, <1>3, SeqEqual
<1> QED
  BY <1>4 DEF a, b, c

LEMMA AudioAssociative ==
  \A s, t, u \in Seq(Nat) : (s \o t) \o u = s \o (t \o u)
BY SMTT(60)

LEMMA SilenceType ==
  ASSUME NEW n \in Nat
  PROVE  Silence(n) \in Audio
BY DEF Silence, Audio

(* What was taken and what is left make up the whole.                      *)
LEMMA TakeDrop ==
  ASSUME NEW s \in Audio, NEW c \in 0..Len(s)
  PROVE  /\ SubSeq(s, 1, c) \in Audio
         /\ SubSeq(s, c + 1, Len(s)) \in Audio
         /\ SubSeq(s, 1, c) \o SubSeq(s, c + 1, Len(s)) = s
<1>1. SubSeq(s, 1, c) \in Audio /\ SubSeq(s, c + 1, Len(s)) \in Audio
  <2>1. \A i \in 1..c : s[i] \in Nat
    BY DEF Audio
  <2>2. \A i \in (c + 1)..Len(s) : s[i] \in Nat
    BY DEF Audio
  <2> QED
    BY <2>1, <2>2, SubSeqProperties, Len(s) \in Nat DEF Audio
<1>2. SubSeq(s, 1, c) \o SubSeq(s, c + 1, Len(s)) = SubSeq(s, 1, Len(s))
  <2>1. /\ s \in Seq(Nat) /\ 1 \in 1..Len(s) + 1
        /\ c \in 1 - 1..Len(s) /\ Len(s) \in c..Len(s)
    BY DEF Audio
  <2> QED
    BY <2>1, ConcatAdjacentSubSeq
<1> QED
  BY <1>1, <1>2, SubSeqFull DEF Audio

(* Audio that arrives behind the first c bytes leaves them as they are.    *)
LEMMA Arrives ==
  ASSUME NEW s \in Audio, NEW t \in Audio, NEW c \in 0..Len(s)
  PROVE  /\ SubSeq(s \o t, 1, c) = SubSeq(s, 1, c)
         /\ SubSeq(s \o t, c + 1, Len(s \o t)) = SubSeq(s, c + 1, Len(s)) \o t
<1> DEFINE w == s \o t
<1>1. /\ w \in Seq(Nat) /\ Len(w) = Len(s) + Len(t) /\ Len(s) \in Nat /\ Len(t) \in Nat
      /\ \A i \in 1..(Len(s) + Len(t)) : w[i] = IF i <= Len(s) THEN s[i] ELSE t[i - Len(s)]
  BY ConcatProperties DEF Audio
<1> HIDE DEF w
<1>2. /\ \A i \in 1..c : w[i] \in Nat /\ s[i] \in Nat
      /\ \A i \in (c + 1)..Len(w) : w[i] \in Nat
      /\ \A i \in (c + 1)..Len(s) : s[i] \in Nat
  <2>1. /\ \A i \in 1..Len(s) : s[i] \in Nat
        /\ \A i \in 1..Len(w) : w[i] \in Nat
    BY <1>1, ElementOfSeq DEF Audio
  <2> QED
    BY <1>1, <2>1
<1>3. SubSeq(w, 1, c) = SubSeq(s, 1, c)
  <2>1. /\ SubSeq(w, 1, c) \in Seq(Nat) /\ Len(SubSeq(w, 1, c)) = c
        /\ \A i \in 1..c : SubSeq(w, 1, c)[i] = w[i]
    BY <1>2, SubSeqProperties
  <2>2. /\ SubSeq(s, 1, c) \in Seq(Nat) /\ Len(SubSeq(s, 1, c)) = c
        /\ \A i \in 1..c : SubSeq(s, 1, c)[i] = s[i]
    BY <1>2, SubSeqProperties
  <2>3. \A i \in 1..c : w[i] = s[i]
    BY <1>1
  <2> QED
    BY <2>1, <2>2, <2>3, SeqEqual
<1>4. SubSeq(w, c + 1, Len(w)) = SubSeq(s, c + 1, Len(s)) \o t
  <2> DEFINE d == SubSeq(w, c + 1, Len(w))
             e == SubSeq(s, c + 1, Len(s))
             k == Len(s) - c
  <2>1. /\ d \in Seq(Nat) /\ Len(d) = k + Len(t)
        /\ \A i \in 1..(k + Len(t)) : d[i] = w[c + i]
    BY <1>1, <1>2, SubSeqProperties
  <2>2. /\ e \in Seq(Nat) /\ Len(e) = k
        /\ \A i \in 1..k : e[i] = s[c + i]
    BY <1>1, <1>2, SubSeqProperties
  <2> HIDE DEF d, e
  <2>3. /\ e \o t \in Seq(Nat) /\ Len(e \o t) = k + Len(t)
        /\ \A i \in 1..(k + Len(t)) : (e \o t)[i] = IF i <= k THEN e[i] ELSE t[i - k]
    <3>1. e \in Seq(Nat) /\ t \in Seq(Nat)
      BY <2>2 DEF Audio
    <3>2. /\ e \o t \in Seq(Nat) /\ Len(e \o t) = Len(e) + Len(t)
          /\ \A i \in 1..(Len(e) + Len(t)) :
                (e \o t)[i] = IF i <= Len(e) THEN e[i] ELSE t[i - Len(e)]
      BY <3>1, ConcatProperties
    <3> QED
      BY <2>2, <3>2
  <2>4. ASSUME NEW i \in 1..(k + Len(t)) PROVE d[i] = (e \o t)[i]
    <3>1. c + i \in 1..(Len(s) + Len(t))
      BY <1>1
    <3>2. /\ d[i] = w[c + i]
          /\ (e \o t)[i] = IF i <= k THEN e[i] ELSE t[i - k]
          /\ w[c + i] = IF c + i <= Len(s) THEN s[c + i] ELSE t[(c + i) - Len(s)]
      BY <1>1, <2>1, <2>3, <3>1
    <3>3. CASE i <= k
      <4>1. c + i <= Len(s) /\ i \in 1..k
        BY <1>1, <3>3
      <4> QED
        BY <2>2, <3>2, <3>3, <4>1
    <3>4. CASE ~(i <= k)
      <4>1. (c + i) - Len(s) = i - k /\ ~(c + i <= Len(s))
        BY <1>1, <3>4
      <4> QED
        BY <3>2, <3>4, <4>1
    <3> QED
      BY <3>3, <3>4
  <2>5. d = e \o t
    BY <2>1, <2>3, <2>4, SeqEqual
  <2> QED
    BY <2>5 DEF d, e
<1> QED
  BY <1>3, <1>4 DEF w

(***************************************************************************)
(* The player                                                              *)
(***************************************************************************)
PlayerType ==
  /\ buffer \in Audio /\ played \in Audio /\ chunk \in Audio
  /\ received \in Nat /\ length \in Nat /\ bufferSize \in Nat
  /\ wpc \in {"out", "copy", "write", "erase"}
  /\ wpc = "erase" => bufferSize > 0

PlayerInv == PlayerType /\ StillThere /\ InOrder

PlayerNext == \/ \E n \in 1..MaxBytes : Write(n)
              \/ \E n \in 1..MaxLength : Look(n)
              \/ WriteCallback \/ StreamWriteFails

LEMMA ChunkSize ==
  ASSUME PlayerType
  PROVE  chunkSize \in Nat
BY DEF PlayerType, chunkSize

LEMMA PlayerInitInv == PlayerInit => PlayerInv
<1> SUFFICES ASSUME PlayerInit PROVE PlayerInv
  OBVIOUS
<1>1. <<>> \in Audio /\ Len(<<>>) = 0
  BY DEF Audio
<1>2. PlayerType /\ StillThere
  BY <1>1 DEF PlayerInit, PlayerType, StillThere
<1>3. Numbers(0, 0) = <<>>
  BY NumbersType, EmptySeq DEF Audio
<1>4. InOrder
  BY <1>1, <1>3, ConcatEmptySeq DEF PlayerInit, InOrder, Audio
<1> QED
  BY <1>2, <1>4 DEF PlayerInv

(* Audio arrives, at any point of a callback.                              *)
LEMMA WriteInv ==
  ASSUME PlayerInv, NEW n \in 1..MaxBytes, Write(n)
  PROVE  PlayerInv'
<1> DEFINE data == Numbers(received, received + n)
<1>1. n \in Nat /\ received \in Nat /\ received + n \in Nat /\ chunkSize \in Nat
  BY PlayerAssumption, ChunkSize DEF PlayerInv, PlayerType
<1>2. data \in Audio /\ Len(data) = n
  <2>1. received =< received + n /\ (received + n) - received = n
    BY <1>1
  <2> QED
    BY <1>1, <2>1, NumbersType
<1>3. /\ buffer' = buffer \o data /\ received' = received + n
      /\ UNCHANGED <<played, wpc, length, bufferSize, chunk>>
  BY DEF Write, callVars
<1>4. chunkSize' = chunkSize
  BY <1>3 DEF chunkSize
<1> HIDE DEF data
<1>5. buffer' \in Audio /\ Len(buffer') = Len(buffer) + n
  BY <1>2, <1>3, ConcatProperties DEF PlayerInv, PlayerType, Audio
<1>6. PlayerType'
  BY <1>1, <1>3, <1>5 DEF PlayerInv, PlayerType
<1>7. Len(buffer) \in Nat
  BY DEF PlayerInv, PlayerType, Audio
<1>8. StillThere'
  <2> SUFFICES ASSUME wpc \in {"copy", "write", "erase"}, bufferSize > 0
               PROVE  /\ Len(buffer') >= chunkSize
                      /\ wpc # "copy" => chunk = SubSeq(buffer', 1, chunkSize)
    BY <1>3, <1>4 DEF StillThere
  <2>1. chunkSize \in 0..Len(buffer)
    BY <1>1, <1>7 DEF PlayerInv, StillThere
  <2>2. SubSeq(buffer', 1, chunkSize) = SubSeq(buffer, 1, chunkSize)
    BY <1>2, <1>3, <2>1, Arrives DEF PlayerInv, PlayerType
  <2> QED
    BY <1>1, <1>5, <1>7, <2>1, <2>2 DEF PlayerInv, StillThere
<1>9. InOrder'
  <2> DEFINE left == IF wpc = "erase" THEN SubSeq(buffer, chunkSize + 1, Len(buffer))
                     ELSE buffer
  <2>1. left' = left \o data
    <3>1. CASE wpc = "erase"
      <4>1. chunkSize \in 0..Len(buffer)
        BY <1>1, <1>7, <3>1 DEF PlayerInv, PlayerType, StillThere
      <4> QED
        BY <1>2, <1>3, <1>4, <3>1, <4>1, Arrives DEF PlayerInv, PlayerType
    <3>2. CASE wpc # "erase"
      BY <1>3, <3>2
    <3> QED
      BY <3>1, <3>2
  <2>2. left \in Audio
    <3>1. CASE wpc = "erase"
      <4>1. chunkSize \in 0..Len(buffer)
        BY <1>1, <1>7, <3>1 DEF PlayerInv, PlayerType, StillThere
      <4> QED
        BY <3>1, <4>1, TakeDrop DEF PlayerInv, PlayerType
    <3> QED
      BY <3>1 DEF PlayerInv, PlayerType
  <2>3. played \o left = Numbers(0, received)
    BY DEF PlayerInv, InOrder
  <2> HIDE DEF left
  <2>4. played \o (left \o data) = (played \o left) \o data
    <3>1. played \in Seq(Nat) /\ left \in Seq(Nat) /\ data \in Seq(Nat)
      BY <1>2, <2>2 DEF PlayerInv, PlayerType, Audio
    <3> QED
      BY <3>1, AudioAssociative
  <2>5. (played \o left) \o data = Numbers(0, received + n)
    BY <1>1, <2>3, NumbersConcat DEF data
  <2>6. (played \o left)' = Numbers(0, received)'
    BY <1>3, <2>1, <2>4, <2>5 DEF Numbers
  <2> QED
    BY <2>6 DEF InOrder, left
<1> QED
  BY <1>6, <1>8, <1>9 DEF PlayerInv

(* The callback asks how much there is.                                    *)
LEMMA LookInv ==
  ASSUME PlayerInv, NEW n \in 1..MaxLength, Look(n)
  PROVE  PlayerInv'
<1>1. /\ wpc = "out" /\ wpc' = "copy" /\ length' = n /\ bufferSize' = Len(buffer)
      /\ UNCHANGED <<buffer, received, played, chunk>>
  BY DEF Look
<1>2. Len(buffer) \in Nat /\ n \in Nat
  BY PlayerAssumption DEF PlayerInv, PlayerType, Audio
<1>3. PlayerType'
  BY <1>1, <1>2 DEF PlayerInv, PlayerType
<1>4. StillThere'
  BY <1>1, <1>2 DEF StillThere, chunkSize
<1>5. InOrder'
  BY <1>1 DEF PlayerInv, InOrder, Numbers
<1> QED
  BY <1>3, <1>4, <1>5 DEF PlayerInv

LEMMA CopyInv ==
  ASSUME PlayerInv, Copy
  PROVE  PlayerInv'
<1>1. /\ wpc = "copy" /\ wpc' = "write"
      /\ UNCHANGED <<buffer, received, played, length, bufferSize>>
  BY DEF Copy
<1>2. chunkSize' = chunkSize /\ chunkSize \in Nat /\ Len(buffer) \in Nat
  BY <1>1, ChunkSize DEF chunkSize, PlayerInv, PlayerType, Audio
<1>3. CASE bufferSize > 0
  <2>1. Len(buffer) >= chunkSize /\ chunk' = SubSeq(buffer, 1, chunkSize)
    BY <1>1, <1>3 DEF PlayerInv, StillThere, Copy
  <2>2. chunk' \in Audio
    <3>1. chunkSize \in 0..Len(buffer)
      BY <1>2, <2>1
    <3> QED
      BY <2>1, <3>1, TakeDrop DEF PlayerInv, PlayerType
  <2>3. PlayerType' /\ StillThere'
    BY <1>1, <1>2, <2>1, <2>2 DEF PlayerInv, PlayerType, StillThere
  <2> QED
    BY <1>1, <2>3 DEF PlayerInv, InOrder, Numbers
<1>4. CASE ~(bufferSize > 0)
  <2>1. chunk' \in Audio
    BY <1>2, <1>4, SilenceType DEF Copy
  <2>2. PlayerType' /\ StillThere'
    BY <1>1, <1>4, <2>1 DEF PlayerInv, PlayerType, StillThere
  <2> QED
    BY <1>1, <2>2 DEF PlayerInv, InOrder, Numbers
<1> QED
  BY <1>3, <1>4

(* What is written is what is left to be played, up to the chunk's size.   *)
LEMMA StreamWriteInv ==
  ASSUME PlayerInv, StreamWrite
  PROVE  PlayerInv'
<1>1. /\ wpc = "write"
      /\ UNCHANGED <<buffer, received, length, bufferSize, chunk>>
  BY DEF StreamWrite, callVars
<1>2. /\ chunkSize' = chunkSize /\ chunkSize \in Nat /\ Len(buffer) \in Nat
      /\ Numbers(0, received)' = Numbers(0, received)
  BY <1>1, ChunkSize DEF chunkSize, PlayerInv, PlayerType, Audio, Numbers
<1>3. CASE bufferSize > 0
  <2> DEFINE rest == SubSeq(buffer, chunkSize + 1, Len(buffer))
  <2>1. wpc' = "erase" /\ played' = played \o chunk
    BY <1>3 DEF StreamWrite
  <2>2. chunkSize \in 0..Len(buffer) /\ chunk = SubSeq(buffer, 1, chunkSize)
    BY <1>1, <1>2, <1>3 DEF PlayerInv, StillThere
  <2>3. chunk \in Seq(Nat) /\ rest \in Seq(Nat) /\ chunk \o rest = buffer
    BY <2>2, TakeDrop DEF PlayerInv, PlayerType, Audio
  <2>4. rest' = rest
    BY <1>1, <1>2
  <2> HIDE DEF rest
  <2>5. played \in Seq(Nat) /\ played \o chunk \in Seq(Nat)
    BY <2>3, ConcatProperties DEF PlayerInv, PlayerType, Audio
  <2>6. PlayerType'
    BY <1>1, <1>3, <2>1, <2>5 DEF PlayerInv, PlayerType, Audio
  <2>7. StillThere'
    BY <1>1, <1>2, <1>3, <2>1, <2>2 DEF PlayerInv, StillThere
  <2>8. (played \o chunk) \o rest = played \o buffer
    BY <2>3, <2>5, AudioAssociative
  <2>9. played \o buffer = Numbers(0, received)
    BY <1>1 DEF PlayerInv, InOrder
  <2>10. (played \o rest)' = Numbers(0, received)'
    BY <1>2, <2>1, <2>4, <2>8, <2>9
  <2> QED
    BY <2>1, <2>6, <2>7, <2>10 DEF PlayerInv, InOrder, rest
<1>4. CASE ~(bufferSize > 0)
  <2>1. wpc' = "out" /\ played' = played
    BY <1>4 DEF StreamWrite
  <2>2. PlayerType' /\ StillThere'
    BY <1>1, <2>1 DEF PlayerInv, PlayerType, StillThere
  <2> QED
    BY <1>1, <1>2, <2>1, <2>2 DEF PlayerInv, InOrder
<1> QED
  BY <1>3, <1>4

LEMMA EraseInv ==
  ASSUME PlayerInv, Erase
  PROVE  PlayerInv'
<1>1. /\ wpc = "erase" /\ wpc' = "out"
      /\ buffer' = SubSeq(buffer, chunkSize + 1, Len(buffer))
      /\ UNCHANGED <<received, played, length, bufferSize, chunk>>
  BY DEF Erase, callVars
<1>2. chunkSize \in 0..Len(buffer)
  <2>1. chunkSize \in Nat /\ Len(buffer) \in Nat
    BY ChunkSize DEF PlayerInv, PlayerType, Audio
  <2> QED
    BY <1>1, <2>1 DEF PlayerInv, PlayerType, StillThere
<1>3. buffer' \in Audio
  BY <1>1, <1>2, TakeDrop DEF PlayerInv, PlayerType
<1>4. PlayerType' /\ StillThere'
  BY <1>1, <1>3 DEF PlayerInv, PlayerType, StillThere
<1> QED
  BY <1>1, <1>4 DEF PlayerInv, InOrder, Numbers

LEMMA StreamWriteFailsInv ==
  ASSUME PlayerInv, StreamWriteFails
  PROVE  PlayerInv'
<1>1. /\ wpc = "write" /\ wpc' = "out"
      /\ UNCHANGED <<buffer, received, played, length, bufferSize, chunk>>
  BY DEF StreamWriteFails, callVars
<1>2. PlayerType' /\ StillThere'
  BY <1>1 DEF PlayerInv, PlayerType, StillThere
<1> QED
  BY <1>1, <1>2 DEF PlayerInv, InOrder, Numbers

LEMMA PlayerNextInv == PlayerInv /\ [PlayerNext]_playerVars => PlayerInv'
<1> SUFFICES ASSUME PlayerInv, [PlayerNext]_playerVars PROVE PlayerInv'
  OBVIOUS
<1>1. CASE UNCHANGED playerVars
  <2>1. UNCHANGED <<buffer, received, played, wpc, length, bufferSize, chunk>>
    BY <1>1 DEF playerVars
  <2> QED
    BY <2>1 DEF PlayerInv, PlayerType, StillThere, InOrder, chunkSize, Numbers
<1> QED
  BY <1>1, WriteInv, LookInv, CopyInv, StreamWriteInv, EraseInv, StreamWriteFailsInv
  DEF PlayerNext, WriteCallback

(***************************************************************************)
(* The event loop                                                          *)
(***************************************************************************)
LoopType == /\ created \in Nat /\ queued \in Nat
            /\ loaded \in BOOLEAN /\ raced \in BOOLEAN
            /\ unmade \in BOOLEAN /\ lost \in BOOLEAN

(* Neither thread is in get() before it is started.                        *)
NotYet == /\ main = "frames" => gpc[Vsync] = "off"
          /\ main # "loop" => gpc[Main] = "off"

Making(u) == gpc[u] \in {"set", "create"}

(* While no two calls have met, one thread at most makes the loop, and     *)
(* nobody uses it before it is made.                                       *)
MadeByOne ==
  /\ ~unmade /\ ~lost /\ created \in {0, 1}
  /\ \A u, v \in Users : Making(u) /\ Making(v) => u = v
  /\ \A u \in Users : /\ gpc[u] = "set" => ~loaded
                      /\ gpc[u] = "create" => loaded /\ created = 0
                      /\ gpc[u] = "use" => created = 1
  /\ loaded => created = 1 \/ \E u \in Users : gpc[u] = "create"
  /\ ~loaded => created = 0
  /\ created = 0 => queued = 0

GpcType == gpc \in [Users -> {"off", "sleep", "load", "set", "create", "use"}]

LoopInv == LoopType /\ GpcType /\ NotYet /\ (~raced => MadeByOne)

LEMMA GetLoadInv ==
  ASSUME LoopInv, NEW u \in Users, GetLoad(u)
  PROVE  LoopInv'
<1>1. /\ gpc[u] = "load"
      /\ gpc' = [gpc EXCEPT ![u] = IF loaded THEN "use" ELSE "set"]
      /\ raced' = (raced \/ \E v \in Users \ {u} : gpc[v] \in {"set", "create"})
      /\ UNCHANGED <<main, loaded, created, queued, unmade, lost>>
  BY DEF GetLoad, appVars
<1>2. LoopType' /\ GpcType' /\ NotYet'
  BY <1>1 DEF LoopInv, LoopType, GpcType, NotYet, Users
<1>3. ASSUME ~raced' PROVE MadeByOne'
  <2>1. MadeByOne /\ \A v \in Users : ~Making(v)
    BY <1>1, <1>3 DEF LoopInv, LoopType, Making
  <2>2. loaded => created = 1
    BY <2>1 DEF MadeByOne, Making
  <2>3. \A v \in Users \ {u} : gpc'[v] = gpc[v]
    BY <1>1 DEF LoopInv, GpcType
  <2>4. gpc'[u] = IF loaded THEN "use" ELSE "set"
    BY <1>1 DEF LoopInv, GpcType
  <2>5. \A v \in Users : Making(v)' => v = u
    BY <2>1, <2>3 DEF Making
  <2> QED
    BY <1>1, <2>1, <2>2, <2>3, <2>4, <2>5 DEF MadeByOne, Making
<1> QED
  BY <1>2, <1>3 DEF LoopInv

LEMMA GetSetInv ==
  ASSUME LoopInv, NEW u \in Users, GetSet(u)
  PROVE  LoopInv'
<1>1. /\ gpc[u] = "set" /\ gpc' = [gpc EXCEPT ![u] = "create"] /\ loaded' = TRUE
      /\ UNCHANGED <<main, created, queued, unmade, lost, raced>>
  BY DEF GetSet, appVars
<1>2. LoopType' /\ GpcType' /\ NotYet'
  BY <1>1 DEF LoopInv, LoopType, GpcType, NotYet, Users
<1>3. gpc'[u] = "create" /\ \A v \in Users \ {u} : gpc'[v] = gpc[v]
  BY <1>1 DEF LoopInv, GpcType
<1>4. ASSUME ~raced' PROVE MadeByOne'
  BY <1>1, <1>3, <1>4 DEF LoopInv, MadeByOne, Making
<1> QED
  BY <1>2, <1>4 DEF LoopInv

LEMMA GetCreateInv ==
  ASSUME LoopInv, NEW u \in Users, GetCreate(u)
  PROVE  LoopInv'
<1>1. /\ gpc[u] = "create" /\ gpc' = [gpc EXCEPT ![u] = "use"]
      /\ created' = created + 1 /\ queued' = 0 /\ lost' = (lost \/ queued > 0)
      /\ UNCHANGED <<main, loaded, unmade, raced>>
  BY DEF GetCreate, appVars
<1>2. LoopType' /\ GpcType' /\ NotYet'
  BY <1>1 DEF LoopInv, LoopType, GpcType, NotYet, Users
<1>3. gpc'[u] = "use" /\ \A v \in Users \ {u} : gpc'[v] = gpc[v]
  BY <1>1 DEF LoopInv, GpcType
<1>4. ASSUME ~raced' PROVE MadeByOne'
  <2>1. MadeByOne /\ loaded /\ created = 0 /\ queued = 0
    BY <1>1, <1>4 DEF LoopInv, MadeByOne
  <2>2. ~unmade' /\ ~lost'
    BY <1>1, <2>1 DEF MadeByOne, LoopInv, LoopType
  <2>3. created' = 1 /\ loaded'
    BY <1>1, <2>1
  <2>4. \A v \in Users : ~Making(v)'
    <3>1. \A v \in Users \ {u} : ~Making(v)
      BY <1>1, <2>1 DEF MadeByOne, Making
    <3> QED
      BY <1>3, <3>1 DEF Making
  <2> QED
    BY <1>1, <1>3, <2>1, <2>2, <2>3, <2>4 DEF MadeByOne, Making
<1> QED
  BY <1>2, <1>4 DEF LoopInv

(* Getting to get(): the vsync thread and the main thread are started, and *)
(* the timer.                                                              *)
LEMMA ArriveInv ==
  ASSUME LoopInv, FramesStart \/ EyesIdle \/ VsyncTimer
  PROVE  LoopInv'
<1>1. UNCHANGED <<loaded, created, queued, unmade, lost, raced>>
  BY DEF FramesStart, EyesIdle, VsyncTimer, MainFrame
<1>2. PICK u \in Users, s \in {"sleep", "load"} :
        gpc[u] \in {"off", "sleep"} /\ gpc' = [gpc EXCEPT ![u] = s]
  BY DEF FramesStart, EyesIdle, VsyncTimer, MainGoto, LoopInv, NotYet, Users
<1>3. LoopType' /\ GpcType'
  BY <1>1, <1>2 DEF LoopInv, LoopType, GpcType
<1>4. NotYet'
  BY StartUpAssumption
  DEF FramesStart, EyesIdle, VsyncTimer, MainGoto, LoopInv, NotYet, GpcType, Users, appVars
<1>5. gpc'[u] = s /\ \A v \in Users \ {u} : gpc'[v] = gpc[v]
  BY <1>2 DEF LoopInv, GpcType
<1>6. ASSUME ~raced' PROVE MadeByOne'
  BY <1>1, <1>2, <1>5, <1>6 DEF LoopInv, MadeByOne, Making
<1> QED
  BY <1>3, <1>4, <1>6 DEF LoopInv

LEMMA UseInv ==
  ASSUME LoopInv, Enqueue \/ Draw
  PROVE  LoopInv'
<1>1. CASE Enqueue
  <2>1. /\ gpc[Vsync] = "use" /\ gpc' = [gpc EXCEPT ![Vsync] = "sleep"]
        /\ unmade' = (unmade \/ created = 0) /\ queued' = queued + 1
        /\ UNCHANGED <<main, loaded, created, lost, raced>>
    BY <1>1 DEF Enqueue, appVars
  <2>2. gpc'[Vsync] = "sleep" /\ \A v \in Users \ {Vsync} : gpc'[v] = gpc[v]
    BY <2>1 DEF LoopInv, GpcType, Users
  <2>3. LoopType' /\ GpcType' /\ NotYet'
    BY <2>1, StartUpAssumption DEF LoopInv, LoopType, GpcType, NotYet, Users
  <2>4. ASSUME ~raced' PROVE MadeByOne'
    <3>1. MadeByOne /\ created = 1
      BY <2>1, <2>4 DEF LoopInv, MadeByOne, Users
    <3>2. ~unmade' /\ ~lost'
      BY <2>1, <3>1 DEF MadeByOne, LoopInv, LoopType
    <3>3. created' = 1
      BY <2>1, <3>1
    <3>4. \A v \in Users : Making(v)' => Making(v)
      BY <2>2 DEF Making
    <3> QED
      BY <2>1, <2>2, <3>1, <3>2, <3>3, <3>4 DEF MadeByOne
  <2> QED
    BY <2>3, <2>4 DEF LoopInv
<1>2. CASE Draw
  <2>1. /\ gpc[Main] = "use" /\ queued > 0 /\ queued' = queued - 1
        /\ unmade' = (unmade \/ created = 0)
        /\ UNCHANGED <<main, loaded, created, gpc, lost, raced>>
    BY <1>2 DEF Draw, appVars
  <2>2. LoopType' /\ GpcType' /\ NotYet'
    BY <2>1 DEF LoopInv, LoopType, GpcType, NotYet
  <2>3. ASSUME ~raced' PROVE MadeByOne'
    <3>1. MadeByOne /\ created = 1
      BY <2>1, <2>3 DEF LoopInv, MadeByOne, Users
    <3>2. ~unmade' /\ ~lost'
      BY <2>1, <3>1 DEF MadeByOne, LoopInv, LoopType
    <3>3. created' = 1
      BY <2>1, <3>1
    <3> QED
      BY <2>1, <3>1, <3>2, <3>3 DEF MadeByOne, Making
  <2> QED
    BY <2>2, <2>3 DEF LoopInv
<1> QED
  BY <1>1, <1>2

(***************************************************************************)
(* The whole program                                                       *)
(***************************************************************************)
Waits == /\ main \in {"frames", "net", "media"} => context = "none"
         /\ crashed \in BOOLEAN /\ greeted \in BOOLEAN

Inv == PlayerInv /\ IInv /\ Waits /\ LoopInv /\ OnlyGreetingCrashes

LEMMA InitInv == Init => Inv
<1> SUFFICES ASSUME Init PROVE Inv
  OBVIOUS
<1>1. PlayerInv
  BY PlayerInitInv DEF Init
<1>2. gpc = [u \in Users |-> "off"] /\ Main \in Users /\ Vsync \in Users
  BY DEF Init, Users
<1>3. IInv
  <2>1. gpc \in [Users -> {"off", "sleep", "load", "set", "create", "use"}]
    BY <1>2
  <2>2. TypeOK
    <3>1. /\ main = "frames" /\ context = "none" /\ pulse = "out" /\ count = 2
          /\ recorder = FALSE /\ player = FALSE /\ stream = "none" /\ button = "off"
      BY DEF Init
    <3>2. count \in 0..2
      BY <3>1
    <3>3. recorder \in BOOLEAN /\ player \in BOOLEAN
      BY <3>1
    <3> QED
      BY <2>1, <3>1, <3>2, <3>3 DEF TypeOK
  <2>3. Made
    BY DEF Init, Made, AfterLatch
  <2> QED
    BY <2>2, <2>3 DEF IInv
<1>4. LoopInv
  BY <1>2 DEF Init, LoopInv, LoopType, GpcType, NotYet, MadeByOne, Making
<1> QED
  BY <1>1, <1>3, <1>4 DEF Init, Inv, Waits, OnlyGreetingCrashes

(* What a step that does not touch a part leaves of it.                    *)
LEMMA PlayerKept ==
  ASSUME PlayerInv, UNCHANGED playerVars
  PROVE  PlayerInv'
BY PlayerNextInv

LEMMA LoopKept ==
  ASSUME LoopInv, UNCHANGED loopVars, NotYet'
  PROVE  LoopInv'
<1>1. UNCHANGED <<loaded, created, queued, gpc, unmade, lost, raced>>
  BY DEF loopVars
<1> QED
  BY <1>1 DEF LoopInv, LoopType, GpcType, MadeByOne, Making

(* The steps of the event loop and its users.                              *)
LEMMA LoopStepInv ==
  ASSUME Inv, Get(Main) \/ Get(Vsync) \/ VsyncTimer \/ Enqueue \/ Draw
  PROVE  Inv'
<1>1. /\ UNCHANGED playerVars
      /\ UNCHANGED <<main, context, pulse, count, recorder, player, stream, button,
                     crashed, greeted>>
  BY DEF Get, GetLoad, GetSet, GetCreate, VsyncTimer, Enqueue, Draw, appVars,
         mediaVars, netVars
<1>2. LoopInv'
  BY GetLoadInv, GetSetInv, GetCreateInv, ArriveInv, UseInv DEF Get, Inv, Users
<1>3. IInv'
  BY <1>1, <1>2 DEF Inv, IInv, TypeOK, Made, AfterLatch, LoopInv, GpcType
<1> QED
  BY <1>1, <1>2, <1>3, PlayerKept DEF Inv, Waits, OnlyGreetingCrashes

(* App.run() goes on.                                                      *)
LEMMA RunInv ==
  ASSUME Inv, ~crashed,
         FramesStart \/ NetStart \/ MediaStart \/ Await \/ SpuriousWake
         \/ ButtonsStart \/ MicPrepare \/ EyesIdle
  PROVE  Inv'
<1>1. /\ UNCHANGED playerVars
      /\ UNCHANGED <<pulse, count, recorder, player, stream, greeted>>
      /\ UNCHANGED <<loaded, created, queued, unmade, lost, raced>>
  BY DEF FramesStart, NetStart, MediaStart, Await, SpuriousWake, ButtonsStart,
         MicPrepare, EyesIdle, MainFrame, mediaVars
<1>2. LoopInv'
  <2>1. CASE FramesStart \/ EyesIdle
    BY <2>1, ArriveInv DEF Inv
  <2>2. CASE NetStart \/ MediaStart \/ Await \/ SpuriousWake \/ ButtonsStart \/ MicPrepare
    <3>1. UNCHANGED loopVars
      BY <1>1, <2>2 DEF NetStart, MediaStart, Await, SpuriousWake, ButtonsStart,
                        MicPrepare, loopVars
    <3>2. NotYet'
      BY <2>2 DEF NetStart, MediaStart, Await, SpuriousWake, ButtonsStart, MicPrepare,
                  MainGoto, Inv, LoopInv, NotYet
    <3> QED
      BY <3>1, <3>2, LoopKept DEF Inv
  <2> QED
    BY <2>1, <2>2
<1>3. IInv'
  <2>1. TypeOK'
    BY <1>1, <1>2 DEF Inv, IInv, TypeOK, FramesStart, NetStart, MediaStart, Await,
                      SpuriousWake, ButtonsStart, MicPrepare, EyesIdle, MainGoto,
                      LoopInv, GpcType, mediaVars
  <2>2. Made'
    BY <1>1 DEF Inv, IInv, TypeOK, Made, AfterLatch, Waits, FramesStart, NetStart,
                MediaStart, Await, SpuriousWake, ButtonsStart, MicPrepare, EyesIdle,
                MainGoto, mediaVars
  <2> QED
    BY <2>1, <2>2 DEF IInv
<1>4. Waits' /\ ~crashed'
  BY <1>1 DEF Inv, IInv, TypeOK, Made, AfterLatch, Waits, FramesStart, NetStart,
              MediaStart, Await, SpuriousWake, ButtonsStart, MicPrepare, EyesIdle,
              MainGoto, Uses, mediaVars
<1> QED
  BY <1>1, <1>2, <1>3, <1>4, PlayerKept DEF Inv, OnlyGreetingCrashes

(* PulseAudio's thread, but for the callback of the player.                *)
LEMMA PulseInv ==
  ASSUME Inv,
         ContextReady \/ ContextFails \/ OnContextReady \/ StreamReady \/ ContextTerminated
  PROVE  Inv'
<1>1. UNCHANGED <<playerVars, button, loopVars, netVars, crashed>>
  BY DEF ContextReady, ContextFails, OnContextReady, MakeRecorder, RecorderPrepare,
         MakePlayer, PlayerPrepare, StreamReady, ContextTerminated, PulseFrame
<1>2. /\ main' = main \/ (main = "wait" /\ main' = "await")
      /\ context' # context => main \notin {"frames", "net", "media"}
  BY DEF ContextReady, ContextFails, OnContextReady, MakeRecorder, RecorderPrepare,
         MakePlayer, PlayerPrepare, StreamReady, ContextTerminated, CountDown,
         Inv, Waits
<1>3. LoopInv'
  <2>1. NotYet'
    BY <1>1, <1>2 DEF Inv, LoopInv, NotYet, loopVars
  <2> QED
    BY <1>1, <2>1, LoopKept DEF Inv
<1>4. TypeOK'
  <2>1. TypeOK
    BY DEF Inv, IInv
  <2>2. button' = button /\ gpc' = gpc
    BY <1>1 DEF loopVars
  <2>3. CASE ContextReady \/ ContextFails \/ StreamReady \/ ContextTerminated
    BY <2>1, <2>2, <2>3 DEF ContextReady, ContextFails, StreamReady, ContextTerminated,
                            TypeOK
  <2>4. CASE MakeRecorder \/ MakePlayer
    BY <2>1, <2>2, <2>4 DEF MakeRecorder, MakePlayer, TypeOK
  <2>5. CASE RecorderPrepare \/ PlayerPrepare
    <3>1. count' \in 0..2
      BY <2>1, <2>5 DEF RecorderPrepare, PlayerPrepare, CountDown, TypeOK
    <3>2. main' \in {main, "await"}
      BY <1>2
    <3> QED
      BY <2>1, <2>2, <2>5, <3>1, <3>2 DEF RecorderPrepare, PlayerPrepare, TypeOK
  <2> QED
    BY <2>3, <2>4, <2>5 DEF OnContextReady
<1>5. Made'
  BY <1>1, <1>2 DEF Inv, IInv, TypeOK, Made, AfterLatch, ContextReady, ContextFails,
         OnContextReady, MakeRecorder, RecorderPrepare, MakePlayer, PlayerPrepare,
         StreamReady, ContextTerminated, CountDown
<1>6. Waits' /\ OnlyGreetingCrashes'
  BY <1>1, <1>2 DEF Inv, Waits, OnlyGreetingCrashes, netVars
<1> QED
  BY <1>1, <1>3, <1>4, <1>5, <1>6, PlayerKept DEF Inv, IInv

(* The callback, the network thread and the button worker.                 *)
LEMMA OthersInv ==
  ASSUME Inv, ~crashed,
         \/ StreamWants \/ Callback \/ CallbackFails
         \/ Connected \/ (\E n \in 1..MaxBytes : Receive(n)) \/ Press \/ RecorderStart
  PROVE  Inv'
<1>1. UNCHANGED <<main, mediaVars, loopVars>>
  BY DEF StreamWants, Callback, CallbackFails, PlayerStep, Connected, Receive, Press,
         RecorderStart, appVars
<1>2. [PlayerNext]_playerVars
  BY DEF StreamWants, Callback, CallbackFails, PlayerStep, Connected, Receive, Press,
         RecorderStart, PlayerNext
<1>3. button' = button \/ (button # "off" /\ button' \in {"start", "recording"})
  BY DEF StreamWants, Callback, CallbackFails, PlayerStep, Connected, Receive, Press,
         RecorderStart, appVars
<1>4. LoopInv'
  <2>1. NotYet'
    BY <1>1 DEF Inv, LoopInv, NotYet, loopVars
  <2> QED
    BY <1>1, <2>1, LoopKept DEF Inv
<1>5. IInv'
  BY <1>1, <1>3 DEF Inv, IInv, TypeOK, Made, AfterLatch, mediaVars, loopVars
<1>6. Waits' /\ OnlyGreetingCrashes'
  <2>1. CASE \E n \in 1..MaxBytes : Receive(n)
    <3>1. crashed' = ~player /\ greeted' = (greeted \/ ~Asked)
      BY <2>1 DEF Receive, Uses
    <3>2. Asked => player = TRUE
      BY DEF Asked, Inv, IInv, Made, TypeOK
    <3>3. crashed' => greeted'
      BY <3>1, <3>2
    <3>4. crashed' \in BOOLEAN /\ greeted' \in BOOLEAN
      BY <3>1
    <3> QED
      BY <1>1, <3>3, <3>4 DEF Inv, Waits, OnlyGreetingCrashes, mediaVars
  <2>2. CASE RecorderStart
    <3>1. recorder = TRUE /\ crashed' = ~recorder /\ greeted' = greeted
      BY <2>2 DEF RecorderStart, Uses, netVars, Inv, IInv, Made, TypeOK
    <3> QED
      BY <1>1, <3>1 DEF Inv, Waits, OnlyGreetingCrashes, mediaVars
  <2>3. CASE StreamWants \/ Callback \/ CallbackFails \/ Connected \/ Press
    <3>1. UNCHANGED <<crashed, greeted>>
      BY <2>3 DEF StreamWants, Callback, CallbackFails, PlayerStep, Connected, Press,
                  netVars
    <3> QED
      BY <1>1, <3>1 DEF Inv, Waits, OnlyGreetingCrashes, mediaVars
  <2> QED
    BY <2>1, <2>2, <2>3
<1> QED
  BY <1>2, <1>4, <1>5, <1>6, PlayerNextInv DEF Inv

LEMMA NextInv == Inv /\ [Next]_vars => Inv'
<1> SUFFICES ASSUME Inv, [Next]_vars PROVE Inv'
  OBVIOUS
<1>1. CASE UNCHANGED vars
  <2>1. /\ UNCHANGED playerVars /\ UNCHANGED loopVars
        /\ UNCHANGED <<main, context, pulse, count, recorder, player, stream, button,
                       crashed, greeted, gpc>>
    BY <1>1 DEF vars, appVars, mediaVars, netVars, loopVars
  <2>2. LoopInv'
    <3>1. NotYet'
      BY <2>1 DEF Inv, LoopInv, NotYet
    <3> QED
      BY <2>1, <3>1, LoopKept DEF Inv
  <2>3. IInv'
    BY <2>1 DEF Inv, IInv, TypeOK, Made, AfterLatch
  <2> QED
    BY <2>1, <2>2, <2>3, PlayerKept DEF Inv, Waits, OnlyGreetingCrashes
<1>2. CASE Next
  BY <1>2, LoopStepInv, RunInv, PulseInv, OthersInv DEF Next, MainStep
<1> QED
  BY <1>1, <1>2

LEMMA Invariants == SafeSpec => []Inv
<1> QED
  BY InitInv, NextInv, PTL DEF SafeSpec

(* The latch counts the two features that are made, and nothing behind it  *)
(* runs before both are there.                                             *)
THEOREM LatchCounts == SafeSpec => []IInv
<1>1. Inv => IInv
  BY DEF Inv
<1> QED
  BY <1>1, Invariants, PTL

(* Only audio that nobody asked for finds no player.                       *)
THEOREM CrashesOnlyGreeted == SafeSpec => []OnlyGreetingCrashes
<1>1. Inv => OnlyGreetingCrashes
  BY DEF Inv
<1> QED
  BY <1>1, Invariants, PTL

(* Unless two threads meet in the first get(), there is one event loop,    *)
(* made before it is used, and no draw is lost with another.               *)
THEOREM LoopMadeOnce == SafeSpec => []OneLoop
<1>1. Inv => OneLoop
  BY DEF Inv, LoopInv, MadeByOne, OneLoop
<1> QED
  BY <1>1, Invariants, PTL

(* The sections of the write callback agree on what is in the buffer.      *)
THEOREM SectionsAgree == SafeSpec => []StillThere
<1>1. Inv => StillThere
  BY DEF Inv, PlayerInv
<1> QED
  BY <1>1, Invariants, PTL

(* The stream gets the audio that arrives in order, all of it, once.       *)
THEOREM AudioInOrder == SafeSpec => []InOrder
<1>1. Inv => InOrder
  BY DEF Inv, PlayerInv
<1> QED
  BY <1>1, Invariants, PTL
=============================================================================

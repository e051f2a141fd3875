--------------------------- MODULE RecordingProofs --------------------------
(***************************************************************************)
(* That the microphone follows the button and that a lag of the recorder   *)
(* stays, for any number of presses and any amount of audio.               *)
(***************************************************************************)
EXTENDS Recording, SequenceTheorems, FiniteSetTheorems, TLAPS

(* What the microphone will be when every request has been answered.       *)
Final == IF requests = <<>> THEN corked ELSE requests[Len(requests)]

(* A stream that was never ready has nothing to answer.                    *)
Untouched == stream # "ready" => requests = <<>> /\ corked

(* Where the polling loop is, what it has asked for.                       *)
Asked == /\ pc = "poll" => (Final <=> ~pressed \/ refused)
         /\ pc \in {"start", "uncork"} => pressed /\ Final
         /\ pc \in {"stop", "sleep"} => ~pressed
         /\ pc = "sleep" => Final

Typed == /\ pressed \in BOOLEAN /\ refused \in BOOLEAN /\ corked \in BOOLEAN
         /\ pc \in {"poll", "start", "uncork", "stop", "sleep"}
         /\ requests \in Seq(BOOLEAN)

MicInv == Typed /\ Untouched /\ Asked

(* A request that is added is the last one; one that is answered leaves    *)
(* the last one as it is.                                                  *)
LEMMA LastRequest ==
  ASSUME NEW s \in Seq(BOOLEAN)
  PROVE  /\ \A b \in BOOLEAN : /\ Append(s, b) \in Seq(BOOLEAN)
                               /\ Append(s, b) # <<>>
                               /\ Append(s, b)[Len(Append(s, b))] = b
         /\ s # <<>> => /\ Tail(s) \in Seq(BOOLEAN)
                        /\ Head(s) \in BOOLEAN
                        /\ Tail(s) = <<>> => s[Len(s)] = Head(s)
                        /\ Tail(s) # <<>> => Tail(s)[Len(Tail(s))] = s[Len(s)]
<1>1. \A b \in BOOLEAN : /\ Append(s, b) \in Seq(BOOLEAN)
                         /\ Append(s, b) # <<>>
                         /\ Append(s, b)[Len(Append(s, b))] = b
  OBVIOUS
<1>2. ASSUME s # <<>>
      PROVE  /\ Tail(s) \in Seq(BOOLEAN)
             /\ Head(s) \in BOOLEAN
             /\ Tail(s) = <<>> => s[Len(s)] = Head(s)
             /\ Tail(s) # <<>> => Tail(s)[Len(Tail(s))] = s[Len(s)]
  <2>1. /\ Head(s) \in BOOLEAN /\ Head(s) = s[1] /\ Len(s) \in Nat \ {0}
        /\ Tail(s) \in Seq(BOOLEAN) /\ Len(Tail(s)) = Len(s) - 1
        /\ \A i \in 1..(Len(s) - 1) : Tail(s)[i] = s[i + 1]
    BY <1>2, EmptySeq, HeadTailProperties
  <2>2. Tail(s) = <<>> => Len(s) = 1
    <3>1. Len(<<>>) = 0
      OBVIOUS
    <3>2. Tail(s) = <<>> => Len(Tail(s)) = Len(<<>>)
      OBVIOUS
    <3> QED BY <2>1, <3>1, <3>2
  <2>3. Tail(s) # <<>> => Len(Tail(s)) \in 1..(Len(s) - 1)
    <3>1. Tail(s) # <<>> => Len(Tail(s)) # 0
      BY <2>1
    <3> QED BY <2>1, <3>1
  <2>4. Tail(s) # <<>> => Tail(s)[Len(Tail(s))] = s[Len(s)]
    <3> DEFINE n == Len(Tail(s))
    <3>1. Tail(s) # <<>> => Tail(s)[n] = s[n + 1] /\ n + 1 = Len(s)
      BY <2>1, <2>3
    <3> QED BY <3>1
  <2> QED BY <2>1, <2>2, <2>4
<1> QED BY <1>1, <1>2

(* A cork asks for b, or is refused by a stream that is still corked.      *)
LEMMA CorkAsks ==
  ASSUME Typed, Untouched, NEW b \in BOOLEAN, Cork(b)
  PROVE  /\ Untouched' /\ requests' \in Seq(BOOLEAN)
         /\ refused' \in BOOLEAN /\ corked' = corked /\ pressed' = pressed
         /\ ~refused' => (Final' <=> b)
         /\ refused' => Final'
<1>1. /\ corked' = corked /\ pressed' = pressed /\ stream' = stream
      /\ refused' = (stream # "ready")
      /\ requests' = IF stream = "ready" THEN Append(requests, b) ELSE requests
  BY DEF Cork
<1>2. CASE stream = "ready"
  <2>1. requests' = Append(requests, b) /\ ~refused'
    BY <1>1, <1>2
  <2>2. /\ requests' \in Seq(BOOLEAN) /\ requests' # <<>>
        /\ requests'[Len(requests')] = b
    BY <2>1, LastRequest DEF Typed
  <2> QED BY <1>1, <1>2, <2>1, <2>2 DEF Final, Untouched
<1>3. CASE stream # "ready"
  BY <1>1, <1>3 DEF Final, Untouched, Typed
<1> QED BY <1>2, <1>3

LEMMA MicInit == Init => MicInv
<1> SUFFICES ASSUME Init PROVE MicInv
  OBVIOUS
<1>1. requests = <<>> /\ corked /\ ~pressed /\ pc = "poll" /\ stream = "connecting"
  BY DEF Init
<1>2. <<>> \in Seq(BOOLEAN)
  OBVIOUS
<1>3. refused = FALSE /\ pressed = FALSE /\ corked = TRUE
  BY DEF Init
<1>4. Typed
  BY <1>1, <1>2, <1>3 DEF Typed
<1> QED BY <1>1, <1>4 DEF MicInv, Untouched, Asked, Final

LEMMA MicNext == MicInv /\ [Next]_vars => MicInv'
<1> SUFFICES ASSUME MicInv, [Next]_vars PROVE MicInv'
  OBVIOUS
<1> USE DEF MicInv
<1>1. CASE UNCHANGED <<pressed, pc, requests, corked, stream, refused>>
  BY <1>1 DEF Typed, Untouched, Asked, Final
<1>2. CASE Press
  <2>1. /\ pc = "poll" /\ ~pressed /\ pc' = "start" /\ pressed' = TRUE
        /\ UNCHANGED <<requests, corked, stream, refused>>
    BY <1>2 DEF Press, Goto, streamVars, Typed
  <2>2. Final' = Final /\ Final
    BY <2>1 DEF Final, Asked
  <2>3. Final'
    BY <2>2
  <2>4. Asked'
    BY <2>1, <2>3 DEF Asked
  <2>5. Typed' /\ Untouched'
    BY <2>1 DEF Typed, Untouched
  <2> QED BY <2>4, <2>5
<1>3. CASE Release
  <2>1. /\ pc = "poll" /\ pressed /\ pc' = "stop" /\ pressed' = FALSE
        /\ UNCHANGED <<requests, corked, stream, refused>>
    BY <1>3 DEF Release, Goto, streamVars
  <2> QED BY <2>1 DEF Typed, Untouched, Asked
<1>4. CASE SendStart
  <2>1. /\ pc = "start" /\ pc' = "uncork"
        /\ UNCHANGED <<pressed, requests, corked, stream, refused>>
    BY <1>4 DEF SendStart, Goto, streamVars
  <2> QED BY <2>1 DEF Typed, Untouched, Asked, Final
<1>5. CASE RecorderStart
  <2>1. pc = "uncork" /\ pc' = "poll" /\ Cork(FALSE)
    BY <1>5 DEF RecorderStart, Goto
  <2> QED BY <2>1, CorkAsks DEF Typed, Asked
<1>6. CASE RecorderStop
  <2>1. pc = "stop" /\ pc' = "sleep" /\ Cork(TRUE)
    BY <1>6 DEF RecorderStop, Goto
  <2> QED BY <2>1, CorkAsks DEF Typed, Asked
<1>7. CASE SendStop
  <2>1. /\ pc = "sleep" /\ pc' = "poll"
        /\ UNCHANGED <<pressed, requests, corked, stream, refused>>
    BY <1>7 DEF SendStop, Goto, streamVars
  <2> QED BY <2>1 DEF Typed, Untouched, Asked, Final
<1>8. CASE StreamReady
  <2>1. /\ stream = "connecting"
        /\ UNCHANGED <<pressed, pc, requests, corked, refused>>
    BY <1>8 DEF StreamReady, buttonVars
  <2> QED BY <2>1 DEF Typed, Untouched, Asked, Final
<1>9. CASE ServerCorks
  <2>1. /\ requests # <<>> /\ corked' = Head(requests) /\ requests' = Tail(requests)
        /\ UNCHANGED <<pressed, pc, stream, refused>>
    BY <1>9 DEF ServerCorks, buttonVars
  <2>2. /\ Tail(requests) \in Seq(BOOLEAN) /\ Head(requests) \in BOOLEAN
        /\ Tail(requests) = <<>> => requests[Len(requests)] = Head(requests)
        /\ Tail(requests) # <<>>
             => Tail(requests)[Len(Tail(requests))] = requests[Len(requests)]
    BY <2>1, LastRequest DEF Typed
  <2>3. Final' = Final
    BY <2>1, <2>2 DEF Final
  <2>4. stream = "ready"
    BY <2>1 DEF Untouched
  <2> QED BY <2>1, <2>2, <2>3, <2>4 DEF Typed, Untouched, Asked
<1>10. CASE Prepare \/ Capture \/ ReadStep \/ UNCHANGED vars
  <2>1. UNCHANGED <<pressed, pc, requests, corked, stream, refused>>
    BY <1>10 DEF Prepare, Capture, ReadStep, ReadHole, ReadInsert, ReadLoad, ReadCall,
                 buttonVars, streamVars, vars
  <2> QED BY <1>1, <2>1
<1> QED BY <1>2, <1>3, <1>4, <1>5, <1>6, <1>7, <1>8, <1>9, <1>10 DEF Next, ButtonStep

(* Once the polling loop rests and PulseAudio has answered, the microphone *)
(* is off while the button is up, and on while it is down unless its       *)
(* stream was not ready (MediaClient.cpp:226-238, button_client.zig:46-60).*)
THEOREM MicFollows == SafeSpec => []MicFollowsButton
<1>1. MicInv => MicFollowsButton
  BY DEF MicInv, Typed, Asked, Final, MicFollowsButton
<1> QED BY <1>1, MicInit, MicNext, PTL DEF SafeSpec
-----------------------------------------------------------------------------
(* The packet in hand is in the buffer.  What a byte is does not matter.   *)
Sequences(S) == buffer \in Seq(S) /\ packets \in Seq(Seq(S))

InHand == /\ rpc \in {"wait", "load", "call"} /\ nbytes \in Nat
          /\ rpc # "wait" => nbytes =< Len(buffer)

LagInv == InHand /\ \E S : Sequences(S)

(* A packet of one or two bytes is taken to the buffer.                    *)
LEMMA InsertKeepsLag ==
  ASSUME LagInv, ReadInsert
  PROVE  LagInv' /\ Lag' = Lag
<1>1. PICK S : Sequences(S)
  BY DEF LagInv
<1>2. /\ rpc = "wait" /\ packets # <<>> /\ rpc' = "load"
      /\ nbytes' = Len(Head(packets)) /\ buffer' = buffer \o Head(packets)
      /\ packets' = Tail(packets)
  BY DEF ReadInsert
<1>3. Head(packets) \in Seq(S) /\ Tail(packets) \in Seq(Seq(S))
  BY <1>1, <1>2, HeadTailProperties DEF Sequences
<1>4. /\ buffer' \in Seq(S)
      /\ Len(buffer') = Len(buffer) + Len(Head(packets))
  BY <1>1, <1>2, <1>3, ConcatProperties DEF Sequences
<1>5. Len(buffer) \in Nat /\ Len(Head(packets)) \in Nat
  BY <1>1, <1>3, LenProperties DEF Sequences
<1>6. Sequences(S)'
  BY <1>2, <1>3, <1>4 DEF Sequences
<1>7. InHand'
  BY <1>2, <1>4, <1>5 DEF InHand
<1>8. Lag' = Lag
  BY <1>2, <1>4, <1>5 DEF Lag
<1> QED BY <1>6, <1>7, <1>8 DEF LagInv

(* As many bytes leave the buffer as the last packet has brought.          *)
LEMMA CallKeepsLag ==
  ASSUME LagInv, ReadCall
  PROVE  LagInv' /\ Lag' = Lag
<1>1. PICK S : Sequences(S)
  BY DEF LagInv
<1>2. /\ rpc = "call" /\ rpc' = "wait" /\ nbytes' = nbytes
      /\ buffer' = SubSeq(buffer, nbytes + 1, Len(buffer))
      /\ packets' = packets
  BY DEF ReadCall, streamVars
<1>3. nbytes \in Nat /\ nbytes =< Len(buffer) /\ Len(buffer) \in Nat
  BY <1>1, <1>2, LenProperties DEF LagInv, InHand, Sequences
<1>4. /\ nbytes + 1 \in 1..(Len(buffer) + 1)
      /\ Len(buffer) \in (nbytes + 1) - 1 .. Len(buffer)
  BY <1>3
<1>5. /\ buffer' \in Seq(S)
      /\ Len(buffer') = Len(buffer) - nbytes
  BY <1>1, <1>2, <1>3, <1>4, SubSeqProperties DEF Sequences
<1>6. Sequences(S)' /\ InHand'
  BY <1>1, <1>2, <1>3, <1>5 DEF Sequences, InHand
<1>7. Lag' = Lag
  BY <1>2, <1>3, <1>5 DEF Lag
<1> QED BY <1>6, <1>7 DEF LagInv

(* The stream captures a packet.                                           *)
LEMMA CaptureKeepsLag ==
  ASSUME LagInv, Capture
  PROVE  LagInv' /\ Lag' = Lag
<1>1. PICK S : Sequences(S)
  BY DEF LagInv
<1>2. UNCHANGED <<rpc, nbytes, buffer>>
  BY DEF Capture, readVars
<1>3. PICK n \in 0..2 : packets' = Append(packets, [i \in 1..n |-> Len(taken) + i])
  BY DEF Capture
<1> DEFINE new == [i \in 1..n |-> Len(taken) + i]
<1>4. PICK T : S \subseteq T /\ new \in [1..n -> T]
  <2>1. new \in [1..n -> S \cup {Len(taken) + i : i \in 1..n}]
    OBVIOUS
  <2> QED BY <2>1
<1>5. new \in Seq(T)
  <2>1. n \in Nat
    OBVIOUS
  <2> QED BY <1>4, <2>1, SeqDef
<1>6. buffer \in Seq(T) /\ packets \in Seq(Seq(T))
  <2>1. Seq(S) \subseteq Seq(T)
    BY <1>4, SeqMonotonic
  <2> QED BY <1>1, <2>1, SeqMonotonic DEF Sequences
<1>7. packets' = Append(packets, new)
  BY <1>3
<1> HIDE DEF new
<1>8. Append(packets, new) \in Seq(Seq(T))
  BY <1>5, <1>6, AppendProperties
<1>9. Sequences(T)'
  BY <1>2, <1>6, <1>7, <1>8 DEF Sequences
<1>10. InHand' /\ Lag' = Lag
  BY <1>2 DEF LagInv, InHand, Lag
<1> QED BY <1>9, <1>10 DEF LagInv

LEMMA LagInit == Init => LagInv
<1> SUFFICES ASSUME Init PROVE LagInv
  OBVIOUS
<1>1. buffer = <<>> /\ packets = <<>> /\ rpc = "wait" /\ nbytes = 0
  BY DEF Init
<1>2. Sequences(Nat)
  BY <1>1 DEF Sequences
<1>3. InHand
  BY <1>1 DEF InHand
<1> QED BY <1>2, <1>3 DEF LagInv

(* Before prepare() a packet is read and left: only then the lag grows.    *)
LEMMA LagNext ==
  ASSUME LagInv, [Next]_vars
  PROVE  LagInv' /\ (onReadCallback => Lag' = Lag)
<1>1. CASE UNCHANGED <<readVars, packets>>
  <2>1. UNCHANGED <<rpc, nbytes, buffer, packets>>
    BY <1>1 DEF readVars
  <2>2. PICK S : Sequences(S)
    BY DEF LagInv
  <2>3. Sequences(S)' /\ InHand'
    BY <2>1, <2>2 DEF Sequences, InHand, LagInv
  <2>4. Lag' = Lag
    BY <2>1 DEF Lag
  <2> QED BY <2>3, <2>4 DEF LagInv
<1>2. CASE ReadHole
  <2>1. /\ UNCHANGED <<rpc, nbytes, buffer>>
        /\ packets # <<>> /\ packets' = Tail(packets)
    BY <1>2 DEF ReadHole, readVars
  <2>2. PICK S : Sequences(S)
    BY DEF LagInv
  <2>3. Tail(packets) \in Seq(Seq(S))
    BY <2>1, <2>2, HeadTailProperties DEF Sequences
  <2>4. Sequences(S)' /\ InHand'
    BY <2>1, <2>2, <2>3 DEF Sequences, InHand, LagInv
  <2>5. Lag' = Lag
    BY <2>1 DEF Lag
  <2> QED BY <2>4, <2>5 DEF LagInv
<1>3. CASE ReadLoad
  <2>1. /\ rpc = "load" /\ rpc' = IF onReadCallback THEN "call" ELSE "wait"
        /\ UNCHANGED <<nbytes, buffer, packets>>
    BY <1>3 DEF ReadLoad, streamVars
  <2>2. PICK S : Sequences(S)
    BY DEF LagInv
  <2>3. Sequences(S)' /\ InHand'
    BY <2>1, <2>2 DEF Sequences, InHand, LagInv
  <2>4. onReadCallback => Lag' = Lag
    BY <2>1 DEF Lag
  <2> QED BY <2>3, <2>4 DEF LagInv
<1>4. CASE Prepare \/ Press \/ ButtonStep \/ StreamReady \/ ServerCorks \/ UNCHANGED vars
  <2>1. UNCHANGED <<readVars, packets>>
    BY <1>4 DEF Prepare, Press, ButtonStep, Release, SendStart, RecorderStart,
                RecorderStop, SendStop, Cork, StreamReady, ServerCorks, vars, streamVars
  <2> QED BY <1>1, <2>1
<1> QED
  BY <1>2, <1>3, <1>4, InsertKeepsLag, CallKeepsLag, CaptureKeepsLag
     DEF Next, ReadStep

(* Once the callback is set, the recorder's lag never changes: what it has *)
(* read before prepare() delays every later byte, in all recordings        *)
(* (app.zig:50-51, MediaClient.cpp:270-279).                               *)
THEOREM LagStays == SafeSpec => LagIsForever
<1>1. LagInv /\ [Next]_vars => LagInv' /\ (onReadCallback => Lag' = Lag)
  BY LagNext
<1>2. LagInv /\ [Next]_vars => [onReadCallback => Lag' = Lag]_vars
  BY <1>1
<1> QED BY <1>1, <1>2, LagInit, PTL DEF SafeSpec, LagIsForever
-----------------------------------------------------------------------------
(* Counting the recordings: a message that is sent adds one if it starts   *)
(* one, and changes no count up to an earlier message.                     *)
StartsIn(s, i) == Cardinality({j \in 1..i : s[j].type = "start"})

LEMMA CountNat ==
  ASSUME NEW s, NEW i \in Nat
  PROVE  IsFiniteSet({j \in 1..i : s[j].type = "start"}) /\ StartsIn(s, i) \in Nat
<1>1. IsFiniteSet(1..i)
  BY FS_Interval
<1>2. IsFiniteSet({j \in 1..i : s[j].type = "start"})
  BY <1>1, FS_Subset
<1> QED BY <1>2, FS_CardinalityType DEF StartsIn

LEMMA CountAppend ==
  ASSUME NEW M, NEW s \in Seq(M), NEW m \in M
  PROVE  /\ \A i \in 0..Len(s) : StartsIn(Append(s, m), i) = StartsIn(s, i)
         /\ StartsIn(Append(s, m), Len(s) + 1)
              = StartsIn(s, Len(s)) + IF m.type = "start" THEN 1 ELSE 0
<1> DEFINE t == Append(s, m)
           n == Len(s)
<1>1. n \in Nat /\ \A j \in 1..n : t[j] = s[j]
  BY AppendProperties, LenProperties
<1>2. t[n + 1] = m
  BY AppendProperties
<1> HIDE DEF t, n
<1>3. ASSUME NEW i \in 0..n
      PROVE  StartsIn(t, i) = StartsIn(s, i)
  <2>1. {j \in 1..i : t[j].type = "start"} = {j \in 1..i : s[j].type = "start"}
    BY <1>1
  <2> QED BY <2>1 DEF StartsIn
<1>4. StartsIn(t, n + 1) = StartsIn(s, n) + IF m.type = "start" THEN 1 ELSE 0
  <2> DEFINE S == {j \in 1..n : s[j].type = "start"}
             T == {j \in 1..(n + 1) : t[j].type = "start"}
  <2>1. IsFiniteSet(S) /\ n + 1 \notin S /\ Cardinality(S) \in Nat
    BY <1>1, CountNat DEF StartsIn
  <2>2. CASE m.type = "start"
    <3>1. T = S \cup {n + 1}
      BY <1>1, <1>2, <2>2
    <3>2. Cardinality(T) = Cardinality(S) + 1
      <4> HIDE DEF S, T
      <4> QED BY <2>1, <3>1, FS_AddElement
    <3> QED BY <2>2, <3>2 DEF StartsIn
  <2>3. CASE m.type # "start"
    <3>1. T = S
      BY <1>1, <1>2, <2>3
    <3>2. Cardinality(T) = Cardinality(S) + 0
      <4> HIDE DEF S, T
      <4> QED BY <2>1, <3>1
    <3> QED BY <2>3, <3>2 DEF StartsIn
  <2> QED BY <2>2, <2>3
<1> QED BY <1>3, <1>4 DEF t, n

Message == [type : {"start", "audio", "stop"}, data : Seq(Bytes)]

(* What a call of session->send() does to the counts.                      *)
LEMMA SendCounts ==
  ASSUME TypeOK, NEW type \in {"start", "audio", "stop"}, NEW data \in Seq(Bytes),
         Send(type, data)
  PROVE  /\ sent' \in Seq(Message) /\ Len(sent) \in Nat /\ Len(sent') = Len(sent) + 1
         /\ \A i \in 1..Len(sent) : sent'[i] = sent[i]
         /\ sent'[Len(sent) + 1] = [type |-> type, data |-> data]
         /\ \A i \in 0..Len(sent) : Started(i)' = Started(i)
         /\ Recordings \in Nat
         /\ \A i : i = Len(sent) + 1
                     => Started(i)' = Recordings + IF type = "start" THEN 1 ELSE 0
         /\ Recordings' = Recordings + IF type = "start" THEN 1 ELSE 0
<1> DEFINE m == [type |-> type, data |-> data]
<1>1. sent \in Seq(Message) /\ m \in Message /\ sent' = Append(sent, m)
  BY DEF TypeOK, Message, Send
<1>2. m.type = type
  OBVIOUS
<1> HIDE DEF m
<1>3. /\ sent' \in Seq(Message) /\ Len(sent) \in Nat /\ Len(sent') = Len(sent) + 1
      /\ \A i \in 1..Len(sent) : sent'[i] = sent[i]
      /\ sent'[Len(sent) + 1] = m
  BY <1>1, AppendProperties, LenProperties
<1>4. /\ \A i \in 0..Len(sent) : StartsIn(sent', i) = StartsIn(sent, i)
      /\ StartsIn(sent', Len(sent) + 1)
           = StartsIn(sent, Len(sent)) + IF type = "start" THEN 1 ELSE 0
      /\ StartsIn(sent, Len(sent)) \in Nat
  BY <1>1, <1>2, <1>3, CountAppend, CountNat
<1>5. /\ \A i : Started(i) = StartsIn(sent, i) /\ Started(i)' = StartsIn(sent', i)
      /\ Recordings = StartsIn(sent, Len(sent)) /\ Recordings' = StartsIn(sent', Len(sent'))
  BY DEF Started, Recordings, StartsIn
<1> QED BY <1>3, <1>4, <1>5 DEF m

(* Types, and how many recordings there can be.                            *)
Open == pc \in {"uncork", "stop", "sleep"} \/ (pc = "poll" /\ pressed)

Counted == /\ Recordings = 0 => requests = <<>> /\ corked /\ ~Open
           /\ Recordings \in 0..MaxPresses
           /\ pc = "start" => Recordings < MaxPresses

TypeInv == TypeOK /\ Counted

LEMMA TypeInit == Init => TypeInv
<1> SUFFICES ASSUME Init PROVE TypeInv
  OBVIOUS
<1> USE DEF Init
<1>1. TypeOK
  <2>1. /\ requests \in Seq(BOOLEAN) /\ packets \in Seq(Seq(Bytes)) /\ buffer \in Seq(Bytes)
        /\ sent \in Seq([type : {"start", "audio", "stop"}, data : Seq(Bytes)])
        /\ taken \in Seq(1..MaxPresses)
    OBVIOUS
  <2>2. /\ pressed \in BOOLEAN /\ refused \in BOOLEAN /\ corked \in BOOLEAN
        /\ onReadCallback \in BOOLEAN /\ late \in BOOLEAN
    OBVIOUS
  <2> QED BY <2>1, <2>2 DEF TypeOK
<1>2. Recordings = 0
  <2>1. {j \in 1..Len(sent) : sent[j].type = "start"} = {}
    OBVIOUS
  <2> QED BY <2>1, FS_EmptySet DEF Recordings, Started
<1>3. Counted
  BY <1>2, RecordingAssumption DEF Counted, Open
<1> QED BY <1>1, <1>3 DEF TypeInv

(* What a step leaves alone of the counts.                                 *)
LEMMA SameCount ==
  ASSUME UNCHANGED sent
  PROVE  /\ Recordings' = Recordings
         /\ \A i : Started(i)' = Started(i)
BY DEF Recordings, Started

LEMMA ButtonTypes ==
  ASSUME TypeInv, Press \/ Release \/ RecorderStart \/ RecorderStop
  PROVE  TypeInv'
<1> USE DEF TypeInv
<1>1. /\ UNCHANGED <<stream, corked, packets, readVars, onReadCallback, sent, taken, late>>
      /\ pressed' \in BOOLEAN /\ pc' \in {"poll", "start", "uncork", "stop", "sleep"}
  BY DEF Press, Release, RecorderStart, RecorderStop, Cork, Goto, streamVars, TypeOK
<1>2. refused' \in BOOLEAN /\ requests' \in Seq(BOOLEAN)
  <2>1. CASE Press \/ Release
    BY <2>1 DEF Press, Release, streamVars, TypeOK
  <2>2. ASSUME NEW b \in BOOLEAN, Cork(b) PROVE refused' \in BOOLEAN /\ requests' \in Seq(BOOLEAN)
    <3>1. refused' = (stream # "ready") /\ (requests' = requests \/ requests' = Append(requests, b))
      BY <2>2 DEF Cork
    <3>2. Append(requests, b) \in Seq(BOOLEAN) /\ requests \in Seq(BOOLEAN)
      BY LastRequest DEF TypeOK
    <3>3. refused' \in BOOLEAN
      BY <3>1
    <3> QED BY <3>1, <3>2, <3>3
  <2> QED BY <2>1, <2>2 DEF RecorderStart, RecorderStop
<1>3. TypeOK'
  BY <1>1, <1>2 DEF TypeOK, readVars
<1>4. Recordings' = Recordings /\ Recordings \in Nat
  BY <1>1, SameCount DEF Counted
<1>5. Counted'
  <2>1. CASE Press
    BY <1>1, <1>4, <2>1, RecordingAssumption DEF Press, Goto, Counted, Open, streamVars
  <2>2. CASE Release
    BY <1>1, <1>4, <2>2 DEF Release, Goto, Counted, Open, streamVars
  <2>3. CASE RecorderStart \/ RecorderStop
    BY <1>1, <1>4, <2>3 DEF RecorderStart, RecorderStop, Goto, Counted, Open
  <2> QED BY <2>1, <2>2, <2>3
<1> QED BY <1>3, <1>5

LEMMA SendTypes ==
  ASSUME TypeInv, SendStart \/ SendStop
  PROVE  TypeInv'
<1> USE DEF TypeInv
<1>1. /\ UNCHANGED <<pressed, streamVars, readVars, onReadCallback, taken>>
      /\ pc' \in {"poll", "start", "uncork", "stop", "sleep"} /\ late' \in BOOLEAN
  BY DEF SendStart, SendStop, Goto, TypeOK
<1>2. <<>> \in Seq(Bytes)
  OBVIOUS
<1>3. CASE SendStart
  <2>1. Send("start", <<>>) /\ pc = "start" /\ pc' = "uncork"
    BY <1>3 DEF SendStart, Goto
  <2>2. sent' \in Seq(Message) /\ Recordings' = Recordings + 1
    BY <1>2, <2>1, SendCounts
  <2>3. TypeOK'
    BY <1>1, <2>2 DEF TypeOK, Message, streamVars, readVars
  <2>4. Counted'
    BY <2>1, <2>2, RecordingAssumption DEF Counted
  <2> QED BY <2>3, <2>4
<1>4. CASE SendStop
  <2>1. Send("stop", <<>>) /\ pc = "sleep" /\ pc' = "poll"
    BY <1>4 DEF SendStop, Goto
  <2>2. sent' \in Seq(Message) /\ Recordings' = Recordings + 0 /\ Recordings \in Nat
    BY <1>2, <2>1, SendCounts
  <2>3. TypeOK'
    BY <1>1, <2>2 DEF TypeOK, Message, streamVars, readVars
  <2>4. Counted'
    BY <2>1, <2>2 DEF Counted, Open
  <2> QED BY <2>3, <2>4
<1> QED BY <1>3, <1>4

LEMMA PulseAudioTypes ==
  ASSUME TypeInv, Prepare \/ StreamReady \/ ServerCorks
  PROVE  TypeInv'
<1> USE DEF TypeInv
<1>1. /\ UNCHANGED <<buttonVars, readVars, packets, sent, taken, late, refused>>
      /\ stream' \in {"connecting", "ready", "failed"} /\ onReadCallback' \in BOOLEAN
  BY DEF Prepare, StreamReady, ServerCorks, TypeOK, streamVars
<1>2. /\ requests' \in Seq(BOOLEAN) /\ corked' \in BOOLEAN
      /\ requests = <<>> /\ corked => requests' = <<>> /\ corked'
  <2>1. CASE Prepare \/ StreamReady
    BY <2>1 DEF Prepare, StreamReady, TypeOK, streamVars
  <2>2. CASE ServerCorks
    <3>1. requests # <<>> /\ corked' = Head(requests) /\ requests' = Tail(requests)
      BY <2>2 DEF ServerCorks
    <3>2. Head(requests) \in BOOLEAN /\ Tail(requests) \in Seq(BOOLEAN)
      BY <3>1, LastRequest DEF TypeOK
    <3> QED BY <3>1, <3>2
  <2> QED BY <2>1, <2>2
<1>3. TypeOK'
  BY <1>1, <1>2 DEF TypeOK, readVars, buttonVars
<1>4. Counted'
  BY <1>1, <1>2, SameCount DEF Counted, Open, buttonVars
<1> QED BY <1>3, <1>4

LEMMA CaptureTypes ==
  ASSUME TypeInv, Capture
  PROVE  TypeInv'
<1> USE DEF TypeInv
<1>1. /\ UNCHANGED <<buttonVars, stream, refused, requests, corked, readVars, onReadCallback,
                     sent, late>>
      /\ ~corked
  BY DEF Capture
<1>2. PICK n \in 0..2 :
        /\ Len(taken) + n =< MaxBytes
        /\ packets' = Append(packets, [i \in 1..n |-> Len(taken) + i])
        /\ taken' = taken \o [i \in 1..n |-> Recordings]
  BY DEF Capture
<1>3. Len(taken) \in Nat /\ n \in Nat /\ Recordings \in 1..MaxPresses
  BY <1>1, LenProperties, RecordingAssumption DEF TypeOK, Counted
<1>4. [i \in 1..n |-> Len(taken) + i] \in Seq(Bytes)
  <2>1. [i \in 1..n |-> Len(taken) + i] \in [1..n -> Bytes]
    BY <1>2, <1>3, RecordingAssumption DEF Bytes
  <2> QED BY <1>3, <2>1, SeqDef
<1>5. [i \in 1..n |-> Recordings] \in Seq(1..MaxPresses)
  <2>1. [i \in 1..n |-> Recordings] \in [1..n -> 1..MaxPresses]
    BY <1>3
  <2> QED BY <1>3, <2>1, SeqDef
<1>6. packets' \in Seq(Seq(Bytes))
  BY <1>2, <1>4, AppendProperties DEF TypeOK
<1>7. taken' \in Seq(1..MaxPresses)
  BY <1>2, <1>5, ConcatProperties DEF TypeOK
<1>8. TypeOK'
  BY <1>1, <1>6, <1>7 DEF TypeOK, readVars, buttonVars
<1>9. Counted'
  BY <1>1, SameCount DEF Counted, Open, buttonVars
<1> QED BY <1>8, <1>9

(* The bytes that a call of read() takes, and what it leaves.              *)
LEMMA ReadBytes ==
  ASSUME NEW S, NEW s \in Seq(S), NEW n \in Nat, n =< Len(s)
  PROVE  /\ Len(s) \in Nat
         /\ SubSeq(s, 1, n) \in Seq(S) /\ Len(SubSeq(s, 1, n)) = n
         /\ SubSeq(s, n + 1, Len(s)) \in Seq(S)
         /\ Len(SubSeq(s, n + 1, Len(s))) = Len(s) - n
         /\ \A i \in 1..n : SubSeq(s, 1, n)[i] = s[i]
         /\ \A i \in 1..(Len(s) - n) : SubSeq(s, n + 1, Len(s))[i] = s[n + i]
<1>1. Len(s) \in Nat /\ \A i \in 1..Len(s) : s[i] \in S
  BY LenProperties, ElementOfSeq
<1>2. 1 \in Int /\ n \in Int /\ \A i \in 1..n : s[i] \in S
  BY <1>1
<1>3. n + 1 \in Int /\ Len(s) \in Int /\ \A i \in (n + 1)..Len(s) : s[i] \in S
  BY <1>1
<1>4. /\ SubSeq(s, 1, n) \in Seq(S)
      /\ Len(SubSeq(s, 1, n)) = IF 1 =< n THEN n - 1 + 1 ELSE 0
      /\ \A i \in 1..(n - 1 + 1) : SubSeq(s, 1, n)[i] = s[1 + i - 1]
  BY <1>2, SubSeqProperties
<1>5. /\ SubSeq(s, n + 1, Len(s)) \in Seq(S)
      /\ Len(SubSeq(s, n + 1, Len(s))) = IF n + 1 =< Len(s) THEN Len(s) - (n + 1) + 1 ELSE 0
      /\ \A i \in 1..(Len(s) - (n + 1) + 1) : SubSeq(s, n + 1, Len(s))[i] = s[n + 1 + i - 1]
  BY <1>3, SubSeqProperties
<1>6. /\ Len(SubSeq(s, 1, n)) = n /\ Len(SubSeq(s, n + 1, Len(s))) = Len(s) - n
      /\ n - 1 + 1 = n /\ Len(s) - (n + 1) + 1 = Len(s) - n
  BY <1>1, <1>4, <1>5
<1>7. ASSUME NEW i \in 1..n PROVE SubSeq(s, 1, n)[i] = s[i]
  <2>1. 1 + i - 1 = i
    OBVIOUS
  <2> QED BY <1>4, <1>6, <2>1
<1>8. ASSUME NEW i \in 1..(Len(s) - n) PROVE SubSeq(s, n + 1, Len(s))[i] = s[n + i]
  <2>1. n + 1 + i - 1 = n + i
    BY <1>1
  <2> QED BY <1>5, <1>6, <2>1
<1> QED BY <1>1, <1>4, <1>5, <1>6, <1>7, <1>8

LEMMA ReadTypes ==
  ASSUME TypeInv, InHand, ReadStep
  PROVE  TypeInv'
<1> USE DEF TypeInv
<1>1. /\ UNCHANGED <<buttonVars, stream, refused, requests, corked, onReadCallback, taken, late>>
      /\ rpc' \in {"wait", "load", "call"}
  BY DEF ReadStep, ReadHole, ReadInsert, ReadLoad, ReadCall, TypeOK, streamVars, readVars
<1>2. CASE ReadHole \/ ReadInsert \/ ReadLoad
  <2>1. UNCHANGED sent
    BY <1>2 DEF ReadHole, ReadInsert, ReadLoad
  <2>2. packets # <<>> => /\ Head(packets) \in Seq(Bytes) /\ Len(Head(packets)) \in Nat
                          /\ Tail(packets) \in Seq(Seq(Bytes))
                          /\ buffer \o Head(packets) \in Seq(Bytes)
    BY HeadTailProperties, LenProperties, ConcatProperties DEF TypeOK
  <2>3. packets' \in Seq(Seq(Bytes)) /\ buffer' \in Seq(Bytes) /\ nbytes' \in Nat
    BY <1>2, <2>2 DEF ReadHole, ReadInsert, ReadLoad, TypeOK, streamVars, readVars
  <2>4. TypeOK'
    BY <1>1, <2>1, <2>3 DEF TypeOK, buttonVars
  <2>5. Counted'
    BY <1>1, <2>1, SameCount DEF Counted, Open, buttonVars
  <2> QED BY <2>4, <2>5
<1>3. CASE ReadCall
  <2>1. /\ UNCHANGED <<packets, nbytes>> /\ Send("audio", SubSeq(buffer, 1, nbytes))
        /\ buffer' = SubSeq(buffer, nbytes + 1, Len(buffer))
        /\ nbytes \in Nat /\ nbytes =< Len(buffer) /\ buffer \in Seq(Bytes)
    BY <1>3 DEF ReadCall, InHand, TypeOK, streamVars
  <2>2. SubSeq(buffer, 1, nbytes) \in Seq(Bytes) /\ buffer' \in Seq(Bytes)
    BY <2>1, ReadBytes
  <2>3. sent' \in Seq(Message) /\ Recordings' = Recordings + 0 /\ Recordings \in Nat
    BY <2>1, <2>2, SendCounts
  <2>4. TypeOK'
    BY <1>1, <2>1, <2>2, <2>3 DEF TypeOK, Message, buttonVars
  <2>5. Counted'
    BY <1>1, <2>3 DEF Counted, Open, buttonVars
  <2> QED BY <2>4, <2>5
<1> QED BY <1>2, <1>3 DEF ReadStep

LEMMA TypeNext ==
  ASSUME TypeInv, InHand, [Next]_vars
  PROVE  TypeInv'
<1>1. CASE UNCHANGED vars
  BY <1>1, SameCount DEF vars, buttonVars, streamVars, readVars, TypeInv, TypeOK, Counted, Open
<1> QED
  BY <1>1, ButtonTypes, SendTypes, PulseAudioTypes, CaptureTypes, ReadTypes
     DEF Next, ButtonStep
-----------------------------------------------------------------------------
(* The bytes of a piece, and that each piece is before the next ones.      *)
Content(s) == {s[a] : a \in DOMAIN s}
All(ps) == UNION {Content(ps[i]) : i \in DOMAIN ps}
Below(S, T) == \A x \in S, y \in T : x < y
Ordered(ps) == /\ \A i \in DOMAIN ps : Rising(ps[i])
               /\ \A i, j \in DOMAIN ps : i < j => Below(Content(ps[i]), Content(ps[j]))

Sent == [i \in DOMAIN sent |-> sent[i].data]

OrderInv == /\ Ordered(Sent) /\ Rising(buffer) /\ Ordered(packets)
            /\ Below(All(Sent), Content(buffer)) /\ Below(Content(buffer), All(packets))
            /\ Below(All(Sent), All(packets))
            /\ All(Sent) \cup Content(buffer) \cup All(packets) = 1..Len(taken)

LEMMA BeforeIsBelow ==
  ASSUME NEW s, NEW t
  PROVE  Before(s, t) <=> Below(Content(s), Content(t))
BY DEF Before, Below, Content

LEMMA ContentOf ==
  ASSUME NEW s \in Seq(Bytes)
  PROVE  Len(s) \in Nat /\ DOMAIN s = 1..Len(s) /\ Content(s) \subseteq Bytes
BY LenProperties, ElementOfSeq DEF Content

LEMMA ContentConcat ==
  ASSUME NEW s \in Seq(Bytes), NEW t \in Seq(Bytes)
  PROVE  /\ Content(s \o t) = Content(s) \cup Content(t)
         /\ Rising(s) /\ Rising(t) /\ Below(Content(s), Content(t)) => Rising(s \o t)
<1> DEFINE u == s \o t
           m == Len(s)
           n == Len(t)
<1>1. /\ m \in Nat /\ n \in Nat /\ DOMAIN s = 1..m /\ DOMAIN t = 1..n
      /\ u \in Seq(Bytes) /\ Len(u) = m + n
      /\ \A i \in 1..(m + n) : u[i] = IF i =< m THEN s[i] ELSE t[i - m]
  BY LenProperties, ConcatProperties
<1>2. DOMAIN u = 1..(m + n)
  BY <1>1, LenProperties
<1> HIDE DEF u, m, n
<1>3. Content(u) = Content(s) \cup Content(t)
  <2>1. ASSUME NEW i \in 1..(m + n) PROVE u[i] \in Content(s) \cup Content(t)
    <3>1. CASE i =< m
      <4>1. i \in 1..m /\ u[i] = s[i]
        BY <1>1, <3>1
      <4> QED BY <1>1, <4>1 DEF Content
    <3>2. CASE ~(i =< m)
      <4>1. i - m \in 1..n
        BY <1>1, <3>2
      <4> QED BY <1>1, <3>2, <4>1 DEF Content
    <3> QED BY <3>1, <3>2
  <2>2. ASSUME NEW i \in 1..m PROVE s[i] \in Content(u)
    <3>1. i \in 1..(m + n) /\ i =< m
      BY <1>1
    <3>2. u[i] = s[i]
      BY <1>1, <3>1
    <3> QED BY <1>2, <3>1, <3>2 DEF Content
  <2>3. ASSUME NEW i \in 1..n PROVE t[i] \in Content(u)
    <3>1. i + m \in 1..(m + n) /\ ~(i + m =< m) /\ i + m - m = i
      BY <1>1
    <3>2. u[i + m] = t[i]
      BY <1>1, <3>1
    <3> QED BY <1>2, <3>1, <3>2 DEF Content
  <2> QED BY <1>1, <1>2, <2>1, <2>2, <2>3 DEF Content
<1>4. ASSUME Rising(s), Rising(t), Below(Content(s), Content(t))
      PROVE  Rising(u)
  <2> SUFFICES ASSUME NEW a \in 1..(m + n), NEW b \in 1..(m + n), a < b
               PROVE  u[a] < u[b]
    BY <1>2 DEF Rising
  <2>1. CASE b =< m
    <3>1. a \in 1..m /\ b \in 1..m
      BY <1>1, <2>1
    <3> QED BY <1>1, <1>4, <3>1 DEF Rising
  <2>2. CASE a =< m /\ ~(b =< m)
    <3>1. a \in 1..m /\ b - m \in 1..n
      BY <1>1, <2>2
    <3>2. u[a] = s[a] /\ u[b] = t[b - m]
      BY <1>1, <2>2
    <3> QED BY <1>1, <1>4, <3>1, <3>2 DEF Below, Content
  <2>3. CASE ~(a =< m)
    <3>1. a - m \in 1..n /\ b - m \in 1..n /\ a - m < b - m
      BY <1>1, <2>3
    <3>2. u[a] = t[a - m] /\ u[b] = t[b - m]
      BY <1>1, <2>3
    <3> QED BY <1>1, <1>4, <3>1, <3>2 DEF Rising
  <2> QED BY <2>1, <2>2, <2>3
<1> QED BY <1>3, <1>4 DEF u

LEMMA ContentSplit ==
  ASSUME NEW s \in Seq(Bytes), NEW n \in Nat, n =< Len(s), Rising(s)
  PROVE  LET front == SubSeq(s, 1, n)
             rest  == SubSeq(s, n + 1, Len(s))
         IN  /\ Content(front) \cup Content(rest) = Content(s)
             /\ Rising(front) /\ Rising(rest) /\ Below(Content(front), Content(rest))
<1> DEFINE front == SubSeq(s, 1, n)
           rest == SubSeq(s, n + 1, Len(s))
           m == Len(s)
<1>1. /\ m \in Nat /\ DOMAIN s = 1..m
      /\ front \in Seq(Bytes) /\ Len(front) = n /\ rest \in Seq(Bytes) /\ Len(rest) = m - n
      /\ \A i \in 1..n : front[i] = s[i]
      /\ \A i \in 1..(m - n) : rest[i] = s[n + i]
  BY ReadBytes, LenProperties
<1>2. DOMAIN front = 1..n /\ DOMAIN rest = 1..(m - n)
  BY <1>1, LenProperties
<1> HIDE DEF front, rest, m
<1>3. Content(front) \cup Content(rest) = Content(s)
  <2>1. ASSUME NEW i \in 1..m PROVE s[i] \in Content(front) \cup Content(rest)
    <3>1. CASE i =< n
      BY <1>1, <1>2, <3>1 DEF Content
    <3>2. CASE ~(i =< n)
      <4>1. i - n \in 1..(m - n) /\ n + (i - n) = i
        BY <1>1, <3>2
      <4> QED BY <1>1, <1>2, <4>1 DEF Content
    <3> QED BY <3>1, <3>2
  <2>2. ASSUME NEW i \in 1..n PROVE front[i] \in Content(s)
    <3>1. i \in 1..m
      BY <1>1 DEF m
    <3> QED BY <1>1, <3>1 DEF Content
  <2>3. ASSUME NEW i \in 1..(m - n) PROVE rest[i] \in Content(s)
    <3>1. n + i \in 1..m
      BY <1>1
    <3> QED BY <1>1, <3>1 DEF Content
  <2>4. \A x \in Content(s) : x \in Content(front) \cup Content(rest)
    BY <1>1, <2>1 DEF Content
  <2>5. \A x \in Content(front) : x \in Content(s)
    BY <1>2, <2>2 DEF Content
  <2>6. \A x \in Content(rest) : x \in Content(s)
    BY <1>2, <2>3 DEF Content
  <2> QED BY <2>4, <2>5, <2>6
<1>4. Rising(front)
  BY <1>1, <1>2 DEF Rising, m
<1>5. Rising(rest)
  <2> SUFFICES ASSUME NEW a \in 1..(m - n), NEW b \in 1..(m - n), a < b
               PROVE  rest[a] < rest[b]
    BY <1>2 DEF Rising
  <2>1. n + a \in 1..m /\ n + b \in 1..m /\ n + a < n + b
    BY <1>1
  <2> QED BY <1>1, <2>1 DEF Rising
<1>6. Below(Content(front), Content(rest))
  <2> SUFFICES ASSUME NEW a \in 1..n, NEW b \in 1..(m - n)
               PROVE  front[a] < rest[b]
    BY <1>2 DEF Below, Content
  <2>1. a \in 1..m /\ n + b \in 1..m /\ a < n + b
    BY <1>1
  <2> QED BY <1>1, <2>1 DEF Rising
<1> QED BY <1>3, <1>4, <1>5, <1>6 DEF front, rest, m

LEMMA Joined ==
  ASSUME NEW ps \in Seq(Seq(Bytes)), NEW qs \in Seq(Seq(Bytes))
  PROVE  /\ ps \o qs \in Seq(Seq(Bytes))
         /\ All(ps \o qs) = All(ps) \cup All(qs)
         /\ Ordered(ps) /\ Ordered(qs) /\ Below(All(ps), All(qs)) => Ordered(ps \o qs)
<1> DEFINE us == ps \o qs
           m == Len(ps)
           n == Len(qs)
<1>1. /\ m \in Nat /\ n \in Nat /\ DOMAIN ps = 1..m /\ DOMAIN qs = 1..n
      /\ us \in Seq(Seq(Bytes)) /\ Len(us) = m + n
      /\ \A i \in 1..(m + n) : us[i] = IF i =< m THEN ps[i] ELSE qs[i - m]
  BY LenProperties, ConcatProperties
<1>2. DOMAIN us = 1..(m + n)
  BY <1>1, LenProperties
<1> HIDE DEF us, m, n
<1>3. ASSUME NEW i \in 1..(m + n)
      PROVE  \/ i \in 1..m /\ us[i] = ps[i]
             \/ i - m \in 1..n /\ us[i] = qs[i - m] /\ ~(i =< m)
  <2>1. us[i] = IF i =< m THEN ps[i] ELSE qs[i - m]
    BY <1>1
  <2>2. CASE i =< m
    <3>1. i \in 1..m
      BY <1>1, <2>2
    <3> QED BY <2>1, <2>2, <3>1
  <2>3. CASE ~(i =< m)
    <3>1. i - m \in 1..n
      BY <1>1, <2>3
    <3> QED BY <2>1, <2>3, <3>1
  <2> QED BY <2>2, <2>3
<1>4. All(us) = All(ps) \cup All(qs)
  <2>1. \A x \in All(us) : x \in All(ps) \cup All(qs)
    BY <1>1, <1>2, <1>3 DEF All
  <2>2. ASSUME NEW i \in 1..m PROVE Content(ps[i]) \subseteq All(us)
    <3>1. i \in 1..(m + n) /\ i =< m
      BY <1>1
    <3>2. us[i] = ps[i]
      BY <1>1, <3>1
    <3> QED BY <1>2, <3>1, <3>2 DEF All
  <2>3. ASSUME NEW i \in 1..n PROVE Content(qs[i]) \subseteq All(us)
    <3>1. i + m \in 1..(m + n) /\ ~(i + m =< m) /\ i + m - m = i
      BY <1>1
    <3>2. us[i + m] = qs[i]
      BY <1>1, <3>1
    <3> QED BY <1>2, <3>1, <3>2 DEF All
  <2>4. All(ps) \subseteq All(us)
    BY <1>1, <2>2 DEF All
  <2>5. All(qs) \subseteq All(us)
    BY <1>1, <2>3 DEF All
  <2> QED BY <2>1, <2>4, <2>5
<1>5. ASSUME Ordered(ps), Ordered(qs), Below(All(ps), All(qs))
      PROVE  Ordered(us)
  <2>1. ASSUME NEW i \in 1..(m + n) PROVE Rising(us[i])
    BY <1>1, <1>3, <1>5 DEF Ordered
  <2>2. ASSUME NEW i \in 1..(m + n), NEW j \in 1..(m + n), i < j
        PROVE  Below(Content(us[i]), Content(us[j]))
    <3>1. CASE i \in 1..m /\ us[i] = ps[i]
      <4>1. CASE j \in 1..m /\ us[j] = ps[j]
        BY <1>1, <1>5, <2>2, <3>1, <4>1 DEF Ordered
      <4>2. CASE j - m \in 1..n /\ us[j] = qs[j - m] /\ ~(j =< m)
        <5>1. Content(us[i]) \subseteq All(ps) /\ Content(us[j]) \subseteq All(qs)
          BY <1>1, <3>1, <4>2 DEF All
        <5> QED BY <1>5, <5>1 DEF Below
      <4> QED BY <1>3, <4>1, <4>2
    <3>2. CASE i - m \in 1..n /\ us[i] = qs[i - m] /\ ~(i =< m)
      <4>1. j - m \in 1..n /\ us[j] = qs[j - m] /\ i - m < j - m
        BY <1>1, <1>3, <2>2, <3>2
      <4> QED BY <1>1, <1>5, <3>2, <4>1 DEF Ordered
    <3> QED BY <1>3, <3>1, <3>2
  <2> QED BY <1>2, <2>1, <2>2 DEF Ordered
<1> QED BY <1>1, <1>4, <1>5 DEF us

LEMMA Alone ==
  ASSUME NEW p \in Seq(Bytes)
  PROVE  /\ <<p>> \in Seq(Seq(Bytes)) /\ All(<<p>>) = Content(p)
         /\ Rising(p) => Ordered(<<p>>)
<1>1. DOMAIN <<p>> = {1} /\ <<p>>[1] = p /\ <<p>> \in Seq(Seq(Bytes))
  OBVIOUS
<1>2. \A x : x \in All(<<p>>) <=> x \in Content(p)
  BY <1>1 DEF All
<1>3. Rising(p) => Ordered(<<p>>)
  BY <1>1 DEF Ordered
<1> QED BY <1>1, <1>2, <1>3

LEMMA Appended ==
  ASSUME NEW ps \in Seq(Seq(Bytes)), NEW p \in Seq(Bytes)
  PROVE  /\ Append(ps, p) \in Seq(Seq(Bytes))
         /\ All(Append(ps, p)) = All(ps) \cup Content(p)
         /\ Ordered(ps) /\ Rising(p) /\ Below(All(ps), Content(p)) => Ordered(Append(ps, p))
<1>1. Append(ps, p) = ps \o <<p>>
  BY AppendIsConcat
<1> QED BY <1>1, Alone, Joined

(* The first of a sequence of pieces is taken.                             *)
LEMMA Taken ==
  ASSUME NEW ps \in Seq(Seq(Bytes)), ps # <<>>, Ordered(ps)
  PROVE  /\ Head(ps) \in Seq(Bytes) /\ Tail(ps) \in Seq(Seq(Bytes))
         /\ All(ps) = Content(Head(ps)) \cup All(Tail(ps))
         /\ Rising(Head(ps)) /\ Ordered(Tail(ps))
         /\ Below(Content(Head(ps)), All(Tail(ps)))
<1> DEFINE h == Head(ps)
           t == Tail(ps)
           n == Len(t)
<1>1. /\ h \in Seq(Bytes) /\ t \in Seq(Seq(Bytes)) /\ n = Len(ps) - 1
      /\ \A i \in 1..n : t[i] = ps[i + 1]
  BY HeadTailProperties
<1>2. /\ n \in Nat /\ DOMAIN t = 1..n /\ Len(ps) = n + 1 /\ DOMAIN ps = 1..(n + 1)
      /\ h = ps[1]
  BY <1>1, LenProperties
<1> HIDE DEF h, t, n
<1>3. 1 \in 1..(n + 1) /\ \A i \in 1..n : i + 1 \in 1..(n + 1) /\ 1 < i + 1
  BY <1>2
<1>4. Rising(h) /\ Ordered(t)
  <2>1. Rising(h)
    BY <1>2, <1>3 DEF Ordered
  <2>2. ASSUME NEW i \in 1..n PROVE Rising(t[i])
    BY <1>1, <1>2, <1>3 DEF Ordered
  <2>3. ASSUME NEW i \in 1..n, NEW j \in 1..n, i < j
        PROVE  Below(Content(t[i]), Content(t[j]))
    <3>1. i + 1 < j + 1
      BY <2>3
    <3> QED BY <1>1, <1>2, <1>3, <3>1 DEF Ordered
  <2> QED BY <1>2, <2>1, <2>2, <2>3 DEF Ordered
<1>5. ASSUME NEW i \in 1..n PROVE Below(Content(h), Content(t[i]))
  BY <1>1, <1>2, <1>3 DEF Ordered
<1>6. Below(Content(h), All(t))
  BY <1>2, <1>5 DEF Below, All
<1>7. All(ps) = Content(h) \cup All(t)
  <2>1. ASSUME NEW i \in 1..(n + 1) PROVE Content(ps[i]) \subseteq Content(h) \cup All(t)
    <3>1. CASE i = 1
      BY <1>2, <3>1
    <3>2. CASE i # 1
      <4>1. i - 1 \in 1..n /\ i - 1 + 1 = i
        BY <1>2, <3>2
      <4>2. t[i - 1] = ps[i]
        BY <1>1, <4>1
      <4> QED BY <1>2, <4>1, <4>2 DEF All
    <3> QED BY <3>1, <3>2
  <2>2. Content(h) \subseteq All(ps)
    BY <1>2, <1>3 DEF All
  <2>3. ASSUME NEW i \in 1..n PROVE Content(t[i]) \subseteq All(ps)
    BY <1>1, <1>2, <1>3 DEF All
  <2>4. All(t) \subseteq All(ps)
    BY <1>2, <2>3 DEF All
  <2>5. All(ps) \subseteq Content(h) \cup All(t)
    BY <1>2, <2>1 DEF All
  <2> QED BY <2>2, <2>4, <2>5
<1> QED BY <1>1, <1>4, <1>6, <1>7 DEF h, t

LEMMA FunctionIsSeq ==
  ASSUME NEW S, NEW n \in Nat, NEW f \in [1..n -> S]
  PROVE  f \in Seq(S) /\ Len(f) = n
<1>1. f \in Seq(S)
  BY SeqDef
<1>2. DOMAIN f = 1..n /\ DOMAIN f = 1..Len(f) /\ Len(f) \in Nat
  BY <1>1, LenProperties
<1> QED BY <1>1, <1>2

(* Every step keeps the order: a packet is captured at the end, goes from  *)
(* the front of the packets to the end of the buffer, and is sent from its *)
(* front.                                                                  *)
LEMMA SendOrder ==
  ASSUME TypeOK, NEW type \in {"start", "audio", "stop"}, NEW data \in Seq(Bytes),
         Send(type, data)
  PROVE  Sent \in Seq(Seq(Bytes)) /\ Sent' = Append(Sent, data)
<1> DEFINE n == Len(sent)
<1>1. /\ sent \in Seq(Message) /\ sent' \in Seq(Message) /\ n \in Nat /\ Len(sent') = n + 1
      /\ \A i \in 1..n : sent'[i] = sent[i]
      /\ sent'[n + 1] = [type |-> type, data |-> data]
  BY SendCounts DEF TypeOK, Message
<1>2. DOMAIN sent = 1..n /\ DOMAIN sent' = 1..(n + 1) /\ \A i \in 1..n : sent[i] \in Message
  BY <1>1, LenProperties, ElementOfSeq
<1>3. Sent = [i \in 1..n |-> sent[i].data] /\ Sent' = [i \in 1..(n + 1) |-> sent'[i].data]
  BY <1>2 DEF Sent
<1>4. Sent \in Seq(Seq(Bytes)) /\ Len(Sent) = n
  <2>1. Sent \in [1..n -> Seq(Bytes)]
    BY <1>2, <1>3 DEF Message
  <2> HIDE DEF n
  <2> QED BY <1>1, <2>1, FunctionIsSeq
<1>5. /\ Append(Sent, data) \in Seq(Seq(Bytes)) /\ Len(Append(Sent, data)) = n + 1
      /\ \A i \in 1..n : Append(Sent, data)[i] = Sent[i]
      /\ Append(Sent, data)[n + 1] = data
  BY <1>4, AppendProperties
<1> HIDE DEF n
<1>6. Append(Sent, data) = [i \in 1..(n + 1) |-> Append(Sent, data)[i]]
  BY <1>5, LenProperties
<1>7. ASSUME NEW i \in 1..(n + 1) PROVE Append(Sent, data)[i] = sent'[i].data
  <2>1. CASE i = n + 1
    BY <1>1, <1>5, <2>1
  <2>2. CASE i # n + 1
    <3>1. i \in 1..n
      BY <1>1, <2>2
    <3> QED BY <1>1, <1>3, <1>5, <3>1
  <2> QED BY <2>1, <2>2
<1> QED BY <1>3, <1>4, <1>6, <1>7

LEMMA Nothing == Content(<<>>) = {} /\ Rising(<<>>) /\ All(<<>>) = {} /\ Ordered(<<>>)
BY DEF Content, Rising, All, Ordered

LEMMA SentIsSeq == TypeOK => Sent \in Seq(Seq(Bytes))
<1> SUFFICES ASSUME TypeOK PROVE Sent \in Seq(Seq(Bytes))
  OBVIOUS
<1>1. sent \in Seq(Message)
  BY DEF TypeOK, Message
<1>2. /\ Len(sent) \in Nat /\ DOMAIN sent = 1..Len(sent)
      /\ \A i \in 1..Len(sent) : sent[i] \in Message
  BY <1>1, LenProperties, ElementOfSeq
<1>3. Sent \in [1..Len(sent) -> Seq(Bytes)]
  BY <1>2 DEF Sent, Message
<1> QED BY <1>2, <1>3, FunctionIsSeq

LEMMA MarkOrder ==
  ASSUME TypeOK, OrderInv, SendStart \/ SendStop
  PROVE  OrderInv'
<1>1. UNCHANGED <<buffer, packets, taken>>
  BY DEF SendStart, SendStop, streamVars, readVars
<1>2. <<>> \in Seq(Bytes)
  OBVIOUS
<1>3. PICK type \in {"start", "stop"} : Send(type, <<>>)
  BY DEF SendStart, SendStop
<1>4. Sent \in Seq(Seq(Bytes)) /\ Sent' = Append(Sent, <<>>)
  BY <1>2, <1>3, SendOrder
<1>5. /\ All(Append(Sent, <<>>)) = All(Sent)
      /\ Ordered(Append(Sent, <<>>))
  BY <1>2, <1>4, Appended, Nothing DEF OrderInv, Below
<1>6. All(Sent)' = All(Sent) /\ Ordered(Sent)'
  BY <1>4, <1>5 DEF All, Ordered
<1> QED BY <1>1, <1>6 DEF OrderInv, All, Ordered

LEMMA CaptureOrder ==
  ASSUME TypeOK, OrderInv, Capture
  PROVE  OrderInv'
<1>1. UNCHANGED <<buffer, sent>>
  BY DEF Capture, readVars
<1>2. PICK n \in 0..2 :
        /\ Len(taken) + n =< MaxBytes
        /\ packets' = Append(packets, [i \in 1..n |-> Len(taken) + i])
        /\ taken' = taken \o [i \in 1..n |-> Recordings]
  BY DEF Capture
<1> DEFINE m == Len(taken)
           new == [i \in 1..n |-> m + i]
           tags == [i \in 1..n |-> Recordings]
<1>3. m \in Nat /\ n \in Nat
  BY LenProperties DEF TypeOK
<1>4. new \in Seq(Bytes) /\ Len(new) = n
  <2>1. new \in [1..n -> Bytes]
    BY <1>2, <1>3, RecordingAssumption DEF Bytes
  <2> HIDE DEF new
  <2> QED BY <1>3, <2>1, FunctionIsSeq
<1>5. Len(taken') = m + n
  <2>1. tags \in [1..n -> {Recordings}]
    OBVIOUS
  <2>2. tags \in Seq({Recordings}) /\ Len(tags) = n
    <3> HIDE DEF tags
    <3> QED BY <1>3, <2>1, FunctionIsSeq
  <2>3. taken \in Seq((1..MaxPresses) \cup {Recordings})
    BY SeqMonotonic DEF TypeOK
  <2>4. tags \in Seq((1..MaxPresses) \cup {Recordings})
    BY <2>2, SeqMonotonic
  <2> HIDE DEF tags
  <2>5. Len(taken \o tags) = m + n
    BY <2>2, <2>3, <2>4, ConcatProperties
  <2> QED BY <1>2, <2>5 DEF tags
<1>6. Rising(new)
  BY <1>3 DEF Rising
<1>7. Content(new) = (m + 1)..(m + n)
  <2>1. ASSUME NEW x \in (m + 1)..(m + n) PROVE x \in Content(new)
    <3>1. x - m \in 1..n /\ m + (x - m) = x
      BY <1>3
    <3> QED BY <3>1 DEF Content
  <2>2. ASSUME NEW x \in Content(new) PROVE x \in (m + 1)..(m + n)
    BY <1>3 DEF Content
  <2> QED BY <2>1, <2>2
<1> HIDE DEF new, m
<1>8. packets' = Append(packets, new) /\ packets \in Seq(Seq(Bytes))
  BY <1>2 DEF new, m, TypeOK
<1>9. Below(1..m, Content(new))
  BY <1>3, <1>7 DEF Below
<1>10. All(Sent) \cup Content(buffer) \cup All(packets) = 1..m
  BY DEF OrderInv, m
<1>11. /\ All(packets)' = All(packets) \cup Content(new)
       /\ Ordered(packets)'
  <2>1. Below(All(packets), Content(new))
    BY <1>9, <1>10 DEF Below
  <2>2. /\ All(Append(packets, new)) = All(packets) \cup Content(new)
        /\ Ordered(Append(packets, new))
    BY <1>4, <1>6, <1>8, <2>1, Appended DEF OrderInv
  <2> QED BY <1>8, <2>2 DEF All, Ordered
<1>12. /\ Below(Content(buffer), All(packets) \cup Content(new))
       /\ Below(All(Sent), All(packets) \cup Content(new))
  BY <1>9, <1>10 DEF OrderInv, Below
<1>13. (1..m) \cup Content(new) = 1..(m + n)
  BY <1>3, <1>7
<1>14. All(Sent)' = All(Sent) /\ Ordered(Sent)' = Ordered(Sent) /\ buffer' = buffer
  BY <1>1 DEF Sent, All, Ordered
<1>15. All(Sent) \cup Content(buffer) \cup All(packets) \cup Content(new) = 1..Len(taken')
  BY <1>5, <1>10, <1>13
<1> QED BY <1>11, <1>12, <1>14, <1>15 DEF OrderInv

LEMMA InsertOrder ==
  ASSUME TypeOK, OrderInv, ReadHole \/ ReadInsert
  PROVE  OrderInv'
<1>1. UNCHANGED <<sent, taken>> /\ packets # <<>> /\ packets' = Tail(packets)
  BY DEF ReadHole, ReadInsert
<1> DEFINE h == Head(packets)
           t == Tail(packets)
<1>2. /\ h \in Seq(Bytes) /\ All(packets) = Content(h) \cup All(t)
      /\ Rising(h) /\ Ordered(t) /\ Below(Content(h), All(t))
  BY <1>1, Taken DEF TypeOK, OrderInv
<1>3. All(packets)' = All(t) /\ Ordered(packets)' = Ordered(t)
  BY <1>1 DEF All, Ordered
<1> HIDE DEF h, t
<1>4. All(Sent)' = All(Sent) /\ Ordered(Sent)' = Ordered(Sent)
  BY <1>1 DEF Sent, All, Ordered
<1>5. CASE ReadHole
  <2>1. h = <<>> /\ buffer' = buffer
    BY <1>5 DEF ReadHole, readVars, h
  <2>2. All(packets) = All(t)
    BY <1>2, <2>1, Nothing
  <2> QED BY <1>1, <1>2, <1>3, <1>4, <2>1, <2>2 DEF OrderInv
<1>6. CASE ReadInsert
  <2>1. buffer' = buffer \o h /\ buffer \in Seq(Bytes)
    BY <1>6 DEF ReadInsert, TypeOK, h
  <2>2. Below(Content(buffer), Content(h))
    BY <1>2 DEF OrderInv, Below
  <2>3. Content(buffer \o h) = Content(buffer) \cup Content(h) /\ Rising(buffer \o h)
    BY <1>2, <2>1, <2>2, ContentConcat DEF OrderInv
  <2>4. Content(buffer)' = Content(buffer) \cup Content(h) /\ Rising(buffer)'
    BY <2>1, <2>3 DEF Content, Rising
  <2>5. /\ Below(All(Sent), Content(buffer) \cup Content(h))
        /\ Below(Content(buffer) \cup Content(h), All(t))
        /\ Below(All(Sent), All(t))
    BY <1>2 DEF OrderInv, Below
  <2>6. All(Sent) \cup (Content(buffer) \cup Content(h)) \cup All(t) = 1..Len(taken)
    BY <1>2 DEF OrderInv
  <2> QED BY <1>1, <1>2, <1>3, <1>4, <2>4, <2>5, <2>6 DEF OrderInv
<1> QED BY <1>5, <1>6

LEMMA CallOrder ==
  ASSUME TypeOK, InHand, OrderInv, ReadCall
  PROVE  OrderInv'
<1> DEFINE front == SubSeq(buffer, 1, nbytes)
           rest == SubSeq(buffer, nbytes + 1, Len(buffer))
<1>1. /\ UNCHANGED <<packets, taken>> /\ Send("audio", front) /\ buffer' = rest
      /\ nbytes \in Nat /\ nbytes =< Len(buffer) /\ buffer \in Seq(Bytes) /\ Rising(buffer)
  BY DEF ReadCall, InHand, TypeOK, streamVars, OrderInv
<1>2. /\ front \in Seq(Bytes) /\ Content(front) \cup Content(rest) = Content(buffer)
      /\ Rising(front) /\ Rising(rest) /\ Below(Content(front), Content(rest))
  BY <1>1, ReadBytes, ContentSplit
<1> HIDE DEF front, rest
<1>3. Sent \in Seq(Seq(Bytes)) /\ Sent' = Append(Sent, front)
  BY <1>1, <1>2, SendOrder
<1>4. Below(All(Sent), Content(front))
  BY <1>2 DEF OrderInv, Below
<1>5. All(Append(Sent, front)) = All(Sent) \cup Content(front) /\ Ordered(Append(Sent, front))
  BY <1>2, <1>3, <1>4, Appended DEF OrderInv
<1>6. All(Sent)' = All(Sent) \cup Content(front) /\ Ordered(Sent)'
  BY <1>3, <1>5 DEF All, Ordered
<1>7. /\ Below(All(Sent) \cup Content(front), Content(rest))
      /\ Below(Content(rest), All(packets))
      /\ Below(All(Sent) \cup Content(front), All(packets))
  BY <1>2 DEF OrderInv, Below
<1>8. (All(Sent) \cup Content(front)) \cup Content(rest) \cup All(packets) = 1..Len(taken)
  BY <1>2 DEF OrderInv
<1>9. Content(buffer)' = Content(rest) /\ Rising(buffer)' = Rising(rest)
  BY <1>1 DEF Content, Rising
<1>10. All(packets)' = All(packets) /\ Ordered(packets)' = Ordered(packets)
  BY <1>1 DEF All, Ordered
<1> QED BY <1>1, <1>2, <1>6, <1>7, <1>8, <1>9, <1>10 DEF OrderInv

LEMMA OrderNext ==
  ASSUME TypeOK, InHand, OrderInv, [Next]_vars
  PROVE  OrderInv'
<1>1. CASE UNCHANGED <<sent, buffer, packets, taken>>
  BY <1>1 DEF OrderInv, Sent, All, Ordered
<1>2. CASE Prepare \/ Press \/ Release \/ RecorderStart \/ RecorderStop \/ StreamReady
           \/ ServerCorks \/ ReadLoad \/ UNCHANGED vars
  <2>1. UNCHANGED <<sent, buffer, packets, taken>>
    BY <1>2 DEF Prepare, Press, Release, RecorderStart, RecorderStop, StreamReady, ServerCorks,
                ReadLoad, Cork, vars, streamVars, readVars
  <2> QED BY <1>1, <2>1
<1> QED BY <1>2, MarkOrder, CaptureOrder, InsertOrder, CallOrder DEF Next, ButtonStep, ReadStep

LEMMA OrderInit == Init => OrderInv
<1> SUFFICES ASSUME Init PROVE OrderInv
  OBVIOUS
<1>1. sent = <<>> /\ buffer = <<>> /\ packets = <<>> /\ taken = <<>>
  BY DEF Init
<1>2. Sent = <<>>
  BY <1>1 DEF Sent
<1>3. 1..Len(taken) = {}
  BY <1>1
<1> QED BY <1>1, <1>2, <1>3, Nothing DEF OrderInv, Below

LEMMA PiecesInOrder ==
  ASSUME TypeOK, OrderInv
  PROVE  InOrder
<1>1. Sent \in Seq(Seq(Bytes)) /\ packets \in Seq(Seq(Bytes)) /\ buffer \in Seq(Bytes)
  BY SentIsSeq DEF TypeOK
<1> DEFINE ps == Sent \o <<buffer>>
<1>2. ps \in Seq(Seq(Bytes)) /\ All(ps) = All(Sent) \cup Content(buffer) /\ Ordered(ps)
  BY <1>1, Alone, Joined DEF OrderInv
<1>3. Pieces = ps \o packets
  BY DEF Pieces, Sent
<1> HIDE DEF ps
<1>4. Below(All(ps), All(packets))
  BY <1>2 DEF OrderInv, Below
<1>5. /\ All(Pieces) = All(Sent) \cup Content(buffer) \cup All(packets)
      /\ Ordered(Pieces)
  BY <1>1, <1>2, <1>3, <1>4, Joined DEF OrderInv
<1>6. All(Pieces) = 1..Len(taken)
  BY <1>5 DEF OrderInv
<1>7. UNION {{Pieces[i][a] : a \in DOMAIN Pieces[i]} : i \in DOMAIN Pieces} = 1..Len(taken)
  BY <1>6 DEF All, Content
<1>8. \A i, j \in DOMAIN Pieces : i < j => Before(Pieces[i], Pieces[j])
  BY <1>5, BeforeIsBelow DEF Ordered
<1> QED BY <1>5, <1>7, <1>8 DEF InOrder, Ordered

(* The types, and that no byte is lost, doubled or reordered between the   *)
(* stream and the session, for packets of any sizes up to two bytes, any   *)
(* number of recordings and any interleaving of the button, the server and *)
(* the read callback (MediaClient.cpp:266-279, 316-328).                   *)
THEOREM BytesInOrder == SafeSpec => []IInv
<1>1. LagInv => InHand
  BY DEF LagInv
<1>2. TypeInv /\ OrderInv => IInv
  BY PiecesInOrder DEF TypeInv, IInv
<1>3. LagInv /\ [Next]_vars => LagInv'
  BY LagNext
<1>4. LagInv /\ TypeInv /\ [Next]_vars => TypeInv'
  BY <1>1, TypeNext
<1>5. LagInv /\ TypeInv /\ OrderInv /\ [Next]_vars => OrderInv'
  BY <1>1, OrderNext DEF TypeInv
<1> QED BY <1>2, <1>3, <1>4, <1>5, LagInit, TypeInit, OrderInit, PTL DEF SafeSpec
-----------------------------------------------------------------------------
(* Message i of s comes after a start that no stop has followed yet.       *)
InsideOf(s, i) == \E j \in 1..(i - 1) : /\ s[j].type = "start"
                                        /\ \A k \in (j + 1)..(i - 1) : s[k].type # "stop"

(* Only the earlier messages decide it, and of them the last one that is a *)
(* start or a stop.                                                        *)
LEMMA InsideAppend ==
  ASSUME NEW s, NEW t, NEW n \in Nat, \A i \in 1..n : t[i] = s[i]
  PROVE  /\ \A i \in 1..(n + 1) : InsideOf(t, i) <=> InsideOf(s, i)
         /\ InsideOf(t, n + 2) <=> \/ t[n + 1].type = "start"
                                   \/ t[n + 1].type # "stop" /\ InsideOf(s, n + 1)
<1>1. ASSUME NEW i \in 1..(n + 1)
      PROVE  InsideOf(t, i) <=> InsideOf(s, i)
  <2>1. /\ \A j \in 1..(i - 1) : t[j] = s[j]
        /\ \A j \in 1..(i - 1) : \A k \in (j + 1)..(i - 1) : k \in 1..(i - 1)
    OBVIOUS
  <2> QED BY <2>1 DEF InsideOf
<1>2. /\ n + 2 - 1 = n + 1 /\ n + 1 - 1 = n
      /\ \A j \in 1..n : n + 1 \in (j + 1)..(n + 1)
      /\ \A j \in 1..n : \A k \in (j + 1)..n : k \in 1..n /\ k \in (j + 1)..(n + 1)
      /\ \A j \in 1..n : \A k \in (j + 1)..(n + 1) : k = n + 1 \/ k \in (j + 1)..n
      /\ n + 1 \in 1..(n + 1) /\ (n + 2)..(n + 1) = {} /\ n + 1 + 1 = n + 2
      /\ \A j \in 1..(n + 1) : j = n + 1 \/ j \in 1..n
      /\ \A j \in 1..n : j \in 1..(n + 1)
  OBVIOUS
<1>3. CASE t[n + 1].type = "start"
  BY <1>2, <1>3 DEF InsideOf
<1>4. CASE t[n + 1].type # "start"
  <2>1. ASSUME InsideOf(t, n + 2)
        PROVE  t[n + 1].type # "stop" /\ InsideOf(s, n + 1)
    <3>1. PICK j \in 1..(n + 1) : /\ t[j].type = "start"
                                  /\ \A k \in (j + 1)..(n + 1) : t[k].type # "stop"
      BY <1>2, <2>1 DEF InsideOf
    <3>2. j \in 1..n
      BY <1>2, <1>4, <3>1
    <3>3. t[n + 1].type # "stop"
      BY <1>2, <3>1, <3>2
    <3>4. s[j].type = "start" /\ \A k \in (j + 1)..n : s[k].type # "stop"
      BY <1>2, <3>1, <3>2
    <3> QED BY <1>2, <3>2, <3>3, <3>4 DEF InsideOf
  <2>2. ASSUME t[n + 1].type # "stop", InsideOf(s, n + 1)
        PROVE  InsideOf(t, n + 2)
    <3>1. PICK j \in 1..n : /\ s[j].type = "start"
                            /\ \A k \in (j + 1)..n : s[k].type # "stop"
      BY <1>2, <2>2 DEF InsideOf
    <3>2. t[j].type = "start" /\ \A k \in (j + 1)..(n + 1) : t[k].type # "stop"
      BY <1>2, <2>2, <3>1
    <3> QED BY <1>2, <3>1, <3>2 DEF InsideOf
  <2> QED BY <1>1, <1>4, <2>1, <2>2
<1> QED BY <1>1, <1>3, <1>4

(* Between a start and its stop, and not otherwise, the loop is Open; when *)
(* it is not, every cork was in time or the stream is at rest.             *)
AtRest == ~Open => late \/ (Quiet /\ corked)
FrameInv == /\ Framed
            /\ InsideOf(sent, Len(sent) + 1) <=> Open
            /\ AtRest

Fits(s, i, l) == CASE s[i].type = "start" -> ~InsideOf(s, i)
                   [] s[i].type = "stop"  -> InsideOf(s, i)
                   [] s[i].type = "audio" -> InsideOf(s, i) \/ l

LEMMA FitsIsFramed ==
  /\ Framed <=> \A i \in DOMAIN sent : Fits(sent, i, late)
  /\ Framed' <=> \A i \in DOMAIN sent' : Fits(sent', i, late')
BY DEF Framed, Inside, InsideOf, Fits

(* A message is sent where it belongs.                                     *)
LEMMA SendFramed ==
  ASSUME TypeOK, FrameInv, NEW type \in {"start", "audio", "stop"},
         NEW data \in Seq(Bytes), Send(type, data), late => late',
         type = "start" => ~Open,
         type = "stop" => Open,
         type = "audio" => Open \/ late
  PROVE  /\ Framed'
         /\ InsideOf(sent', Len(sent') + 1)
              <=> (type = "start" \/ (type # "stop" /\ Open))
<1> DEFINE n == Len(sent)
<1>1. /\ n \in Nat /\ Len(sent') = n + 1 /\ sent \in Seq(Message) /\ sent' \in Seq(Message)
      /\ \A i \in 1..n : sent'[i] = sent[i]
      /\ sent'[n + 1] = [type |-> type, data |-> data]
  BY SendCounts DEF TypeOK, Message
<1>2. DOMAIN sent = 1..n /\ DOMAIN sent' = 1..(n + 1) /\ sent'[n + 1].type = type
  BY <1>1, LenProperties
<1> HIDE DEF n
<1>3. /\ \A i \in 1..(n + 1) : InsideOf(sent', i) <=> InsideOf(sent, i)
      /\ InsideOf(sent', n + 2) <=> \/ type = "start"
                                    \/ type # "stop" /\ InsideOf(sent, n + 1)
  BY <1>1, <1>2, InsideAppend
<1>4. InsideOf(sent, n + 1) <=> Open
  BY DEF FrameInv, n
<1>5. /\ \A i : Inside(i) <=> InsideOf(sent, i)
      /\ \A i : Inside(i)' <=> InsideOf(sent', i)
  BY DEF Inside, InsideOf
<1>6. /\ Framed <=> \A i \in DOMAIN sent : Fits(sent, i, late)
      /\ Framed' <=> \A i \in DOMAIN sent' : Fits(sent', i, late')
  BY FitsIsFramed
<1>7. ASSUME NEW i \in 1..n PROVE Fits(sent', i, late')
  <2>1. i \in 1..(n + 1)
    BY <1>1
  <2>2. InsideOf(sent', i) <=> InsideOf(sent, i)
    BY <1>3, <2>1
  <2>3. sent[i].type \in {"start", "audio", "stop"}
    <3>1. i \in 1..Len(sent) /\ sent \in Seq(Message)
      BY <1>1 DEF n
    <3>2. sent[i] \in Message
      BY <3>1, ElementOfSeq
    <3> QED BY <3>2 DEF Message
  <2>4. Fits(sent, i, late)
    BY <1>2, <1>6 DEF FrameInv
  <2> QED BY <1>1, <2>2, <2>3, <2>4 DEF Fits
<1>8. Fits(sent', n + 1, late')
  <2>1. InsideOf(sent', n + 1) <=> Open
    BY <1>1, <1>3, <1>4
  <2> QED BY <1>2, <2>1 DEF Fits
<1>9. Framed'
  <2>1. \A i \in 1..(n + 1) : i = n + 1 \/ i \in 1..n
    BY <1>1
  <2> QED BY <1>2, <1>6, <1>7, <1>8, <2>1
<1>10. Len(sent') + 1 = n + 2
  BY <1>1
<1> QED BY <1>3, <1>4, <1>9, <1>10

(* Where nothing is sent, nothing changes of the messages.                 *)
LEMMA SameFrame ==
  ASSUME FrameInv, UNCHANGED <<sent, late>>
  PROVE  Framed' /\ (InsideOf(sent', Len(sent') + 1) <=> Open)
<1>1. Framed'
  <2>1. sent' = sent /\ late' = late
    OBVIOUS
  <2> QED BY <2>1, FitsIsFramed DEF FrameInv
<1>2. InsideOf(sent', Len(sent') + 1) <=> InsideOf(sent, Len(sent) + 1)
  <2>1. sent' = sent
    OBVIOUS
  <2> QED BY <2>1
<1> QED BY <1>1, <1>2 DEF FrameInv

LEMMA FrameInit == Init => FrameInv
<1> SUFFICES ASSUME Init PROVE FrameInv
  OBVIOUS
<1>1. sent = <<>> /\ pc = "poll" /\ pressed = FALSE
  BY DEF Init
<1>2. DOMAIN sent = {} /\ Len(sent) = 0
  BY <1>1
<1>3. Framed /\ ~InsideOf(sent, Len(sent) + 1)
  BY <1>2 DEF Framed, InsideOf
<1>4. ~Open /\ Quiet /\ corked
  BY DEF Init, Open, Quiet
<1> QED BY <1>3, <1>4 DEF FrameInv, AtRest

LEMMA FrameNext ==
  ASSUME MicInv, TypeOK, InHand, FrameInv, [Next]_vars
  PROVE  FrameInv'
<1>1. CASE Press \/ Release \/ RecorderStart \/ RecorderStop
  <2>1. UNCHANGED <<sent, late, corked, packets, rpc>>
    BY <1>1 DEF Press, Release, RecorderStart, RecorderStop, Cork, streamVars, readVars
  <2>2. Open' <=> Open
    BY <1>1 DEF Press, Release, RecorderStart, RecorderStop, Cork, Goto, Open, MicInv, Asked,
                Typed
  <2>3. ~Open' => UNCHANGED requests
    BY <1>1, <2>2 DEF Press, Release, RecorderStart, RecorderStop, Cork, Goto, Open, streamVars
  <2>4. AtRest'
    BY <2>1, <2>2, <2>3 DEF FrameInv, AtRest, Quiet
  <2> QED BY <2>1, <2>2, <2>4, SameFrame DEF FrameInv
<1>2. CASE SendStart
  <2>1. /\ pc = "start" /\ pc' = "uncork" /\ Send("start", <<>>) /\ late' = late
    BY <1>2 DEF SendStart, Goto
  <2>2. ~Open /\ Open'
    BY <2>1 DEF Open
  <2>3. <<>> \in Seq(Bytes)
    OBVIOUS
  <2>4. Framed' /\ InsideOf(sent', Len(sent') + 1)
    BY <2>1, <2>2, <2>3, SendFramed
  <2> QED BY <2>2, <2>4 DEF FrameInv, AtRest
<1>3. CASE SendStop
  <2>1. /\ pc = "sleep" /\ pc' = "poll" /\ Send("stop", <<>>)
        /\ late' = (late \/ ~Quiet)
        /\ UNCHANGED <<pressed, requests, packets, rpc, corked>>
    BY <1>3 DEF SendStop, Goto, streamVars, readVars
  <2>2. ~pressed /\ Final
    BY <2>1 DEF MicInv, Asked
  <2>3. Open /\ ~Open'
    BY <2>1, <2>2 DEF Open
  <2>4. <<>> \in Seq(Bytes)
    OBVIOUS
  <2>5. Framed' /\ ~InsideOf(sent', Len(sent') + 1)
    BY <2>1, <2>3, <2>4, SendFramed
  <2>6. AtRest'
    BY <2>1, <2>2 DEF AtRest, Quiet, Final
  <2> QED BY <2>3, <2>5, <2>6 DEF FrameInv
<1>4. CASE ReadCall
  <2>1. /\ rpc = "call" /\ Send("audio", SubSeq(buffer, 1, nbytes))
        /\ UNCHANGED <<pc, pressed, late>>
        /\ nbytes \in Nat /\ nbytes =< Len(buffer) /\ buffer \in Seq(Bytes)
    BY <1>4 DEF ReadCall, buttonVars, InHand, TypeOK
  <2>2. Open \/ late
    BY <2>1 DEF FrameInv, AtRest, Quiet
  <2>3. SubSeq(buffer, 1, nbytes) \in Seq(Bytes)
    BY <2>1, ReadBytes
  <2>4. Framed' /\ (InsideOf(sent', Len(sent') + 1) <=> Open)
    BY <2>1, <2>2, <2>3, SendFramed
  <2>5. (Open' <=> Open) /\ AtRest'
    BY <2>1, <2>2 DEF Open, AtRest
  <2> QED BY <2>4, <2>5 DEF FrameInv
<1>5. CASE Prepare \/ StreamReady \/ ServerCorks \/ Capture \/ ReadHole \/ ReadInsert
           \/ ReadLoad \/ UNCHANGED vars
  <2>1. UNCHANGED <<sent, late, pc, pressed>>
    BY <1>5 DEF Prepare, StreamReady, ServerCorks, Capture, ReadHole, ReadInsert, ReadLoad,
                vars, buttonVars
  <2>2. Quiet /\ corked => (Quiet /\ corked)'
    BY <1>5 DEF Prepare, StreamReady, ServerCorks, Capture, ReadHole, ReadInsert, ReadLoad,
                vars, streamVars, readVars, Quiet
  <2>3. (Open' <=> Open) /\ AtRest'
    BY <2>1, <2>2 DEF Open, AtRest, FrameInv
  <2> QED BY <2>1, <2>3, SameFrame DEF FrameInv
<1> QED BY <1>1, <1>2, <1>3, <1>4, <1>5 DEF Next, ButtonStep, ReadStep

(* start and stop alternate for the session, and as long as every cork was *)
(* answered within the 100 ms, audio comes only between them, whenever the *)
(* server and the read callback get to run (streaming.zig:21-32,           *)
(* button_client.zig:46-60).                                               *)
THEOREM RecordingsFramed == SafeSpec => []Framed
<1>1. LagInv => InHand
  BY DEF LagInv
<1>2. LagInv /\ [Next]_vars => LagInv'
  BY LagNext
<1>3. LagInv /\ TypeInv /\ [Next]_vars => TypeInv'
  BY <1>1, TypeNext
<1>4. MicInv /\ LagInv /\ TypeInv /\ FrameInv /\ [Next]_vars => FrameInv'
  BY <1>1, FrameNext DEF TypeInv
<1>5. FrameInv => Framed
  BY DEF FrameInv
<1> QED BY <1>2, <1>3, <1>4, <1>5, LagInit, TypeInit, MicInit, MicNext, FrameInit, PTL
        DEF SafeSpec
-----------------------------------------------------------------------------
(* The lag is a number and never shrinks.                                  *)
LEMMA LagGrows ==
  ASSUME LagInv, [Next]_vars
  PROVE  /\ Len(buffer) \in Nat /\ Lag \in Nat
         /\ Lag' = 0 => Lag = 0
<1>1. Len(buffer) \in Nat
  BY LenProperties DEF LagInv, Sequences
<1>2. Lag \in Nat
  BY <1>1 DEF LagInv, InHand, Lag
<1>3. CASE onReadCallback
  BY <1>1, <1>2, <1>3, LagNext
<1>4. CASE ReadLoad
  <2>1. rpc = "load" /\ UNCHANGED <<nbytes, buffer>> /\ rpc' \in {"wait", "call"}
    BY <1>4 DEF ReadLoad
  <2>2. Lag' = Lag \/ (Lag' = Len(buffer) /\ Lag = Len(buffer) - nbytes)
    BY <2>1 DEF Lag
  <2> QED BY <1>1, <1>2, <2>1, <2>2 DEF LagInv, InHand
<1>5. CASE Prepare \/ Press \/ ButtonStep \/ StreamReady \/ ServerCorks \/ Capture \/ ReadHole
           \/ UNCHANGED vars
  <2>1. UNCHANGED <<rpc, nbytes, buffer>>
    BY <1>5 DEF Prepare, Press, ButtonStep, Release, SendStart, RecorderStart, RecorderStop,
                SendStop, Cork, StreamReady, ServerCorks, Capture, ReadHole, vars, readVars
  <2>2. Lag' = Lag
    BY <2>1 DEF Lag
  <2> QED BY <1>1, <1>2, <2>2
<1> QED BY <1>1, <1>2, <1>4, <1>5, InsertKeepsLag, CallKeepsLag DEF Next, ReadStep

(* As long as nothing has lagged or come late, what waits in the buffer    *)
(* and in the packets was captured in the current recording, and what was  *)
(* sent in the one it was sent in.                                         *)
Waiting == Content(buffer) \cup All(packets)
OwnInv == Lag = 0 /\ ~late =>
            /\ \A b \in Waiting : taken[b] = Recordings
            /\ \A i \in DOMAIN sent : \A b \in Content(sent[i].data) : taken[b] = Started(i)

(* A message is sent that carries bytes of the current recording.          *)
LEMMA SendOwn ==
  ASSUME TypeOK, OwnInv, Lag = 0, ~late, UNCHANGED taken,
         NEW type \in {"start", "audio", "stop"}, NEW data \in Seq(Bytes), Send(type, data),
         type = "start" => Content(data) = {},
         \A b \in Content(data) : taken[b] = Recordings
  PROVE  \A i \in DOMAIN sent' : \A b \in Content(sent'[i].data) : taken'[b] = Started(i)'
<1> DEFINE n == Len(sent)
<1>1. /\ n \in Nat /\ Len(sent') = n + 1 /\ sent \in Seq(Message) /\ sent' \in Seq(Message)
      /\ \A i \in 1..n : sent'[i] = sent[i]
      /\ sent'[n + 1] = [type |-> type, data |-> data]
      /\ \A i \in 0..n : Started(i)' = Started(i)
      /\ Recordings \in Nat
      /\ \A i : i = n + 1 => Started(i)' = Recordings + IF type = "start" THEN 1 ELSE 0
  BY SendCounts DEF TypeOK, Message
<1>2. DOMAIN sent = 1..n /\ DOMAIN sent' = 1..(n + 1) /\ sent'[n + 1].data = data
  BY <1>1, LenProperties
<1> HIDE DEF n
<1>3. ASSUME NEW i \in 1..(n + 1), NEW b \in Content(sent'[i].data)
      PROVE  taken'[b] = Started(i)'
  <2>1. CASE i = n + 1
    <3>1. b \in Content(data) /\ type # "start"
      BY <1>2, <1>3, <2>1
    <3>2. Started(i)' = Recordings
      BY <1>1, <2>1, <3>1
    <3> QED BY <3>1, <3>2
  <2>2. CASE i # n + 1
    <3>1. i \in 1..n /\ i \in 0..n
      BY <1>1, <2>2
    <3>2. b \in Content(sent[i].data) /\ Started(i)' = Started(i)
      BY <1>1, <1>3, <3>1
    <3>3. taken[b] = Started(i)
      BY <1>2, <3>1, <3>2 DEF OwnInv
    <3> QED BY <3>2, <3>3
  <2> QED BY <2>1, <2>2
<1> QED BY <1>2, <1>3

LEMMA CaptureOwn ==
  ASSUME TypeOK, Counted, OrderInv, OwnInv, Capture, Lag = 0, ~late
  PROVE  OwnInv'
<1>1. UNCHANGED <<buffer, sent>>
  BY DEF Capture, readVars
<1>2. PICK n \in 0..2 :
        /\ Len(taken) + n =< MaxBytes
        /\ packets' = Append(packets, [i \in 1..n |-> Len(taken) + i])
        /\ taken' = taken \o [i \in 1..n |-> Recordings]
  BY DEF Capture
<1> DEFINE m == Len(taken)
           new == [i \in 1..n |-> m + i]
           tags == [i \in 1..n |-> Recordings]
<1>3. m \in Nat /\ n \in Nat
  BY LenProperties DEF TypeOK
<1>4. new \in Seq(Bytes) /\ Len(new) = n
  <2>1. new \in [1..n -> Bytes]
    BY <1>2, <1>3, RecordingAssumption DEF Bytes
  <2> HIDE DEF new
  <2> QED BY <1>3, <2>1, FunctionIsSeq
<1>5. /\ \A b \in 1..m : taken'[b] = taken[b]
      /\ \A b \in (m + 1)..(m + n) : taken'[b] = Recordings
  <2>1. tags \in [1..n -> {Recordings}]
    OBVIOUS
  <2>2. tags \in Seq({Recordings}) /\ Len(tags) = n
    <3> HIDE DEF tags
    <3> QED BY <1>3, <2>1, FunctionIsSeq
  <2>3. \A i \in 1..n : tags[i] = Recordings
    OBVIOUS
  <2>4. taken \in Seq((1..MaxPresses) \cup {Recordings})
    BY SeqMonotonic DEF TypeOK
  <2>5. tags \in Seq((1..MaxPresses) \cup {Recordings})
    BY <2>2, SeqMonotonic
  <2> HIDE DEF tags
  <2>6. \A b \in 1..(m + n) : (taken \o tags)[b] = IF b =< m THEN taken[b] ELSE tags[b - m]
    BY <2>2, <2>4, <2>5, ConcatProperties
  <2>7. taken' = taken \o tags
    BY <1>2 DEF tags
  <2> HIDE DEF m
  <2>8. ASSUME NEW b \in 1..m PROVE taken'[b] = taken[b]
    <3>1. b \in 1..(m + n) /\ b =< m
      BY <1>3
    <3> QED BY <2>6, <2>7, <3>1
  <2>9. ASSUME NEW b \in (m + 1)..(m + n) PROVE taken'[b] = Recordings
    <3>1. b \in 1..(m + n) /\ ~(b =< m) /\ b - m \in 1..n
      BY <1>3
    <3> QED BY <2>3, <2>6, <2>7, <3>1
  <2> QED BY <2>8, <2>9
<1>6. Content(new) \subseteq (m + 1)..(m + n)
  <2>1. DOMAIN new = 1..n
    OBVIOUS
  <2>2. ASSUME NEW i \in 1..n PROVE new[i] \in (m + 1)..(m + n)
    BY <1>3
  <2> HIDE DEF new, m
  <2> QED BY <2>1, <2>2 DEF Content
<1> HIDE DEF new, m, tags
<1>7. packets' = Append(packets, new) /\ packets \in Seq(Seq(Bytes))
  BY <1>2 DEF new, m, TypeOK
<1>8. All(packets') = All(packets) \cup Content(new)
  BY <1>4, <1>7, Appended
<1>9. Waiting' = Waiting \cup Content(new)
  BY <1>1, <1>8 DEF Waiting, All, Content
<1>10. /\ All(Sent) \subseteq 1..m /\ Waiting \subseteq 1..m
  BY DEF OrderInv, m, Waiting
<1>11. Recordings' = Recordings /\ \A i : Started(i)' = Started(i)
  BY <1>1, SameCount
<1>12. \A b \in Waiting' : taken'[b] = Recordings'
  BY <1>5, <1>6, <1>9, <1>10, <1>11 DEF OwnInv
<1>13. ASSUME NEW i \in DOMAIN sent, NEW b \in Content(sent[i].data)
       PROVE  taken'[b] = Started(i)'
  <2>1. b \in All(Sent)
    BY DEF All, Sent
  <2>2. taken[b] = Started(i)
    BY DEF OwnInv
  <2> QED BY <1>5, <1>10, <1>11, <2>1, <2>2
<1>14. \A i \in DOMAIN sent' : \A b \in Content(sent'[i].data) : taken'[b] = Started(i)'
  BY <1>1, <1>13
<1> QED BY <1>12, <1>14 DEF OwnInv, Content

LEMMA OwnNext ==
  ASSUME LagInv, TypeInv, OrderInv, FrameInv, OwnInv, [Next]_vars
  PROVE  OwnInv'
<1> SUFFICES ASSUME Lag' = 0, ~late' PROVE OwnInv'
  BY DEF OwnInv
<1> USE DEF TypeInv
<1>1. Lag = 0 /\ Len(buffer) \in Nat
  BY LagGrows
<1>2. ~late
  BY DEF Next, ButtonStep, ReadStep, Prepare, Press, Release, SendStart, RecorderStart,
         RecorderStop, SendStop, Cork, StreamReady, ServerCorks, Capture, ReadHole, ReadInsert,
         ReadLoad, ReadCall, vars
<1> DEFINE Goal(s, w) ==
      /\ \A b \in w : taken'[b] = Recordings'
      /\ \A i \in DOMAIN s : \A b \in Content(s[i].data) : taken'[b] = Started(i)'
<1>3. Goal(sent', Waiting') => OwnInv'
  BY DEF OwnInv, Content
<1>4. Goal(sent, Waiting) \/ ~UNCHANGED <<sent, taken>>
  <2>1. UNCHANGED sent => Recordings' = Recordings /\ \A i : Started(i)' = Started(i)
    BY SameCount
  <2> QED BY <1>1, <1>2, <2>1 DEF OwnInv
<1>5. CASE UNCHANGED <<sent, taken>> /\ Waiting' \subseteq Waiting
  BY <1>3, <1>4, <1>5
<1>6. CASE Prepare \/ Press \/ Release \/ RecorderStart \/ RecorderStop \/ StreamReady
           \/ ServerCorks \/ ReadLoad \/ UNCHANGED vars
  <2>1. UNCHANGED <<sent, buffer, packets, taken>>
    BY <1>6 DEF Prepare, Press, Release, RecorderStart, RecorderStop, StreamReady, ServerCorks,
                ReadLoad, Cork, vars, streamVars, readVars
  <2>2. Waiting' = Waiting
    BY <2>1 DEF Waiting, Content, All
  <2> QED BY <1>5, <2>1, <2>2
<1>7. CASE SendStart
  <2>1. /\ Send("start", <<>>) /\ pc = "start" /\ UNCHANGED <<buffer, packets, taken>>
    BY <1>7 DEF SendStart, Goto, streamVars, readVars
  <2>2. <<>> \in Seq(Bytes) /\ Content(<<>>) = {}
    BY Nothing
  <2>3. Quiet
    BY <1>2, <2>1 DEF FrameInv, AtRest, Open
  <2>4. buffer = <<>> /\ packets = <<>>
    <3>1. Len(buffer) = 0
      BY <1>1, <2>3 DEF Quiet, Lag
    <3> QED BY <2>3, <3>1, EmptySeq DEF Quiet, TypeOK
  <2>5. Waiting' = {}
    BY <2>1, <2>4, Nothing DEF Waiting
  <2>6. \A i \in DOMAIN sent' : \A b \in Content(sent'[i].data) : taken'[b] = Started(i)'
    BY <1>1, <1>2, <2>1, <2>2, SendOwn
  <2> QED BY <1>3, <2>5, <2>6
<1>8. CASE SendStop
  <2>1. /\ Send("stop", <<>>) /\ UNCHANGED <<buffer, packets, taken>>
    BY <1>8 DEF SendStop, streamVars, readVars
  <2>2. <<>> \in Seq(Bytes) /\ Content(<<>>) = {}
    BY Nothing
  <2>3. Waiting' = Waiting
    BY <2>1 DEF Waiting, Content, All
  <2>4. Recordings' = Recordings
    <3>1. Recordings \in Nat /\ Recordings' = Recordings + 0
      BY <2>1, <2>2, SendCounts
    <3> QED BY <3>1
  <2>5. \A b \in Waiting' : taken'[b] = Recordings'
    BY <1>1, <1>2, <2>1, <2>3, <2>4 DEF OwnInv
  <2>6. \A i \in DOMAIN sent' : \A b \in Content(sent'[i].data) : taken'[b] = Started(i)'
    BY <1>1, <1>2, <2>1, <2>2, SendOwn
  <2> QED BY <1>3, <2>5, <2>6
<1>9. CASE Capture
  BY <1>1, <1>2, <1>9, CaptureOwn
<1>10. CASE ReadHole \/ ReadInsert
  <2>1. UNCHANGED <<sent, taken>> /\ packets # <<>> /\ packets' = Tail(packets)
    BY <1>10 DEF ReadHole, ReadInsert
  <2>2. Head(packets) \in Seq(Bytes) /\ All(packets) = Content(Head(packets)) \cup All(Tail(packets))
    BY <2>1, Taken DEF TypeOK, OrderInv
  <2>3. buffer' = buffer \/ buffer' = buffer \o Head(packets)
    BY <1>10 DEF ReadHole, ReadInsert, readVars
  <2>4. Content(buffer \o Head(packets)) = Content(buffer) \cup Content(Head(packets))
    BY <2>2, ContentConcat DEF TypeOK
  <2>5. Content(buffer') \subseteq Content(buffer) \cup Content(Head(packets))
    BY <2>3, <2>4
  <2>6. Waiting' = Content(buffer') \cup All(packets')
    BY DEF Waiting, Content, All
  <2>7. Waiting' \subseteq Waiting
    BY <2>1, <2>2, <2>5, <2>6 DEF Waiting
  <2> QED BY <1>5, <2>1, <2>7
<1>11. CASE ReadCall
  <2> DEFINE front == SubSeq(buffer, 1, nbytes)
             rest == SubSeq(buffer, nbytes + 1, Len(buffer))
  <2>1. /\ UNCHANGED <<packets, taken>> /\ Send("audio", front) /\ buffer' = rest
        /\ nbytes \in Nat /\ nbytes =< Len(buffer) /\ buffer \in Seq(Bytes) /\ Rising(buffer)
    BY <1>11 DEF ReadCall, LagInv, InHand, TypeOK, streamVars, OrderInv
  <2>2. front \in Seq(Bytes) /\ Content(front) \cup Content(rest) = Content(buffer)
    BY <2>1, ReadBytes, ContentSplit
  <2> HIDE DEF front, rest
  <2>3. Waiting' = Content(rest) \cup All(packets)
    BY <2>1 DEF Waiting, Content, All
  <2>4. Recordings' = Recordings
    <3>1. Recordings \in Nat /\ Recordings' = Recordings + 0
      BY <2>1, <2>2, SendCounts
    <3> QED BY <3>1
  <2>5. \A b \in Waiting : taken[b] = Recordings
    BY <1>1, <1>2 DEF OwnInv
  <2>6. \A b \in Waiting' : taken'[b] = Recordings'
    BY <2>1, <2>2, <2>3, <2>4, <2>5 DEF Waiting
  <2>7. \A b \in Content(front) : taken[b] = Recordings
    BY <2>2, <2>5 DEF Waiting
  <2>8. \A i \in DOMAIN sent' : \A b \in Content(sent'[i].data) : taken'[b] = Started(i)'
    BY <1>1, <1>2, <2>1, <2>2, <2>7, SendOwn
  <2> QED BY <1>3, <2>6, <2>8
<1> QED BY <1>6, <1>7, <1>8, <1>9, <1>10, <1>11 DEF Next, ButtonStep, ReadStep

LEMMA OwnInit == Init => OwnInv
<1> SUFFICES ASSUME Init PROVE OwnInv
  OBVIOUS
<1>1. sent = <<>> /\ buffer = <<>> /\ packets = <<>>
  BY DEF Init
<1>2. DOMAIN sent = {} /\ Waiting = {}
  BY <1>1, Nothing DEF Waiting
<1> QED BY <1>2 DEF OwnInv

(* With corks in time and nothing left unsent in the recorder, a recording *)
(* is sent the audio captured in it and no other's, however the two        *)
(* threads and the server interleave (MediaClient.cpp:266-279,             *)
(* button_client.zig:46-60).                                               *)
THEOREM OwnAudioOnly == SafeSpec => []OwnAudio
<1>1. LagInv => InHand
  BY DEF LagInv
<1>2. LagInv /\ [Next]_vars => LagInv'
  BY LagNext
<1>3. LagInv /\ TypeInv /\ [Next]_vars => TypeInv'
  BY <1>1, TypeNext
<1>4. LagInv /\ TypeInv /\ OrderInv /\ [Next]_vars => OrderInv'
  BY <1>1, OrderNext DEF TypeInv
<1>5. MicInv /\ LagInv /\ TypeInv /\ FrameInv /\ [Next]_vars => FrameInv'
  BY <1>1, FrameNext DEF TypeInv
<1>6. LagInv /\ TypeInv /\ OrderInv /\ FrameInv /\ OwnInv /\ [Next]_vars => OwnInv'
  BY OwnNext
<1>7. OwnInv => OwnAudio
  BY DEF OwnInv, OwnAudio, Content
<1> QED BY <1>2, <1>3, <1>4, <1>5, <1>6, <1>7, LagInit, TypeInit, OrderInit, MicInit, MicNext,
           FrameInit, OwnInit, PTL
        DEF SafeSpec
=============================================================================

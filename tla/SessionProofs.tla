--------------------------- MODULE SessionProofs ---------------------------
(***************************************************************************)
(* The safety of Session for any messages and any number of them, on any   *)
(* network: one write at a time, of the queue's first message, the         *)
(* channel's order, and that only a failed write leaves messages behind.   *)
(***************************************************************************)
EXTENDS Session, SequenceTheorems, TLAPS

Write == [data : Messages, open : BOOLEAN]

LEMMA Singleton ==
  ASSUME NEW S, NEW s \in Seq(S), Len(s) = 1
  PROVE  Tail(s) = <<>> /\ Head(s) \in S
<1>1. Tail(s) \in Seq(S) /\ Len(Tail(s)) = 0
  OBVIOUS
<1>2. Tail(s) = <<>>
  BY <1>1, EmptySeq
<1>3. Head(s) \in S
  OBVIOUS
<1> QED
  BY <1>2, <1>3

LEMMA InitInv == Init => IInv
<1> SUFFICES ASSUME Init PROVE IInv
  OBVIOUS
<1>1. <<>> \in Seq(Messages) /\ <<>> \in Seq(Write)
  OBVIOUS
<1>2. TypeOK
  BY <1>1 DEF Init, TypeOK, Write
<1> QED
  BY <1>2 DEF Init, IInv, OneWrite

(* The steps of the connection leave the messages alone.                   *)
LEMMA ConnectionStep ==
  ASSUME TypeOK, onResolve \/ onConnect \/ onHandshake \/ onRead \/ onReadError
                 \/ WorkerExits
  PROVE  /\ TypeOK'
         /\ UNCHANGED <<posted, q, inflight, wire>>
<1>1. /\ Phases[1] = "resolving" /\ Phases[2] = "connecting"
      /\ Phases[3] = "handshaking" /\ Phases[4] = "open"
  BY DEF Phases
<1>2. ASSUME NEW i \in 1..3, Chain(i) PROVE TypeOK' /\ UNCHANGED <<posted, q, inflight, wire>>
  <2>1. phase' \in {"resolving", "connecting", "handshaking", "open", "failed"}
    BY <1>1, <1>2 DEF Chain
  <2> QED
    BY <1>2, <2>1 DEF Chain, TypeOK
<1>3. CASE onRead \/ onReadError \/ WorkerExits
  BY <1>3 DEF onRead, onReadError, WorkerExits, TypeOK, connection
<1> QED
  BY <1>2, <1>3 DEF onResolve, onConnect, onHandshake

LEMMA NextInv == IInv /\ [Next]_vars => IInv'
<1> SUFFICES ASSUME IInv, [Next]_vars PROVE IInv'
  OBVIOUS
<1> USE DEF IInv, OneWrite
<1>1. CASE onResolve \/ onConnect \/ onHandshake \/ onRead \/ onReadError
           \/ WorkerExits
  BY <1>1, ConnectionStep
<1>2. ASSUME NEW m \in Messages, SendPost(m) PROVE IInv'
  BY <1>2 DEF SendPost, TypeOK, connection
<1>3. CASE Send
  <2>1. /\ posted' \in Seq(Messages)
        /\ Head(posted) \in Messages
        /\ q' = Append(q, Head(posted)) /\ q' \in Seq(Messages) /\ q' # <<>>
    BY <1>3 DEF Send, TypeOK
  <2>2. CASE Len(q') > 1
    <3>1. inflight' = inflight
      BY <1>3, <2>2 DEF Send
    <3>2. inflight # <<>> => Head(q') = Head(q)
      BY <2>1 DEF TypeOK
    <3> QED
      BY <1>3, <2>1, <3>1, <3>2 DEF Send, TypeOK, connection
  <2>3. CASE ~(Len(q') > 1)
    <3>1. q = <<>>
      BY <2>1, <2>3 DEF TypeOK
    <3>2. inflight = <<>>
      BY <3>1
    <3>3. inflight' = <<[data |-> Head(q'), open |-> phase = "open"]>>
      BY <1>3, <2>3, <3>2 DEF Send, StartWrite
    <3> QED
      BY <1>3, <2>1, <3>3 DEF Send, TypeOK, connection
  <2> QED
    BY <2>2, <2>3
<1>4. CASE onWrite
  <2>0. Len(inflight) = 1 /\ q # <<>> /\ inflight \in Seq(Write)
    BY <1>4 DEF onWrite, WriteDone, TypeOK, Write
  <2>1. Len(inflight) = 1 /\ q # <<>> /\ Tail(inflight) = <<>> /\ Head(inflight) \in Write
    BY <2>0, Singleton
  <2>5. Head(inflight).data \in Messages
    BY <2>1 DEF Write
  <2>2. q' = Tail(q) /\ q' \in Seq(Messages) /\ wire' \in Seq(Messages)
    BY <1>4, <2>1, <2>5 DEF onWrite, WriteDone, TypeOK
  <2>3. CASE Tail(q) = <<>>
    BY <1>4, <2>1, <2>2, <2>3 DEF onWrite, WriteDone, TypeOK, connection
  <2>4. CASE Tail(q) # <<>>
    <3>1. Head(q') \in Messages
      BY <2>2, <2>4
    <3>2. inflight' = <<[data |-> Head(q'), open |-> phase = "open"]>>
      <4>1. inflight' = Append(<<>>, [data |-> Head(q'), open |-> phase = "open"])
        BY <1>4, <2>1, <2>2, <2>4 DEF onWrite, StartNext
      <4> QED
        BY <4>1
    <3> QED
      BY <1>4, <2>2, <2>4, <3>1, <3>2 DEF onWrite, WriteDone, TypeOK, connection
  <2> QED
    BY <2>3, <2>4
<1>5. CASE onWriteError
  BY <1>5 DEF onWriteError, TypeOK, connection
<1>6. CASE UNCHANGED vars
  BY <1>6 DEF vars, connection, TypeOK
<1> QED
  BY <1>1, <1>2, <1>3, <1>4, <1>5, <1>6 DEF Next

(* The inductive invariant: types, and one write at a time, of the message *)
(* at the head of the queue (Session.cpp:44-60, 187-206).                  *)
THEOREM Invariance == SafeSpec => []IInv
<1> QED
  BY InitInv, NextInv, PTL DEF SafeSpec

(* The session is a channel that keeps the order of the sends and writes   *)
(* nothing twice, whatever the network does (Session.cpp:34-60, 187-206).  *)
THEOREM Refinement == SafeSpec => ChannelSafe
<1> USE DEF Wire!vars
<1>1. Init => Wire!Init
  BY DEF Init, Wire!Init
<1>2. IInv /\ [Next]_vars => [Wire!Next]_Wire!vars
  <2> SUFFICES ASSUME IInv, [Next]_vars PROVE [Wire!Next]_Wire!vars
    OBVIOUS
  <2> USE DEF IInv, TypeOK
  <2>1. CASE onResolve \/ onConnect \/ onHandshake \/ onRead \/ onReadError
             \/ WorkerExits
    BY <2>1, ConnectionStep
  <2>2. ASSUME NEW m \in Messages, SendPost(m) PROVE Wire!Send(m)
    <3>1. q \o Append(posted, m) = Append(q \o posted, m)
      OBVIOUS
    <3> QED
      BY <2>2, <3>1 DEF SendPost, Wire!Send
  <2>3. CASE Send
    <3>1. Append(q, Head(posted)) \o Tail(posted) = q \o posted
      BY <2>3 DEF Send
    <3> QED
      BY <2>3, <3>1 DEF Send
  <2>4. CASE onWrite
    <3>1. q # <<>> /\ Head(inflight).data = Head(q)
      BY <2>4 DEF onWrite, WriteDone, OneWrite
    <3>2. /\ q \o posted # <<>>
          /\ Head(q \o posted) = Head(q)
          /\ Tail(q \o posted) = Tail(q) \o posted
      BY <3>1
    <3> QED
      BY <2>4, <3>1, <3>2 DEF onWrite, WriteDone, Wire!Deliver, Wire!Next
  <2>5. CASE onWriteError \/ UNCHANGED vars
    BY <2>5 DEF onWriteError, vars
  <2> QED
    BY <2>1, <2>2, <2>3, <2>4, <2>5 DEF Next, Wire!Next
<1> QED
  BY <1>1, <1>2, Invariance, PTL DEF SafeSpec, ChannelSafe, Wire!SafeSpec

(* Whatever else happens, messages that wait are being written: the queue  *)
(* is left without a write by a write that failed and by no other step     *)
(* (Session.cpp:44-60, 187-206).                                           *)
THEOREM StuckByFailure == SafeSpec => StuckOnlyByFailure
<1>1. IInv /\ [Next]_vars => [~Stuck /\ Stuck' => onWriteError]_vars
  <2> SUFFICES ASSUME IInv, [Next]_vars, ~Stuck, Stuck' PROVE onWriteError
    OBVIOUS
  <2> USE DEF IInv, TypeOK, Stuck
  <2>1. CASE onResolve \/ onConnect \/ onHandshake \/ onRead \/ onReadError
             \/ WorkerExits
    BY <2>1, ConnectionStep
  <2>2. CASE \E m \in Messages : SendPost(m)
    BY <2>2 DEF SendPost
  <2>3. CASE Send
    <3>1. /\ posted # <<>> /\ q' = Append(q, Head(posted))
          /\ IF Len(q') > 1 THEN inflight' = inflight ELSE StartWrite(Head(q'))
      BY <2>3 DEF Send
    <3>2. CASE Len(q') > 1
      <4>1. q # <<>>
        BY <3>1, <3>2
      <4> QED BY <3>1, <3>2, <4>1
    <3>3. CASE ~(Len(q') > 1)
      BY <3>1, <3>3 DEF StartWrite
    <3> QED BY <3>2, <3>3
  <2>4. CASE onWrite
    <3>1. q' = Tail(q) /\ q' # <<>>
      BY <2>4 DEF onWrite, WriteDone
    <3>2. inflight' = Append(Tail(inflight), [data |-> Head(Tail(q)), open |-> phase = "open"])
      BY <2>4, <3>1 DEF onWrite, StartNext
    <3>3. inflight # <<>> /\ Tail(inflight) \in Seq(Write)
      BY <2>4 DEF onWrite, WriteDone, Write
    <3>4. Head(Tail(q)) \in Messages
      <4>1. q # <<>> /\ Tail(q) # <<>> /\ q \in Seq(Messages)
        BY <2>4, <3>1 DEF onWrite, WriteDone, OneWrite
      <4>2. Tail(q) \in Seq(Messages)
        BY <4>1
      <4> QED BY <4>1, <4>2
    <3>5. [data |-> Head(Tail(q)), open |-> phase = "open"] \in Write
      BY <3>4 DEF Write
    <3>6. inflight' # <<>>
      <4>1. ASSUME NEW s \in Seq(Write), NEW e \in Write PROVE Len(Append(s, e)) = Len(s) + 1
        OBVIOUS
      <4>2. Len(Tail(inflight)) \in Nat
        BY <3>3
      <4>3. Len(inflight') # 0
        BY <3>2, <3>3, <3>5, <4>1, <4>2
      <4> QED BY <4>3
    <3> QED BY <3>6
  <2>5. CASE UNCHANGED vars
    BY <2>5 DEF vars
  <2> QED BY <2>1, <2>2, <2>3, <2>4, <2>5 DEF Next
<1> QED BY <1>1, Invariance, PTL DEF SafeSpec, StuckOnlyByFailure
=============================================================================

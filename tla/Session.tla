------------------------------ MODULE Session ------------------------------
(***************************************************************************)
(* src/Session.cpp, built as build.zig does, without TLS: a chain of       *)
(* asynchronous operations (resolve, connect, handshake, then read after   *)
(* read) and a queue of messages of which the first is being written.      *)
(* NetworkClient runs every handler on its one worker thread, so a handler *)
(* is one step; the threads that call send() only post to the strand.      *)
(***************************************************************************)
EXTENDS Naturals, Sequences

CONSTANTS Messages,
          MaxSends,     (* bound of the model: messages ever sent          *)
          NetworkFails, (* may the network fail an operation?              *)
          SendEarly     (* may send() be called before the session is open?*)

ASSUME SessionAssumption == /\ MaxSends \in Nat
                            /\ NetworkFails \in BOOLEAN
                            /\ SendEarly \in BOOLEAN

VARIABLES phase,    (* the operation of the connection that is outstanding *)
          reading,  (* is a read outstanding?                              *)
          posted,   (* calls of send() waiting for the strand              *)
          q,        (* the queue of messages                               *)
          inflight, (* the writes outstanding, and whether the stream was  *)
                    (* open when they were started                         *)
          wire,     (* what was written, oldest first                      *)
          worker    (* is the worker thread still in ioc.run()?            *)

connection == <<phase, reading>>
vars == <<connection, posted, q, inflight, wire, worker>>

Init == /\ phase = "resolving"
        /\ reading = FALSE
        /\ posted = <<>>
        /\ q = <<>>
        /\ inflight = <<>>
        /\ wire = <<>>
        /\ worker = "running"
-----------------------------------------------------------------------------
(* The chain of run(): each handler starts the next operation, or, when it *)
(* is given an error, nothing at all.                                      *)

Phases == <<"resolving", "connecting", "handshaking", "open">>
Connecting == phase \in {Phases[1], Phases[2], Phases[3]}

(* Nothing is read when the session is open.                               *)
ChainReadsNot(i) == /\ worker = "running"
                    /\ phase = Phases[i]
                    /\ \/ phase' = Phases[i + 1]
                       \/ NetworkFails /\ phase' = "failed"
                    /\ reading' = FALSE
                    /\ UNCHANGED <<posted, q, inflight, wire, worker>>

Chain(i) == /\ worker = "running"
            /\ phase = Phases[i]
            /\ \/ phase' = Phases[i + 1]
               \/ NetworkFails /\ phase' = "failed"
            /\ reading' = (phase' = "open")
            /\ UNCHANGED <<posted, q, inflight, wire, worker>>

onResolve == Chain(1)
onConnect == Chain(2)
onHandshake == Chain(3)

(* A message was read, given to the callback and consumed: read on.        *)
onRead == /\ worker = "running" /\ reading
          /\ UNCHANGED <<connection, posted, q, inflight, wire, worker>>

(* The read failed: nothing is read any more, and nothing can be written.  *)
onReadError == /\ worker = "running" /\ reading
               /\ NetworkFails
               /\ phase' = "failed"
               /\ reading' = FALSE
               /\ UNCHANGED <<posted, q, inflight, wire, worker>>
-----------------------------------------------------------------------------
(* send().                                                                 *)

(* A thread outside the strand posts the call with a copy of the data.     *)
SendPost(m) == /\ Len(wire \o q \o posted) < MaxSends
               /\ SendEarly \/ phase = "open"
               /\ posted' = Append(posted, m)
               /\ UNCHANGED <<connection, q, inflight, wire, worker>>

StartWrite(data) == inflight' = Append(inflight, [data |-> data, open |-> phase = "open"])

(* The strand that starts a write for every message.                       *)
SendAlwaysWrites == /\ worker = "running" /\ posted # <<>>
                    /\ posted' = Tail(posted)
                    /\ q' = Append(q, Head(posted))
                    /\ StartWrite(Head(q'))
                    /\ UNCHANGED <<connection, wire, worker>>

(* The strand runs the call: a write is started when the queue was empty.  *)
Send == /\ worker = "running" /\ posted # <<>>
        /\ posted' = Tail(posted)
        /\ q' = Append(q, Head(posted))
        /\ IF Len(q') > 1 THEN UNCHANGED inflight ELSE StartWrite(Head(q'))
        /\ UNCHANGED <<connection, wire, worker>>

(* The write is done: pop it, and start the next.                          *)
WriteDone == /\ worker = "running"
             /\ inflight # <<>> /\ Head(inflight).open
             /\ wire' = Append(wire, Head(inflight).data)
             /\ q' = Tail(q)
             /\ UNCHANGED <<connection, posted, worker>>

StartNext(data) == inflight' = Append(Tail(inflight),
                                      [data |-> data, open |-> phase = "open"])

(* The next write is started before the pop.                               *)
onWritePopsLate ==
  /\ WriteDone
  /\ IF Tail(q) = <<>> THEN inflight' = Tail(inflight) ELSE StartNext(Head(q))

(* Nothing more is started.                                                *)
onWriteStops == WriteDone /\ inflight' = Tail(inflight)

onWrite ==
  /\ WriteDone
  /\ IF Tail(q) = <<>> THEN inflight' = Tail(inflight) ELSE StartNext(Head(Tail(q)))

(* A write on a stream that is not open, or that the network failed, ends  *)
(* with an error, and onWrite returns at once.                             *)
onWriteError == /\ worker = "running"
                /\ inflight # <<>>
                /\ NetworkFails \/ ~Head(inflight).open
                /\ inflight' = Tail(inflight)
                /\ UNCHANGED <<connection, posted, q, wire, worker>>

(* ioc.run() returns when nothing is outstanding; nobody calls it again.   *)
WorkerExits == /\ worker = "running"
               /\ ~(Connecting \/ reading) /\ posted = <<>> /\ inflight = <<>>
               /\ worker' = "exited"
               /\ UNCHANGED <<connection, posted, q, inflight, wire>>
-----------------------------------------------------------------------------
Next == \/ onResolve \/ onConnect \/ onHandshake \/ onRead \/ onReadError
        \/ \E m \in Messages : SendPost(m)
        \/ Send \/ onWrite \/ onWriteError \/ WorkerExits

SafeSpec == Init /\ [][Next]_vars

(* Operations complete, one way or the other, and the strand runs what was *)
(* posted to it.                                                           *)
Fairness == /\ WF_vars(onResolve) /\ WF_vars(onConnect) /\ WF_vars(onHandshake)
            /\ WF_vars(Send)
            /\ WF_vars(onWrite \/ onWriteError)

Spec == SafeSpec /\ Fairness
-----------------------------------------------------------------------------
TypeOK == /\ phase \in {"resolving", "connecting", "handshaking", "open", "failed"}
          /\ reading \in BOOLEAN
          /\ posted \in Seq(Messages)
          /\ q \in Seq(Messages)
          /\ inflight \in Seq([data : Messages, open : BOOLEAN])
          /\ wire \in Seq(Messages)
          /\ worker \in {"running", "exited"}

(* The stream allows one write at a time, and a write reads the memory of  *)
(* the queue's first message until it is done: there is never a second     *)
(* one, and the message is not popped or overtaken under it (send() and    *)
(* onWrite(), Session.cpp:44-60, 187-206).                                 *)
OneWrite == inflight # <<>> => /\ Len(inflight) = 1
                               /\ q # <<>>
                               /\ Head(inflight).data = Head(q)

IInv == TypeOK /\ OneWrite

(* The session implements the channel, whatever the network does: what is  *)
(* on the wire is what was sent, in the order of the sends, and nothing is *)
(* written twice.                                                          *)
Wire == INSTANCE Channel WITH pending <- q \o posted
ChannelSafe == Wire!SafeSpec

(* The session is stuck when it has messages and nothing that writes them; *)
(* it gets there only in the step in which a write fails (44-60, 187-206). *)
Stuck == q # <<>> /\ inflight = <<>>
StuckOnlyByFailure == [][~Stuck /\ Stuck' => onWriteError]_vars

(* As long as neither the connection nor a write fails, every message is   *)
(* delivered, too.                                                         *)
Delivers == [](phase # "failed" /\ ~Stuck) => Wire!Live
-----------------------------------------------------------------------------
(* Session.cpp:46, of a queue that is not empty: "Are we already writing?" *)
(* After a write that failed, not any more, and no send() starts one again.*)
QueueMeansWriting == q # <<>> => inflight # <<>>
=============================================================================

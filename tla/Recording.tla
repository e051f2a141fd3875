------------------------------ MODULE Recording -----------------------------
(***************************************************************************)
(* A recording, from the button to the session: the polling loop of        *)
(* src/button_client.zig, start() and stop() of the microphone feature     *)
(* (src/streaming.zig), the recorder of src/MediaClient.cpp, and the calls *)
(* of session->send().  PulseAudio itself is external: a server that turns *)
(* the stream on and off when it gets to the request, and packets on their *)
(* way to its thread, which holds the mainloop lock while it is in the     *)
(* read callback.  Session does the rest; Eyes has the listeners' calls.   *)
(***************************************************************************)
EXTENDS Integers, Sequences, FiniteSets

CONSTANTS MaxPresses,  (* bound of the model: how often the button is pressed *)
          MaxBytes     (* bound of the model: how much is ever captured       *)

ASSUME RecordingAssumption == MaxPresses \in Nat /\ MaxBytes \in Nat

VARIABLES pressed, pc,     (* of the button's polling loop                 *)
          stream,          (* is it ready?                                 *)
          requests,        (* calls of pa_stream_cork under way            *)
          corked, packets, (* the server's stream, and data under way      *)
          rpc, nbytes,     (* of the read callback                         *)
          buffer,          (* of the recorder                              *)
          onReadCallback,  (* has prepare() set it?                        *)
          sent,            (* calls of session->send(): [type, data]       *)
          taken,           (* history: of each byte, in which recording    *)
          late,            (* history: did a cork take more than 100 ms?   *)
          refused          (* history: the last pa_stream_cork was refused *)

buttonVars == <<pressed, pc>>
streamVars == <<stream, refused, requests, corked, packets>>
readVars   == <<rpc, nbytes, buffer>>
vars == <<buttonVars, streamVars, readVars, onReadCallback, sent, taken, late>>

Init == /\ pressed = FALSE /\ pc = "poll"
        /\ stream = "connecting" /\ refused = FALSE
        /\ requests = <<>>
        /\ corked = TRUE /\ packets = <<>>
        /\ rpc = "wait" /\ nbytes = 0 /\ buffer = <<>>
        /\ onReadCallback = FALSE
        /\ sent = <<>>
        /\ taken = <<>>
        /\ late = FALSE

Send(type, data) == sent' = Append(sent, [type |-> type, data |-> data])

(* How many recordings were started up to message i, and up to now.        *)
Started(i) == Cardinality({j \in 1..i : sent[j].type = "start"})
Recordings == Started(Len(sent))
-----------------------------------------------------------------------------
(* App.run prepares the microphone after it has started the buttons.       *)
Prepare == /\ ~onReadCallback
           /\ onReadCallback' = TRUE
           /\ UNCHANGED <<buttonVars, streamVars, readVars, sent, taken, late>>
-----------------------------------------------------------------------------
(* The polling loop.  It finds the button down or up as it likes.          *)

Goto(a, b) == pc = a /\ pc' = b

Press == /\ Goto("poll", "start")
         /\ ~pressed /\ Recordings < MaxPresses
         /\ pressed' = TRUE
         /\ UNCHANGED <<streamVars, readVars, onReadCallback, sent, taken, late>>

Release == /\ Goto("poll", "stop")
           /\ pressed
           /\ pressed' = FALSE
           /\ UNCHANGED <<streamVars, readVars, onReadCallback, sent, taken, late>>

(* net_send_start_recording(), then recorder_start().                      *)
SendStart == /\ Goto("start", "uncork")
             /\ Send("start", <<>>)
             /\ UNCHANGED <<pressed, streamVars, readVars, onReadCallback, taken, late>>

(* A stream that is not ready refuses; nobody looks at the result.         *)
Cork(b) == /\ rpc = "wait"  \* the mainloop lock
           /\ requests' = IF stream = "ready" THEN Append(requests, b) ELSE requests
           /\ refused' = (stream # "ready")
           /\ UNCHANGED <<pressed, stream, corked, packets, readVars, onReadCallback, sent,
                          taken, late>>

RecorderStart == Goto("uncork", "poll") /\ Cork(FALSE)

(* The recorder is left as it is.                                          *)
RecorderStopNot == /\ Goto("stop", "sleep")
                   /\ UNCHANGED <<pressed, streamVars, readVars, onReadCallback, sent,
                                  taken, late>>

(* recorder_stop(), a sleep of 100 ms, and net_send_stop_recording().      *)
RecorderStop == Goto("stop", "sleep") /\ Cork(TRUE)

Quiet == requests = <<>> /\ packets = <<>> /\ rpc = "wait"

(* The stop message without the sleep.                                     *)
SendStopAtOnce == /\ Goto("sleep", "poll")
                  /\ Send("stop", <<>>)
                  /\ UNCHANGED <<pressed, streamVars, readVars, onReadCallback, taken, late>>

(* Whether the stream has come to rest by then is not checked.             *)
SendStop == /\ Goto("sleep", "poll")
            /\ Send("stop", <<>>)
            /\ late' = (late \/ ~Quiet)
            /\ UNCHANGED <<pressed, streamVars, readVars, onReadCallback, taken>>

ButtonStep == Release \/ SendStart \/ RecorderStart \/ RecorderStop \/ SendStop
-----------------------------------------------------------------------------
(* PulseAudio.                                                             *)

StreamReady == /\ stream = "connecting"
               /\ stream' \in {"ready", "failed"}
               /\ UNCHANGED <<buttonVars, refused, requests, corked, packets, readVars,
                              onReadCallback, sent, taken, late>>

ServerCorks == /\ requests # <<>>
               /\ corked' = Head(requests)
               /\ requests' = Tail(requests)
               /\ UNCHANGED <<buttonVars, stream, refused, packets, readVars, onReadCallback,
                              sent, taken, late>>

(* A packet of one or two bytes, or a hole.                                *)
Capture == /\ ~corked
           /\ Len(packets) < 2
           /\ \E n \in 0..2 :
                /\ Len(taken) + n =< MaxBytes
                /\ packets' = Append(packets, [i \in 1..n |-> Len(taken) + i])
                /\ taken' = taken \o [i \in 1..n |-> Recordings]
           /\ UNCHANGED <<buttonVars, stream, refused, requests, corked, readVars,
                          onReadCallback, sent, late>>
-----------------------------------------------------------------------------
(* streamReadCallback().  Its pa_stream_drop() comes last, but nobody sees *)
(* the difference; a pa_stream_peek() that fails changes nothing.          *)

ReadHole == /\ rpc = "wait" /\ packets # <<>> /\ Head(packets) = <<>>
            /\ packets' = Tail(packets)
            /\ UNCHANGED <<buttonVars, stream, refused, requests, corked, readVars,
                           onReadCallback, sent, taken, late>>

ReadInsert == /\ rpc = "wait" /\ packets # <<>> /\ Head(packets) # <<>>
              /\ rpc' = "load"
              /\ nbytes' = Len(Head(packets))
              /\ buffer' = buffer \o Head(packets)
              /\ packets' = Tail(packets)
              /\ UNCHANGED <<buttonVars, stream, refused, requests, corked, onReadCallback,
                             sent, taken, late>>

ReadLoad == /\ rpc = "load"
            /\ rpc' = IF onReadCallback THEN "call" ELSE "wait"
            /\ UNCHANGED <<buttonVars, streamVars, nbytes, buffer, onReadCallback, sent,
                           taken, late>>

(* A read of one byte at most.                                             *)
ReadCallOne == /\ rpc = "call"
               /\ rpc' = "wait"
               /\ Send("audio", <<Head(buffer)>>)
               /\ buffer' = Tail(buffer)
               /\ UNCHANGED <<buttonVars, streamVars, nbytes, onReadCallback, taken, late>>

(* A read of the newest bytes.                                             *)
ReadCallNewest ==
  /\ rpc = "call"
  /\ rpc' = "wait"
  /\ LET rest == Len(buffer) - nbytes
     IN  /\ Send("audio", SubSeq(buffer, rest + 1, Len(buffer)))
         /\ buffer' = SubSeq(buffer, 1, rest)
  /\ UNCHANGED <<buttonVars, streamVars, nbytes, onReadCallback, taken, late>>

(* read(nbytes), from the front of the buffer, and net_send_audio().       *)
ReadCall ==
  /\ rpc = "call"
  /\ rpc' = "wait"
  /\ Send("audio", SubSeq(buffer, 1, nbytes))
  /\ buffer' = SubSeq(buffer, nbytes + 1, Len(buffer))
  /\ UNCHANGED <<buttonVars, streamVars, nbytes, onReadCallback, taken, late>>

ReadStep == ReadHole \/ ReadInsert \/ ReadLoad \/ ReadCall
-----------------------------------------------------------------------------
Next == Prepare \/ Press \/ ButtonStep \/ StreamReady \/ ServerCorks \/ Capture
        \/ ReadStep

SafeSpec == Init /\ [][Next]_vars
-----------------------------------------------------------------------------
Bytes == 1..MaxBytes

TypeOK ==
  /\ pressed \in BOOLEAN /\ pc \in {"poll", "start", "uncork", "stop", "sleep"}
  /\ stream \in {"connecting", "ready", "failed"} /\ refused \in BOOLEAN
  /\ requests \in Seq(BOOLEAN)
  /\ corked \in BOOLEAN /\ packets \in Seq(Seq(Bytes))
  /\ rpc \in {"wait", "load", "call"} /\ nbytes \in Nat
  /\ buffer \in Seq(Bytes)
  /\ onReadCallback \in BOOLEAN
  /\ sent \in Seq([type : {"start", "audio", "stop"}, data : Seq(Bytes)])
  /\ taken \in Seq(1..MaxPresses)
  /\ late \in BOOLEAN

(* Nothing is lost, doubled or reordered between the stream and the        *)
(* session, whatever the packets' sizes: what was sent, what is in the     *)
(* buffer and what is under way are the bytes captured                     *)
(* (MediaClient.cpp:266-279, 316-328).                                     *)
Pieces == [i \in DOMAIN sent |-> sent[i].data] \o <<buffer>> \o packets
Rising(s) == \A a, b \in DOMAIN s : a < b => s[a] < s[b]
Before(s, t) == \A a \in DOMAIN s, b \in DOMAIN t : s[a] < t[b]
InOrder ==
  /\ \A i \in DOMAIN Pieces : Rising(Pieces[i])
  /\ \A i, j \in DOMAIN Pieces : i < j => Before(Pieces[i], Pieces[j])
  /\ UNION {{Pieces[i][a] : a \in DOMAIN Pieces[i]} : i \in DOMAIN Pieces} = 1..Len(taken)

(* start and stop alternate, and, if every cork came in time, audio is     *)
(* sent only between them (streaming.zig:21-32, button_client.zig:46-60).  *)
Inside(i) == \E j \in 1..(i - 1) : /\ sent[j].type = "start"
                                   /\ \A k \in (j + 1)..(i - 1) : sent[k].type # "stop"
Framed ==
  \A i \in DOMAIN sent : CASE sent[i].type = "start" -> ~Inside(i)
                           [] sent[i].type = "stop"  -> Inside(i)
                           [] sent[i].type = "audio" -> Inside(i) \/ late

(* What the buffer holds besides the packet in hand was read before        *)
(* prepare() had set the callback; whatever it was then, every later byte  *)
(* is sent that much late, in this and in all later recordings             *)
(* (app.zig:50-51, MediaClient.cpp:270-279).                               *)
Lag == Len(buffer) - (IF rpc = "wait" THEN 0 ELSE nbytes)
LagIsForever == [][onReadCallback => Lag' = Lag]_vars

(* Without that lag, and with corks in time, the audio sent in a recording *)
(* was captured in it.                                                     *)
OwnAudio ==
  Lag = 0 /\ ~late =>
    \A i \in DOMAIN sent : \A j \in DOMAIN sent[i].data :
      taken[sent[i].data[j]] = Started(i)

(* When the polling loop rests and PulseAudio has done what it was asked,  *)
(* the microphone is off while the button is up, and on while it is down   *)
(* unless the stream was not ready yet when it was pressed: then the whole *)
(* recording is silent (MediaClient.cpp:226-238, button_client.zig:46-60). *)
MicFollowsButton ==
  pc = "poll" /\ requests = <<>> => (corked <=> ~pressed \/ refused)

IInv == TypeOK /\ InOrder
=============================================================================

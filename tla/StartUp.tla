------------------------------ MODULE StartUp -------------------------------
(***************************************************************************)
(* The order in which the program comes up: App.run() of src/app.zig       *)
(* (38-56) on the main thread, MediaClient::prepare() and its latch        *)
(* (MediaClient.cpp 14-84, utils/CountDownLatch.cpp), the vsync task       *)
(* (ui/synchronization.zig 88-95) and the event loop that it and the main  *)
(* thread create when they first need it (event_loop.zig 71-92), the       *)
(* network thread that hands audio to the player, and the first press.     *)
(*                                                                         *)
(* A step is a call of App.run(), a section under a mutex, a callback's    *)
(* access to what another thread uses.  PulseAudio's server and the        *)
(* WebSocket server are external.                                          *)
(***************************************************************************)
EXTENDS Player

CONSTANTS Main, Vsync,   (* the two threads that need the event loop       *)
          MaxQueue       (* bound on the draws that are queued             *)

ASSUME StartUpAssumption == Main # Vsync /\ MaxQueue \in Nat

Users == {Main, Vsync}

VARIABLES main,      (* where App.run() is                                 *)
          context,   (* of PulseAudio                                      *)
          pulse,     (* where onContextReady() is                          *)
          count,     (* of the latch                                       *)
          recorder, player, (* are the pointers set?                       *)
          stream,    (* of the player                                      *)
          network,   (* of the session                                     *)
          button,    (* the polling loop                                   *)
          loaded,    (* of the event loop                                  *)
          created,   (* how often create() ran                             *)
          queued,    (* the draws in its queue                             *)
          gpc,       (* where Main and Vsync are in get()                  *)
          crashed,   (* a null pointer was used                            *)
          unmade,    (* the event loop was used before it was made         *)
          lost,      (* a draw was in a queue that was made anew           *)
          raced,     (* two calls of get() met in the first of them        *)
          greeted    (* the server sent audio before it was asked          *)

appVars   == <<main, button>>
mediaVars == <<context, pulse, count, recorder, player, stream>>
loopVars  == <<loaded, created, queued, gpc, unmade, lost, raced>>
netVars   == <<network, greeted>>
vars == <<playerVars, appVars, mediaVars, loopVars, netVars, crashed>>

Init == /\ PlayerInit
        /\ main = "frames" /\ button = "off"
        /\ context = "none" /\ pulse = "out" /\ count = 2
        /\ recorder = FALSE /\ player = FALSE /\ stream = "none"
        /\ network = "off" /\ greeted = FALSE
        /\ loaded = FALSE /\ created = 0 /\ queued = 0
        /\ gpc = [u \in Users |-> "off"]
        /\ crashed = FALSE /\ unmade = FALSE /\ lost = FALSE /\ raced = FALSE

MainGoto(a, b) == main = a /\ main' = b

(* A pointer of the MediaClient is dereferenced.                           *)
Uses(pointer) == crashed' = ~pointer
-----------------------------------------------------------------------------
(* GlobalEventLoop.get(), by u; another call meets the first one when it   *)
(* reads `loaded` before the loop is made.                                 *)

GetLoad(u) ==
  /\ gpc[u] = "load"
  /\ gpc' = [gpc EXCEPT ![u] = IF loaded THEN "use" ELSE "set"]
  /\ raced' = (raced \/ \E v \in Users \ {u} : gpc[v] \in {"set", "create"})
  /\ UNCHANGED <<playerVars, appVars, mediaVars, loaded, created, queued, unmade,
                 lost, netVars, crashed>>

(* The flag is not set, so the next call makes another one.                *)
GetSetNot(u) ==
  /\ gpc[u] = "set"
  /\ gpc' = [gpc EXCEPT ![u] = "create"]
  /\ UNCHANGED <<playerVars, appVars, mediaVars, loaded, created, queued, unmade,
                 lost, raced, netVars, crashed>>

GetSet(u) ==
  /\ gpc[u] = "set"
  /\ gpc' = [gpc EXCEPT ![u] = "create"]
  /\ loaded' = TRUE
  /\ UNCHANGED <<playerVars, appVars, mediaVars, created, queued, unmade, lost,
                 raced, netVars, crashed>>

GetCreate(u) ==
  /\ gpc[u] = "create"
  /\ gpc' = [gpc EXCEPT ![u] = "use"]
  /\ created' = created + 1
  /\ queued' = 0
  /\ lost' = (lost \/ queued > 0)
  /\ UNCHANGED <<playerVars, appVars, mediaVars, loaded, unmade, raced, netVars,
                 crashed>>

Get(u) == GetLoad(u) \/ GetSet(u) \/ GetCreate(u)

(* simulateVSYNC(): sleep, get(), enqueue the draw task.                   *)
VsyncTimer == /\ gpc[Vsync] = "sleep"
              /\ queued < MaxQueue
              /\ gpc' = [gpc EXCEPT ![Vsync] = "load"]
              /\ UNCHANGED <<playerVars, appVars, mediaVars, loaded, created, queued,
                             unmade, lost, raced, netVars, crashed>>

Enqueue == /\ gpc[Vsync] = "use"
           /\ gpc' = [gpc EXCEPT ![Vsync] = "sleep"]
           /\ unmade' = (unmade \/ created = 0)
           /\ queued' = queued + 1
           /\ UNCHANGED <<playerVars, appVars, mediaVars, loaded, created, lost, raced,
                          netVars, crashed>>

(* The main thread in loop(): a draw.                                      *)
Draw == /\ main = "loop" /\ gpc[Main] = "use"
        /\ unmade' = (unmade \/ created = 0)
        /\ queued > 0 /\ queued' = queued - 1
        /\ UNCHANGED <<playerVars, appVars, mediaVars, loaded, created, gpc, lost, raced,
                       netVars, crashed>>
-----------------------------------------------------------------------------
(* App.run() up to the loop.                                               *)

MainFrame == UNCHANGED <<playerVars, loaded, created, queued, unmade, lost, raced, greeted>>

FramesStart == /\ MainGoto("frames", "net")
               /\ gpc' = [gpc EXCEPT ![Vsync] = "sleep"]
               /\ UNCHANGED <<button, mediaVars, network, crashed>>
               /\ MainFrame

NetStart == /\ MainGoto("net", "media")
            /\ network' = "connecting"
            /\ UNCHANGED <<button, mediaVars, gpc, crashed>>
            /\ MainFrame

(* prepare(), to the call of await()                                       *)
MediaStart == /\ MainGoto("media", "await")
              /\ context' = "connecting"
              /\ UNCHANGED <<button, pulse, count, recorder, player, stream, network, gpc,
                             crashed>>
              /\ MainFrame

(* Nobody waits.                                                           *)
AwaitNot == /\ MainGoto("await", "buttons")
            /\ UNCHANGED <<button, mediaVars, network, gpc, crashed>>
            /\ MainFrame

Await == /\ main = "await"
         /\ main' = IF count > 0 THEN "wait" ELSE "buttons"
         /\ UNCHANGED <<button, mediaVars, network, gpc, crashed>>
         /\ MainFrame

(* And is taken for the notification.                                      *)
SpuriousWakeCounts == /\ MainGoto("wait", "buttons")
                      /\ UNCHANGED <<button, mediaVars, network, gpc, crashed>>
                      /\ MainFrame

(* A wait on a condition variable may return for no reason.                *)
SpuriousWake == /\ MainGoto("wait", "await")
                /\ UNCHANGED <<button, mediaVars, network, gpc, crashed>>
                /\ MainFrame

ButtonsStart == /\ MainGoto("buttons", "mic")
                /\ button' = "poll"
                /\ UNCHANGED <<mediaVars, network, gpc, crashed>>
                /\ MainFrame

MicPrepare == /\ MainGoto("mic", "eyes")
              /\ Uses(recorder)
              /\ UNCHANGED <<button, mediaVars, network, gpc>>
              /\ MainFrame

EyesIdle == /\ MainGoto("eyes", "loop")
            /\ gpc' = [gpc EXCEPT ![Main] = "load"]
            /\ UNCHANGED <<button, mediaVars, network, crashed>>
            /\ MainFrame

MainStep == \/ FramesStart \/ NetStart \/ MediaStart \/ Await \/ ButtonsStart
            \/ MicPrepare \/ EyesIdle \/ Get(Main) \/ Draw
-----------------------------------------------------------------------------
(* PulseAudio's thread: the context, onContextReady(), the write callback. *)

PulseFrame == UNCHANGED <<playerVars, button, loopVars, netVars, crashed>>

ContextReady == /\ context = "connecting" /\ context' = "ready"
                /\ pulse' = "recorder"
                /\ UNCHANGED <<main, count, recorder, player, stream>>
                /\ PulseFrame

(* Only a message is written.                                              *)
ContextFails == /\ context = "connecting" /\ context' = "failed"
                /\ UNCHANGED <<main, pulse, count, recorder, player, stream>>
                /\ PulseFrame

MakeRecorder == /\ pulse = "recorder" /\ pulse' = "recorder.prepare"
                /\ recorder' = TRUE
                /\ UNCHANGED <<main, context, count, player, stream>>
                /\ PulseFrame

(* Nobody is notified.                                                     *)
CountDownSilently == /\ count' = IF count > 0 THEN count - 1 ELSE 0
                     /\ UNCHANGED main

(* The last one notifies the waiting main thread.                          *)
CountDown == /\ count' = IF count > 0 THEN count - 1 ELSE 0
             /\ main' = IF count = 1 /\ main = "wait" THEN "await" ELSE main

(* prepare(): a connection that is refused is only a message.              *)
RecorderPrepare == /\ pulse = "recorder.prepare" /\ pulse' = "player"
                   /\ CountDown
                   /\ UNCHANGED <<context, recorder, player, stream>>
                   /\ PulseFrame

MakePlayer == /\ pulse = "player" /\ pulse' = "player.prepare"
              /\ player' = TRUE
              /\ UNCHANGED <<main, context, count, recorder, stream>>
              /\ PulseFrame

(* connectStream() returned early.                                         *)
PlayerPrepareUnconnected ==
  /\ pulse = "player.prepare" /\ pulse' = "out"
  /\ CountDown
  /\ UNCHANGED <<context, recorder, player, stream>>
  /\ PulseFrame

PlayerPrepare == /\ pulse = "player.prepare" /\ pulse' = "out"
                 /\ stream' \in {"connecting", "failed"}
                 /\ CountDown
                 /\ UNCHANGED <<context, recorder, player>>
                 /\ PulseFrame

OnContextReady == MakeRecorder \/ RecorderPrepare \/ MakePlayer \/ PlayerPrepare

StreamReady == /\ stream = "connecting"
               /\ stream' \in {"ready", "failed"}
               /\ UNCHANGED <<main, context, pulse, count, recorder, player>>
               /\ PulseFrame

(* The connection to the server ends, and its streams with it.             *)
ContextTerminated == /\ context = "ready" /\ pulse = "out" /\ wpc = "out"
                     /\ context' = "terminated" /\ stream' = "failed"
                     /\ UNCHANGED <<main, pulse, count, recorder, player>>
                     /\ PulseFrame

PlayerStep(A) == A /\ UNCHANGED <<appVars, mediaVars, loopVars, netVars, crashed>>

StreamWants == /\ stream = "ready"
               /\ \E n \in 1..MaxLength : PlayerStep(Look(n))
Callback == PlayerStep(WriteCallback)
CallbackFails == PlayerStep(StreamWriteFails)
-----------------------------------------------------------------------------
(* The network thread and the button worker.                               *)

Connected == /\ network = "connecting" /\ network' = "open"
             /\ UNCHANGED <<playerVars, appVars, mediaVars, loopVars, greeted, crashed>>

(* The server sends audio, as an answer to a recording or on its own.      *)
Asked == button \in {"start", "recording"}
Receive(n) ==
  /\ network = "open"
  /\ Uses(player)
  /\ IF player THEN Write(n) ELSE UNCHANGED playerVars
  /\ greeted' = (greeted \/ ~Asked)
  /\ UNCHANGED <<appVars, mediaVars, loopVars, network>>

(* The button is pressed: mic_feature.start() sends the start message and  *)
(* uncorks the recorder.                                                   *)
Press == /\ button = "poll" /\ button' = "start"
         /\ UNCHANGED <<playerVars, main, mediaVars, loopVars, netVars, crashed>>

RecorderStart == /\ button = "start" /\ button' = "recording"
                 /\ Uses(recorder)
                 /\ UNCHANGED <<playerVars, main, mediaVars, loopVars, netVars>>
-----------------------------------------------------------------------------
Next == /\ ~crashed
        /\ \/ MainStep \/ SpuriousWake
           \/ VsyncTimer \/ Get(Vsync) \/ Enqueue
           \/ ContextReady \/ ContextFails \/ OnContextReady \/ StreamReady
           \/ ContextTerminated \/ StreamWants \/ Callback \/ CallbackFails
           \/ Connected \/ (\E n \in 1..MaxBytes : Receive(n))
           \/ Press \/ RecorderStart

SafeSpec == Init /\ [][Next]_vars

(* The threads run, PulseAudio answers a connection one way or the other   *)
(* and a stream that is ready keeps asking.                                *)
Running(A) == ~crashed /\ A
Fairness == /\ WF_vars(Running(MainStep))
            /\ WF_vars(Running(OnContextReady))
            /\ WF_vars(Running(ContextReady \/ ContextFails))
            /\ WF_vars(Running(StreamReady))
            /\ WF_vars(Running(StreamWants))
            /\ WF_vars(Running(Callback))

Spec == SafeSpec /\ Fairness
-----------------------------------------------------------------------------
TypeOK ==
  /\ main \in {"frames", "net", "media", "await", "wait", "buttons", "mic", "eyes", "loop"}
  /\ context \in {"none", "connecting", "ready", "failed", "terminated"}
  /\ pulse \in {"out", "recorder", "recorder.prepare", "player", "player.prepare"}
  /\ count \in 0..2
  /\ recorder \in BOOLEAN /\ player \in BOOLEAN
  /\ stream \in {"none", "connecting", "ready", "failed"}
  /\ button \in {"off", "poll", "start", "recording"}
  /\ gpc \in [Users -> {"off", "sleep", "load", "set", "create", "use"}]

(* The latch counts the two features that onContextReady() makes, so main  *)
(* goes on to the buttons only when both are there, and so does whatever   *)
(* the buttons start (MediaClient.cpp:27, 54, 74-75, 82-83).               *)
AfterLatch == main \in {"buttons", "mic", "eyes", "loop"}
Made == /\ context \in {"none", "connecting", "failed"} => count = 2 /\ pulse = "out"
        /\ pulse \in {"recorder", "recorder.prepare"} => count = 2
        /\ pulse \in {"player", "player.prepare"} => count = 1
        /\ pulse \in {"recorder.prepare", "player", "player.prepare"} => recorder
        /\ pulse = "player.prepare" => player
        /\ count = 0 => recorder /\ player
        /\ AfterLatch \/ button # "off" => count = 0

IInv == TypeOK /\ Made

(* No thread uses a recorder or player that is not there, unless the       *)
(* server sends audio nobody asked for: the network is started before the  *)
(* player is made (app.zig:47-51, MediaClientC.cpp:18-28).                 *)
OnlyGreetingCrashes == crashed => greeted

(* The event loop is made once, before it is used, and keeps every draw    *)
(* it was given, unless two calls of get() meet in the first one           *)
(* ("TODO: lil racy", event_loop.zig:83).                                  *)
OneLoop == ~raced => ~unmade /\ ~lost /\ created =< 1

(* The main thread gets to its loop, unless PulseAudio cannot be reached:  *)
(* then nothing ever counts the latch down (MediaClient.cpp:24-28).        *)
Starts == <>(main = "loop" \/ context = "failed" \/ crashed)

(* Audio that was received, also before the stream was ready, is played    *)
(* while the stream lasts.                                                 *)
Plays == buffer # <<>> ~> (buffer = <<>> \/ stream = "failed" \/ crashed)
=============================================================================

-------------------------------- MODULE Eyes --------------------------------
(***************************************************************************)
(* The eyes: the state machine of src/eyes.zig, the view that plays it     *)
(* (src/ui/view.zig) and the animators (src/ui/animation.zig).  The main   *)
(* thread draws them and starts the next animation when one has ended; the *)
(* button worker makes them listen and idle, through the same fields and   *)
(* with no lock.  A step is one access to a shared field.  A field that a  *)
(* function reads again is either loaded again or kept in a register: both *)
(* are outcomes of the builds, hence the choices between what was seen and *)
(* what is there.  main is inside its first call, App.run's idle(), while  *)
(* the buttons are polled already (src/app.zig:50-53).                     *)
(***************************************************************************)
EXTENDS Integers, Sequences

CONSTANTS KeyFrames, (* of each frame set: its key frames [i, v]           *)
          MaxRaces   (* bound: how often a call may meet one in progress   *)

States == {"idle", "listening", "clipping"}

(* KeyFrame.init: the frame before a time in ms, at 32 ms a frame.         *)
dt == 32
KeyFrame(v, t) == LET frames == IF t % dt # 0 \/ t < dt THEN t \div dt + 1 ELSE t \div dt
                  IN  [i |-> frames - 1, v |-> v]

WellFormed(kfs) ==
  /\ kfs \in [States -> Seq([i : Nat, v : Int])]
  /\ \A s \in States :
       /\ Len(kfs[s]) > 1
       /\ kfs[s][1].i = 0
       /\ \A j, k \in 1..Len(kfs[s]) : j < k => kfs[s][j].i < kfs[s][k].i
       /\ s # "idle" => \A j \in 1..Len(kfs[s]) : kfs[s][j].v \in Nat

ASSUME EyesAssumption == WellFormed(KeyFrames) /\ MaxRaces \in Nat

(* The key frames of the program: where the eyes are, or how high.         *)
AppKeyFrames ==
  [idle      |-> <<KeyFrame(120, 0), KeyFrame(122, 150), KeyFrame(120, 300),
                   KeyFrame(118, 450), KeyFrame(120, 600)>>,
   listening |-> <<KeyFrame(92, 0), KeyFrame(92, 1600), KeyFrame(0, 2400),
                   KeyFrame(92, 3200)>>,
   clipping  |-> <<KeyFrame(80, 0), KeyFrame(0, 300), KeyFrame(80, 600)>>]

ASSUME AppKeyFramesAssumption == WellFormed(AppKeyFrames)

VARIABLES state, seq_count,             (* EyesFeature                     *)
          frame_set,                    (* View: its three pointers        *)
          key_frame_index, frame_index, (* IntAnimator, of each frame set  *)
          pc,       (* where main and button are                           *)
          arg,      (* the state, then the animator, of their calls        *)
          todo,     (* the pointers they have still to write, or read      *)
          seen,     (* what main's draw() or next() has read               *)
          pressed,  (* the button loop's local                             *)
          races     (* history: the calls that began during one of the other *)

eyesVars == <<state, seq_count>>
animVars == <<key_frame_index, frame_index>>
vars == <<eyesVars, frame_set, animVars, pc, arg, todo, seen, pressed, races>>

Threads == {"main", "button"}
Pointers == {"ptr", "anim", "draw"}
Unseen == [set |-> "idle", draw |-> "idle", key |-> 0, next |-> 0, frame |-> 0,
           seq |-> 0, state |-> "idle"]

Init == /\ state = "none" /\ seq_count = 0
        /\ frame_set = [f \in Pointers |-> "none"]
        /\ key_frame_index = [s \in States |-> 0]
        /\ frame_index = [s \in States |-> 0]
        /\ pc = [p \in Threads |-> IF p = "main" THEN "zero" ELSE "out"]
        /\ arg = [p \in Threads |-> "idle"]
        /\ todo = [p \in Threads |-> {}]
        /\ seen = Unseen
        /\ pressed = FALSE
        /\ races = 0

(* A call begins while the other thread p is out of the eyes, or is not.   *)
Meets(p) == \/ pc[p] = "out" /\ UNCHANGED races
            \/ pc[p] # "out" /\ races < MaxRaces /\ races' = races + 1

raced == races > 0

Goto(p, a, b) == pc[p] = a /\ pc' = [pc EXCEPT ![p] = b]
-----------------------------------------------------------------------------
(* updateState(): seq_count, state, then the view's playState() with the   *)
(* state as it is read then: its pointers, and reset() of the animator     *)
(* they lead to.                                                           *)

(* The button thread calls listen() and idle() in turn.                    *)
Press == /\ Goto("button", "out", "zero")
         /\ arg' = [arg EXCEPT !["button"] = IF pressed THEN "idle" ELSE "listening"]
         /\ pressed' = ~pressed
         /\ Meets("main")
         /\ UNCHANGED <<eyesVars, frame_set, animVars, todo, seen>>

ZeroSeqCount(p) == /\ Goto(p, "zero", "state")
                   /\ seq_count' = 0
                   /\ UNCHANGED <<state, frame_set, animVars, arg, todo, seen, pressed, races>>

SetState(p) == /\ Goto(p, "state", "notify")
               /\ state' = arg[p]
               /\ UNCHANGED <<seq_count, frame_set, animVars, arg, todo, seen, pressed, races>>

OnStateChange(p) == /\ Goto(p, "notify", "play")
                    /\ \E s \in {arg[p], state} : arg' = [arg EXCEPT ![p] = s]
                    /\ todo' = [todo EXCEPT ![p] = Pointers]
                    /\ UNCHANGED <<eyesVars, frame_set, animVars, seen, pressed, races>>

SetFrameSet(p) ==
  /\ pc[p] = "play"
  /\ \E field \in todo[p] : /\ frame_set' = [frame_set EXCEPT ![field] = arg[p]]
                            /\ todo' = [todo EXCEPT ![p] = @ \ {field}]
  /\ UNCHANGED <<eyesVars, animVars, pc, arg, seen, pressed, races>>

FindAnimator(p) == /\ Goto(p, "play", "key")
                   /\ todo[p] = {}
                   /\ \E s \in {arg[p], frame_set["anim"]} : arg' = [arg EXCEPT ![p] = s]
                   /\ UNCHANGED <<eyesVars, frame_set, animVars, todo, seen, pressed, races>>

ResetKey(p) == /\ Goto(p, "key", "frame")
               /\ key_frame_index' = [key_frame_index EXCEPT ![arg[p]] = 0]
               /\ UNCHANGED <<eyesVars, frame_set, frame_index, arg, todo, seen, pressed, races>>

(* reset() that leaves the frame where it was.                             *)
ResetFrameNot(p) == /\ Goto(p, "frame", "out")
                    /\ arg' = [arg EXCEPT ![p] = "idle"]
                    /\ UNCHANGED <<eyesVars, frame_set, animVars, todo, seen, pressed, races>>

ResetFrame(p) == /\ Goto(p, "frame", "out")
                 /\ frame_index' = [frame_index EXCEPT ![arg[p]] = 0]
                 /\ arg' = [arg EXCEPT ![p] = "idle"]
                 /\ UNCHANGED <<eyesVars, frame_set, key_frame_index, todo, seen, pressed, races>>

UpdateState(p) == \/ ZeroSeqCount(p) \/ SetState(p) \/ OnStateChange(p) \/ SetFrameSet(p)
                  \/ FindAnimator(p) \/ ResetKey(p) \/ ResetFrame(p)
-----------------------------------------------------------------------------
(* draw(): drawFrame() of the frame set, which evaluates the animator that *)
(* is ptr's.  The three frame sets are laid out alike, so it may be another *)
(* set's function that draws, if it is at drawFramePtr.                    *)

Key(s, k) == KeyFrames[s][k + 1]
LastKey(s) == Len(KeyFrames[s]) - 2
LastFrame(s) == Key(s, LastKey(s) + 1).i

(* @intFromFloat cuts towards zero; the rounding of the floats is left out. *)
Cut(n, d) == IF n < 0 THEN -((-n) \div d) ELSE n \div d
Value(key, next, frame) == key.v + Cut((frame - key.i) * (next.v - key.v), next.i - key.i)

(* Differences of indices are u32, and where it draws a height it goes     *)
(* through @intCast to u32: none may be negative, nor may a segment be     *)
(* empty.                                                                  *)
Panics(draw, key, next, frame) ==
  \/ frame < key.i
  \/ next.i =< key.i
  \/ draw # "idle" /\ Value(key, next, frame) < 0

Draw == /\ Goto("main", "out", "eval")
        /\ frame_set["ptr"] # "none"
        /\ todo' = [todo EXCEPT !["main"] = {"ptr", "draw"}]
        /\ Meets("button")
        /\ UNCHANGED <<eyesVars, frame_set, animVars, arg, seen, pressed>>

DrawFrame ==
  /\ pc["main"] = "eval"
  /\ \E field \in todo["main"] :
       /\ seen' = IF field = "ptr" THEN [seen EXCEPT !.set = frame_set["ptr"]]
                                   ELSE [seen EXCEPT !.draw = frame_set["draw"]]
       /\ todo' = [todo EXCEPT !["main"] = @ \ {field}]
  /\ UNCHANGED <<eyesVars, frame_set, animVars, pc, arg, pressed, races>>

EvalKey == /\ Goto("main", "eval", "segment")
           /\ todo["main"] = {}
           /\ seen' = [seen EXCEPT !.key = key_frame_index[seen.set]]
           /\ UNCHANGED <<eyesVars, frame_set, animVars, arg, todo, pressed, races>>

EvalFrame ==
  /\ pc["main"] = "segment"
  /\ \E k \in {seen.key, key_frame_index[seen.set]} :
       /\ seen' = [seen EXCEPT !.draw = "idle", !.frame = frame_index[seen.set], !.next = k + 1]
       /\ pc' = [pc EXCEPT !["main"] =
                   IF Panics(seen.draw, Key(seen.set, seen.key), Key(seen.set, k + 1), seen'.frame)
                     THEN "panic" ELSE "advance_key"]
  /\ UNCHANGED <<eyesVars, frame_set, animVars, arg, todo, pressed, races>>

(* Whatever segment comes next, the index goes up.                         *)
AdvanceKeyUnchecked ==
  /\ Goto("main", "advance_key", "advance_frame")
  /\ LET s == seen.set
     IN  \E f \in {seen.frame, frame_index[s]}, c \in {seen.key, key_frame_index[s]} :
           \E k \in {c, key_frame_index[s]} :
             key_frame_index' = IF f = Key(s, seen.next).i
                                  THEN [key_frame_index EXCEPT ![s] = k + 1]
                                  ELSE key_frame_index
  /\ seen' = [Unseen EXCEPT !.set = seen.set, !.frame = seen.frame]
  /\ UNCHANGED <<eyesVars, frame_set, frame_index, arg, todo, pressed, races>>

AdvanceKey ==
  /\ Goto("main", "advance_key", "advance_frame")
  /\ LET s == seen.set
     IN  \E f \in {seen.frame, frame_index[s]}, c \in {seen.key, key_frame_index[s]} :
           \E k \in {c, key_frame_index[s]} :
             key_frame_index' = IF f = Key(s, seen.next).i /\ c # LastKey(s)
                                  THEN [key_frame_index EXCEPT ![s] = k + 1]
                                  ELSE key_frame_index
  /\ seen' = [Unseen EXCEPT !.set = seen.set, !.frame = seen.frame]
  /\ UNCHANGED <<eyesVars, frame_set, frame_index, arg, todo, pressed, races>>

AdvanceFrame ==
  /\ Goto("main", "advance_frame", "ended")
  /\ LET s == seen.set
     IN  \E c \in {seen.frame, frame_index[s]} : \E f \in {c, frame_index[s]} :
           frame_index' = IF c # LastFrame(s) THEN [frame_index EXCEPT ![s] = f + 1]
                                              ELSE frame_index
  /\ UNCHANGED <<eyesVars, frame_set, key_frame_index, arg, todo, seen, pressed, races>>

(* ended(), of the animator the view has by now.                           *)
FindEnded == /\ Goto("main", "ended", "compare")
             /\ seen' = [Unseen EXCEPT !.set = frame_set["anim"]]
             /\ UNCHANGED <<eyesVars, frame_set, animVars, arg, todo, pressed, races>>

Ended == /\ pc["main"] = "compare"
         /\ pc' = [pc EXCEPT !["main"] =
                     IF frame_index[seen.set] = LastFrame(seen.set) THEN "load" ELSE "out"]
         /\ seen' = Unseen
         /\ UNCHANGED <<eyesVars, frame_set, animVars, arg, todo, pressed, races>>
-----------------------------------------------------------------------------
(* onAnimationEnd: next().  The count is compared with 1 and 2, so that    *)
(* more than 2 is all one; that it overflows at 2^32 takes centuries.      *)
Many == 3

NextLoad == /\ Goto("main", "load", "store")
            /\ seen' = [Unseen EXCEPT !.seq = seq_count]
            /\ UNCHANGED <<eyesVars, frame_set, animVars, arg, todo, pressed, races>>

NextStore == /\ Goto("main", "store", "is_idle")
             /\ seq_count' = IF seen.seq = Many THEN Many ELSE seen.seq + 1
             /\ seen' = [Unseen EXCEPT !.seq = seq_count']
             /\ UNCHANGED <<state, frame_set, animVars, arg, todo, pressed, races>>

Leaves(to, s) == /\ pc' = [pc EXCEPT !["main"] = to]
                 /\ arg' = [arg EXCEPT !["main"] = s]
                 /\ seen' = Unseen

Becomes(s) == Leaves("zero", s)

(* The animation that goes on is counted anew.                             *)
AgainCounted(s) == Leaves("zero", s)

Again(s) == Leaves("notify", s)

Asks(to, s, c) == /\ pc' = [pc EXCEPT !["main"] = to]
                  /\ seen' = [seen EXCEPT !.state = s, !.seq = c]
                  /\ UNCHANGED arg

NextFrame == UNCHANGED <<eyesVars, frame_set, animVars, todo, pressed, races>>

IsIdle == /\ pc["main"] = "is_idle"
          /\ \/ state = "idle" /\ Asks("idle_count", state, seen.seq)
             \/ state # "idle" /\ Asks("is_clipping", state, seen.seq)
          /\ NextFrame

IdleCount == /\ pc["main"] = "idle_count"
             /\ \E c \in {seen.seq, seq_count} :
                  \/ c = 2 /\ Becomes("clipping")
                  \/ c # 2 /\ Asks("is_clipping", seen.state, c)
             /\ NextFrame

IsClipping == /\ pc["main"] = "is_clipping"
              /\ \E s \in {seen.state, state} :
                   \/ s = "clipping" /\ Asks("clip_count", s, seen.seq)
                   \/ s # "clipping" /\ Again(s)
              /\ NextFrame

(* The clip is counted like the idle animation.                            *)
ClipCountTwo == /\ pc["main"] = "clip_count"
                /\ \E c \in {seen.seq, seq_count} : \/ c = 2 /\ Becomes("idle")
                                                    \/ c # 2 /\ Again(seen.state)
                /\ NextFrame

ClipCount == /\ pc["main"] = "clip_count"
             /\ \E c \in {seen.seq, seq_count} : \/ c = 1 /\ Becomes("idle")
                                                 \/ c # 1 /\ Again(seen.state)
             /\ NextFrame
-----------------------------------------------------------------------------
MainStep == \/ Draw \/ DrawFrame \/ EvalKey \/ EvalFrame \/ AdvanceKey \/ AdvanceFrame
            \/ FindEnded \/ Ended \/ NextLoad \/ NextStore
            \/ IsIdle \/ IdleCount \/ IsClipping \/ ClipCount
            \/ UpdateState("main")

(* A panic ends the program.                                               *)
Next == /\ pc["main"] # "panic"
        /\ MainStep \/ Press \/ UpdateState("button")

SafeSpec == Init /\ [][Next]_vars

(* Draws keep coming, and a call that was begun goes on.                   *)
Spec == SafeSpec /\ WF_vars(MainStep) /\ WF_vars(UpdateState("button"))
-----------------------------------------------------------------------------
(* Races and all, the indices stay within the key frames: eval() reads     *)
(* key_frames[key_frame_index + 1] (animation.zig:264-265, 277-285).       *)
InBounds == \A s \in States : /\ key_frame_index[s] \in 0..LastKey(s)
                              /\ frame_index[s] \in 0..LastFrame(s)

TypeOK ==
  /\ state \in States \cup {"none"} /\ seq_count \in 0..Many
  /\ frame_set \in [Pointers -> States \cup {"none"}]
  /\ key_frame_index \in [States -> Nat] /\ frame_index \in [States -> Nat]
  /\ pc \in [Threads -> {"out", "zero", "state", "notify", "play", "key", "frame", "eval",
                         "segment", "advance_key", "advance_frame", "ended", "compare",
                         "load", "store", "is_idle", "idle_count", "is_clipping",
                         "clip_count", "panic"}]
  /\ arg \in [Threads -> States]
  /\ todo \in [Threads -> SUBSET Pointers]
  /\ seen \in [set : States, draw : States, key : Nat, next : Nat, frame : Nat,
              seq : 0..Many, state : States]
  /\ pressed \in BOOLEAN /\ races \in 0..MaxRaces

(* While draw() works on an animator, the button thread can only have put  *)
(* its indices back to 0 since they were read.                             *)
Fresh ==
  /\ pc["main"] \in {"segment", "advance_key"} =>
       /\ seen.key \in 0..LastKey(seen.set)
       /\ key_frame_index[seen.set] \in {0, seen.key}
  /\ pc["main"] \in {"advance_key", "advance_frame"} =>
       /\ seen.frame \in 0..LastFrame(seen.set)
       /\ frame_index[seen.set] \in {0, seen.frame}

(* Nobody uses a state or a frame set before there is one: neither optional *)
(* of View is unwrapped while it is null (view.zig:51, 55-59).             *)
Started ==
  /\ state = "none" => pc["main"] \in {"zero", "state"} /\ pc["button"] \in {"out", "zero", "state"}
  /\ \A field \in Pointers : frame_set[field] = "none" =>
       /\ \/ pc["main"] \in {"zero", "state", "notify"}
          \/ pc["main"] = "play" /\ field \in todo["main"]
       /\ pc["button"] # "play" \/ field \in todo["button"]

IInv == TypeOK /\ InBounds /\ Fresh /\ Started

AtRest == pc["main"] = "out" /\ pc["button"] = "out"

(* Without a race an animator that rests is in the segment its index says, *)
(* however its plays were cut short, and eval() never panics               *)
(* (animation.zig:263-297).                                                *)
InSegment ==
  ~raced => /\ pc["main"] # "panic"
            /\ AtRest => \A s \in States :
                 frame_index[s] \in Key(s, key_frame_index[s]).i..Key(s, key_frame_index[s] + 1).i

(* Without a race the view plays the state of the eyes, which listen just  *)
(* while the button is down, and next() turns to the clip after two idle   *)
(* animations and away from it after one (eyes.zig:29-44, view.zig:35-62). *)
ShowsState ==
  ~raced /\ AtRest =>
    /\ \A field \in Pointers : frame_set[field] = state
    /\ pressed <=> (state = "listening")
    /\ state = "idle" => seq_count < 2
    /\ state = "clipping" => seq_count = 0

(* Without a race idle eyes do not idle for ever (eyes.zig:29-39).         *)
Blinks == ([]~raced) => ((state = "idle") ~> (state # "idle"))
-----------------------------------------------------------------------------
(* animation.zig:267 takes a u32 from a u32, and 160 and 198 cast a height *)
(* to one: each line asserts that the result is not negative.  With a      *)
(* press during a draw it may be.                                          *)
NeverPanics == pc["main"] # "panic"
=============================================================================

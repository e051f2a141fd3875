----------------------------- MODULE EyesProofs -----------------------------
(***************************************************************************)
(* What the races on the eyes cannot break, for any key frames.            *)
(***************************************************************************)
EXTENDS Eyes, SequenceTheorems, TLAPS

(* An animator has at least one segment and one step from frame to frame   *)
(* (IntAnimator.init, animation.zig:256-261).                              *)
LEMMA Segments ==
  ASSUME NEW s \in States
  PROVE  /\ LastKey(s) \in Nat
         /\ LastFrame(s) \in Nat /\ LastFrame(s) > 0
         /\ \A k \in 0..LastKey(s) + 1 : Key(s, k) \in [i : Nat, v : Int]
<1> DEFINE kf == KeyFrames[s]
<1>1. kf \in Seq([i : Nat, v : Int]) /\ Len(kf) > 1 /\ kf[1].i = 0
  BY EyesAssumption DEF WellFormed
<1>2. \A j, k \in 1..Len(kf) : j < k => kf[j].i < kf[k].i
  BY EyesAssumption DEF WellFormed
<1>3. Len(kf) \in Nat /\ \A j \in 1..Len(kf) : kf[j] \in [i : Nat, v : Int]
  BY <1>1, LenProperties, ElementOfSeq
<1>4. LastKey(s) = Len(kf) - 2 /\ LastFrame(s) = kf[Len(kf)].i
  <2>1. LastKey(s) + 1 + 1 = Len(kf)
    BY <1>3 DEF LastKey
  <2> QED BY <2>1, <1>3 DEF LastKey, LastFrame, Key
<1>5. LastKey(s) \in Nat
  BY <1>1, <1>3, <1>4
<1>6. LastFrame(s) \in Nat /\ LastFrame(s) > 0
  <2>1. kf[1].i < kf[Len(kf)].i /\ kf[Len(kf)].i \in Nat
    BY <1>1, <1>2, <1>3
  <2> QED BY <2>1, <1>1, <1>4
<1>7. ASSUME NEW k \in 0..LastKey(s) + 1
      PROVE  Key(s, k) \in [i : Nat, v : Int]
  <2>1. k + 1 \in 1..Len(kf)
    BY <1>3, <1>4
  <2> QED BY <2>1, <1>3 DEF Key
<1> QED BY <1>5, <1>6, <1>7

(* The invariant holds at the start and every step keeps it: what is read  *)
(* is in bounds, and what is added to is either what was read or, if the   *)
(* button thread came in between, zero.                                    *)
LEMMA InitInv == Init => IInv
<1> SUFFICES ASSUME Init PROVE IInv
  OBVIOUS
<1>1. TypeOK
  <2>1. /\ state \in States \cup {"none"} /\ seq_count \in 0..Many
        /\ pressed \in BOOLEAN /\ races \in 0..MaxRaces
        /\ seen \in [set : States, draw : States, key : Nat, next : Nat, frame : Nat,
                     seq : 0..Many, state : States]
    <3>1. state \in States \cup {"none"} /\ seq_count \in 0..Many
      BY DEF Init, Many
    <3>2. pressed \in BOOLEAN /\ races \in 0..MaxRaces
      <4>1. MaxRaces \in Nat
        BY EyesAssumption
      <4>2. 0 \in 0..MaxRaces
        BY <4>1
      <4> QED BY <4>2 DEF Init
    <3>3. 0 \in 0..Many /\ "idle" \in States
      BY DEF Many, States
    <3>4. seen \in [set : States, draw : States, key : Nat, next : Nat, frame : Nat,
                    seq : 0..Many, state : States]
      BY <3>3 DEF Init, Unseen
    <3> QED BY <3>1, <3>2, <3>4
  <2>2. /\ frame_set \in [Pointers -> States \cup {"none"}]
        /\ key_frame_index \in [States -> Nat] /\ frame_index \in [States -> Nat]
        /\ arg \in [Threads -> States]
        /\ todo \in [Threads -> SUBSET Pointers]
    BY DEF Init, States
  <2>3. \A p \in Threads : pc[p] \in {"zero", "out"}
    BY DEF Init
  <2>4. pc = [p \in Threads |-> pc[p]]
    BY DEF Init
  <2> QED BY <2>1, <2>2, <2>3, <2>4 DEF TypeOK
<1>2. InBounds
  BY Segments DEF Init, InBounds
<1>3. Fresh /\ Started
  BY DEF Init, Fresh, Started, Threads, Pointers
<1> QED BY <1>1, <1>2, <1>3 DEF IInv

LEMMA PressInv ==
  ASSUME IInv, Press
  PROVE  IInv'
<1> USE DEF IInv
<1>1. TypeOK'
  BY Segments, EyesAssumption DEF TypeOK, Press, Goto, Meets, eyesVars, animVars, Threads, States, Pointers, Many,
         InBounds, Fresh, Started
<1>2. InBounds'
  BY Segments DEF InBounds, TypeOK, Press, Goto, eyesVars, animVars, Threads, States, Fresh
<1>3. Fresh'
  BY Segments DEF Fresh, InBounds, TypeOK, Press, Goto, eyesVars, animVars, Threads, States
<1>4. Started'
  BY DEF Started, TypeOK, Press, Goto, eyesVars, animVars, Threads, States, Pointers
<1> QED BY <1>1, <1>2, <1>3, <1>4

LEMMA ZeroSeqCountInv ==
  ASSUME IInv, NEW p \in Threads, ZeroSeqCount(p)
  PROVE  IInv'
<1> USE DEF IInv
<1>1. TypeOK'
  BY Segments DEF TypeOK, ZeroSeqCount, Goto, eyesVars, animVars, Threads, States, Pointers, Many,
         InBounds, Fresh, Started
<1>2. InBounds'
  BY Segments DEF InBounds, TypeOK, ZeroSeqCount, Goto, eyesVars, animVars, Threads, States, Fresh
<1>3. Fresh'
  BY Segments DEF Fresh, InBounds, TypeOK, ZeroSeqCount, Goto, eyesVars, animVars, Threads, States
<1>4. Started'
  BY DEF Started, TypeOK, ZeroSeqCount, Goto, eyesVars, animVars, Threads, States, Pointers
<1> QED BY <1>1, <1>2, <1>3, <1>4

LEMMA SetStateInv ==
  ASSUME IInv, NEW p \in Threads, SetState(p)
  PROVE  IInv'
<1> USE DEF IInv
<1>1. TypeOK'
  BY Segments DEF TypeOK, SetState, Goto, eyesVars, animVars, Threads, States, Pointers, Many,
         InBounds, Fresh, Started
<1>2. InBounds'
  BY Segments DEF InBounds, TypeOK, SetState, Goto, eyesVars, animVars, Threads, States, Fresh
<1>3. Fresh'
  BY Segments DEF Fresh, InBounds, TypeOK, SetState, Goto, eyesVars, animVars, Threads, States
<1>4. Started'
  BY DEF Started, TypeOK, SetState, Goto, eyesVars, animVars, Threads, States, Pointers
<1> QED BY <1>1, <1>2, <1>3, <1>4

LEMMA OnStateChangeInv ==
  ASSUME IInv, NEW p \in Threads, OnStateChange(p)
  PROVE  IInv'
<1> USE DEF IInv
<1>1. TypeOK'
  BY Segments DEF TypeOK, OnStateChange, Goto, eyesVars, animVars, Threads, States, Pointers,
         Many, InBounds, Fresh, Started
<1>2. InBounds'
  BY Segments DEF InBounds, TypeOK, OnStateChange, Goto, eyesVars, animVars, Threads, States, Fresh
<1>3. Fresh'
  BY Segments DEF Fresh, InBounds, TypeOK, OnStateChange, Goto, eyesVars, animVars, Threads, States
<1>4. Started'
  BY DEF Started, TypeOK, OnStateChange, Goto, eyesVars, animVars, Threads, States, Pointers
<1> QED BY <1>1, <1>2, <1>3, <1>4

LEMMA SetFrameSetInv ==
  ASSUME IInv, NEW p \in Threads, SetFrameSet(p)
  PROVE  IInv'
<1> USE DEF IInv
<1>1. TypeOK'
  BY Segments DEF TypeOK, SetFrameSet, Goto, eyesVars, animVars, Threads, States, Pointers, Many,
         InBounds, Fresh, Started
<1>2. InBounds'
  BY Segments DEF InBounds, TypeOK, SetFrameSet, Goto, eyesVars, animVars, Threads, States, Fresh
<1>3. Fresh'
  BY Segments DEF Fresh, InBounds, TypeOK, SetFrameSet, Goto, eyesVars, animVars, Threads, States
<1>4. Started'
  BY DEF Started, TypeOK, SetFrameSet, Goto, eyesVars, animVars, Threads, States, Pointers
<1> QED BY <1>1, <1>2, <1>3, <1>4

LEMMA FindAnimatorInv ==
  ASSUME IInv, NEW p \in Threads, FindAnimator(p)
  PROVE  IInv'
<1> USE DEF IInv
<1>1. TypeOK'
  BY Segments DEF TypeOK, FindAnimator, Goto, eyesVars, animVars, Threads, States, Pointers, Many,
         InBounds, Fresh, Started
<1>2. InBounds'
  BY Segments DEF InBounds, TypeOK, FindAnimator, Goto, eyesVars, animVars, Threads, States, Fresh
<1>3. Fresh'
  BY Segments DEF Fresh, InBounds, TypeOK, FindAnimator, Goto, eyesVars, animVars, Threads, States
<1>4. Started'
  BY DEF Started, TypeOK, FindAnimator, Goto, eyesVars, animVars, Threads, States, Pointers
<1> QED BY <1>1, <1>2, <1>3, <1>4

LEMMA ResetKeyInv ==
  ASSUME IInv, NEW p \in Threads, ResetKey(p)
  PROVE  IInv'
<1> USE DEF IInv
<1>1. TypeOK'
  BY Segments DEF TypeOK, ResetKey, Goto, eyesVars, animVars, Threads, States, Pointers, Many,
         InBounds, Fresh, Started
<1>2. InBounds'
  BY Segments DEF InBounds, TypeOK, ResetKey, Goto, eyesVars, animVars, Threads, States, Fresh
<1>3. Fresh'
  BY Segments DEF Fresh, InBounds, TypeOK, ResetKey, Goto, eyesVars, animVars, Threads, States
<1>4. Started'
  BY DEF Started, TypeOK, ResetKey, Goto, eyesVars, animVars, Threads, States, Pointers
<1> QED BY <1>1, <1>2, <1>3, <1>4

LEMMA ResetFrameInv ==
  ASSUME IInv, NEW p \in Threads, ResetFrame(p)
  PROVE  IInv'
<1> USE DEF IInv
<1>1. TypeOK'
  BY Segments DEF TypeOK, ResetFrame, Goto, eyesVars, animVars, Threads, States, Pointers, Many,
         InBounds, Fresh, Started
<1>2. InBounds'
  BY Segments DEF InBounds, TypeOK, ResetFrame, Goto, eyesVars, animVars, Threads, States, Fresh
<1>3. Fresh'
  BY Segments DEF Fresh, InBounds, TypeOK, ResetFrame, Goto, eyesVars, animVars, Threads, States
<1>4. Started'
  BY DEF Started, TypeOK, ResetFrame, Goto, eyesVars, animVars, Threads, States, Pointers
<1> QED BY <1>1, <1>2, <1>3, <1>4

LEMMA DrawInv ==
  ASSUME IInv, Draw
  PROVE  IInv'
<1> USE DEF IInv
<1>1. TypeOK'
  BY Segments, EyesAssumption DEF TypeOK, Draw, Goto, Meets, Unseen, eyesVars, animVars, Threads, States, Pointers, Many,
         InBounds, Fresh, Started
<1>2. InBounds'
  BY Segments DEF InBounds, TypeOK, Draw, Goto, Unseen, eyesVars, animVars, Threads, States, Fresh
<1>3. Fresh'
  BY Segments DEF Fresh, InBounds, TypeOK, Draw, Goto, Unseen, eyesVars, animVars, Threads, States
<1>4. Started'
  BY DEF Started, TypeOK, Draw, Goto, Unseen, eyesVars, animVars, Threads, States, Pointers
<1> QED BY <1>1, <1>2, <1>3, <1>4

LEMMA DrawFrameInv ==
  ASSUME IInv, DrawFrame
  PROVE  IInv'
<1> USE DEF IInv
<1>1. TypeOK'
  BY Segments DEF TypeOK, DrawFrame, Goto, eyesVars, animVars, Threads, States, Pointers, Many,
         InBounds, Fresh, Started
<1>2. InBounds'
  BY Segments DEF InBounds, TypeOK, DrawFrame, Goto, eyesVars, animVars, Threads, States, Fresh
<1>3. Fresh'
  BY Segments DEF Fresh, InBounds, TypeOK, DrawFrame, Goto, eyesVars, animVars, Threads, States
<1>4. Started'
  BY DEF Started, TypeOK, DrawFrame, Goto, eyesVars, animVars, Threads, States, Pointers
<1> QED BY <1>1, <1>2, <1>3, <1>4

LEMMA EvalKeyInv ==
  ASSUME IInv, EvalKey
  PROVE  IInv'
<1> USE DEF IInv
<1>1. TypeOK'
  BY Segments DEF TypeOK, EvalKey, Goto, eyesVars, animVars, Threads, States, Pointers, Many,
         InBounds, Fresh, Started
<1>2. InBounds'
  BY Segments DEF InBounds, TypeOK, EvalKey, Goto, eyesVars, animVars, Threads, States, Fresh
<1>3. Fresh'
  BY Segments DEF Fresh, InBounds, TypeOK, EvalKey, Goto, eyesVars, animVars, Threads, States
<1>4. Started'
  BY DEF Started, TypeOK, EvalKey, Goto, eyesVars, animVars, Threads, States, Pointers
<1> QED BY <1>1, <1>2, <1>3, <1>4

LEMMA EvalFrameInv ==
  ASSUME IInv, EvalFrame
  PROVE  IInv'
<1> USE DEF IInv
<1>1. TypeOK'
  <2>1. PICK k \in {seen.key, key_frame_index[seen.set]} :
          /\ seen' = [seen EXCEPT !.draw = "idle", !.frame = frame_index[seen.set], !.next = k + 1]
          /\ \/ pc' = [pc EXCEPT !["main"] = "panic"]
             \/ pc' = [pc EXCEPT !["main"] = "advance_key"]
    BY DEF EvalFrame
  <2>2. seen.set \in States /\ seen.key \in Nat /\ key_frame_index[seen.set] \in Nat
        /\ frame_index[seen.set] \in Nat
    BY DEF TypeOK
  <2>3. k \in Nat
    BY <2>2
  <2>4. seen' \in [set : States, draw : States, key : Nat, next : Nat, frame : Nat,
                   seq : 0..Many, state : States]
    <3> DEFINE n == k + 1
               f == frame_index[seen.set]
    <3>1. n \in Nat /\ f \in Nat /\ "idle" \in States
          /\ seen' = [seen EXCEPT !.draw = "idle", !.frame = f, !.next = n]
      BY <2>1, <2>2, <2>3 DEF States
    <3> HIDE DEF n, f
    <3> QED BY <3>1 DEF TypeOK
  <2> QED BY <2>1, <2>4 DEF TypeOK, EvalFrame, eyesVars, animVars, Threads
<1>2. InBounds'
  BY Segments DEF InBounds, TypeOK, EvalFrame, Goto, eyesVars, animVars, Threads, States, Fresh
<1>3. Fresh'
  BY Segments DEF Fresh, InBounds, TypeOK, EvalFrame, Goto, eyesVars, animVars, Threads, States
<1>4. Started'
  BY DEF Started, TypeOK, EvalFrame, Goto, eyesVars, animVars, Threads, States, Pointers
<1> QED BY <1>1, <1>2, <1>3, <1>4

LEMMA AdvanceKeyInv ==
  ASSUME IInv, AdvanceKey
  PROVE  IInv'
<1> USE DEF IInv
<1>1. TypeOK'
  <2>1. seen' \in [set : States, draw : States, key : Nat, next : Nat, frame : Nat,
                   seq : 0..Many, state : States]
    <3> DEFINE s == seen.set
               f == seen.frame
    <3>1. /\ s \in States /\ f \in Nat /\ "idle" \in States /\ 0 \in 0..Many
          /\ seen' = [Unseen EXCEPT !.set = s, !.frame = f]
      BY DEF AdvanceKey, TypeOK, States, Many
    <3> HIDE DEF s, f
    <3> QED BY <3>1 DEF Unseen
  <2>2. key_frame_index' \in [States -> Nat]
    <3>1. seen.set \in States /\ key_frame_index[seen.set] \in Nat /\ seen.key \in Nat
      BY DEF TypeOK
    <3>2. \/ key_frame_index' = key_frame_index
          \/ \E k \in Nat : key_frame_index' = [key_frame_index EXCEPT ![seen.set] = k + 1]
      BY <3>1 DEF AdvanceKey
    <3> QED BY <3>1, <3>2 DEF TypeOK
  <2> QED BY <2>1, <2>2 DEF TypeOK, AdvanceKey, Goto, eyesVars, Threads
<1>2. InBounds'
  <2> DEFINE s == seen.set
  <2>1. s \in States /\ pc["main"] = "advance_key" /\ frame_index' = frame_index
    BY DEF AdvanceKey, Goto, Unseen, TypeOK
  <2>2. PICK c \in {seen.key, key_frame_index[s]} : \E k \in {c, key_frame_index[s]} :
          \/ key_frame_index' = key_frame_index
          \/ /\ c # LastKey(s)
             /\ key_frame_index' = [key_frame_index EXCEPT ![s] = k + 1]
    BY DEF AdvanceKey
  <2>3. PICK k \in {c, key_frame_index[s]} :
          \/ key_frame_index' = key_frame_index
          \/ /\ c # LastKey(s)
             /\ key_frame_index' = [key_frame_index EXCEPT ![s] = k + 1]
    BY <2>2
  <2>4. LastKey(s) \in Nat /\ c \in 0..LastKey(s) /\ k \in {0, c}
    BY <2>1, Segments DEF Fresh
  <2>5. c # LastKey(s) => k + 1 \in 0..LastKey(s)
    <3> HIDE DEF s
    <3> QED BY <2>4
  <2> QED BY <2>1, <2>3, <2>5 DEF InBounds, TypeOK
<1>3. Fresh'
  BY Segments DEF Fresh, InBounds, TypeOK, AdvanceKey, Goto, Unseen, eyesVars, animVars, Threads,
         States
<1>4. Started'
  BY DEF Started, TypeOK, AdvanceKey, Goto, Unseen, eyesVars, animVars, Threads, States, Pointers
<1> QED BY <1>1, <1>2, <1>3, <1>4

LEMMA AdvanceFrameInv ==
  ASSUME IInv, AdvanceFrame
  PROVE  IInv'
<1> USE DEF IInv
<1>1. TypeOK'
  BY Segments DEF TypeOK, AdvanceFrame, Goto, eyesVars, animVars, Threads, States, Pointers, Many,
         InBounds, Fresh, Started
<1>2. InBounds'
  <2> DEFINE s == seen.set
  <2>1. s \in States /\ pc["main"] = "advance_frame" /\ key_frame_index' = key_frame_index
    BY DEF AdvanceFrame, Goto, TypeOK
  <2>2. PICK c \in {seen.frame, frame_index[s]} : \E f \in {c, frame_index[s]} :
          \/ frame_index' = frame_index
          \/ /\ c # LastFrame(s)
             /\ frame_index' = [frame_index EXCEPT ![s] = f + 1]
    BY DEF AdvanceFrame
  <2>3. PICK f \in {c, frame_index[s]} :
          \/ frame_index' = frame_index
          \/ /\ c # LastFrame(s)
             /\ frame_index' = [frame_index EXCEPT ![s] = f + 1]
    BY <2>2
  <2>4. LastFrame(s) \in Nat /\ c \in 0..LastFrame(s) /\ f \in {0, c}
    BY <2>1, Segments DEF Fresh
  <2>5. c # LastFrame(s) => f + 1 \in 0..LastFrame(s)
    <3> HIDE DEF s
    <3> QED BY <2>4, <2>1, Segments
  <2> QED BY <2>1, <2>3, <2>5 DEF InBounds, TypeOK
<1>3. Fresh'
  BY Segments DEF Fresh, InBounds, TypeOK, AdvanceFrame, Goto, eyesVars, animVars, Threads, States
<1>4. Started'
  BY DEF Started, TypeOK, AdvanceFrame, Goto, eyesVars, animVars, Threads, States, Pointers
<1> QED BY <1>1, <1>2, <1>3, <1>4

LEMMA FindEndedInv ==
  ASSUME IInv, FindEnded
  PROVE  IInv'
<1> USE DEF IInv
<1>1. TypeOK'
  BY Segments DEF TypeOK, FindEnded, Goto, Unseen, eyesVars, animVars, Threads, States, Pointers,
         Many, InBounds, Fresh, Started
<1>2. InBounds'
  BY Segments DEF InBounds, TypeOK, FindEnded, Goto, Unseen, eyesVars, animVars, Threads, States,
         Fresh
<1>3. Fresh'
  BY Segments DEF Fresh, InBounds, TypeOK, FindEnded, Goto, Unseen, eyesVars, animVars, Threads,
         States
<1>4. Started'
  BY DEF Started, TypeOK, FindEnded, Goto, Unseen, eyesVars, animVars, Threads, States, Pointers
<1> QED BY <1>1, <1>2, <1>3, <1>4

LEMMA EndedInv ==
  ASSUME IInv, Ended
  PROVE  IInv'
<1> USE DEF IInv
<1>1. TypeOK'
  BY Segments DEF TypeOK, Ended, Goto, Unseen, eyesVars, animVars, Threads, States, Pointers,
         Many, InBounds, Fresh, Started
<1>2. InBounds'
  BY Segments DEF InBounds, TypeOK, Ended, Goto, Unseen, eyesVars, animVars, Threads, States, Fresh
<1>3. Fresh'
  BY Segments DEF Fresh, InBounds, TypeOK, Ended, Goto, Unseen, eyesVars, animVars, Threads, States
<1>4. Started'
  BY DEF Started, TypeOK, Ended, Goto, Unseen, eyesVars, animVars, Threads, States, Pointers
<1> QED BY <1>1, <1>2, <1>3, <1>4

LEMMA NextLoadInv ==
  ASSUME IInv, NextLoad
  PROVE  IInv'
<1> USE DEF IInv
<1>1. TypeOK'
  BY Segments DEF TypeOK, NextLoad, Goto, Unseen, eyesVars, animVars, Threads, States, Pointers,
         Many, InBounds, Fresh, Started
<1>2. InBounds'
  BY Segments DEF InBounds, TypeOK, NextLoad, Goto, Unseen, eyesVars, animVars, Threads, States,
         Fresh
<1>3. Fresh'
  BY Segments DEF Fresh, InBounds, TypeOK, NextLoad, Goto, Unseen, eyesVars, animVars, Threads,
         States
<1>4. Started'
  BY DEF Started, TypeOK, NextLoad, Goto, Unseen, eyesVars, animVars, Threads, States, Pointers
<1> QED BY <1>1, <1>2, <1>3, <1>4

LEMMA NextStoreInv ==
  ASSUME IInv, NextStore
  PROVE  IInv'
<1> USE DEF IInv
<1>1. TypeOK'
  BY Segments DEF TypeOK, NextStore, Goto, Unseen, eyesVars, animVars, Threads, States, Pointers,
         Many, InBounds, Fresh, Started
<1>2. InBounds'
  BY Segments DEF InBounds, TypeOK, NextStore, Goto, Unseen, eyesVars, animVars, Threads, States,
         Fresh
<1>3. Fresh'
  BY Segments DEF Fresh, InBounds, TypeOK, NextStore, Goto, Unseen, eyesVars, animVars, Threads,
         States
<1>4. Started'
  BY DEF Started, TypeOK, NextStore, Goto, Unseen, eyesVars, animVars, Threads, States, Pointers
<1> QED BY <1>1, <1>2, <1>3, <1>4

(* What next() asks and what it does of it are of their types.             *)
LEMMA AsksType ==
  ASSUME TypeOK, NEW to \in {"idle_count", "is_clipping", "clip_count"},
         NEW s \in States, NEW c \in 0..Many, Asks(to, s, c), NextFrame
  PROVE  TypeOK'
<1>1. seen' \in [set : States, draw : States, key : Nat, next : Nat, frame : Nat,
                 seq : 0..Many, state : States]
  BY DEF Asks, TypeOK
<1>2. pc' = [pc EXCEPT !["main"] = to] /\ UNCHANGED arg
  BY DEF Asks
<1> QED BY <1>1, <1>2 DEF TypeOK, NextFrame, eyesVars, animVars, Threads

LEMMA LeavesType ==
  ASSUME TypeOK, NEW to \in {"zero", "notify"}, NEW s \in States, Leaves(to, s), NextFrame
  PROVE  TypeOK'
<1>1. seen' \in [set : States, draw : States, key : Nat, next : Nat, frame : Nat,
                 seq : 0..Many, state : States]
  BY DEF Leaves, Unseen, States, Many
<1> QED BY <1>1 DEF TypeOK, Leaves, NextFrame, eyesVars, animVars, Threads

LEMMA IsIdleInv ==
  ASSUME IInv, IsIdle
  PROVE  IInv'
<1> USE DEF IInv
<1>1. TypeOK'
  <2>1. seen.seq \in 0..Many /\ state \in States
    BY DEF IsIdle, TypeOK, Started
  <2> QED BY <2>1, AsksType DEF IsIdle
<1>2. InBounds'
  BY Segments DEF InBounds, TypeOK, IsIdle, Goto, NextFrame, Becomes, Again, Leaves, Asks, Unseen,
         eyesVars, animVars, Threads, States, Fresh
<1>3. Fresh'
  BY Segments DEF Fresh, InBounds, TypeOK, IsIdle, Goto, NextFrame, Becomes, Again, Leaves, Asks,
         Unseen, eyesVars, animVars, Threads, States
<1>4. Started'
  BY DEF Started, TypeOK, IsIdle, Goto, NextFrame, Becomes, Again, Leaves, Asks, Unseen, eyesVars,
         animVars, Threads, States, Pointers
<1> QED BY <1>1, <1>2, <1>3, <1>4

LEMMA IdleCountInv ==
  ASSUME IInv, IdleCount
  PROVE  IInv'
<1> USE DEF IInv
<1>1. TypeOK'
  <2>1. seen.seq \in 0..Many /\ seq_count \in 0..Many /\ seen.state \in States
    BY DEF TypeOK
  <2>2. "clipping" \in States
    BY DEF States
  <2> QED BY <2>1, <2>2, AsksType, LeavesType DEF IdleCount, Becomes
<1>2. InBounds'
  BY Segments DEF InBounds, TypeOK, IdleCount, Goto, NextFrame, Becomes, Again, Leaves, Asks,
         Unseen, eyesVars, animVars, Threads, States, Fresh
<1>3. Fresh'
  BY Segments DEF Fresh, InBounds, TypeOK, IdleCount, Goto, NextFrame, Becomes, Again, Leaves,
         Asks, Unseen, eyesVars, animVars, Threads, States
<1>4. Started'
  BY DEF Started, TypeOK, IdleCount, Goto, NextFrame, Becomes, Again, Leaves, Asks, Unseen,
         eyesVars, animVars, Threads, States, Pointers
<1> QED BY <1>1, <1>2, <1>3, <1>4

LEMMA IsClippingInv ==
  ASSUME IInv, IsClipping
  PROVE  IInv'
<1> USE DEF IInv
<1>1. TypeOK'
  <2>1. seen.seq \in 0..Many /\ state \in States /\ seen.state \in States
    BY DEF IsClipping, TypeOK, Started
  <2> QED BY <2>1, AsksType, LeavesType DEF IsClipping, Again
<1>2. InBounds'
  BY Segments DEF InBounds, TypeOK, IsClipping, Goto, NextFrame, Becomes, Again, Leaves, Asks,
         Unseen, eyesVars, animVars, Threads, States, Fresh
<1>3. Fresh'
  BY Segments DEF Fresh, InBounds, TypeOK, IsClipping, Goto, NextFrame, Becomes, Again, Leaves,
         Asks, Unseen, eyesVars, animVars, Threads, States
<1>4. Started'
  BY DEF Started, TypeOK, IsClipping, Goto, NextFrame, Becomes, Again, Leaves, Asks, Unseen,
         eyesVars, animVars, Threads, States, Pointers
<1> QED BY <1>1, <1>2, <1>3, <1>4

LEMMA ClipCountInv ==
  ASSUME IInv, ClipCount
  PROVE  IInv'
<1> USE DEF IInv
<1>1. TypeOK'
  BY Segments DEF TypeOK, ClipCount, Goto, NextFrame, Becomes, Again, Leaves, Asks, Unseen,
         eyesVars, animVars, Threads, States, Pointers, Many, InBounds, Fresh, Started
<1>2. InBounds'
  BY Segments DEF InBounds, TypeOK, ClipCount, Goto, NextFrame, Becomes, Again, Leaves, Asks,
         Unseen, eyesVars, animVars, Threads, States, Fresh
<1>3. Fresh'
  BY Segments DEF Fresh, InBounds, TypeOK, ClipCount, Goto, NextFrame, Becomes, Again, Leaves,
         Asks, Unseen, eyesVars, animVars, Threads, States
<1>4. Started'
  BY DEF Started, TypeOK, ClipCount, Goto, NextFrame, Becomes, Again, Leaves, Asks, Unseen,
         eyesVars, animVars, Threads, States, Pointers
<1> QED BY <1>1, <1>2, <1>3, <1>4

(* SafeSpec => []IInv: under every race of the button thread with draw(),   *)
(* the indices of the animators stay within the key frames and no null      *)
(* frame set is used (IInv of Eyes).                                        *)
THEOREM Invariance == SafeSpec => []IInv
<1>1. ASSUME IInv, [Next]_vars PROVE IInv'
  <2>1. CASE UNCHANGED vars
    BY <1>1, <2>1 DEF IInv, TypeOK, InBounds, Fresh, Started, vars, eyesVars, animVars
  <2>2. CASE Press
    BY <1>1, <2>2, PressInv
  <2>3. ASSUME NEW p \in Threads, UpdateState(p) PROVE IInv'
    BY <1>1, <2>3, ZeroSeqCountInv, SetStateInv, OnStateChangeInv, SetFrameSetInv,
       FindAnimatorInv, ResetKeyInv, ResetFrameInv DEF UpdateState
  <2>4. CASE MainStep
    BY <1>1, <2>3, <2>4, DrawInv, DrawFrameInv, EvalKeyInv, EvalFrameInv, AdvanceKeyInv,
       AdvanceFrameInv, FindEndedInv, EndedInv, NextLoadInv, NextStoreInv, IsIdleInv,
       IdleCountInv, IsClippingInv, ClipCountInv DEF MainStep, Threads
  <2> QED BY <1>1, <2>1, <2>2, <2>3, <2>4 DEF Next, Threads
<1> QED BY <1>1, InitInv, PTL DEF SafeSpec
-----------------------------------------------------------------------------
(* Until they have met, one of the threads is out of the eyes.             *)
Solo == pc["main"] = "out" \/ pc["button"] = "out"

In(places) == pc["main"] \in places \/ pc["button"] \in places

(* next() has counted the animation, and knows the count or more.          *)
Deciding == {"is_idle", "idle_count", "is_clipping", "clip_count"}

(* How far the count is above where it is at rest.                         *)
Counted == IF pc["main"] \in Deciding THEN 1 ELSE 0

(* What updateState(), next() and draw() have done so far.                 *)
Shown ==
  /\ \A p \in Threads :
       /\ pc[p] \in {"zero", "state"} => (pressed <=> arg[p] = "listening")
       /\ pc[p] = "state" => seq_count = 0
       /\ pc[p] = "notify" => arg[p] = state
       /\ pc[p] = "play" => /\ arg[p] = state
                            /\ \A field \in Pointers \ todo[p] : frame_set[field] = state
  /\ pc["main"] \in Deciding \cup {"store"} => seen.seq = seq_count
  /\ pc["main"] \in Deciding \ {"is_idle"} => seen.state = state
  /\ pc["main"] = "idle_count" => state = "idle"
  /\ pc["main"] = "is_clipping" /\ state = "idle" => seq_count # 2
  /\ pc["main"] = "clip_count" => state = "clipping"
  /\ pc["main"] = "eval" => /\ "ptr" \notin todo["main"] => seen.set = state
                            /\ "draw" \notin todo["main"] => seen.draw = state
  /\ pc["main"] = "segment" => seen.draw = seen.set
  /\ ~In({"zero", "state"}) =>
       /\ pressed <=> state = "listening"
       /\ state # "none"
       /\ state = "idle" => seq_count < 2 + Counted
       /\ state = "clipping" => seq_count = Counted
  /\ ~In({"zero", "state", "notify", "play"}) =>
       \A field \in Pointers : frame_set[field] = state

ShownInv == ~raced => Solo /\ Shown

LEMMA NotMet ==
  ASSUME IInv, NEW p \in Threads, Meets(p), ~raced'
  PROVE  ~raced /\ pc[p] = "out"
<1> QED BY EyesAssumption DEF Meets, raced, IInv, TypeOK

LEMMA SoloNext ==
  ASSUME IInv, ~raced => Solo, [Next]_vars, ~raced'
  PROVE  ~raced /\ Solo'
<1>1. CASE UNCHANGED vars
  BY <1>1 DEF vars, Solo, raced
<1>2. CASE Press
  BY <1>2, NotMet DEF Press, Goto, Solo, IInv, TypeOK, Threads
<1>3. CASE UpdateState("button")
  BY <1>3 DEF UpdateState, ZeroSeqCount, SetState, OnStateChange, SetFrameSet, FindAnimator,
              ResetKey, ResetFrame, Goto, Solo, raced, IInv, TypeOK, Threads
<1>4. CASE UpdateState("main")
  BY <1>4 DEF UpdateState, ZeroSeqCount, SetState, OnStateChange, SetFrameSet, FindAnimator,
              ResetKey, ResetFrame, Goto, Solo, raced, IInv, TypeOK, Threads
<1>5. CASE Draw
  BY <1>5, NotMet DEF Draw, Goto, Solo, IInv, TypeOK, Threads
<1>6. CASE DrawFrame \/ EvalKey \/ EvalFrame \/ AdvanceKey \/ AdvanceFrame \/ FindEnded
           \/ Ended \/ NextLoad \/ NextStore \/ IsIdle \/ IdleCount \/ IsClipping \/ ClipCount
  <2>1. pc["main"] # "out" /\ pc'["button"] = pc["button"] /\ races' = races
    BY <1>6 DEF DrawFrame, EvalKey, EvalFrame, AdvanceKey, AdvanceFrame, FindEnded, Ended,
                NextLoad, NextStore, IsIdle, IdleCount, IsClipping, ClipCount, Becomes, Again,
                Leaves, Asks, NextFrame, Goto, IInv, TypeOK, Threads
  <2> QED BY <2>1 DEF Solo, raced
<1> QED BY <1>1, <1>2, <1>3, <1>4, <1>5, <1>6 DEF Next, MainStep

LEMMA PressShown ==
  ASSUME IInv, Solo, Shown, Press, ~raced'
  PROVE  Shown'
<1>1. pc["main"] = "out"
  BY NotMet DEF Press, Threads
<1> QED BY <1>1 DEF IInv, TypeOK, Started, Solo, Shown, In, Deciding, Counted, Press, Goto, eyesVars,
           animVars, Threads, States, Pointers

LEMMA ZeroSeqCountShown ==
  ASSUME IInv, Solo, Shown, NEW p \in Threads, ZeroSeqCount(p)
  PROVE  Shown'
<1> QED BY DEF IInv, TypeOK, Started, Solo, Shown, In, Deciding, Counted, ZeroSeqCount, Goto,
           eyesVars, animVars, Threads, States, Pointers

LEMMA SetStateShown ==
  ASSUME IInv, Solo, Shown, NEW p \in Threads, SetState(p)
  PROVE  Shown'
<1> QED BY DEF IInv, TypeOK, Started, Solo, Shown, In, Deciding, Counted, SetState, Goto, eyesVars,
           animVars, Threads, States, Pointers

LEMMA OnStateChangeShown ==
  ASSUME IInv, Solo, Shown, NEW p \in Threads, OnStateChange(p)
  PROVE  Shown'
<1> QED BY DEF IInv, TypeOK, Started, Solo, Shown, In, Deciding, Counted, OnStateChange, Goto,
           eyesVars, animVars, Threads, States, Pointers

LEMMA SetFrameSetShown ==
  ASSUME IInv, Solo, Shown, NEW p \in Threads, SetFrameSet(p)
  PROVE  Shown'
<1> QED BY DEF IInv, TypeOK, Started, Solo, Shown, In, Deciding, Counted, SetFrameSet, Goto,
           eyesVars, animVars, Threads, States, Pointers

LEMMA FindAnimatorShown ==
  ASSUME IInv, Solo, Shown, NEW p \in Threads, FindAnimator(p)
  PROVE  Shown'
<1> QED BY DEF IInv, TypeOK, Started, Solo, Shown, In, Deciding, Counted, FindAnimator, Goto,
           eyesVars, animVars, Threads, States, Pointers

LEMMA ResetKeyShown ==
  ASSUME IInv, Solo, Shown, NEW p \in Threads, ResetKey(p)
  PROVE  Shown'
<1> QED BY DEF IInv, TypeOK, Started, Solo, Shown, In, Deciding, Counted, ResetKey, Goto, eyesVars,
           animVars, Threads, States, Pointers

LEMMA ResetFrameShown ==
  ASSUME IInv, Solo, Shown, NEW p \in Threads, ResetFrame(p)
  PROVE  Shown'
<1> QED BY DEF IInv, TypeOK, Started, Solo, Shown, In, Deciding, Counted, ResetFrame, Goto,
           eyesVars, animVars, Threads, States, Pointers

LEMMA DrawShown ==
  ASSUME IInv, Solo, Shown, Draw, ~raced'
  PROVE  Shown'
<1>1. pc["button"] = "out"
  BY NotMet DEF Draw, Threads
<1> QED BY <1>1 DEF IInv, TypeOK, Started, Solo, Shown, In, Deciding, Counted, Draw, Unseen, Goto,
           eyesVars, animVars, Threads, States, Pointers

LEMMA DrawFrameShown ==
  ASSUME IInv, Solo, Shown, DrawFrame
  PROVE  Shown'
<1> QED BY DEF IInv, TypeOK, Started, Solo, Shown, In, Deciding, Counted, DrawFrame, Goto, eyesVars,
           animVars, Threads, States, Pointers

LEMMA EvalKeyShown ==
  ASSUME IInv, Solo, Shown, EvalKey
  PROVE  Shown'
<1> QED BY DEF IInv, TypeOK, Started, Solo, Shown, In, Deciding, Counted, EvalKey, Goto, eyesVars,
           animVars, Threads, States, Pointers

LEMMA EvalFrameShown ==
  ASSUME IInv, Solo, Shown, EvalFrame
  PROVE  Shown'
<1> QED BY DEF IInv, TypeOK, Started, Solo, Shown, In, Deciding, Counted, EvalFrame, Goto, eyesVars,
           animVars, Threads, States, Pointers

LEMMA AdvanceKeyShown ==
  ASSUME IInv, Solo, Shown, AdvanceKey
  PROVE  Shown'
<1> QED BY DEF IInv, TypeOK, Started, Solo, Shown, In, Deciding, Counted, AdvanceKey, Unseen,
           Goto, eyesVars,
           animVars, Threads, States, Pointers

LEMMA AdvanceFrameShown ==
  ASSUME IInv, Solo, Shown, AdvanceFrame
  PROVE  Shown'
<1> QED BY DEF IInv, TypeOK, Started, Solo, Shown, In, Deciding, Counted, AdvanceFrame, Goto,
           eyesVars, animVars, Threads, States, Pointers

LEMMA FindEndedShown ==
  ASSUME IInv, Solo, Shown, FindEnded
  PROVE  Shown'
<1> QED BY DEF IInv, TypeOK, Started, Solo, Shown, In, Deciding, Counted, FindEnded, Unseen, Goto,
           eyesVars, animVars, Threads, States, Pointers

LEMMA EndedShown ==
  ASSUME IInv, Solo, Shown, Ended
  PROVE  Shown'
<1> QED BY DEF IInv, TypeOK, Started, Solo, Shown, In, Deciding, Counted, Ended, Unseen, Goto,
           eyesVars, animVars, Threads, States, Pointers

LEMMA NextLoadShown ==
  ASSUME IInv, Solo, Shown, NextLoad
  PROVE  Shown'
<1> QED BY DEF IInv, TypeOK, Started, Solo, Shown, In, Deciding, Counted, NextLoad, Unseen, Goto,
           eyesVars, animVars, Threads, States, Pointers

LEMMA NextStoreShown ==
  ASSUME IInv, Solo, Shown, NextStore
  PROVE  Shown'
<1> QED BY DEF IInv, TypeOK, Started, Solo, Shown, In, Deciding, Counted, NextStore, Unseen, Many,
           Goto, eyesVars,
           animVars, Threads, States, Pointers

(* next() asks on, or leaves for updateState() or onStateChange().         *)
LEMMA AsksShown ==
  ASSUME IInv, Solo, Shown, pc["main"] \in Deciding,
         NEW to \in Deciding \ {"is_idle"}, Asks(to, state, seq_count), NextFrame,
         to = "idle_count" => state = "idle",
         to = "is_clipping" /\ state = "idle" => seq_count # 2,
         to = "clip_count" => state = "clipping"
  PROVE  Shown'
<1>1. seen'.seq = seq_count /\ seen'.state = state
  <2>1. seen' = [seen EXCEPT !.state = state, !.seq = seq_count]
    BY DEF Asks
  <2> QED BY <2>1 DEF IInv, TypeOK
<1>2. /\ pc'["main"] = to /\ pc'["button"] = pc["button"] /\ pc["button"] = "out"
      /\ UNCHANGED <<arg, state, seq_count, frame_set, todo, pressed>>
  BY DEF Asks, NextFrame, eyesVars, Solo, Deciding, IInv, TypeOK, Threads
<1> QED BY <1>1, <1>2 DEF Shown, In, Deciding, Counted, Threads

LEMMA BecomesShown ==
  ASSUME IInv, Solo, Shown, pc["main"] \in Deciding, NEW s \in States,
         Becomes(s), NextFrame, state # "listening", s # "listening"
  PROVE  Shown'
<1>1. /\ pc'["main"] = "zero" /\ pc'["button"] = pc["button"] /\ pc["button"] = "out"
      /\ arg'["main"] = s
      /\ UNCHANGED <<state, seq_count, frame_set, todo, pressed>>
  BY DEF Becomes, Leaves, NextFrame, eyesVars, Solo, Deciding, IInv, TypeOK, Threads
<1> QED BY <1>1 DEF Shown, In, Deciding, Counted, Threads

LEMMA AgainShown ==
  ASSUME IInv, Solo, Shown, pc["main"] \in Deciding, Again(state), NextFrame,
         state = "idle" => seq_count # 2, state = "clipping" => seq_count # 1
  PROVE  Shown'
<1>1. /\ pc'["main"] = "notify" /\ pc'["button"] = pc["button"] /\ pc["button"] = "out"
      /\ arg'["main"] = state
      /\ UNCHANGED <<state, seq_count, frame_set, todo, pressed>>
  BY DEF Again, Leaves, NextFrame, eyesVars, Solo, Deciding, IInv, TypeOK, Threads
<1> QED BY <1>1 DEF Shown, In, Deciding, Counted, Threads, IInv, TypeOK, Many

LEMMA IsIdleShown ==
  ASSUME IInv, Solo, Shown, IsIdle
  PROVE  Shown'
<1>1. pc["main"] = "is_idle" /\ seen.seq = seq_count /\ NextFrame
  BY DEF IsIdle, Shown, Deciding
<1>2. \/ state = "idle" /\ Asks("idle_count", state, seq_count)
      \/ state # "idle" /\ Asks("is_clipping", state, seq_count)
  BY <1>1 DEF IsIdle
<1> QED BY <1>1, <1>2, AsksShown DEF Deciding

LEMMA IdleCountShown ==
  ASSUME IInv, Solo, Shown, IdleCount
  PROVE  Shown'
<1>1. /\ pc["main"] = "idle_count" /\ seen.seq = seq_count /\ seen.state = state
      /\ state = "idle" /\ NextFrame
  BY DEF IdleCount, Shown, Deciding
<1>2. \/ seq_count = 2 /\ Becomes("clipping")
      \/ seq_count # 2 /\ Asks("is_clipping", state, seq_count)
  BY <1>1 DEF IdleCount
<1> QED BY <1>1, <1>2, AsksShown, BecomesShown DEF Deciding, States

LEMMA IsClippingShown ==
  ASSUME IInv, Solo, Shown, IsClipping
  PROVE  Shown'
<1>1. /\ pc["main"] = "is_clipping" /\ seen.seq = seq_count /\ seen.state = state
      /\ state = "idle" => seq_count # 2
      /\ NextFrame
  BY DEF IsClipping, Shown, Deciding
<1>2. \/ state = "clipping" /\ Asks("clip_count", state, seq_count)
      \/ state # "clipping" /\ Again(state)
  BY <1>1 DEF IsClipping
<1> QED BY <1>1, <1>2, AsksShown, AgainShown DEF Deciding

LEMMA ClipCountShown ==
  ASSUME IInv, Solo, Shown, ClipCount
  PROVE  Shown'
<1>1. /\ pc["main"] = "clip_count" /\ seen.seq = seq_count /\ seen.state = state
      /\ state = "clipping" /\ NextFrame
  BY DEF ClipCount, Shown, Deciding
<1>2. \/ seq_count = 1 /\ Becomes("idle")
      \/ seq_count # 1 /\ Again(state)
  BY <1>1 DEF ClipCount
<1> QED BY <1>1, <1>2, BecomesShown, AgainShown DEF Deciding, States

LEMMA ShownNext ==
  ASSUME IInv, ShownInv, [Next]_vars
  PROVE  ShownInv'
<1> SUFFICES ASSUME ~raced' PROVE Solo' /\ Shown'
  BY DEF ShownInv
<1>1. ~raced /\ Solo /\ Shown /\ Solo'
  BY SoloNext DEF ShownInv
<1>2. CASE UNCHANGED vars
  BY <1>1, <1>2 DEF vars, eyesVars, Shown, In, Counted
<1>3. CASE Press
  BY <1>1, <1>3, PressShown
<1>4. ASSUME NEW p \in Threads, UpdateState(p) PROVE Shown'
  BY <1>1, <1>4, ZeroSeqCountShown, SetStateShown, OnStateChangeShown, SetFrameSetShown,
     FindAnimatorShown, ResetKeyShown, ResetFrameShown DEF UpdateState
<1>5. CASE MainStep
  BY <1>1, <1>4, <1>5, DrawShown, DrawFrameShown, EvalKeyShown, EvalFrameShown,
     AdvanceKeyShown, AdvanceFrameShown, FindEndedShown, EndedShown, NextLoadShown,
     NextStoreShown, IsIdleShown, IdleCountShown, IsClippingShown, ClipCountShown DEF MainStep, Threads
<1> QED BY <1>1, <1>2, <1>3, <1>4, <1>5 DEF Next, Threads

(* Without a race the view plays the state of the eyes, which listen just  *)
(* while the button is down, and next() counts two idle animations and one *)
(* clip (eyes.zig:29-44, view.zig:35-62).                                  *)
THEOREM ShowsStateAlways == SafeSpec => []ShowsState
<1>1. Init => ShownInv
  BY DEF Init, ShownInv, Solo, Shown, In, Deciding, Threads
<1>2. IInv /\ ShownInv => ShowsState
  BY DEF ShownInv, Shown, ShowsState, AtRest, In, Deciding, Counted
<1> QED BY <1>1, <1>2, Invariance, ShownNext, PTL DEF SafeSpec
-----------------------------------------------------------------------------
Segment(s) ==
  frame_index[s] \in Key(s, key_frame_index[s]).i..Key(s, key_frame_index[s] + 1).i

(* Every animator is in the segment of its index, except one that reset()  *)
(* is about to put back to frame 0; draw() works with what is there, and   *)
(* takes a frame that ends a segment to the next one first.                *)
Drawn ==
  /\ pc["main"] # "panic"
  /\ \A s \in States :
       Segment(s) \/ \E p \in Threads : pc[p] = "frame" /\ arg[p] = s
  /\ \A p \in Threads : pc[p] = "frame" => key_frame_index[arg[p]] = 0
  /\ pc["main"] \in {"segment", "advance_key"} => seen.key = key_frame_index[seen.set]
  /\ pc["main"] = "advance_key" => /\ seen.frame = frame_index[seen.set]
                                   /\ seen.next = seen.key + 1
  /\ pc["main"] = "advance_frame" =>
       /\ seen.frame = frame_index[seen.set]
       /\ \/ frame_index[seen.set] < Key(seen.set, key_frame_index[seen.set] + 1).i
          \/ key_frame_index[seen.set] = LastKey(seen.set)

DrawnInv == ~raced => Solo /\ Drawn

LEMMA Increasing ==
  ASSUME NEW s \in States
  PROVE  /\ Key(s, 0).i = 0
         /\ \A k \in 0..LastKey(s) : Key(s, k).i < Key(s, k + 1).i
         /\ s # "idle" => \A k \in 0..LastKey(s) + 1 : Key(s, k).v \in Nat
<1> DEFINE kf == KeyFrames[s]
<1>1. /\ kf \in Seq([i : Nat, v : Int]) /\ Len(kf) > 1 /\ kf[1].i = 0
      /\ \A j, k \in 1..Len(kf) : j < k => kf[j].i < kf[k].i
      /\ s # "idle" => \A j \in 1..Len(kf) : kf[j].v \in Nat
  BY EyesAssumption DEF WellFormed
<1>2. Len(kf) \in Nat
  BY <1>1, LenProperties
<1>3. LastKey(s) = Len(kf) - 2
  BY DEF LastKey
<1>4. Key(s, 0).i = 0
  BY <1>1 DEF Key
<1>5. ASSUME NEW k \in 0..LastKey(s)
      PROVE  Key(s, k).i < Key(s, k + 1).i
  <2>1. /\ k + 1 \in 1..Len(kf) /\ k + 1 + 1 \in 1..Len(kf)
        /\ k + 1 < k + 1 + 1
    BY <1>2, <1>3
  <2> QED BY <1>1, <2>1 DEF Key
<1>6. ASSUME s # "idle", NEW k \in 0..LastKey(s) + 1
      PROVE  Key(s, k).v \in Nat
  <2>1. k + 1 \in 1..Len(kf)
    BY <1>2, <1>3
  <2> QED BY <1>1, <1>6, <2>1 DEF Key
<1> QED BY <1>4, <1>5, <1>6

(* An animation that goes from one height to another never leaves them.    *)
LEMMA Interpolation ==
  ASSUME NEW a \in Nat, NEW b \in Nat, NEW d \in Nat \ {0}, NEW n \in 0..d
  PROVE  a + Cut(n * (b - a), d) >= 0
<1>1. CASE b >= a
  <2>1. n * (b - a) \in Nat
    BY <1>1
  <2>2. (n * (b - a)) \div d >= 0
    BY <2>1
  <2> QED BY <2>1, <2>2 DEF Cut
<1>2. CASE b < a
  <2> DEFINE m == n * (a - b)
             q == m \div d
  <2>1. m \in Nat /\ -(n * (b - a)) = m /\ n * (b - a) \in Int
    BY <1>2
  <2>2. m =< d * (a - b)
    BY <1>2
  <2>3. q \in Nat /\ d * q =< m
    BY <2>1
  <2>4. q =< a - b
    <3> SUFFICES ASSUME q >= a - b + 1 PROVE FALSE
      BY <2>3
    <3>1. d * q >= d * (a - b + 1)
      BY <2>3, <1>2
    <3>2. d * (a - b + 1) = d * (a - b) + d
      OBVIOUS
    <3>3. d * (a - b) \in Int /\ d * q \in Int
      BY <2>3
    <3> HIDE DEF q, m
    <3> QED BY <3>1, <3>2, <3>3, <2>1, <2>2, <2>3
  <2>5. Cut(n * (b - a), d) \in {q, -q}
    BY <2>1 DEF Cut
  <2> QED
    <3>1. CASE n * (b - a) < 0
      <4>1. Cut(n * (b - a), d) = -q
        BY <2>1, <3>1 DEF Cut
      <4> HIDE DEF q
      <4> QED BY <2>3, <2>4, <4>1, <1>2
    <3>2. CASE ~(n * (b - a) < 0)
      <4>1. Cut(n * (b - a), d) = 0 \/ Cut(n * (b - a), d) \in Nat
        BY <2>1, <3>2 DEF Cut
      <4> QED BY <4>1
    <3> QED BY <3>1, <3>2
<1> QED BY <1>1, <1>2

(* A step that leaves the animators alone, and begins no step of draw()    *)
(* that relies on what was read, keeps them where they are.                *)
LEMMA SameDrawn ==
  ASSUME Drawn, UNCHANGED <<key_frame_index, frame_index>>,
         \A p \in Threads : pc[p] = "frame" <=> pc'[p] = "frame",
         \A p \in Threads : pc[p] = "frame" => arg'[p] = arg[p],
         pc'["main"] \notin {"panic", "segment", "advance_key", "advance_frame"}
  PROVE  Drawn'
<1>1. \A s \in States : Segment(s)' <=> Segment(s)
  BY DEF Segment, Key
<1> QED BY <1>1 DEF Drawn

LEMMA PlainDrawn ==
  ASSUME IInv, Solo, Drawn, NEW p \in Threads,
         ZeroSeqCount(p) \/ SetState(p) \/ OnStateChange(p) \/ SetFrameSet(p) \/ FindAnimator(p),
         Solo'
  PROVE  Drawn'
<1>1. /\ UNCHANGED <<key_frame_index, frame_index>>
      /\ pc[p] \in {"zero", "state", "notify", "play"} /\ pc[p] # "frame"
      /\ \A q \in Threads \ {p} : pc'[q] = pc[q] /\ arg'[q] = arg[q]
      /\ pc'[p] \in {"state", "notify", "play", "key"}
  BY DEF ZeroSeqCount, SetState, OnStateChange, SetFrameSet, FindAnimator, Goto, animVars,
         IInv, TypeOK
<1>2. pc'["main"] \notin {"panic", "segment", "advance_key", "advance_frame"}
  BY <1>1 DEF Solo, Threads
<1> QED BY <1>1, <1>2, SameDrawn

LEMMA ResetKeyDrawn ==
  ASSUME IInv, Solo, Drawn, NEW p \in Threads, ResetKey(p)
  PROVE  Drawn'
<1>1. /\ pc[p] = "key" /\ pc' = [pc EXCEPT ![p] = "frame"] /\ arg' = arg /\ arg[p] \in States
      /\ key_frame_index' = [key_frame_index EXCEPT ![arg[p]] = 0]
      /\ frame_index' = frame_index
  BY DEF ResetKey, Goto, IInv, TypeOK
<1>2. \A q \in Threads \ {p} : pc'[q] = pc[q]
  BY <1>1 DEF IInv, TypeOK
<1>3. pc'[p] = "frame" /\ key_frame_index'[arg[p]] = 0
  BY <1>1 DEF IInv, TypeOK
<1>4. \A q \in Threads : pc[q] = "frame" => pc'[q] = "frame"
  BY <1>1, <1>2
<1>5. ASSUME NEW s \in States
      PROVE  \/ Segment(s)'
             \/ \E q \in Threads : pc'[q] = "frame" /\ arg'[q] = s
  <2>1. CASE s = arg[p]
    BY <1>1, <1>3, <2>1
  <2>2. CASE s # arg[p]
    <3>1. key_frame_index'[s] = key_frame_index[s]
      BY <1>1, <2>2 DEF IInv, TypeOK
    <3> QED BY <1>1, <1>4, <3>1 DEF Drawn, Segment, Key
  <2> QED BY <2>1, <2>2
<1>6. pc'["main"] \notin {"panic", "segment", "advance_key", "advance_frame"}
  BY <1>1, <1>2, <1>3 DEF Solo, Threads
<1>7. ASSUME NEW q \in Threads, pc'[q] = "frame" PROVE key_frame_index'[arg'[q]] = 0
  <2>1. q = p
    BY <1>1, <1>2, <1>7 DEF Solo, Threads
  <2> QED BY <1>1, <1>3, <2>1
<1> QED BY <1>5, <1>6, <1>7 DEF Drawn

LEMMA ResetFrameDrawn ==
  ASSUME IInv, Solo, Drawn, NEW p \in Threads, ResetFrame(p)
  PROVE  Drawn'
<1>1. /\ pc[p] = "frame" /\ pc' = [pc EXCEPT ![p] = "out"] /\ arg[p] \in States
      /\ frame_index' = [frame_index EXCEPT ![arg[p]] = 0]
      /\ key_frame_index' = key_frame_index
  BY DEF ResetFrame, Goto, IInv, TypeOK
<1>2. /\ \A q \in Threads \ {p} : pc'[q] = pc[q] /\ pc[q] = "out"
      /\ pc'[p] = "out"
  BY <1>1 DEF Solo, Threads, IInv, TypeOK
<1>3. ASSUME NEW s \in States PROVE Segment(s)'
  <2>1. CASE s = arg[p]
    <3>1. frame_index'[s] = 0
      BY <1>1, <2>1 DEF IInv, TypeOK
    <3>2. key_frame_index'[s] = 0
      BY <1>1, <2>1 DEF Drawn
    <3>3. Key(s, 0).i = 0 /\ Key(s, 0 + 1).i \in Nat
      BY Segments, Increasing
    <3> QED BY <3>1, <3>2, <3>3 DEF Segment, Key
  <2>2. CASE s # arg[p]
    <3>1. frame_index'[s] = frame_index[s]
      BY <1>1, <2>2 DEF IInv, TypeOK
    <3>2. ~\E q \in Threads : pc[q] = "frame" /\ arg[q] = s
      BY <1>2, <2>2
    <3> QED BY <1>1, <3>1, <3>2 DEF Drawn, Segment, Key
  <2> QED BY <2>1, <2>2
<1> QED BY <1>2, <1>3 DEF Drawn, Threads

(* The other steps of draw() and next(): the animators stay as they are.   *)
LEMMA OtherDrawn ==
  ASSUME IInv, Solo, Drawn,
         \/ Draw \/ DrawFrame \/ FindEnded \/ Ended \/ NextLoad \/ NextStore
         \/ IsIdle \/ IdleCount \/ IsClipping \/ ClipCount
  PROVE  Drawn'
<1>1. /\ UNCHANGED <<key_frame_index, frame_index>>
      /\ pc["main"] \in {"out", "eval", "ended", "compare", "load", "store"} \cup Deciding
      /\ pc'["main"] \in {"eval", "compare", "load", "out", "store", "zero", "notify"} \cup Deciding
      /\ pc'["button"] = pc["button"] /\ arg'["button"] = arg["button"]
  BY DEF Draw, DrawFrame, FindEnded, Ended, NextLoad, NextStore, IsIdle, IdleCount, IsClipping,
         ClipCount, Becomes, Again, Leaves, Asks, NextFrame, Goto, Deciding, animVars, IInv,
         TypeOK, Threads
<1> QED BY <1>1, SameDrawn DEF Threads, Deciding

(* What all that draw() does to the animators has in common.               *)
LEMMA Drawing ==
  ASSUME IInv, Solo, Drawn, EvalKey \/ EvalFrame \/ AdvanceKey \/ AdvanceFrame
  PROVE  /\ pc["button"] = "out" /\ pc'["button"] = "out" /\ pc'["main"] # "frame"
         /\ \A s \in States : Segment(s)
<1>1. pc["main"] \in {"eval", "segment", "advance_key", "advance_frame"}
  BY DEF EvalKey, EvalFrame, AdvanceKey, AdvanceFrame, Goto
<1>2. pc["button"] = "out"
  BY <1>1 DEF Solo
<1>3. pc'["button"] = "out" /\ pc'["main"] # "frame"
  BY <1>1, <1>2 DEF EvalKey, EvalFrame, AdvanceKey, AdvanceFrame, Goto, IInv, TypeOK, Threads
<1> QED BY <1>1, <1>2, <1>3 DEF Drawn, Threads

LEMMA EvalKeyDrawn ==
  ASSUME IInv, Solo, Drawn, EvalKey
  PROVE  Drawn'
<1>1. /\ UNCHANGED <<key_frame_index, frame_index>> /\ pc'["main"] = "segment"
      /\ seen'.set = seen.set /\ seen'.key = key_frame_index[seen.set]
  BY DEF EvalKey, Goto, animVars, IInv, TypeOK, Threads
<1>2. \A s \in States : Segment(s)'
  BY <1>1, Drawing DEF Segment, Key
<1> QED BY <1>1, <1>2, Drawing DEF Drawn, Threads

LEMMA EvalFrameDrawn ==
  ASSUME IInv, Solo, Shown, Drawn, EvalFrame
  PROVE  Drawn'
<1> DEFINE s == seen.set
           k == key_frame_index[s]
           f == frame_index[s]
<1>1. s \in States /\ seen.key = k /\ seen.draw = s /\ pc["main"] = "segment"
  BY DEF EvalFrame, Shown, Drawn, IInv, TypeOK
<1>2. /\ seen' = [seen EXCEPT !.draw = "idle", !.frame = f, !.next = k + 1]
      /\ pc' = [pc EXCEPT !["main"] = IF Panics(s, Key(s, k), Key(s, k + 1), seen'.frame)
                                        THEN "panic" ELSE "advance_key"]
      /\ UNCHANGED <<key_frame_index, frame_index, arg>>
  BY <1>1 DEF EvalFrame, animVars
<1>3. seen'.set = s /\ seen'.key = k /\ seen'.frame = f /\ seen'.next = k + 1
  BY <1>1, <1>2 DEF IInv, TypeOK
<1>4. /\ k \in 0..LastKey(s) /\ k + 1 \in 0..LastKey(s) + 1 /\ k \in 0..LastKey(s) + 1
      /\ f \in Key(s, k).i..Key(s, k + 1).i
      /\ Key(s, k).i < Key(s, k + 1).i
      /\ Key(s, k) \in [i : Nat, v : Int] /\ Key(s, k + 1) \in [i : Nat, v : Int]
  <2>1. k \in 0..LastKey(s) /\ LastKey(s) \in Nat
    BY <1>1, Segments DEF IInv, InBounds
  <2>2. k + 1 \in 0..LastKey(s) + 1 /\ k \in 0..LastKey(s) + 1
    <3> HIDE DEF k, s
    <3> QED BY <2>1
  <2>3. f \in Key(s, k).i..Key(s, k + 1).i
    BY <1>1, Drawing DEF Segment
  <2> QED BY <1>1, <2>1, <2>2, <2>3, Segments, Increasing
<1>5. ~Panics(s, Key(s, k), Key(s, k + 1), f)
  <2> DEFINE key == Key(s, k)
             next == Key(s, k + 1)
  <2>1. ~(f < key.i) /\ ~(next.i =< key.i)
    BY <1>4
  <2>2. ASSUME s # "idle" PROVE ~(Value(key, next, f) < 0)
    <3>1. key.v \in Nat /\ next.v \in Nat
      BY <1>1, <1>4, <2>2, Increasing
    <3>2. next.i - key.i \in Nat \ {0} /\ f - key.i \in 0..(next.i - key.i)
      BY <1>4
    <3>3. key.v + Cut((f - key.i) * (next.v - key.v), next.i - key.i) >= 0
      <4> HIDE DEF key, next, f
      <4> QED BY <3>1, <3>2, Interpolation
    <3>4. Value(key, next, f) >= 0
      BY <3>3 DEF Value
    <3> QED
      <4> DEFINE x == (f - key.i) * (next.v - key.v)
                 d == next.i - key.i
      <4>1. x \in Int /\ d \in Nat \ {0}
        BY <3>1, <3>2
      <4>2. Cut(x, d) \in Int
        <5> HIDE DEF x, d
        <5> QED BY <4>1 DEF Cut
      <4>3. Value(key, next, f) \in Int
        BY <3>1, <4>2 DEF Value
      <4> QED BY <3>4, <4>3
  <2> QED BY <2>1, <2>2 DEF Panics
<1>6. pc'["main"] = "advance_key"
  BY <1>2, <1>3, <1>5 DEF IInv, TypeOK, Threads
<1>7. \A t \in States : Segment(t)'
  BY <1>2, Drawing DEF Segment, Key
<1> QED BY <1>2, <1>3, <1>6, <1>7, Drawing DEF Drawn, Threads

(* At the end of a segment the index goes to the next, whose first frame   *)
(* is the last one of this.                                                *)
LEMMA AdvanceKeyDrawn ==
  ASSUME IInv, Solo, Drawn, AdvanceKey
  PROVE  Drawn'
<1> DEFINE s == seen.set
           k == key_frame_index[s]
           f == frame_index[s]
<1>1. /\ s \in States /\ pc["main"] = "advance_key"
      /\ seen.key = k /\ seen.frame = f /\ seen.next = k + 1
  BY DEF AdvanceKey, Goto, Drawn, IInv, TypeOK
<1>2. /\ key_frame_index' = IF f = Key(s, k + 1).i /\ k # LastKey(s)
                              THEN [key_frame_index EXCEPT ![s] = k + 1]
                              ELSE key_frame_index
      /\ pc' = [pc EXCEPT !["main"] = "advance_frame"]
      /\ seen' = [Unseen EXCEPT !.set = s, !.frame = f]
      /\ UNCHANGED <<frame_index, arg>>
  BY <1>1 DEF AdvanceKey, Goto
<1>3. pc'["main"] = "advance_frame" /\ seen'.set = s /\ seen'.frame = f
  BY <1>2 DEF IInv, TypeOK, Threads, Unseen
<1>4. /\ k \in 0..LastKey(s) /\ LastKey(s) \in Nat /\ k \in Nat
      /\ f \in Key(s, k).i..Key(s, k + 1).i
      /\ f \in Nat
  BY <1>1, Segments, Drawing DEF IInv, InBounds, Segment
<1>5. \A t \in States \ {s} : Segment(t)'
  BY <1>1, <1>2, Drawing DEF Segment, Key, IInv, TypeOK
<1>6. CASE f = Key(s, k + 1).i /\ k # LastKey(s)
  <2>1. key_frame_index'[s] = k + 1
    BY <1>1, <1>2, <1>6 DEF IInv, TypeOK
  <2>2. Key(s, k + 1).i < Key(s, k + 1 + 1).i /\ Key(s, k + 1 + 1).i \in Nat
    <3>1. k + 1 \in 0..LastKey(s) /\ k + 1 + 1 \in 0..LastKey(s) + 1
      <4> HIDE DEF k, s
      <4> QED BY <1>4, <1>6
    <3> QED BY <1>1, <3>1, Increasing, Segments
  <2>3. Segment(s)' /\ f < Key(s, k + 1 + 1).i
    BY <1>2, <1>4, <1>6, <2>1, <2>2 DEF Segment, Key
  <2>4. frame_index'[seen'.set] < Key(seen'.set, key_frame_index'[seen'.set] + 1).i
    BY <1>2, <1>3, <2>1, <2>3
  <2> QED BY <1>1, <1>2, <1>3, <1>5, <2>3, <2>4, Drawing DEF Drawn, Threads, Key
<1>7. CASE ~(f = Key(s, k + 1).i /\ k # LastKey(s))
  <2>1. key_frame_index' = key_frame_index
    BY <1>2, <1>7
  <2>2. Segment(s)'
    BY <1>1, <1>2, <2>1, Drawing DEF Segment, Key
  <2>3. Key(s, k + 1).i \in Nat
    <3>1. k + 1 \in 0..LastKey(s) + 1
      <4> HIDE DEF k, s
      <4> QED BY <1>4
    <3> QED BY <1>1, <3>1, Segments
  <2>4. f < Key(s, k + 1).i \/ k = LastKey(s)
    BY <1>4, <1>7, <2>3
  <2> QED BY <1>1, <1>2, <1>3, <1>5, <2>1, <2>2, <2>4, Drawing DEF Drawn, Threads, Key, LastKey
<1> QED BY <1>6, <1>7

LEMMA AdvanceFrameDrawn ==
  ASSUME IInv, Solo, Drawn, AdvanceFrame
  PROVE  Drawn'
<1> DEFINE s == seen.set
           k == key_frame_index[s]
           f == frame_index[s]
<1>1. /\ s \in States /\ pc["main"] = "advance_frame" /\ seen.frame = f
      /\ f < Key(s, k + 1).i \/ k = LastKey(s)
  BY DEF AdvanceFrame, Goto, Drawn, IInv, TypeOK
<1>2. /\ frame_index' = IF f # LastFrame(s) THEN [frame_index EXCEPT ![s] = f + 1]
                                            ELSE frame_index
      /\ pc' = [pc EXCEPT !["main"] = "ended"]
      /\ UNCHANGED <<key_frame_index, arg>>
  BY <1>1 DEF AdvanceFrame, Goto
<1>3. pc'["main"] = "ended"
  BY <1>2 DEF IInv, TypeOK, Threads
<1>4. /\ k \in 0..LastKey(s) /\ LastKey(s) \in Nat /\ k \in Nat
      /\ f \in Key(s, k).i..Key(s, k + 1).i
      /\ f \in Nat
  BY <1>1, Segments, Drawing DEF IInv, InBounds, Segment
<1>5. Key(s, k).i \in Nat /\ Key(s, k + 1).i \in Nat
  <2>1. k \in 0..LastKey(s) + 1 /\ k + 1 \in 0..LastKey(s) + 1
    <3> HIDE DEF k, s
    <3> QED BY <1>4
  <2> QED BY <1>1, <2>1, Segments
<1>6. f # LastFrame(s) => f < Key(s, k + 1).i
  BY <1>1, <1>4, <1>5 DEF LastFrame
<1>7. frame_index'[s] \in Key(s, k).i..Key(s, k + 1).i
  BY <1>1, <1>2, <1>4, <1>5, <1>6 DEF IInv, TypeOK
<1>8. \A t \in States : Segment(t)'
  BY <1>1, <1>2, <1>7, Drawing DEF Segment, Key, IInv, TypeOK
<1> QED BY <1>2, <1>3, <1>8, Drawing DEF Drawn, Threads

LEMMA DrawnNext ==
  ASSUME IInv, ShownInv, DrawnInv, [Next]_vars
  PROVE  DrawnInv'
<1> SUFFICES ASSUME ~raced' PROVE Solo' /\ Drawn'
  BY DEF DrawnInv
<1>1. ~raced /\ Solo /\ Shown /\ Drawn /\ Solo'
  BY SoloNext DEF ShownInv, DrawnInv
<1>2. CASE UNCHANGED vars
  BY <1>1, <1>2 DEF vars, animVars, Drawn, Segment, Key, LastKey
<1>3. CASE Press
  <2>1. /\ UNCHANGED <<key_frame_index, frame_index>>
        /\ pc["main"] = "out" /\ pc'["main"] = "out"
        /\ pc["button"] = "out" /\ pc'["button"] = "zero"
    BY <1>3, NotMet DEF Press, Goto, animVars, IInv, TypeOK, Threads
  <2> QED BY <1>1, <2>1, SameDrawn DEF Threads
<1>4. ASSUME NEW p \in Threads, UpdateState(p) PROVE Drawn'
  BY <1>1, <1>4, PlainDrawn, ResetKeyDrawn, ResetFrameDrawn DEF UpdateState
<1>5. CASE MainStep
  BY <1>1, <1>4, <1>5, OtherDrawn, EvalKeyDrawn, EvalFrameDrawn, AdvanceKeyDrawn,
     AdvanceFrameDrawn DEF MainStep, Threads
<1> QED BY <1>1, <1>2, <1>3, <1>4, <1>5 DEF Next, Threads

(* Without a race an animator at rest is in the segment its index says,    *)
(* and eval() never panics, for key frames of any number and any place     *)
(* (animation.zig:263-297).                                                *)
THEOREM InSegmentAlways == SafeSpec => []InSegment
<1>1. Init => DrawnInv
  <2> SUFFICES ASSUME Init PROVE Solo /\ Drawn
    BY DEF DrawnInv
  <2>1. pc["main"] = "zero" /\ pc["button"] = "out"
    BY DEF Init, Threads
  <2>2. ASSUME NEW s \in States PROVE Segment(s)
    <3>1. key_frame_index[s] = 0 /\ frame_index[s] = 0
      BY DEF Init
    <3>2. Key(s, 0).i = 0 /\ Key(s, 0 + 1).i \in Nat
      BY Segments, Increasing
    <3> QED BY <3>1, <3>2 DEF Segment
  <2> QED BY <2>1, <2>2 DEF Solo, Drawn, Threads
<1>2. IInv /\ DrawnInv => InSegment
  BY DEF DrawnInv, Drawn, InSegment, AtRest, Segment, Threads
<1>3. Init => ShownInv
  BY DEF Init, ShownInv, Solo, Shown, In, Deciding, Threads
<1> QED BY <1>1, <1>2, <1>3, Invariance, ShownNext, DrawnNext, PTL DEF SafeSpec
=============================================================================

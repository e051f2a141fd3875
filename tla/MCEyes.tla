------------------------------- MODULE MCEyes -------------------------------
(* The key frames of the program in fewer frames: segments of one frame or *)
(* two, the last ones of two, with values that stay, rise and fall.        *)
EXTENDS Eyes

MCKeyFrames ==
  [idle      |-> <<[i |-> 0, v |-> 3], [i |-> 1, v |-> 4], [i |-> 2, v |-> 3],
                   [i |-> 3, v |-> 2], [i |-> 5, v |-> 3]>>,
   listening |-> <<[i |-> 0, v |-> 2], [i |-> 1, v |-> 2], [i |-> 2, v |-> 0],
                   [i |-> 4, v |-> 2]>>,
   clipping  |-> <<[i |-> 0, v |-> 2], [i |-> 2, v |-> 0], [i |-> 4, v |-> 2]>>]
=============================================================================

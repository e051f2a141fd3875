---------------------------- MODULE MCRecording -----------------------------
(* Two recordings; the bounds are the cfg's.                               *)
EXTENDS Recording
=============================================================================

----------------------------- MODULE MCStartUp ------------------------------
(* Three bytes of audio, asked for one or two at a time, a failed write,   *)
(* and at most two draws in the queue.                                     *)
EXTENDS StartUp
=============================================================================

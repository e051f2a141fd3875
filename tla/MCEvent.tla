------------------------------ MODULE MCEvent ------------------------------
(* Three threads wait and two notify, as often as they like.               *)
EXTENDS Event

CONSTANTS w1, w2, w3, n1, n2
MCWaiters == {w1, w2, w3}
MCNotifiers == {n1, n2}
=============================================================================

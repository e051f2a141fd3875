------------------------------ MODULE Channel ------------------------------
(***************************************************************************)
(* What the session promises those who send: messages go out whole, in the *)
(* order they were sent, each once, and in the end.                        *)
(***************************************************************************)
EXTENDS Sequences

CONSTANT Messages

VARIABLES pending,  (* sent and not yet written                            *)
          wire      (* written, oldest first                               *)

vars == <<pending, wire>>

Init == pending = <<>> /\ wire = <<>>

Send(m) == pending' = Append(pending, m) /\ UNCHANGED wire

Deliver == /\ pending # <<>>
           /\ wire' = Append(wire, Head(pending))
           /\ pending' = Tail(pending)

Next == (\E m \in Messages : Send(m)) \/ Deliver

SafeSpec == Init /\ [][Next]_vars

Live == WF_vars(Deliver)

Spec == SafeSpec /\ Live
=============================================================================

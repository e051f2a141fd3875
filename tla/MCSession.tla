----------------------------- MODULE MCSession -----------------------------
(* Two kinds of messages, a few of them ever sent.                         *)
EXTENDS Session

CONSTANTS start, audio
MCMessages == {start, audio}
=============================================================================

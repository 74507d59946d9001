----------------------------- MODULE MCSession -----------------------------
(* Instances of Session small enough for TLC: two message numbers, so that *)
(* they are used again, and few calls of each application.                 *)
EXTENDS Session
=============================================================================

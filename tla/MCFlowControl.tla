--------------------------- MODULE MCFlowControl ---------------------------
(* Instances of FlowControl small enough for TLC: a modulus of 16, an      *)
(* initial window of 4, messages that need several frames and windows.     *)
EXTENDS FlowControl

MCMessages == {[hdr |-> "msg", len |-> 0], [hdr |-> "msg", len |-> 5],
               [hdr |-> "rpy", len |-> 9]}
=============================================================================

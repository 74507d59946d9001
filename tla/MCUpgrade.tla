----------------------------- MODULE MCUpgrade -----------------------------
(* From silence to chatter on both sides.                                  *)
EXTENDS Upgrade

MCChatter == {[initiator |-> i, listener |-> l] : i \in 0 .. 2, l \in 0 .. 2}
=============================================================================

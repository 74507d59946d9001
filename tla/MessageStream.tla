--------------------------- MODULE MessageStream ---------------------------
(***************************************************************************)
(* What one direction of a BEEP channel promises to the layer above: the   *)
(* messages given to Session::send come out as MessageReceived events,     *)
(* whole, once each, and in the order they were given.                     *)
(***************************************************************************)
EXTENDS Naturals, Sequences

CONSTANTS Messages,      \* the messages the application may send
          MaxMessages    \* bound on how many it sends

VARIABLES submitted,     \* messages accepted from the application, in order
          delivered      \* messages handed to the application of the peer

vars == <<submitted, delivered>>

Init == submitted = << >> /\ delivered = << >>

Submit ==
    /\ Len(submitted) < MaxMessages
    /\ \E m \in Messages : submitted' = Append(submitted, m)
    /\ UNCHANGED delivered

Deliver ==
    /\ Len(delivered) < Len(submitted)
    /\ delivered' = Append(delivered, submitted[Len(delivered) + 1])
    /\ UNCHANGED submitted

Next == Submit \/ Deliver

Safety == Init /\ [][Next]_vars
Spec == Safety /\ WF_vars(Deliver)
=============================================================================

------------------------------- MODULE Window -------------------------------
(***************************************************************************)
(* Sequence numbers and the sliding window of vortice-proto/src/window.rs. *)
(* A sequence number is a u32 in the code; here it is a number in 0..M-1,  *)
(* where the modulus M stands for SEQ_MODULUS = 2^32.                      *)
(***************************************************************************)
EXTENDS Integers

CONSTANT M   \* SEQ_MODULUS: the modulus at which sequence numbers wrap

ASSUME ModulusAssumption == M \in Nat \ {0}

SeqNo == 0 .. M-1

(* Variants named Wrong... are slips a change to the code could make; no   *)
(* action uses them, and each one breaks a property some run checks.       *)
WrongAdvance(s, octets) == s + octets

(* SeqNo::advance is wrapping_add, SeqNo::distance_from is wrapping_sub.   *)
Advance(s, octets) == (s + octets) % M
DistanceFrom(s, base) == (s - base) % M

(* A window of size octets that starts at base.                            *)
Windows == [base : SeqNo, size : SeqNo]
NewWindow(base, size) == [base |-> base, size |-> size]

Limit(w) == Advance(w.base, w.size)

(* The code widens to u64 before it adds, so this sum does not wrap.       *)
Accepts(w, seqno, len) == DistanceFrom(seqno, w.base) + len <= w.size

(* saturating_sub: a next number beyond the window leaves nothing.         *)
Remaining(w, next) ==
    LET used == DistanceFrom(next, w.base)
    IN  IF used >= w.size THEN 0 ELSE w.size - used

Updated(w, ackno, size) == NewWindow(ackno, size)
Consumed(w, octets) == NewWindow(Advance(w.base, octets), w.size)
Resized(w, size) == NewWindow(w.base, size)
=============================================================================

------------------------------ MODULE MCRoutes ------------------------------
(* Instances of Routes small enough for TLC. The callers are               *)
(* interchangeable, but liveness is checked too: no symmetry is used.      *)
EXTENDS Routes
=============================================================================

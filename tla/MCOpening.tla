----------------------------- MODULE MCOpening -----------------------------
(* Every client at every port, and every fault where it can happen.        *)
EXTENDS Opening

Case(kind, port, fault, early) ==
    [kind |-> kind, port |-> port, fault |-> fault, early |-> early]
MCCases ==
    {Case(k, p, "none", e) : k \in {"ws", "http", "beep"}, p \in {"ws", "shared", "http"},
                             e \in BOOLEAN}
    \cup {Case(k, p, f, FALSE) : k \in {"ws", "http"}, p \in {"ws", "shared"},
                                 f \in {"post", "endless", "quits", "half"}}
    \cup {Case("ws", "ws", f, FALSE) : f \in {"nokey", "version", "wrongkey", "status"}}
    \cup {Case("http", "http", f, FALSE) : f \in {"status", "proxy", "quits", "half", "endless"}}
MCKeys == {"k1", "k2"}
=============================================================================

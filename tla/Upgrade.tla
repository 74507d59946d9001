------------------------------ MODULE Upgrade ------------------------------
(***************************************************************************)
(* Tuning a session for TLS: the profile (vortice-tls/src/lib.rs), the     *)
(* drivers at both ends that replace the transport under a session         *)
(* (Driver::pump, dispatch, upgrade, start_requested in connection.rs) and *)
(* the traffic of other channels, and acknowledgements, that cross it.     *)
(*                                                                         *)
(* The transport carries tokens: BEEP frames in the clear ("start",        *)
(* "proceed", "error", "app"), the octets of a handshake ("hello",         *)
(* "shake", "finish") and what is encrypted ("greeting").                  *)
(***************************************************************************)
EXTENDS Naturals, Sequences

CONSTANTS
    Chatter,     \* budgets: functions from the ends to how many frames of
                 \* other channels each may send
    MaxRead      \* the most frames one read returns

Ends == {"initiator", "listener"}
Other(e) == CHOOSE o \in Ends : o # e

ASSUME UpgradeAssumption ==
    /\ Chatter \subseteq [Ends -> Nat]
    /\ MaxRead \in Nat \ {0}

VARIABLES
    mode,     \* of each driver: "clear", "awaiting" (awaiting_upgrade),
              \* "shaking" (inside swap), "new" (after it) or "ended"
    out,      \* Driver.out
    wire,     \* wire[e]: on its way to e
    call,     \* the caller of vortice_tls::upgrade: what it is waiting for,
              \* and in the end what it was told
    name,     \* the server name each session knows
    budget,   \* what is left of the chatter
    late,     \* ghost: e queued a frame of another channel when its peer
              \* might already replace the transport
    met,      \* ghost: what a parser or a handshake read that is not for it
    choices   \* ghost: "refused", "abandoned" or "certificate", if so

vars == <<mode, out, wire, call, name, budget, late, met, choices>>

Clear == {"start", "proceed", "error", "app"}

-----------------------------------------------------------------------------

Init ==
    /\ mode = [e \in Ends |-> "clear"]
    /\ out = [e \in Ends |-> << >>]
    /\ wire = [e \in Ends |-> << >>]
    /\ call = "idle"
    /\ name = [e \in Ends |-> FALSE]
    /\ budget \in Chatter
    /\ late = [e \in Ends |-> FALSE]
    /\ met = {}
    /\ choices = {}

Occurs(t, s) == \E k \in 1 .. Len(s) : s[k] = t

(* Ending a driver: its transport goes, and whoever waits is told.         *)
End(e) == mode' = [mode EXCEPT ![e] = "ended"]
Told(e, what) == call' = IF e = "initiator" /\ call \in {"opening", "proceeding", "shaking"}
                           THEN what ELSE call

Send(e, tokens) ==
    wire' = [wire EXCEPT ![Other(e)] =
               IF mode[Other(e)] = "ended" THEN @ ELSE @ \o tokens]

(* Another channel sends, or a SEQ is due: a frame is queued whatever the  *)
(* channel of the profile is doing. Commands are taken while awaiting too. *)
Talk(e) ==
    /\ mode[e] \in {"clear", "awaiting"}
    /\ budget[e] > 0
    /\ budget' = [budget EXCEPT ![e] = @ - 1]
    /\ out' = [out EXCEPT ![e] = Append(@, "app")]
    /\ late' = [late EXCEPT ![e] = @ \/ IF e = "initiator" THEN call # "idle"
                                        ELSE mode[e] = "awaiting"]
    /\ UNCHANGED <<mode, wire, call, name, met, choices>>

(* vortice_tls::upgrade: the start with <ready />.                         *)
Ask ==
    /\ call = "idle"
    /\ mode["initiator"] = "clear"
    /\ call' = "opening"
    /\ out' = [out EXCEPT !["initiator"] = Append(@, "start")]
    /\ UNCHANGED <<mode, wire, name, budget, late, met, choices>>

(* pump: a write takes some of out, at any time but while awaiting.        *)
Write(e, n) ==
    /\ mode[e] = "clear"
    /\ Send(e, SubSeq(out[e], 1, n))
    /\ out' = [out EXCEPT ![e] = SubSeq(@, n + 1, Len(@))]
    /\ UNCHANGED <<mode, call, name, budget, late, met, choices>>

(* pump: a read hands a chunk to the session, and then its events to       *)
(* start_requested and to whoever waits for the channel.                   *)
WrongAnswer(e, t) == out' = [out EXCEPT ![e] = <<t>> \o @]
Answer(e, t) == out' = [out EXCEPT ![e] = Append(@, t)]
Accepted == "awaiting"
Read(e, n) ==
    LET chunk == SubSeq(wire[e], 1, n)
        frames == \A k \in 1 .. n : chunk[k] \in Clear
    IN  /\ mode[e] = "clear"
        /\ wire' = [wire EXCEPT ![e] = SubSeq(@, n + 1, Len(@))]
        /\ \/ /\ ~frames
              /\ met' = met \cup {"parser"}
              /\ End(e)
              /\ Told(e, "closed")
              /\ UNCHANGED <<out, name, choices>>
           \/ /\ frames /\ ~Occurs("start", chunk)
              /\ call' = IF Occurs("proceed", chunk) THEN "proceeding"
                         ELSE IF Occurs("error", chunk) THEN "refused" ELSE call
              /\ UNCHANGED <<mode, out, name, met, choices>>
           \/ /\ frames /\ Occurs("start", chunk)          \* accepted
              /\ Answer(e, "proceed")
              /\ mode' = [mode EXCEPT ![e] = Accepted]
              /\ name' = [name EXCEPT ![e] = TRUE]
              /\ UNCHANGED <<call, met, choices>>
           \/ /\ frames /\ Occurs("start", chunk)          \* refused by the policy
              /\ Answer(e, "error")
              /\ name' = [name EXCEPT ![e] = TRUE]
              /\ choices' = choices \cup {"refused"}
              /\ UNCHANGED <<mode, call, met>>
        /\ UNCHANGED <<budget, late>>

(* Driver::upgrade up to the swap: all that is queued goes out first. The  *)
(* initiator's handshake speaks first.                                     *)
WrongFlushed(e) == << >>
Flushed(e) == out[e]
Swap(e, first) ==
    /\ Send(e, Flushed(e) \o first)
    /\ out' = [out EXCEPT ![e] = << >>]
    /\ mode' = [mode EXCEPT ![e] = "shaking"]

(* The caller has seen <proceed /> and its command reaches the driver.     *)
UpgradeInitiator ==
    /\ mode["initiator"] = "clear"
    /\ call = "proceeding"
    /\ call' = "shaking"
    /\ Swap("initiator", <<"hello">>)
    /\ UNCHANGED <<name, budget, late, met, choices>>

(* TlsProfile::on_open, when the policy has decided to go on.              *)
UpgradeListener ==
    /\ mode["listener"] = "awaiting"
    /\ Swap("listener", << >>)
    /\ UNCHANGED <<call, name, budget, late, met, choices>>

(* The policy has decided not to: the swap fails without a handshake.      *)
Abandon ==
    /\ mode["listener"] = "awaiting"
    /\ Send("listener", out["listener"])
    /\ out' = [out EXCEPT !["listener"] = << >>]
    /\ End("listener")
    /\ choices' = choices \cup {"abandoned"}
    /\ UNCHANGED <<call, name, budget, late, met>>

-----------------------------------------------------------------------------
(* The handshake (a TLS library), and Driver::upgrade after it: a fresh    *)
(* session that keeps the server name and begins with its greeting.        *)

WrongFreshSilent(e) ==
    /\ mode' = [mode EXCEPT ![e] = "new"]
    /\ UNCHANGED <<out, name>>
Fresh(e) ==
    /\ mode' = [mode EXCEPT ![e] = "new"]
    /\ out' = [out EXCEPT ![e] = <<"greeting">>]
    /\ UNCHANGED name

Take(e) == wire' = [wire EXCEPT ![e] = Tail(@)]
Shake(e, t) == mode[e] = "shaking" /\ wire[e] # << >> /\ Head(wire[e]) = t

ListenerShakes ==
    /\ Shake("listener", "hello")
    /\ wire' = [wire EXCEPT !["listener"] = Tail(@),
                            !["initiator"] = IF mode["initiator"] = "ended" THEN @
                                             ELSE Append(@, "shake")]
    /\ UNCHANGED <<mode, out, call, name, budget, late, met, choices>>
InitiatorShakes ==
    /\ Shake("initiator", "shake")
    /\ wire' = [wire EXCEPT !["initiator"] = Tail(@),
                            !["listener"] = IF mode["listener"] = "ended" THEN @
                                            ELSE Append(@, "finish")]
    /\ Fresh("initiator")
    /\ UNCHANGED <<call, budget, late, met, choices>>
ListenerFinishes ==
    /\ Shake("listener", "finish")
    /\ Take("listener")
    /\ Fresh("listener")
    /\ UNCHANGED <<call, budget, late, met, choices>>

(* A failed swap: the caller is told the handshake's own error.            *)
FailureTold == "handshake"
ShakeFails(e) ==
    /\ mode[e] = "shaking"
    /\ \/ /\ wire[e] # << >> /\ Head(wire[e]) \in Clear
          /\ met' = met \cup {e}
       \/ /\ wire[e] = << >> /\ mode[Other(e)] = "ended"
          /\ UNCHANGED met
    /\ End(e)
    /\ Told(e, FailureTold)
    /\ UNCHANGED <<out, wire, name, budget, late, choices>>
CertificateFails(e) ==
    /\ mode[e] = "shaking"
    /\ wire[e] # << >> /\ Head(wire[e]) \notin Clear
    /\ choices' = choices \cup {"certificate"}
    /\ End(e)
    /\ Told(e, FailureTold)
    /\ UNCHANGED <<out, wire, name, budget, late, met>>

(* The new session: its greeting goes out, and its peer's comes in.        *)
Greet(e) ==
    /\ mode[e] = "new"
    /\ out[e] # << >>
    /\ Send(e, out[e])
    /\ out' = [out EXCEPT ![e] = << >>]
    /\ UNCHANGED <<mode, call, name, budget, late, met, choices>>
Greeted(e) ==
    /\ mode[e] = "new"
    /\ wire[e] # << >>
    /\ Head(wire[e]) = "greeting"
    /\ Take(e)
    /\ Told(e, "greeted")
    /\ UNCHANGED <<mode, out, name, budget, late, met, choices>>

(* The end of the transport, as a driver that reads sees it.               *)
EndOfFile(e) ==
    /\ mode[e] \in {"clear", "new"}
    /\ wire[e] = << >> /\ mode[Other(e)] = "ended"
    /\ End(e)
    /\ Told(e, "closed")
    /\ UNCHANGED <<out, wire, name, budget, late, met, choices>>

(* A write to a transport the peer has left may also fail, in pump and     *)
(* before a swap.                                                          *)
WriteFails(e) ==
    /\ mode[e] \in {"clear", "awaiting", "new"}
    /\ out[e] # << >> /\ mode[Other(e)] = "ended"
    /\ End(e)
    /\ Told(e, "closed")
    /\ UNCHANGED <<out, wire, name, budget, late, met, choices>>

Drive(e) ==
    \/ \E n \in 1 .. Len(out[e]) : Write(e, n)
    \/ \E n \in 1 .. MaxRead : n <= Len(wire[e]) /\ Read(e, n)
    \/ ShakeFails(e) \/ Greet(e) \/ Greeted(e) \/ EndOfFile(e) \/ WriteFails(e)
Initiator == UpgradeInitiator \/ InitiatorShakes \/ Drive("initiator")
Listener == UpgradeListener \/ Abandon \/ ListenerShakes \/ ListenerFinishes
            \/ Drive("listener")
Next == Ask \/ Initiator \/ Listener \/ \E e \in Ends : Talk(e) \/ CertificateFails(e)

(* Both drivers and the handshakes go on; a policy decides in the end. No  *)
(* one has to ask for the upgrade or to talk, and no certificate to fail.  *)
Spec == Init /\ [][Next]_vars /\ WF_vars(Initiator) /\ WF_vars(Listener)

-----------------------------------------------------------------------------
(* Properties.                                                             *)

Modes == {"clear", "awaiting", "shaking", "new", "ended"}
Tokens == Clear \cup {"hello", "shake", "finish", "greeting"}

(* The parts are of their types.                                           *)
TypeOK ==
    /\ mode \in [Ends -> Modes]
    /\ out \in [Ends -> Seq(Tokens)] /\ wire \in [Ends -> Seq(Tokens)]
    /\ call \in {"idle", "opening", "proceeding", "shaking",
                 "greeted", "refused", "handshake", "closed"}
    /\ name \in [Ends -> BOOLEAN] /\ late \in [Ends -> BOOLEAN]
    /\ budget \in [Ends -> Nat]
    /\ met \subseteq Ends \cup {"parser"}
    /\ choices \subseteq {"refused", "abandoned", "certificate"}

(* No BEEP parser is ever given the octets of a handshake or anything      *)
(* encrypted, whatever else the two ends are sending; and a handshake is   *)
(* given a frame only if the other end sent one on another channel, or a   *)
(* SEQ, after the exchange had begun: all that was sent before is read     *)
(* before the transports are replaced.                                     *)
OnlyLateTraffic ==
    /\ "parser" \notin met
    /\ \A e \in Ends : e \in met => late[Other(e)]

(* A tuning that is asked for settles: both ends greet each other in the   *)
(* new session, or it was refused and both go on in the clear, or both     *)
(* end. Nobody is left waiting, whatever crosses the exchange.             *)
Settles ==
    (call = "opening") ~>
        \/ call = "greeted"
        \/ call = "refused" /\ \A e \in Ends : mode[e] = "clear"
        \/ \A e \in Ends : mode[e] = "ended"

(* Without late traffic, a certificate refused or a listener that changes  *)
(* its mind, a tuning that is accepted succeeds.                           *)
QuietSucceeds ==
    (call = "opening") ~>
        \/ \E e \in Ends : late[e]
        \/ choices # {}
        \/ call = "greeted" /\ mode["listener"] = "new"

(* The comment in pump: "Nothing is lost by waiting: `upgrade` flushes     *)
(* everything queued here before it touches the transport".                *)
NothingLostByWaiting == "initiator" \notin met

-----------------------------------------------------------------------------
(* The inductive invariant behind OnlyLateTraffic.                         *)

Only(s, T) == \A k \in 1 .. Len(s) : s[k] \in T
Without(s, T) == \A k \in 1 .. Len(s) : s[k] \notin T
Final(t, s) == \A k \in 1 .. Len(s) : s[k] = t => k = Len(s)

(* What each end ever sends, in the clear and after.                       *)
ByInitiator == {"start", "app", "hello", "finish", "greeting"}
ByListener == {"proceed", "error", "app", "shake", "greeting"}
Directed ==
    /\ Only(out["initiator"], ByInitiator) /\ Only(wire["listener"], ByInitiator)
    /\ Only(out["listener"], ByListener) /\ Only(wire["initiator"], ByListener)

(* What a driver has queued is of the session it is in.                    *)
Queued ==
    /\ \A e \in Ends : /\ mode[e] \in {"clear", "awaiting"} => Only(out[e], Clear)
                       /\ mode[e] = "shaking" => out[e] = << >>
                       /\ mode[e] = "new" => Without(out[e], Clear)
    /\ mode["listener"] = "clear" => Without(out["listener"], {"proceed"})
    /\ mode["initiator"] # "awaiting"

(* The ends leave the clear one after the other: the listener before its   *)
(* <proceed /> is read, the initiator before any octet that is not a frame *)
(* reaches either.                                                         *)
Gone == {"shaking", "new", "ended"}
InTurn ==
    /\ ~Without(wire["initiator"], {"proceed"}) => mode["listener"] \in Gone
    /\ call = "proceeding" \/ mode["initiator"] \in {"shaking", "new"}
         => mode["listener"] \in Gone
    /\ mode["listener"] = "new" => mode["initiator"] \in Gone
    /\ ~Only(wire["initiator"], Clear) => mode["initiator"] \in Gone
    /\ ~Only(wire["listener"], Clear) =>
         mode["initiator"] \in Gone /\ mode["listener"] \in Gone
    /\ call = "idle" => /\ Without(wire["listener"], {"start"})
                        /\ Without(out["initiator"], {"start"})
                        /\ mode["listener"] \in {"clear", "ended"}

(* An end that has not talked since the exchange began has sent nothing in *)
(* the clear after its part of it, t; and once its peer has read that      *)
(* part, nothing in the clear is on its way.                               *)
Nothing(e) == Without(out[e], Clear) /\ Without(wire[Other(e)], Clear)
Closing(e, t) ==
    /\ Final(t, out[e]) /\ Final(t, wire[Other(e)])
    /\ ~Without(wire[Other(e)], {t}) => out[e] = << >>
LastWord ==
    /\ ~late["initiator"] =>
         /\ mode["listener"] = "clear" => Closing("initiator", "start")
         /\ mode["listener"] \in {"awaiting", "shaking", "new"} => Nothing("initiator")
    /\ ~late["listener"] =>
         /\ mode["initiator"] = "clear" => Closing("listener", "proceed")
         /\ call = "proceeding" \/ mode["initiator"] \in {"shaking", "new"}
              => Nothing("listener")

UpgradeInv == TypeOK /\ Directed /\ Queued /\ InTurn /\ LastWord /\ OnlyLateTraffic
=============================================================================

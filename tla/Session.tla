------------------------------ MODULE Session ------------------------------
(***************************************************************************)
(* Two Vortice peers and the channels between them: the management of      *)
(* channels on channel 0 (vortice-proto/src/session.rs) and the loop of    *)
(* the driver that runs each session over its transport                    *)
(* (vortice/src/connection.rs).                                            *)
(*                                                                         *)
(* Every frame on channel 0 is here a whole management message; that       *)
(* frames arrive whole and in order is what FlowControl shows. A "data"    *)
(* frame is any frame of an ordinary channel and a "seq" frame any SEQ for *)
(* one: only the channel they name matters here.                           *)
(***************************************************************************)
EXTENDS Naturals, Sequences

CONSTANTS
    MaxMsgNo,     \* MAX_MSG_NO
    Openers,      \* peers whose application opens channels
    MaxStarts,    \* bound: start_channel calls of one peer
    MaxCloses,    \* bound: close_channel calls of one peer
    MaxSends,     \* bound: frames one peer sends on ordinary channels
    MaySendClosing, \* whether applications send on a channel they are closing
    MayRefuse,    \* whether applications refuse starts
    MayDrop,      \* whether an application drops all its handles
    BigGreeting   \* peers whose greeting takes more than one frame

ASSUME SessionAssumption ==
    /\ {MaxMsgNo, MaxStarts, MaxCloses, MaxSends} \subseteq Nat
    /\ MaxStarts < 2147483647    \* so that next_channel, a u32, does not wrap
    /\ {MaySendClosing, MayRefuse, MayDrop} \subseteq BOOLEAN
    /\ Openers \cup BigGreeting \subseteq {"initiator", "listener"}

Peers == {"initiator", "listener"}
Other(p) == IF p = "initiator" THEN "listener" ELSE "initiator"

(* Role::first_channel and Role::owns.                                     *)
WrongFirstChannel(p) == 1
FirstChannel(p) == IF p = "initiator" THEN 1 ELSE 2
Owns(p, n) == n # 0 /\ n % 2 = FirstChannel(p) % 2

MsgNos == 0 .. MaxMsgNo
Numbers == 0 .. 2 * MaxStarts + 2

VARIABLES
    state,        \* Session.state of each peer
    channels,     \* the numbers in Session.channels
    pending,      \* Session.pending: what each message number asked for
    next_channel, \* Session.next_channel
    next_msgno,   \* next_msgno of channel 0
    events,       \* Session.events
    draining,     \* inside the loop that polls the events of one read
    out,          \* Session.outbound and Driver.out: not yet written
    wire,         \* written to the transport, not yet read by the other
    ended,        \* how Driver::pump has ended, if it has
    calls         \* bound: calls each application has made so far

session == <<state, channels, pending, next_channel, next_msgno>>
vars == <<session, events, draining, out, wire, ended, calls>>

Running(p) == ended[p] = "running"

-----------------------------------------------------------------------------
(* Session::new: the greeting is queued. One that does not fit the initial *)
(* window or the largest frame is cut.                                     *)
Greeting(p) ==
    IF p \in BigGreeting
      THEN <<[t |-> "greeting", more |-> TRUE], [t |-> "greeting", more |-> FALSE]>>
      ELSE <<[t |-> "greeting", more |-> FALSE]>>

Init ==
    /\ state = [p \in Peers |-> "AwaitingGreeting"]
    /\ channels = [p \in Peers |-> {}]
    /\ pending = [p \in Peers |-> {}]
    /\ next_channel = [p \in Peers |-> FirstChannel(p)]
    /\ next_msgno = [p \in Peers |-> 0]
    /\ events = [p \in Peers |-> << >>]
    /\ draining = [p \in Peers |-> FALSE]
    /\ out = [p \in Peers |-> Greeting(p)]
    /\ wire = [p \in Peers |-> << >>]
    /\ ended = [p \in Peers |-> "running"]
    /\ calls = [p \in Peers |-> [start |-> 0, close |-> 0, send |-> 0]]

-----------------------------------------------------------------------------
(* What Session's methods do to its fields.                                *)

WrongQueue(p, frame) ==
    out' = [out EXCEPT ![p] = IF frame.t = "data" THEN <<frame>> \o @ ELSE Append(@, frame)]
Queue(p, frame) == out' = [out EXCEPT ![p] = Append(@, frame)]
Raise(p, event) == events' = [events EXCEPT ![p] = Append(@, event)]
Count(p, call) == calls' = [calls EXCEPT ![p][call] = @ + 1]

(* Channel::allocate_msgno on channel 0, whose outstanding numbers are the *)
(* ones in pending: the next number that is not in use.                    *)
Outstanding(p) == {r.msgno : r \in pending[p]}
After(m) == IF m = MaxMsgNo THEN 0 ELSE m + 1
Ahead(p, m) == (m + MaxMsgNo + 1 - next_msgno[p]) % (MaxMsgNo + 1)
AllocateMsgNo(p) ==
    CHOOSE m \in MsgNos \ Outstanding(p) :
        \A l \in MsgNos \ Outstanding(p) : Ahead(p, m) <= Ahead(p, l)

(* Session::request.                                                       *)
Request(p, what, n) ==
    LET m == AllocateMsgNo(p)
    IN  /\ MsgNos \ Outstanding(p) # {}
        /\ next_msgno' = [next_msgno EXCEPT ![p] = After(m)]
        /\ pending' = [pending EXCEPT
                         ![p] = {r \in @ : r.msgno # m}
                                \cup {[msgno |-> m, what |-> what, n |-> n]}]
        /\ Queue(p, [t |-> what, msgno |-> m, n |-> n])

(* Session::finish_close. Closing channel 0 closes them all.               *)
WrongFinishClose(p, n) ==
    /\ channels' = [channels EXCEPT ![p] = IF n = 0 THEN {} ELSE
                     IF Owns(p, n) THEN @ \ {n} ELSE @]
    /\ state' = [state EXCEPT ![p] = IF n = 0 THEN "Closed" ELSE @]
FinishClose(p, n) ==
    /\ channels' = [channels EXCEPT ![p] = IF n = 0 THEN {} ELSE @ \ {n}]
    /\ state' = [state EXCEPT ![p] = IF n = 0 THEN "Closed" ELSE @]
ClosedEvent(n) == [e |-> IF n = 0 THEN "SessionClosed" ELSE "ChannelClosed",
                   n |-> n]

-----------------------------------------------------------------------------
(* Commands of the application. Driver::pump takes one only when every     *)
(* event has been handled.                                                 *)

Idle(p) == Running(p) /\ events[p] = << >> /\ state[p] # "Closed"

(* Session::start_channel.                                                 *)
StartChannel(p) ==
    /\ Idle(p)
    /\ p \in Openers
    /\ calls[p].start < MaxStarts
    /\ state[p] = "Ready"
    /\ next_channel' = [next_channel EXCEPT ![p] = @ + 2]
    /\ Request(p, "start", next_channel[p])
    /\ Count(p, "start")
    /\ UNCHANGED <<state, channels, events, draining, wire, ended>>

(* The same with every message number in use: start_channel fails, but it  *)
(* has taken the channel number by then.                                   *)
StartExhausted(p) ==
    /\ Idle(p)
    /\ p \in Openers
    /\ calls[p].start < MaxStarts
    /\ state[p] = "Ready"
    /\ MsgNos \subseteq Outstanding(p)
    /\ next_channel' = [next_channel EXCEPT ![p] = @ + 2]
    /\ Count(p, "start")
    /\ UNCHANGED <<state, channels, pending, next_msgno, events, draining, out, wire, ended>>

(* Session::close_channel; channel 0 stands for the whole session.         *)
CloseChannel(p, n) ==
    /\ Idle(p)
    /\ calls[p].close < MaxCloses
    /\ state[p] = "Ready"
    /\ n = 0 \/ n \in channels[p]
    /\ Request(p, "close", n)
    /\ Count(p, "close")
    /\ UNCHANGED <<state, channels, next_channel, events, draining, wire, ended>>

(* Session::send on an open channel, with window to spare.                 *)
Send(p, n) ==
    /\ Idle(p)
    /\ calls[p].send < MaxSends
    /\ n \in channels[p]
    /\ MaySendClosing \/ \A r \in pending[p] : r.n \notin {0, n}
    /\ Queue(p, [t |-> "data", n |-> n])
    /\ Count(p, "send")
    /\ UNCHANGED <<session, events, draining, wire, ended>>

-----------------------------------------------------------------------------
(* Driver::handle_event on the first event. Once the driver starts on the  *)
(* events of a read it reads nothing more until none is left.              *)

Take(p, es, raised) ==
    /\ Running(p)
    /\ events[p] # << >>
    /\ Head(events[p]).e \in es
    /\ events' = [events EXCEPT ![p] = Tail(@) \o raised]
    /\ draining' = [draining EXCEPT ![p] = events'[p] # << >>]

(* start_requested, by way of Session::accept_start. A number the peer may *)
(* not use, or one that is open, is left without an answer.                *)
AcceptStart(p) ==
    /\ Take(p, {"StartRequested"}, << >>)
    /\ LET ev == Head(events[p])
       IN  IF ev.n = 0 \/ Owns(p, ev.n) \/ ev.n \in channels[p]
             THEN UNCHANGED <<channels, out>>
             ELSE /\ channels' = [channels EXCEPT ![p] = @ \cup {ev.n}]
                  /\ Queue(p, [t |-> "profile", msgno |-> ev.msgno])
    /\ UNCHANGED <<state, pending, next_channel, next_msgno, wire, ended, calls>>

(* Session::refuse_start: no profile is served, or the handler says no.    *)
RefuseStart(p) ==
    /\ MayRefuse
    /\ Take(p, {"StartRequested"}, << >>)
    /\ Queue(p, [t |-> "error", msgno |-> Head(events[p]).msgno])
    /\ UNCHANGED <<session, wire, ended, calls>>

(* The driver accepts every close: Session::accept_close replies and then  *)
(* forgets the channel, which it may not even have.                        *)
WrongAcceptCloseCollision(p) ==
    /\ events[p] # << >>
    /\ LET ev == Head(events[p])
       IN  /\ Take(p, {"CloseRequested"}, <<ClosedEvent(ev.n)>>)
           /\ Queue(p, [t |-> "ok", msgno |-> ev.msgno])
           /\ FinishClose(p, ev.n)
           /\ pending' = [pending EXCEPT
                            ![p] = {r \in @ : r.what = "start" \/ r.n # ev.n}]
    /\ UNCHANGED <<next_channel, next_msgno, wire, ended, calls>>
WrongAcceptClose(p) ==
    /\ events[p] # << >>
    /\ LET ev == Head(events[p])
       IN  /\ Take(p, {"CloseRequested"}, <<ClosedEvent(ev.n)>>)
           /\ IF ev.n = 0 \/ ev.n \in channels[p]
                THEN Queue(p, [t |-> "ok", msgno |-> ev.msgno])
                ELSE UNCHANGED out
           /\ FinishClose(p, ev.n)
    /\ UNCHANGED <<pending, next_channel, next_msgno, wire, ended, calls>>
AcceptClose(p) ==
    /\ events[p] # << >>
    /\ LET ev == Head(events[p])
       IN  /\ Take(p, {"CloseRequested"}, <<ClosedEvent(ev.n)>>)
           /\ Queue(p, [t |-> "ok", msgno |-> ev.msgno])
           /\ FinishClose(p, ev.n)
    /\ UNCHANGED <<pending, next_channel, next_msgno, wire, ended, calls>>

(* The other events only report to the application.                        *)
Report(p) ==
    /\ Take(p, {"GreetingReceived", "ChannelOpened", "StartRefused", "ChannelClosed",
                "CloseRefused", "SessionClosed", "MessageReceived"}, << >>)
    /\ UNCHANGED <<session, out, wire, ended, calls>>

-----------------------------------------------------------------------------
(* Session::handle_input, one frame at a time: several frames may come     *)
(* with one read, before any event they raise is handled.                  *)

Receive(p, t) ==
    /\ Running(p)
    /\ ~draining[p]
    /\ state[p] = "Closed" => events[p] # << >>
    /\ wire[Other(p)] # << >>
    /\ Head(wire[Other(p)]).t \in t
    /\ wire' = [wire EXCEPT ![Other(p)] = Tail(@)]
    /\ UNCHANGED draining
Frame(p) == Head(wire[Other(p)])

Fail(p, error) ==
    /\ ended' = [ended EXCEPT ![p] = error]
    /\ UNCHANGED <<session, events, out, calls>>

(* Greeting::from_frame takes a greeting of one frame.                     *)
HandleGreeting(p) ==
    /\ Receive(p, {"greeting"})
    /\ IF state[p] = "AwaitingGreeting" /\ ~Frame(p).more
         THEN /\ state' = [state EXCEPT ![p] = "Ready"]
              /\ Raise(p, [e |-> "GreetingReceived", n |-> 0])
              /\ UNCHANGED <<channels, pending, next_channel, next_msgno, out,
                             ended, calls>>
         ELSE Fail(p, "NotAGreeting")

(* dispatch_management of a MSG.                                           *)
HandleRequest(p) ==
    /\ Receive(p, {"start", "close"})
    /\ IF state[p] = "AwaitingGreeting"
         THEN Fail(p, "NotAGreeting")
         ELSE /\ Raise(p, [e |-> IF Frame(p).t = "start" THEN "StartRequested"
                                 ELSE "CloseRequested",
                           msgno |-> Frame(p).msgno, n |-> Frame(p).n])
              /\ UNCHANGED <<session, out, ended, calls>>

(* dispatch_management of a reply: it has to answer a request of the right *)
(* kind. Only an ERR answers either kind.                                  *)
Answers(r, frame) ==
    /\ r.msgno = frame.msgno
    /\ frame.t = "profile" => r.what = "start"
    /\ frame.t = "ok" => r.what = "close"

HandleReply(p) ==
    /\ Receive(p, {"profile", "ok", "error"})
    /\ IF ~\E r \in pending[p] : Answers(r, Frame(p))
         THEN Fail(p, "UnknownMsgNo")
         ELSE \E r \in pending[p] :
                /\ Answers(r, Frame(p))
                /\ pending' = [pending EXCEPT ![p] = @ \ {r}]
                /\ CASE Frame(p).t = "profile" ->
                          /\ channels' = [channels EXCEPT ![p] = @ \cup {r.n}]
                          /\ Raise(p, [e |-> "ChannelOpened", n |-> r.n])
                          /\ UNCHANGED state
                     [] Frame(p).t = "ok" ->
                          /\ FinishClose(p, r.n)
                          /\ Raise(p, ClosedEvent(r.n))
                     [] Frame(p).t = "error" ->
                          /\ Raise(p, [e |-> IF r.what = "start" THEN "StartRefused"
                                             ELSE "CloseRefused", n |-> r.n])
                          /\ UNCHANGED <<state, channels>>
                /\ UNCHANGED <<next_channel, next_msgno, out, ended, calls>>

(* handle_data on an ordinary channel; acknowledge may or may not send a   *)
(* SEQ yet.                                                                *)
HandleData(p) ==
    /\ Receive(p, {"data"})
    /\ IF Frame(p).n \notin channels[p]
         THEN Fail(p, "NoSuchChannel")
         ELSE /\ Raise(p, [e |-> "MessageReceived", n |-> Frame(p).n])
              /\ UNCHANGED out \/ Queue(p, [t |-> "seq", n |-> Frame(p).n])
              /\ UNCHANGED <<session, ended, calls>>

(* handle_seq; FlowControl says what an accepted SEQ does.                 *)
HandleSeq(p) ==
    /\ Receive(p, {"seq"})
    /\ IF Frame(p).n \notin channels[p]
         THEN Fail(p, "NoSuchChannel")
         ELSE UNCHANGED <<session, events, out, ended, calls>>

-----------------------------------------------------------------------------
(* The rest of Driver::pump.                                               *)

Write(p) ==
    /\ Idle(p)
    /\ out[p] # << >>
    /\ Running(Other(p))
    /\ wire' = [wire EXCEPT ![p] = Append(@, Head(out[p]))]
    /\ out' = [out EXCEPT ![p] = Tail(@)]
    /\ UNCHANGED <<session, events, draining, ended, calls>>

End(p, how) ==
    /\ ended' = [ended EXCEPT ![p] = how]
    /\ UNCHANGED <<session, events, draining, out, wire, calls>>

(* State::Closed ends the loop before anything more is written.            *)
PumpClosed(p) ==
    /\ Running(p)
    /\ state[p] = "Closed"
    /\ events[p] = << >>
    /\ End(p, "closed")

(* The peer is gone: all it wrote has been read, or a write fails.         *)
WrongPumpEof(p) ==
    /\ Idle(p)
    /\ ~Running(Other(p))
    /\ wire[Other(p)] = << >>
    /\ pending[p] # {}
    /\ End(p, "eof")
PumpEof(p) ==
    /\ Idle(p)
    /\ ~Running(Other(p))
    /\ wire[Other(p)] = << >>
    /\ End(p, "eof")
PumpBroken(p) ==
    /\ Idle(p)
    /\ ~Running(Other(p))
    /\ out[p] # << >>
    /\ End(p, "Io")

(* Every handle is gone, so no command can come.                           *)
PumpDropped(p) ==
    /\ MayDrop
    /\ Idle(p)
    /\ End(p, "dropped")

Handle(p) ==
    \/ AcceptStart(p) \/ RefuseStart(p) \/ AcceptClose(p) \/ Report(p)
    \/ HandleGreeting(p) \/ HandleRequest(p) \/ HandleReply(p)
    \/ HandleData(p) \/ HandleSeq(p)
Pump(p) == Write(p) \/ PumpClosed(p) \/ PumpEof(p) \/ PumpBroken(p)
Command(p) ==
    \/ StartChannel(p) \/ StartExhausted(p) \/ PumpDropped(p)
    \/ \E n \in Numbers : CloseChannel(p, n) \/ Send(p, n)

Next == \E p \in Peers : Handle(p) \/ Pump(p) \/ Command(p)

(* Each driver is a task that keeps reading, handling and writing; nothing *)
(* obliges an application to call.                                         *)
Fairness == \A p \in Peers : WF_vars(Handle(p)) /\ WF_vars(Pump(p))

Spec == Init /\ [][Next]_vars /\ Fairness

-----------------------------------------------------------------------------
(* Properties.                                                             *)

Requests == [msgno : MsgNos, what : {"start", "close"}, n : Numbers]
Frames ==
    [t : {"greeting"}, more : BOOLEAN] \cup [t : {"data", "seq"}, n : Numbers]
    \cup [t : {"start", "close"}, msgno : MsgNos, n : Numbers]
    \cup [t : {"profile", "ok", "error"}, msgno : MsgNos]
Events ==
    [e : {"StartRequested", "CloseRequested"}, msgno : MsgNos, n : Numbers]
    \cup [e : {"GreetingReceived", "ChannelOpened", "StartRefused", "ChannelClosed",
               "CloseRefused", "SessionClosed", "MessageReceived"}, n : Numbers]
ProtocolErrors == {"NotAGreeting", "UnknownMsgNo", "NoSuchChannel"}

(* Every field of the two sessions and drivers has the type it has in the  *)
(* code; message numbers stay below MAX_MSG_NO when they wrap.             *)
TypeOK ==
    /\ state \in [Peers -> {"AwaitingGreeting", "Ready", "Closed"}]
    /\ channels \in [Peers -> SUBSET Numbers]
    /\ pending \in [Peers -> SUBSET Requests]
    /\ next_channel \in [Peers -> Numbers]
    /\ next_msgno \in [Peers -> MsgNos]
    /\ events \in [Peers -> Seq(Events)]
    /\ draining \in [Peers -> BOOLEAN]
    /\ out \in [Peers -> Seq(Frames)]
    /\ wire \in [Peers -> Seq(Frames)]
    /\ ended \in [Peers -> {"running", "closed", "eof", "Io", "dropped"}
                            \cup ProtocolErrors]
    /\ calls \in [Peers -> [start : 0 .. MaxStarts, close : 0 .. MaxCloses,
                             send : 0 .. MaxSends]]

(* Two Vortice peers never take each other's frames for a protocol error,  *)
(* whatever requests cross: no error of handle_input ends a session.       *)
NoProtocolError == \A p \in Peers : ended[p] \notin ProtocolErrors

(* What p has queued or written and the other peer has not read.           *)
Sent(p) == wire[p] \o out[p]

(* Where the requests of p are: those whose reply is on its way back,      *)
(* those the other peer has still to handle, those on their way to it.     *)
IsReply(frame) == frame.t \in {"profile", "ok", "error"}
IsRequest(frame) == frame.t \in {"start", "close"}
IsRequested(event) == event.e \in {"StartRequested", "CloseRequested"}
Trip(p) ==
    LET q == Other(p)
        replies == {i \in 1 .. Len(Sent(q)) : IsReply(Sent(q)[i])}
        waiting == {i \in 1 .. Len(events[q]) : IsRequested(events[q][i])}
        requests == {i \in 1 .. Len(Sent(p)) : IsRequest(Sent(p)[i])}
    IN  {<<"reply", i, Sent(q)[i]>> : i \in replies}
        \cup {<<"waiting", i, events[q][i]>> : i \in waiting}
        \cup {<<"request", i, Sent(p)[i]>> : i \in requests}

(* Which pending request a step of the trip belongs to.                    *)
Requested(what) == IF what = "start" THEN "StartRequested" ELSE "CloseRequested"
Concerns(step, r) ==
    LET x == step[3]
    IN  /\ x.msgno = r.msgno
        /\ step[1] = "reply" => Answers(r, x)
        /\ step[1] = "waiting" => x.e = Requested(r.what) /\ x.n = r.n
        /\ step[1] = "request" => x.t = r.what /\ x.n = r.n

(* Session.pending is exact: every pending request is in one place and     *)
(* nothing is under way that no request is pending for, so no request is   *)
(* left without an answer and no answer comes twice.                       *)
RequestsTracked ==
    \A p \in Peers :
        /\ \A step \in Trip(p) : \E r \in pending[p] : Concerns(step, r)
        /\ \A r \in pending[p] : \E step \in Trip(p) :
             \A other \in Trip(p) : Concerns(other, r) <=> other = step

(* The two peers agree on which channels exist: one that only one of them  *)
(* has is the subject of a request that is not settled, or the session is  *)
(* being closed.                                                           *)
ChannelsAgree ==
    (\A p \in Peers : Running(p) /\ state[p] = "Ready") =>
        \A p \in Peers : \A n \in channels[p] \ channels[Other(p)] :
            \E r \in pending[p] \cup pending[Other(p)] : r.n = n

(* What a peer sends on a channel as soon as it has it never reaches the   *)
(* other before the channel exists there: until somebody asks to close     *)
(* something, no frame is a protocol error.                                *)
OpeningSafe ==
    (\A p \in Peers : calls[p].close = 0) => NoProtocolError

(* A request is answered, or the session ends and its caller is told so.   *)
Answered ==
    \A p \in Peers, m \in MsgNos :
        m \in Outstanding(p) ~> m \notin Outstanding(p) \/ ~Running(p)

(* When the driver of one peer stops, whatever the reason, so does that of *)
(* the other: no peer stays behind with a session of its own.              *)
BothEnd == \A p \in Peers : ~Running(p) ~> ~Running(Other(p))

-----------------------------------------------------------------------------
(* What comments of the code say and the code does not do.                 *)

(* Session::new: "a greeting larger than the initial window is paced       *)
(* rather than truncated", so that the other peer takes it.                *)
GreetingTaken == \A p \in Peers : ended[p] # "NotAGreeting"

(* Responder::close: closes that cross are "legal and expected", and "both *)
(* ends resolve it by accepting the one they receive".                     *)
CollisionResolved == \A p \in Peers : ended[p] # "NoSuchChannel"
-----------------------------------------------------------------------------
(* The inductive invariant behind the safety properties.                   *)

(* The requests of p on their way, the requests of the other peer that p   *)
(* has still to handle, and the replies of p on their way.                 *)
Members(s) == {s[i] : i \in 1 .. Len(s)}
Asks(p) == {f \in Members(Sent(p)) : IsRequest(f)}
Heard(p) == {e \in Members(events[p]) : IsRequested(e)}
Says(p) == {f \in Members(Sent(p)) : IsReply(f)}
Nos(set) == {x.msgno : x \in set}

(* A message number is used once in each of these places ...               *)
OnceSent(s) ==
    \A i, j \in 1 .. Len(s) :
        /\ IsRequest(s[i]) /\ IsRequest(s[j]) /\ s[i].msgno = s[j].msgno => i = j
        /\ IsReply(s[i]) /\ IsReply(s[j]) /\ s[i].msgno = s[j].msgno => i = j
OnceHeard(s) ==
    \A i, j \in 1 .. Len(s) :
        IsRequested(s[i]) /\ IsRequested(s[j]) /\ s[i].msgno = s[j].msgno => i = j
Once == \A p \in Peers : OnceSent(Sent(p)) /\ OnceHeard(events[p])

(* ... and in one of them, while its request is pending. The driver never  *)
(* refuses a close.                                                        *)
Exact(requests, asks, heard, says) ==
    /\ \A r, s \in requests : r.msgno = s.msgno => r = s
    /\ Nos(requests) = Nos(asks) \cup Nos(heard) \cup Nos(says)
    /\ Nos(asks) \cap Nos(heard) = {}
    /\ (Nos(asks) \cup Nos(heard)) \cap Nos(says) = {}
    /\ \A r \in requests :
         /\ \A f \in asks : f.msgno = r.msgno => f.t = r.what /\ f.n = r.n
         /\ \A e \in heard : e.msgno = r.msgno => e.e = Requested(r.what) /\ e.n = r.n
         /\ \A f \in says : f.msgno = r.msgno =>
              r.what = IF f.t = "ok" THEN "close" ELSE "start"
Settled(p) == Exact(pending[p], Asks(p), Heard(Other(p)), Says(Other(p)))

(* The numbers of channels: p has given n to a channel, and to one only.   *)
Gave(p, n) == Owns(p, n) /\ n < next_channel[p]
Given(n) == \E p \in Peers : Gave(p, n)
NumbersGiven(p) ==
    /\ next_channel[p] = FirstChannel(p) + 2 * calls[p].start
    /\ \A n \in channels[p] : Given(n)
    /\ \A r \in pending[p] : IF r.what = "start" THEN Gave(p, r.n)
                              ELSE r.n = 0 \/ Given(r.n)
    /\ \A r, s \in pending[p] : r.what = "start" /\ s.n = r.n => r = s

(* A channel p has asked for is not open and nobody closes it before the   *)
(* other peer has agreed; then it is open there, and what that peer asks   *)
(* of it comes behind its reply.                                           *)
InFront(s, m, n) ==
    \A i, j \in 1 .. Len(s) :
        /\ s[i].t = "profile" /\ s[i].msgno = m
        /\ s[j].t = "close" /\ s[j].n = n
        => i < j
Agreed(p, m) == \E f \in Says(Other(p)) : f.t = "profile" /\ f.msgno = m
Unopened(p, m, n) ==
    LET q == Other(p)
    IN  /\ n \notin channels[p]
        /\ IF Agreed(p, m)
             THEN /\ n \in channels[q] \/ state[q] = "Closed"
                  /\ \A s \in pending[q] : s.n = n => s.msgno \in Nos(Asks(q))
                  /\ InFront(Sent(q), m, n)
             ELSE /\ n \notin channels[q]
                  /\ \A s \in pending[q] : s.n # n
Starting(p) == \A r \in pending[p] : r.what = "start" => Unopened(p, r.msgno, r.n)

(* A channel whose close has been agreed to is gone there.                 *)
ClosingOver(p) ==
    \A r \in pending[p], f \in Says(Other(p)) :
        f.t = "ok" /\ f.msgno = r.msgno =>
            r.n \notin channels[Other(p)] /\ (r.n = 0 => state[Other(p)] = "Closed")

(* One peer has what the other has, or is about to learn of it.            *)
Agreeing(p) ==
    \A n \in channels[p] :
        \/ n \in channels[Other(p)] \/ state[Other(p)] = "Closed"
        \/ \E r \in pending[p] \cup pending[Other(p)] : r.n = n

(* The greeting is the first frame of a peer, and only a greeting that is  *)
(* cut is refused.                                                         *)
GreetingFirst(p) ==
    LET s == Sent(Other(p))
        cut == Other(p) \in BigGreeting
    IN  /\ state[p] = "AwaitingGreeting" /\ Running(p) =>
             /\ s # << >> /\ s[1].t = "greeting" /\ s[1].more = cut
             /\ ~cut => \A i \in 2 .. Len(s) : s[i].t # "greeting"
        /\ state[p] = "AwaitingGreeting" => events[p] = << >>
        /\ state[p] # "AwaitingGreeting" => \A i \in 1 .. Len(s) : s[i].t # "greeting"
        /\ ended[p] = "NotAGreeting" => cut
        /\ ended[p] # "UnknownMsgNo"

(* Frames of ordinary channels: none before an application sends, and      *)
(* before any asks to close, each is of a channel its sender has and the   *)
(* other has or is about to have.                                          *)
IsTraffic(frame) == frame.t \in {"data", "seq"}
NoCloses == \A p \in Peers : calls[p].close = 0
NoSends == \A p \in Peers : calls[p].send = 0
Reaches(p, j) ==
    LET s == Sent(Other(p))
    IN  \/ s[j].n \in channels[p]
        \/ \E i \in 1 .. j - 1, r \in pending[p] :
             r.what = "start" /\ r.n = s[j].n /\ s[i].t = "profile" /\ s[i].msgno = r.msgno
Traffic(p) ==
    LET s == Sent(Other(p))
    IN  /\ NoSends => \A j \in 1 .. Len(s) : ~IsTraffic(s[j])
        /\ NoCloses =>
             /\ state[p] # "Closed" /\ \A r \in pending[p] : r.what = "start"
             /\ \A j \in 1 .. Len(s) : IsTraffic(s[j]) =>
                  s[j].n \in channels[Other(p)] /\ Reaches(p, j)
        /\ NoSends \/ NoCloses => ended[p] # "NoSuchChannel"

SessionInv ==
    /\ TypeOK /\ Once
    /\ \A p \in Peers : Settled(p) /\ NumbersGiven(p) /\ Starting(p) /\ ClosingOver(p)
                          /\ Agreeing(p) /\ GreetingFirst(p) /\ Traffic(p)
=============================================================================

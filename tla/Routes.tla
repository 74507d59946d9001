------------------------------- MODULE Routes -------------------------------
(***************************************************************************)
(* The callers that wait on one driver (vortice/src/connection.rs): every  *)
(* call of a handle sends a command with a oneshot, the driver keeps the   *)
(* oneshot in its Routes until the session reports what became of the      *)
(* call, and completes all of them when the session ends or is replaced.   *)
(*                                                                         *)
(* The peer is any BEEP peer: it answers requests on channel 0 in order    *)
(* (Session), may decline them, closes channels of its own accord and      *)
(* answers messages. A frame it sends is handled, and the event it raises, *)
(* in one step: the driver takes no command in between.                    *)
(***************************************************************************)
EXTENDS Naturals, Sequences, FiniteSets

CONSTANTS
    Callers,       \* tasks that make one call each
    MaxMsgNo,      \* MAX_MSG_NO
    MaxChannels,   \* bound: channels the peer opens in one session
    CommandQueue,  \* COMMAND_QUEUE
    MaxUpgrades,   \* bound: transport upgrades
    MaxAnswers,    \* bound: ANS of one reply
    MayDecline     \* whether the peer declines to close the session

ASSUME RoutesAssumption ==
    /\ IsFiniteSet(Callers)
    /\ {MaxMsgNo, MaxChannels, MaxUpgrades, MaxAnswers} \subseteq Nat
    /\ CommandQueue \in Nat \ {0}
    /\ MayDecline \in BOOLEAN

MsgNos == 0 .. MaxMsgNo

VARIABLES
    calls,         \* each caller's call and what it has been told
    handles,       \* Channel and Responder handles: a number and its session
    commands,      \* the mpsc queue of Command
    running,       \* Driver::pump has not returned
    epoch,         \* which session the driver runs; ghost
    state,         \* Session.state
    channels,      \* Session.channels: outstanding and next_msgno of each Channel
    next_channel,  \* Session.next_channel; odd: this is the initiator
    opens, closes, session_close, requests,    \* the fields of Routes
    ready,         \* who waits for the greeting
    pending,       \* requests on channel 0 the peer has still to answer
    asked,         \* messages the peer has still to answer
    peer_channel   \* the next number the peer gives to a channel

session == <<epoch, state, channels, next_channel>>
routes == <<opens, closes, session_close, requests, ready>>
peer == <<pending, asked, peer_channel>>
vars == <<calls, handles, commands, running, session, routes, peer>>

NewChannel == [used |-> {}, next |-> 0]
NoChannels == [n \in {} |-> NewChannel]

Init ==
    /\ calls = [k \in Callers |-> [what |-> "none", told |-> "idle", epoch |-> 0,
                                   from |-> k]]
    /\ handles = {}
    /\ commands = << >>
    /\ running = TRUE
    /\ epoch = 0
    /\ state = "Ready"
    /\ channels = NoChannels
    /\ next_channel = 1
    /\ opens = {} /\ closes = {} /\ session_close = {} /\ requests = {}
    /\ ready = {}
    /\ pending = << >>
    /\ asked = {}
    /\ peer_channel = 2

-----------------------------------------------------------------------------
(* Oneshots and maps of them.                                              *)

(* The callers ks are told, all the same.                                  *)
Tell(ks, result) ==
    calls' = [k \in Callers |-> IF k \in ks THEN [calls[k] EXCEPT !.told = result]
                                ELSE calls[k]]

(* HashMap::insert drops the oneshot that was there, and its caller finds  *)
(* the channel closed.                                                     *)
Holders(map) == {r.k : r \in map}
At(map, n) == {r \in map : r.n = n}
Without(map, n) == map \ At(map, n)
WrongInsert(map, n, k) == map \cup {[n |-> n, k |-> k]}
Insert(map, n, k) == Without(map, n) \cup {[n |-> n, k |-> k]}

(* What a dropped oneshot means to its caller: Connection::close takes it  *)
(* for a success, every other call for Error::Closed.                      *)
Dropped(k) == IF calls[k].what = "session" THEN "Ok" ELSE "Closed"

(* Routes::shutdown.                                                       *)
Shutdown ==
    /\ opens' = {} /\ closes' = {} /\ session_close' = {} /\ requests' = {}
Routed == Holders(opens) \cup Holders(closes) \cup session_close \cup Holders(requests)

(* Driver::run after pump: shutdown, and with the driver goes its queue of *)
(* commands.                                                               *)
Queued == {commands[i].k : i \in 1 .. Len(commands)}
EndTelling(ks, result) ==
    /\ running' = FALSE
    /\ Shutdown
    /\ ready' = {}
    /\ commands' = << >>
    /\ pending' = << >> /\ asked' = {}
    /\ calls' = [k \in Callers |->
                   IF k \in ks THEN [calls[k] EXCEPT !.told = result]
                   ELSE IF k \in Routed \cup ready \cup Queued
                     THEN [calls[k] EXCEPT !.told = Dropped(k)]
                   ELSE calls[k]]
    /\ UNCHANGED <<handles, session, peer_channel>>

-----------------------------------------------------------------------------
(* A caller sends its command, when there is room for it, and waits. Once  *)
(* the driver is gone the send itself fails.                               *)
Call(k, what, n, e) ==
    /\ calls[k].told = "idle"
    /\ running => Len(commands) < CommandQueue
    /\ LET call == [calls[k] EXCEPT !.what = what, !.epoch = epoch]
       IN  IF running
             THEN /\ calls' = [calls EXCEPT ![k] = [call EXCEPT !.told = "waiting"]]
                  /\ commands' = Append(commands,
                                        [k |-> k, what |-> what, n |-> n, epoch |-> e])
             ELSE /\ calls' = [calls EXCEPT ![k] = [call EXCEPT
                                 !.told = IF what = "session" THEN "Ok" ELSE "Closed"]]
                  /\ UNCHANGED commands
    /\ UNCHANGED <<handles, running, session, routes, peer>>

(* Connection::open_channel, close_channel, close and upgrade, and the     *)
(* calls through a handle: Channel::request and Responder::request.        *)
CallOpen == \E k \in Callers : Call(k, "open", 0, epoch)
CallClose == \E k \in Callers, n \in {0} \cup {h.n : h \in handles} :
                 Call(k, "close", n, epoch)
CallSession == \E k \in Callers : Call(k, "session", 0, epoch)
CallUpgrade == \E k \in Callers : epoch < MaxUpgrades /\ Call(k, "upgrade", 0, epoch)
CallRequest == \E k \in Callers, h \in handles : Call(k, "request", h.n, h.epoch)

-----------------------------------------------------------------------------
(* Driver::apply and Driver::dispatch, one command.                        *)

Apply(what) ==
    /\ running
    /\ commands # << >>
    /\ Head(commands).what = what
    /\ commands' = Tail(commands)
    /\ UNCHANGED <<handles, running>>
Command == Head(commands)

(* The session refuses the command.                                        *)
Refuse ==
    /\ Tell({Command.k}, "Protocol")
    /\ UNCHANGED <<session, routes, peer>>

Ask(what, n) == pending' = Append(pending, [what |-> what, n |-> n])

ApplyOpen ==
    /\ Apply("open")
    /\ IF state # "Ready" THEN Refuse
         ELSE /\ next_channel' = next_channel + 2
              /\ opens' = Insert(opens, next_channel, Command.k)
              /\ Tell(Holders(At(opens, next_channel)), "Closed")
              /\ Ask("start", next_channel)
              /\ UNCHANGED <<epoch, state, channels, closes, session_close, requests,
                             ready, asked, peer_channel>>

(* The route is there before the session has agreed.                       *)
WrongApplyClose ==
    /\ Apply("close")
    /\ closes' = Insert(closes, Command.n, Command.k)
    /\ Tell(Holders(At(closes, Command.n)), "Closed")
    /\ IF state # "Ready" \/ Command.n \notin DOMAIN channels \cup {0}
         THEN UNCHANGED pending
         ELSE Ask("close", Command.n)
    /\ UNCHANGED <<session, opens, session_close, requests, ready, asked, peer_channel>>
ApplyClose ==
    /\ Apply("close")
    /\ IF state # "Ready" \/ Command.n \notin DOMAIN channels \cup {0} THEN Refuse
         ELSE /\ closes' = Insert(closes, Command.n, Command.k)
              /\ Tell(Holders(At(closes, Command.n)), "Closed")
              /\ Ask("close", Command.n)
              /\ UNCHANGED <<session, opens, session_close, requests, ready, asked,
                             peer_channel>>

ApplySession ==
    /\ Apply("session")
    /\ IF state # "Ready" THEN Refuse
         ELSE /\ session_close' = {Command.k}
              /\ Tell(session_close, "Ok")
              /\ Ask("close", 0)
              /\ UNCHANGED <<session, opens, closes, requests, ready, asked, peer_channel>>

(* Channel::allocate_msgno: from next on, the first number not in use. The *)
(* session never releases a number of an ordinary channel.                 *)
AllocateMsgNo(c) ==
    CHOOSE m \in MsgNos \ c.used :
        \A l \in MsgNos \ c.used :
            (m + MaxMsgNo + 1 - c.next) % (MaxMsgNo + 1)
                <= (l + MaxMsgNo + 1 - c.next) % (MaxMsgNo + 1)
After(m) == IF m = MaxMsgNo THEN 0 ELSE m + 1

ApplyRequest ==
    /\ Apply("request")
    /\ LET n == Command.n
           c == channels[n]
           m == AllocateMsgNo(c)
           r == [n |-> n, msgno |-> m, k |-> Command.k, epoch |-> Command.epoch,
                 answers |-> 0]
           same == {q \in requests : q.n = n /\ q.msgno = m}
       IN  IF n \notin DOMAIN channels \/ MsgNos \subseteq c.used THEN Refuse
             ELSE /\ channels' = [channels EXCEPT
                                    ![n] = [used |-> c.used \cup {m}, next |-> After(m)]]
                  /\ requests' = (requests \ same) \cup {r}
                  /\ Tell(Holders(same), "Closed")
                  /\ asked' = asked \cup {r}
                  /\ UNCHANGED <<epoch, state, next_channel, opens, closes,
                                 session_close, ready, pending, peer_channel>>

(* Driver::upgrade with a handshake that succeeds: a new session, and all  *)
(* who waited on the old one are told so.                                  *)
Upgrade ==
    /\ Apply("upgrade")
    /\ epoch' = epoch + 1
    /\ state' = "AwaitingGreeting"
    /\ channels' = NoChannels
    /\ next_channel' = 1
    /\ Shutdown
    /\ ready' = {Command.k}
    /\ pending' = << >> /\ asked' = {} /\ peer_channel' = 2
    /\ calls' = [k \in Callers |-> IF k \in Routed \cup ready
                                     THEN [calls[k] EXCEPT !.told = Dropped(k)]
                                     ELSE calls[k]]

(* It fails, and the driver ends. The caller gets the error of the         *)
(* handshake; one of the session's last reply, or of the write before the  *)
(* handshake, drops its oneshot.                                           *)
UpgradeFails ==
    /\ running
    /\ commands # << >>
    /\ Command.what = "upgrade"
    /\ \E result \in {"Io", "Closed"} : EndTelling({Command.k}, result)

-----------------------------------------------------------------------------
(* What the driver reads, with Driver::handle_event and Driver::deliver.   *)

Greeting ==
    /\ running
    /\ state = "AwaitingGreeting"
    /\ state' = "Ready"
    /\ ready' = {}
    /\ Tell(ready, "Ok")
    /\ UNCHANGED <<handles, commands, running, epoch, channels, next_channel, opens,
                   closes, session_close, requests, peer>>

(* A reply to the oldest request on channel 0.                             *)
Replied(what) ==
    /\ running
    /\ pending # << >>
    /\ Head(pending).what = what
    /\ pending' = Tail(pending)
    /\ UNCHANGED <<commands, running, peer_channel>>
Subject == Head(pending).n

(* A channel enters Session.channels, and leaves it.                       *)
Enter(n) == channels' = [c \in DOMAIN channels \cup {n} |->
                           IF c = n THEN NewChannel ELSE channels[c]]
Leave(n) == channels' = [c \in DOMAIN channels \ {n} |-> channels[c]]

ChannelOpened ==
    /\ Replied("start")
    /\ Enter(Subject)
    /\ opens' = Without(opens, Subject)
    /\ Tell(Holders(At(opens, Subject)), "Ok")
    /\ handles' = handles \cup {[n |-> Subject, epoch |-> epoch]}
    /\ UNCHANGED <<epoch, state, next_channel, closes, session_close, requests, ready,
                   asked>>

StartRefused ==
    /\ Replied("start")
    /\ opens' = Without(opens, Subject)
    /\ Tell(Holders(At(opens, Subject)), "Refused")
    /\ UNCHANGED <<handles, session, closes, session_close, requests, ready, asked>>

(* Session::finish_close of an ordinary channel, and its event. A message  *)
(* asked there stays unanswered: a reply on a channel that is not open     *)
(* breaks the protocol, and with it the session.                           *)
WrongForget(n) ==
    /\ Leave(n)
    /\ asked' = {r \in asked : r.n # n}
    /\ UNCHANGED <<closes, calls, handles, epoch, state, next_channel, opens,
                   session_close, requests, ready>>
Forget(n) ==
    /\ Leave(n)
    /\ asked' = {r \in asked : r.n # n}
    /\ closes' = Without(closes, n)
    /\ Tell(Holders(At(closes, n)), "Ok")
    /\ UNCHANGED <<handles, epoch, state, next_channel, opens, session_close, requests,
                   ready>>

ChannelClosed ==
    /\ pending # << >> /\ Subject # 0
    /\ Replied("close")
    /\ Forget(Subject)

(* Only closes is consulted, for channel 0 too.                            *)
CloseRefused ==
    /\ pending # << >> /\ (Subject = 0 => MayDecline)
    /\ Replied("close")
    /\ closes' = Without(closes, Subject)
    /\ Tell(Holders(At(closes, Subject)), "Refused")
    /\ UNCHANGED <<handles, session, opens, session_close, requests, ready, asked>>

(* The session is closed, because the peer accepts it or asks for it: pump *)
(* returns.                                                                *)
SessionClosed ==
    /\ running
    /\ pending # << >> /\ Head(pending) = [what |-> "close", n |-> 0]
    /\ EndTelling(session_close, "Ok")
PeerClosesSession ==
    /\ running
    /\ state = "Ready"
    /\ EndTelling(session_close, "Ok")

(* The peer closes a channel.                                              *)
PeerCloses ==
    /\ running
    /\ \E n \in DOMAIN channels : Forget(n)
    /\ UNCHANGED <<commands, running, pending, peer_channel>>

(* The peer opens a channel that is served here: on_open gets a Responder. *)
PeerStarts ==
    /\ running
    /\ state = "Ready"
    /\ peer_channel <= 2 * MaxChannels
    /\ peer_channel' = peer_channel + 2
    /\ Enter(peer_channel)
    /\ handles' = handles \cup {[n |-> peer_channel, epoch |-> epoch]}
    /\ UNCHANGED <<calls, commands, running, epoch, state, next_channel, routes, pending,
                   asked>>

(* An ANS is kept with the request it answers; RPY, ERR and NUL hand over  *)
(* all there is.                                                           *)
WrongRouteOf(r) == {q \in requests : q.n = r.n}
RouteOf(r) == {q \in requests : q.n = r.n /\ q.msgno = r.msgno}

AnswerReceived ==
    /\ running
    /\ \E r \in asked :
         /\ r.answers < MaxAnswers
         /\ asked' = (asked \ {r}) \cup {[r EXCEPT !.answers = @ + 1]}
         /\ requests' = (requests \ RouteOf(r))
                        \cup {[q EXCEPT !.answers = @ + 1] : q \in RouteOf(r)}
    /\ UNCHANGED <<calls, handles, commands, running, session, opens, closes,
                   session_close, ready, pending, peer_channel>>

ReplyReceived ==
    /\ running
    /\ \E r \in asked :
         /\ asked' = asked \ {r}
         /\ requests' = requests \ RouteOf(r)
         /\ calls' = [k \in Callers |->
                        IF k \in Holders(RouteOf(r))
                          THEN [calls[k] EXCEPT !.told = "Reply", !.from = r.k]
                          ELSE calls[k]]
    /\ UNCHANGED <<handles, commands, running, session, opens, closes,
                   session_close, ready, pending, peer_channel>>

(* The transport ends or breaks, the peer breaks the protocol, or the last *)
(* handle is dropped.                                                      *)
End ==
    /\ running
    /\ EndTelling({}, "Closed")

Calls == CallOpen \/ CallClose \/ CallSession \/ CallUpgrade \/ CallRequest
Applies == ApplyOpen \/ ApplyClose \/ ApplySession \/ ApplyRequest \/ Upgrade
           \/ UpgradeFails
Replies == ChannelOpened \/ StartRefused \/ ChannelClosed \/ CloseRefused
           \/ SessionClosed
Peer == Greeting \/ PeerCloses \/ PeerClosesSession \/ PeerStarts
        \/ AnswerReceived \/ ReplyReceived
Next == Calls \/ Applies \/ Replies \/ Peer \/ End

(* The driver takes commands and reads; the peer answers in the end. No    *)
(* session is obliged to end.                                              *)
Fairness == WF_vars(Applies) /\ WF_vars(Replies) /\ WF_vars(Greeting)
            /\ WF_vars(ReplyReceived)

Safety == Init /\ [][Next]_vars
Spec == Safety /\ Fairness

-----------------------------------------------------------------------------
(* Properties.                                                             *)

Results == {"Ok", "Refused", "Closed", "Protocol", "Io", "Reply"}
Kinds == {"open", "close", "session", "upgrade", "request"}
CallStates == [what : Kinds \cup {"none"}, epoch : Nat, from : Callers,
               told : Results \cup {"idle", "waiting"}]
CommandsOf == [k : Callers, what : Kinds, n : Nat, epoch : Nat]
Routing == [n : Nat, k : Callers]
Messages == [n : Nat, msgno : MsgNos, k : Callers, epoch : Nat, answers : Nat]
Asking == [what : {"start", "close"}, n : Nat]
Channels == [used : SUBSET MsgNos, next : MsgNos]

(* Callers, routes and the session's fields have their types; message      *)
(* numbers stay in range when they wrap.                                   *)
TypeOK ==
    /\ calls \in [Callers -> CallStates]
    /\ handles \subseteq [n : Nat, epoch : Nat]
    /\ commands \in Seq(CommandsOf)
    /\ running \in BOOLEAN
    /\ epoch \in Nat
    /\ state \in {"AwaitingGreeting", "Ready"}
    /\ DOMAIN channels \subseteq Nat /\ channels \in [DOMAIN channels -> Channels]
    /\ next_channel \in Nat
    /\ opens \subseteq Routing /\ closes \subseteq Routing
    /\ session_close \subseteq Callers /\ ready \subseteq Callers
    /\ requests \subseteq Messages /\ asked \subseteq Messages
    /\ pending \in Seq(Asking)
    /\ peer_channel \in Nat

Waiting(k) == calls[k].told = "waiting"

(* In how many places the oneshot of k is kept.                            *)
Places(k) ==
    Cardinality({i \in 1 .. Len(commands) : commands[i].k = k})
    + Cardinality({r \in opens : r.k = k}) + Cardinality({r \in closes : r.k = k})
    + Cardinality({k} \cap session_close) + Cardinality({r \in requests : r.k = k})
    + Cardinality({k} \cap ready)

(* A caller waits exactly as long as its oneshot is in one place of the    *)
(* driver: none is mislaid, so that its caller would wait for ever after   *)
(* the session has ended, and none is completed twice.                     *)
HeldOnce == \A k \in Callers : Places(k) = IF Waiting(k) THEN 1 ELSE 0

(* Each route waits for something that is under way: the peer has still to *)
(* answer the request behind it. A request on a channel that has been      *)
(* closed is the exception; its caller waits for the session to end.       *)
Stranded(r) == r.n \notin DOMAIN channels
RoutesBacked ==
    /\ \A r \in opens : \E i \in 1 .. Len(pending) :
         pending[i] = [what |-> "start", n |-> r.n]
    /\ \A r \in closes : \E i \in 1 .. Len(pending) :
         pending[i] = [what |-> "close", n |-> r.n]
    /\ ready # {} => state = "AwaitingGreeting"
    /\ \A r \in requests : r \in asked \/ Stranded(r)

(* Connection::close returns Error::Refused when the peer declines: nobody *)
(* waits for a close of the session that is not under way.                 *)
DeclineReported ==
    session_close # {} => \E i \in 1 .. Len(pending) :
                              pending[i] = [what |-> "close", n |-> 0]

(* A reply reaches the caller whose message it answers, with all the       *)
(* answers that came before it.                                            *)
RightReply ==
    /\ \A k \in Callers : calls[k].told = "Reply" => calls[k].from = k
    /\ \A r \in asked, q \in requests :
         r.n = q.n /\ r.msgno = q.msgno => r.k = q.k /\ r.answers = q.answers

(* Whoever waits is told in the end, or is waiting for a reply on a        *)
(* channel that has been closed.                                           *)
EveryoneTold ==
    \A k \in Callers :
        Waiting(k) ~> ~Waiting(k) \/ \E r \in requests : r.k = k /\ Stranded(r)

(* Driver::upgrade: "a handle held across an upgrade will report the       *)
(* session closed": no message is sent for a handle of an older session.   *)
StaleHandleRefused == \A r \in requests : r.epoch = epoch

-----------------------------------------------------------------------------
(* The inductive invariant behind HeldOnce, RoutesBacked and RightReply.   *)

(* No two oneshots of one caller are in the same place of the driver ...   *)
OneEach(map) == \A r, q \in map : r.k = q.k => r = q
Single ==
    /\ \A i, j \in 1 .. Len(commands) : commands[i].k = commands[j].k => i = j
    /\ OneEach(opens) /\ OneEach(closes) /\ OneEach(requests)

(* ... or in two of its places, and it is in one of them while its caller  *)
(* waits.                                                                  *)
Kept(k) ==
    /\ Waiting(k) <=> k \in Queued \cup Routed \cup ready
    /\ k \in Queued => k \notin Routed \cup ready
    /\ k \in ready => k \notin Routed
    /\ k \in Holders(opens) => k \notin Holders(closes) \cup session_close \cup Holders(requests)
    /\ k \in Holders(closes) => k \notin session_close \cup Holders(requests)
    /\ k \in session_close => k \notin Holders(requests)
Apart == \A k \in Callers : Kept(k)

(* The initiator's numbers are odd, and no number is given out twice: what *)
(* waits to be opened is not open and never was.                           *)
Odd == {n \in Nat : n % 2 = 1}
Given(n) == n \in Nat /\ IF n \in Odd THEN n < next_channel ELSE n < peer_channel
NumbersGiven ==
    /\ next_channel \in Odd /\ peer_channel \in Nat \ Odd
    /\ \A n \in DOMAIN channels : Given(n)
    /\ \A r \in requests : Given(r.n)
    /\ \A i \in 1 .. Len(pending) : pending[i].what = "start" =>
         /\ pending[i].n \in Odd /\ Given(pending[i].n)
         /\ pending[i].n \notin DOMAIN channels
         /\ \A r \in requests : r.n # pending[i].n
         /\ \A j \in 1 .. Len(pending) : pending[j] = pending[i] => i = j

(* A message the peer has still to answer is of an open channel, and has   *)
(* its number there to itself.                                             *)
AskedOpen ==
    /\ \A r \in asked : r.n \in DOMAIN channels /\ r.msgno \in channels[r.n].used
    /\ \A r, q \in asked : r.n = q.n /\ r.msgno = q.msgno => r = q

(* A caller is only ever handed the reply to its own message.              *)
FromSelf == \A k \in Callers : calls[k].from = k

RoutesInv ==
    /\ TypeOK /\ Single /\ Apart /\ FromSelf
    /\ NumbersGiven /\ AskedOpen /\ RoutesBacked
=============================================================================

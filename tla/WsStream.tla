------------------------------ MODULE WsStream ------------------------------
(***************************************************************************)
(* A WebSocket as the byte stream of a session (vortice-ws/src/stream.rs,  *)
(* frame.rs, codec.rs), the driver that reads and writes it, and any       *)
(* WebSocket peer, over a transport that holds a bounded number of octets. *)
(*                                                                         *)
(* An octet is a number. The lengths at which a header grows are           *)
(* parameters, a longer length takes one or two octets instead of two or   *)
(* eight, and the masking key is one octet.                                *)
(***************************************************************************)
EXTENDS Naturals, Sequences, FiniteSets, SequencesExt

CONSTANTS
    Frames,       \* the BEEP frames the session will send: their lengths
    Plans,        \* what the peer may send: sequences of WebSocket frames
    Sides,        \* which end this is: subset of {"Client", "Server"}
    Room,         \* octets the transport holds in each direction
    Short,        \* 126: the first length that takes more than one octet
    Wide,         \* 65536: the first length that takes eight
    MaxPayload,   \* MAX_PAYLOAD
    Batch,        \* MAX_SEND_BATCH
    HighWater     \* OUTBOUND_HIGH_WATER

VARIABLES
    side, plan, \* chosen once
    produced,   \* how many BEEP frames the session has produced
    out,        \* octets in Driver.out
    pump,       \* what the driver is at: "select", "flush" or "ended"
    partial, outbound, inbound, payload, closing,    \* the fields of WsStream
    framed,     \* octets of the session put into WebSocket frames
    queued,     \* the WebSocket frames put into outbound, so far
    got,        \* the octets handed up to the session
    up,         \* octets on the transport to the peer
    taken,      \* ghost: octets the peer has read
    sent, down, \* octets the peer has sent, and those not read yet
    gone        \* the peer has ended the transport

given == <<side, plan>>
session == <<produced, out, pump, got>>
sending == <<framed, partial, outbound, queued>>
peer == <<taken, sent, gone>>
vars == <<given, session, sending, inbound, payload, closing, up, down, peer>>

-----------------------------------------------------------------------------
(* Frames on the wire.                                                     *)

Code == [Continuation |-> 0, Text |-> 1, Binary |-> 2, Reserved |-> 3,
         Close |-> 8, Ping |-> 9, Pong |-> 10]
OpCodes == DOMAIN Code \ {"Reserved"}
Control == {"Close", "Ping", "Pong"}
Key == 64
Octet == 0 .. 2 * Key - 1
WsFrame == [fin : BOOLEAN, rsv : BOOLEAN, op : DOMAIN Code, payload : Seq(Octet)]

ASSUME WsAssumption ==
    /\ Frames \in Seq(Nat \ {0})
    /\ Plans \subseteq Seq(WsFrame)
    /\ Sides \subseteq {"Client", "Server"}
    /\ {Room, Short, Wide, Batch, HighWater} \subseteq Nat \ {0}
    /\ Short < Wide /\ Short + 1 \in Octet /\ MaxPayload \in Nat

(* apply_mask: exclusive or with the key, which undoes itself.             *)
Masked(data) == [i \in 1 .. Len(data) |-> (data[i] + Key) % (2 * Key)]

(* encode_header, and the payload after it.                                *)
Length(n) ==
    IF n < Short THEN <<n>>
    ELSE IF n < Wide THEN <<Short, n>>
    ELSE <<Short + 1, n \div Wide, n % Wide>>
WrongEncode(f, mask) ==
    LET l == Length(Len(f.payload))
    IN  <<(IF f.fin THEN 128 ELSE 0) + (IF f.rsv THEN 16 ELSE 0) + Code[f.op],
          (IF mask THEN 128 ELSE 0) + l[1]>> \o Tail(l)
        \o f.payload
Encode(f, mask) ==
    LET l == Length(Len(f.payload))
    IN  <<(IF f.fin THEN 128 ELSE 0) + (IF f.rsv THEN 16 ELSE 0) + Code[f.op],
          (IF mask THEN 128 ELSE 0) + l[1]>> \o Tail(l)
        \o (IF mask THEN <<Key>> \o Masked(f.payload) ELSE f.payload)

Frame(fin, op, data) == [fin |-> fin, rsv |-> FALSE, op |-> op, payload |-> data]

(* frame::decode_header: what the front of s says.                         *)
Drop(s, n) == SubSeq(s, n + 1, Len(s))
Nothing == [kind |-> "none"]
Bad == [kind |-> "error"]

PayloadLength(s) ==
    LET short == s[2] % 128
    IN  CASE short = Short ->
               IF Len(s) < 3 THEN Nothing
               ELSE IF s[3] < Short THEN Bad
               ELSE [kind |-> "length", len |-> s[3], octets |-> 1]
          [] short = Short + 1 ->
               IF Len(s) < 4 THEN Nothing
               ELSE IF s[3] = 0 THEN Bad
               ELSE [kind |-> "length", len |-> s[3] * Wide + s[4], octets |-> 2]
          [] OTHER -> [kind |-> "length", len |-> short, octets |-> 0]

DecodeHeader(s) ==
    LET ops == {o \in OpCodes : Code[o] = s[1] % 16}
        op == CHOOSE o \in ops : TRUE
        l == PayloadLength(s)
        masked == s[2] >= 128
        at == 2 + l.octets
    IN  IF Len(s) < 2 THEN Nothing
        ELSE IF (s[1] % 128) \div 16 # 0 \/ ops = {} THEN Bad
        ELSE IF l.kind # "length" THEN l
        ELSE IF l.len > MaxPayload THEN Bad
        ELSE IF op \in Control /\ (l.len >= Short \/ s[1] < 128) THEN Bad
        ELSE IF masked /\ Len(s) <= at THEN Nothing
        ELSE [kind |-> "header", op |-> op, masked |-> masked, len |-> l.len,
              size |-> IF masked THEN at + 1 ELSE at]

(* Decoder::poll: the frame at the front of s, if all of it is there.      *)
Poll(s) ==
    LET h == DecodeHeader(s)
        data == SubSeq(s, h.size + 1, h.size + h.len)
    IN  IF h.kind # "header" THEN h
        ELSE IF Len(s) < h.size + h.len THEN Nothing
        ELSE [kind |-> h.op, payload |-> IF h.masked THEN Masked(data) ELSE data,
              rest |-> Drop(s, h.size + h.len)]

-----------------------------------------------------------------------------
(* What the session sends is octets 1, 2, ... of one stream. A BEEP frame  *)
(* is known by where it ends, which is all frame_boundary tells            *)
(* (FrameCodec). An outgoing buffer is the number of octets in it; a       *)
(* queued frame says which octets it carries.                              *)

Least(a, b) == IF a < b THEN a ELSE b
EndOf[i \in 0 .. Len(Frames)] == IF i = 0 THEN 0 ELSE EndOf[i - 1] + Frames[i]
Ends == {EndOf[i] : i \in DOMAIN EndOf}

(* How many times frame_boundary finds a whole frame in the n octets       *)
(* after from.                                                             *)
WholeFrames(from, n) ==
    IF from \in Ends THEN Cardinality({p \in Ends : from < p /\ p <= from + n}) ELSE 0

Masks == side = "Client"
Size(n) == 1 + Len(Length(n)) + (IF Masks THEN 1 ELSE 0) + n

(* WsStream::queue, on a record of the buffers.                            *)
Queue(b, op, carries, n) ==
    [b EXCEPT !.outbound = @ + Size(n),
              !.queued = Append(@, [op |-> op, carries |-> carries])]

(* queue for each of the m BEEP frames from b.framed on: the octets they   *)
(* take, and what the WebSocket frames carry.                              *)
SizesOf(i, m) ==
    LET size[k \in 0 .. m] == IF k = 0 THEN 0 ELSE size[k - 1] + Size(Frames[i + k])
    IN  size[m]
Carriers(i, m) ==
    [k \in 1 .. m |-> [op |-> "Binary", carries |-> <<EndOf[i + k - 1], EndOf[i + k]>>]]
QueueFrames(b, m) ==
    LET i == CHOOSE j \in DOMAIN EndOf : EndOf[j] = b.framed
    IN  IF m = 0 THEN b
        ELSE [b EXCEPT !.outbound = @ + SizesOf(i, m),
                       !.queued = @ \o Carriers(i, m),
                       !.framed = EndOf[i + m]]

(* queue_whole_frames                                                      *)
QueueWhole(b) ==
    LET c == QueueFrames(b, WholeFrames(b.framed, b.partial))
    IN  [c EXCEPT !.partial = @ - (c.framed - b.framed)]

(* The loop of poll_write over n octets: whole frames until a batch is     *)
(* full, and the beginning of one only when nothing else is left.          *)
WrongTakeFrames(b, n) ==
    [Queue(b, "Binary", <<b.framed, b.framed + n>>, n) EXCEPT !.framed = @ + n, !.took = n]
TakeFrames(b, n) ==
    LET batch == Cardinality({p \in Ends : b.framed <= p /\ p < b.framed + Batch})
        c == QueueFrames(b, Least(WholeFrames(b.framed, n), batch))
        done == c.framed - b.framed
    IN  [c EXCEPT !.partial = IF done >= Batch THEN 0 ELSE n - done,
                  !.took = IF done >= Batch THEN done ELSE n]

Buffers == [outbound |-> outbound, queued |-> queued, framed |-> framed,
            partial |-> partial, took |-> 0]

(* poll_drain: as much as the transport takes. What is written after the   *)
(* peer has gone is lost.                                                  *)
Drain(octets) ==
    LET n == IF gone THEN octets ELSE Least(octets, Room - up)
    IN  /\ outbound' = octets - n
        /\ up' = IF gone THEN up ELSE up + n

(* The buffers after a write, a flush or a control frame.                  *)
Keep(b) ==
    /\ framed' = b.framed
    /\ partial' = b.partial
    /\ queued' = b.queued
    /\ Drain(b.outbound)

-----------------------------------------------------------------------------

(* The octets of each plan, from a peer that masks and from one that does  *)
(* not.                                                                    *)
Octets == [p \in Plans |-> [masks \in BOOLEAN |->
             FlattenSeq([i \in 1 .. Len(p) |-> Encode(p[i], masks)])]]
Script == Octets[plan][~Masks]

Init ==
    /\ side \in Sides /\ plan \in Plans
    /\ produced = 0
    /\ out = 0
    /\ pump = "select"
    /\ framed = 0 /\ partial = 0 /\ outbound = 0 /\ inbound = << >> /\ payload = << >>
    /\ closing = FALSE
    /\ queued = << >>
    /\ got = << >>
    /\ up = 0 /\ down = << >>
    /\ sent = 0 /\ taken = 0
    /\ gone = FALSE

(* Session::poll_transmit: the driver collects whole BEEP frames.          *)
Produce ==
    /\ pump = "select" /\ ~closing
    /\ produced < Len(Frames)
    /\ produced' = produced + 1
    /\ out' = out + Frames[produced + 1]
    /\ UNCHANGED <<given, pump, got, sending, inbound, payload, closing, up, down, peer>>

(* poll_write while too much is waiting: only what is waiting moves.       *)
WriteBlocked ==
    /\ pump = "select"
    /\ out > 0
    /\ outbound >= HighWater
    /\ Keep(Buffers)
    /\ UNCHANGED <<given, session, inbound, payload, closing, down, peer>>

(* poll_write of the first n octets of out. The driver offers all of them; *)
(* a layer in between may cut them anywhere, and does not flush before all *)
(* have been taken.                                                        *)
WrongAfterWrite(rest) == "select"
AfterWrite(rest) == IF rest = 0 THEN "flush" ELSE "select"
Write(n) ==
    /\ pump = "select"
    /\ outbound < HighWater
    /\ \E b \in {IF partial > 0
                  THEN QueueWhole([Buffers EXCEPT !.partial = @ + n, !.took = n])
                  ELSE TakeFrames(Buffers, n)} :
         /\ Keep(b)
         /\ out' = out - b.took
         /\ pump' = AfterWrite(out - b.took)
    /\ UNCHANGED <<given, produced, got, inbound, payload, closing, down, peer>>

(* A write to a peer that has gone may also fail.                          *)
WriteFails ==
    /\ pump \in {"select", "flush"}
    /\ gone
    /\ out > 0 \/ outbound > 0
    /\ pump' = "ended"
    /\ UNCHANGED <<given, produced, out, got, sending, inbound, payload, closing, up,
                   down, peer>>

FlushPartial(b) ==
    LET c == QueueWhole(b)
    IN  IF c.partial = 0 THEN c
        ELSE [Queue(c, "Binary", <<c.framed, c.framed + c.partial>>, c.partial) EXCEPT
                !.framed = @ + c.partial, !.partial = 0]

(* poll_flush: the driver waits in it until all is out.                    *)
Flush ==
    /\ pump = "flush"
    /\ \E b \in {FlushPartial(Buffers)} : Keep(b)
    /\ pump' = IF outbound' = 0 THEN "select" ELSE "flush"
    /\ UNCHANGED <<given, produced, out, got, inbound, payload, closing, down, peer>>

(* The two octets of 1000, which every Close from here carries.            *)
CloseCode == <<3, 232>>

(* poll_shutdown by an owner who has nothing more to write and goes on     *)
(* reading: it waits like a flush.                                         *)
Shutdown ==
    /\ pump = "select"
    /\ out = 0
    /\ ~closing
    /\ closing' = TRUE
    /\ \E b \in {Queue(FlushPartial(Buffers), "Close", CloseCode, 2)} : Keep(b)
    /\ pump' = IF outbound' = 0 THEN "select" ELSE "flush"
    /\ UNCHANGED <<given, produced, out, got, inbound, payload, down, peer>>

-----------------------------------------------------------------------------
(* poll_read, a turn of its loop at a time, with what the decoder says of  *)
(* inbound. The driver may write between two turns here; in the code it    *)
(* does so only when the read has to wait.                                 *)

HandUp ==
    /\ pump = "select"
    /\ payload # << >>
    /\ got' = got \o payload
    /\ payload' = << >>
    /\ UNCHANGED <<given, produced, out, pump, sending, inbound, closing, up, down, peer>>

Turn(event, kinds) ==
    /\ pump = "select"
    /\ payload = << >>
    /\ event.kind \in kinds
    /\ UNCHANGED <<given, produced, out, got, peer>>

Data(event) ==
    /\ Turn(event, OpCodes \ Control)
    /\ inbound' = event.rest
    /\ payload' = event.payload
    /\ UNCHANGED <<pump, sending, closing, up, down>>

(* Answered here; what the transport does not take waits in outbound.      *)
Ping(event) ==
    /\ Turn(event, {"Ping"})
    /\ inbound' = event.rest
    /\ Keep(Queue(Buffers, "Pong", event.payload, Len(event.payload)))
    /\ UNCHANGED <<pump, payload, closing, down>>

Pong(event) ==
    /\ Turn(event, {"Pong"})
    /\ inbound' = event.rest
    /\ UNCHANGED <<pump, payload, sending, closing, up, down>>

(* finished is set, and with nothing left to hand up the read reports the  *)
(* end: the driver stops.                                                  *)
Close(event) ==
    /\ Turn(event, {"Close"})
    /\ inbound' = event.rest
    /\ pump' = "ended"
    /\ closing' = TRUE
    /\ IF closing THEN UNCHANGED <<sending, up>>
                  ELSE Keep(Queue(Buffers, "Close", CloseCode, 2))
    /\ UNCHANGED <<payload, down>>

(* An error of the decoder is an error of the read, which ends the driver. *)
ReadFails(event) ==
    /\ Turn(event, {"error"})
    /\ pump' = "ended"
    /\ UNCHANGED <<inbound, payload, sending, closing, up, down>>

(* The transport hands over some of what has arrived.                      *)
Receive(event, n) ==
    /\ Turn(event, {"none"})
    /\ inbound' = inbound \o SubSeq(down, 1, n)
    /\ down' = Drop(down, n)
    /\ UNCHANGED <<pump, payload, sending, closing, up>>

EndOfFile(event) ==
    /\ Turn(event, {"none"})
    /\ gone /\ down = << >>
    /\ pump' = "ended"
    /\ UNCHANGED <<inbound, payload, sending, closing, up, down>>

-----------------------------------------------------------------------------
(* The peer: sends its frames as the transport takes them, reads, and may  *)
(* end the transport at any time.                                          *)

PeerSends ==
    \E n \in {Least(Len(Script) - sent, Room - Len(down))} :
        /\ ~gone
        /\ n > 0
        /\ down' = down \o SubSeq(Script, sent + 1, sent + n)
        /\ sent' = sent + n
        /\ UNCHANGED <<given, session, sending, inbound, payload, closing, up, taken, gone>>

PeerReads ==
    /\ ~gone
    /\ up > 0
    /\ up' = 0
    /\ taken' = taken + up
    /\ UNCHANGED <<given, session, sending, inbound, payload, closing, down, sent, gone>>

PeerGoes ==
    /\ ~gone
    /\ gone' = TRUE
    /\ UNCHANGED <<given, session, sending, inbound, payload, closing, up, down, taken, sent>>

Writing == (\E n \in 1 .. out : Write(n)) \/ WriteBlocked \/ WriteFails \/ Flush
Reading ==
    \/ HandUp
    \/ \E event \in {Poll(inbound)} :
         \/ Data(event) \/ Ping(event) \/ Pong(event) \/ Close(event)
         \/ ReadFails(event) \/ EndOfFile(event)
         \/ \E n \in 1 .. Len(down) : Receive(event, n)
Next == Produce \/ Writing \/ Reading \/ Shutdown \/ PeerSends \/ PeerReads \/ PeerGoes

(* The driver is a task that its transport wakes; the peer goes on sending *)
(* and reading until it ends the transport. Nobody has to produce a frame. *)
Fairness ==
    WF_vars(Writing) /\ WF_vars(Reading) /\ WF_vars(PeerSends) /\ WF_vars(PeerReads)
Spec == Init /\ [][Next]_vars /\ Fairness

-----------------------------------------------------------------------------
(* Properties.                                                             *)

SizeOf(f) ==
    Size(IF f.op = "Binary" THEN f.carries[2] - f.carries[1] ELSE Len(f.carries))
OctetsUpTo(k) ==
    LET sum[i \in 0 .. k] == IF i = 0 THEN 0 ELSE sum[i - 1] + SizeOf(queued[i])
    IN  sum[k]

(* A queued frame: which octets of the session, or what a control frame    *)
(* carries.                                                                *)
Queued ==
    [op : {"Binary"}, carries : Nat \X Nat]
    \cup [op : {"Pong", "Close"}, carries : Seq(Nat)]

(* The parts are of their types, and inbound, which a read extends only    *)
(* while it holds no whole frame, never outgrows one header, MAX_PAYLOAD   *)
(* and a read, whatever length a peer announces.                           *)
TypeOK ==
    /\ side \in Sides /\ plan \in Plans
    /\ produced \in 0 .. Len(Frames)
    /\ {out, partial, outbound, framed, up, taken} \subseteq Nat
    /\ pump \in {"select", "flush", "ended"}
    /\ {inbound, payload, got, down} \subseteq Seq(Nat)
    /\ queued \in Seq(Queued)
    /\ closing \in BOOLEAN /\ gone \in BOOLEAN
    /\ sent \in 0 .. Len(Script)
    /\ up <= Room /\ Len(down) <= Room
    /\ Len(inbound) <= 4 + MaxPayload + Room

(* The data in a frame of the peer; in its frames up to the first Close.   *)
DataOf(f) == IF f.op \in Control THEN << >> ELSE f.payload
Firsts == LET c == SelectInSeq(plan, LAMBDA f : f.op = "Close")
          IN  IF c = 0 THEN plan ELSE SubSeq(plan, 1, c)
Expected == FlattenSeq([i \in 1 .. Len(Firsts) |-> DataOf(Firsts[i])])

(* The session reads the data the peer sent, in order and unmasked, with   *)
(* the frame boundaries gone and no control frame in between, however the  *)
(* octets of headers and payloads are cut on their way.                    *)
ReadInOrder == IsPrefix(got \o payload, Expected)

(* The rule LibVortex depends on: every WebSocket frame that carries data  *)
(* holds exactly one BEEP frame, and none is lost, cut or sent twice while *)
(* frames are batched, held back or waiting for room.                      *)
Nth(k) == Cardinality({j \in 1 .. k : queued[j].op = "Binary"})
OneFrameEach ==
    /\ Nth(Len(queued)) <= produced
    /\ \A k \in 1 .. Len(queued) : queued[k].op = "Binary" =>
         queued[k].carries = <<EndOf[Nth(k) - 1], EndOf[Nth(k)]>>
    /\ EndOf[Nth(Len(queued))] = framed
    /\ framed + partial + out = EndOf[produced]

(* What the session has produced reaches the peer, unless the session or   *)
(* the peer ends: the last frame is not kept back in a buffer.             *)
AllTaken ==
    LET n == SelectLastInSeq(queued, LAMBDA f : f.op = "Binary")
    IN  /\ out = 0 /\ partial = 0
        /\ OctetsUpTo(n) <= taken
Delivered == []<>(pump = "ended" \/ gone \/ AllTaken)

-----------------------------------------------------------------------------
(* The inductive invariant behind the safety properties.                   *)

(* What the first k frames of the peer are on the wire, and their data.    *)
OnWire(k) == FlattenSeq([i \in 1 .. k |-> Encode(plan[i], ~Masks)])
Heard(k) == FlattenSeq([i \in 1 .. k |-> DataOf(plan[i])])

(* The decoder is always between two frames of the peer: the session has   *)
(* the data of the first k, and the others are all there, in pieces.       *)
Between(k) ==
    /\ got \o payload = Heard(k)
    /\ \A i \in 1 .. k - 1 : plan[i].op # "Close"
    /\ pump # "ended" =>
         /\ \A i \in 1 .. k : plan[i].op # "Close"
         /\ OnWire(k) \o (inbound \o (down \o Drop(Script, sent))) = Script

(* The types, the order of what is written, a flush that follows all that  *)
(* was to be written, and the place of the decoder.                        *)
WsInv ==
    /\ TypeOK /\ OneFrameEach
    /\ pump = "flush" => out = 0
    /\ \E k \in 0 .. Len(plan) : Between(k)
=============================================================================

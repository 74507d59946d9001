---------------------------- MODULE FlowControl ----------------------------
(***************************************************************************)
(* One direction of one BEEP channel: the sending half of a Channel and    *)
(* its queue in one Session, the receiving half in the peer's Session, and *)
(* the transport that carries data frames one way and SEQ frames the other *)
(* (vortice-proto/src/session.rs, channel.rs, window.rs).                  *)
(*                                                                         *)
(* A payload is abstracted to the octets it stands for: octets from+1 ..   *)
(* from+len of the payload of the msg-th message given to Session::send.   *)
(* A header hdr stands for the triple (kind, msgno, ansno) of a frame.     *)
(***************************************************************************)
EXTENDS Window, Sequences

CONSTANTS
    InitialWindow,   \* INITIAL_WINDOW_SIZE
    WindowSize,      \* Config::window_size of the receiving session
    MaxFrameSize,    \* Config::max_frame_size of the sending session, clamped
    ChannelZero,     \* TRUE in it: channel 0; FALSE in it: an ordinary channel
    Messages,        \* the messages [hdr, len] the application may send
    MaxMessages,     \* bound: messages submitted in a behaviour
    ResizeSizes,     \* sizes the receiving application may set
    MayShrink,       \* whether it also sets sizes below the current one
    MaxResizes,      \* bound: calls of set_window_size in a behaviour
    NoPartial        \* no message is being reassembled

(* Window sizes are those a SEQ can carry; the proofs use no tighter bound *)
(* on them than that they are sequence numbers.                            *)
ASSUME FlowAssumption ==
    /\ InitialWindow \in 2 .. M-1
    /\ WindowSize \in 0 .. M-1
    /\ MaxFrameSize \in Nat \ {0}
    /\ ChannelZero \subseteq BOOLEAN
    /\ \A m \in Messages : m = [hdr |-> m.hdr, len |-> m.len] /\ m.len \in Nat
    /\ MaxMessages \in Nat
    /\ ResizeSizes \subseteq 0 .. M-1
    /\ MayShrink \in BOOLEAN
    /\ MaxResizes \in Nat

Headers == {m.hdr : m \in Messages}
NoError == "none"
Errors == {"UnexpectedSeqNo", "OutsideWindow", "InterleavedFragment"}

(* Octets from+1 .. from+len of the payload of message number msg.         *)
Payloads == [msg : Nat, from : Nat, len : Nat]
Octets(msg, from, len) == [msg |-> msg, from |-> from, len |-> len]
(* A frame, and a message under reassembly: a header and some payload.     *)
Frames == [hdr : Headers, payload : Payloads, more : BOOLEAN, seqno : SeqNo]
Partials == [hdr : Headers, payload : Payloads]
SeqFrames == [ackno : SeqNo, window : SeqNo]
(* Octets that are not one run of one payload.                             *)
Garbled == Octets(0, 0, 0)

ASSUME NoPartialAssumption == NoPartial \notin Partials

VARIABLES
    submitted,     \* history: the messages given to send, in order
    queue,         \* Session.queues[channel]: payload not yet in a frame
    flushing,      \* Session::flush is running in the sending session
    send_window,   \* Channel.send_window
    next_seqno,    \* Channel.next_seqno
    wire,          \* data frames in outbound and in the transport
    seqs,          \* SEQ frames on their way back
    recv_window,   \* Channel.recv_window of the receiver
    expected_seqno,\* Channel.expected_seqno
    unacked,       \* Session.unacked[channel]
    partial,       \* Channel.partial
    delivered,     \* history: MessageReceived events, in order
    error,         \* the error that ended the receiving session
    resizes        \* how often set_window_size has been called

senderVars == <<submitted, queue, flushing, send_window, next_seqno>>
receiverVars == <<recv_window, expected_seqno, unacked, partial, delivered,
                  error, resizes>>
vars == <<senderVars, wire, seqs, receiverVars>>

-----------------------------------------------------------------------------
(* The SEQ frame that advertises a receive window.                         *)
WrongToSeqFrame(w) ==
    [ackno |-> w.base, window |-> Remaining(w, expected_seqno)]
ToSeqFrame(w) == [ackno |-> w.base, window |-> w.size]

(* Both halves as Channel::with_window_size makes them. Channel 0 also     *)
(* says at once what it offers, when that is more than the initial window; *)
(* set_window_size does not reach it, so its resizes count as used up.     *)
Init ==
    /\ submitted = << >>
    /\ queue = << >>
    /\ flushing = FALSE
    /\ send_window = NewWindow(0, InitialWindow)
    /\ next_seqno = 0
    /\ wire = << >>
    /\ recv_window = NewWindow(0, WindowSize)
    /\ expected_seqno = 0
    /\ \E zero \in ChannelZero :
         seqs = IF zero /\ WindowSize > InitialWindow
                  THEN <<ToSeqFrame(NewWindow(0, WindowSize))>>
                  ELSE << >>
    /\ resizes = 0
    /\ unacked = 0
    /\ partial = NoPartial
    /\ delivered = << >>
    /\ error = NoError

-----------------------------------------------------------------------------
(* The sending session.                                                    *)

Writable == Remaining(send_window, next_seqno)

(* Session::send of a message whose turn it is: enqueue, then flush.       *)
Send ==
    /\ ~flushing
    /\ Len(submitted) < MaxMessages
    /\ \E m \in Messages :
         /\ submitted' = Append(submitted, m)
         /\ queue' = Append(queue, Octets(Len(submitted) + 1, 0, m.len))
    /\ flushing' = TRUE
    /\ UNCHANGED <<send_window, next_seqno, wire, seqs, receiverVars>>

(* Session::flush stops when the queue is empty, or when its front has     *)
(* payload and the channel is stalled.                                     *)
FlushBlocked == queue # << >> => (Writable = 0 /\ Head(queue).len > 0)

FlushDone ==
    /\ flushing
    /\ FlushBlocked
    /\ flushing' = FALSE
    /\ UNCHANGED <<submitted, queue, send_window, next_seqno, wire, seqs,
                   receiverVars>>

(* What Channel::emit puts into the next frame: no more than the window,   *)
(* the frame size limit, or the payload that is left.                      *)
Smaller(a, b) == IF a <= b THEN a ELSE b
Take(front) == Smaller(Smaller(front.len, Writable), MaxFrameSize)

(* Bytes::split_to and Bytes::split_off.                                   *)
SplitTo(p, octets) == Octets(p.msg, p.from, octets)
SplitOff(p, octets) == Octets(p.msg, p.from + octets, p.len - octets)

(* more looks only at what this flush still sends; the whole payload is    *)
(* charged to the first frame.                                             *)
WrongFlushFrameMore ==
    /\ flushing
    /\ ~FlushBlocked
    /\ LET front == Head(queue)
           take == Take(front)
           left == front.len - take
       IN  /\ wire' = Append(wire,
                        [hdr |-> submitted[front.msg].hdr,
                         payload |-> SplitTo(front, take),
                         more |-> left > 0 /\ Writable > take,
                         seqno |-> next_seqno])
           /\ queue' = IF left = 0
                         THEN Tail(queue)
                         ELSE [queue EXCEPT ![1] = SplitOff(front, take)]
           /\ next_seqno' = Advance(next_seqno, take)
    /\ UNCHANGED <<submitted, flushing, send_window, seqs, receiverVars>>

WrongFlushFrameSeqNo ==
    /\ flushing
    /\ ~FlushBlocked
    /\ LET front == Head(queue)
           take == Take(front)
           left == front.len - take
       IN  /\ wire' = Append(wire,
                        [hdr |-> submitted[front.msg].hdr,
                         payload |-> SplitTo(front, take),
                         more |-> left > 0,
                         seqno |-> next_seqno])
           /\ queue' = IF left = 0
                         THEN Tail(queue)
                         ELSE [queue EXCEPT ![1] = SplitOff(front, take)]
           /\ next_seqno' = Advance(next_seqno, front.len)
    /\ UNCHANGED <<submitted, flushing, send_window, seqs, receiverVars>>

(* One turn of the loop in Channel::emit and Channel::build: the front of  *)
(* the queue gives up one frame. The frame says more when any payload of   *)
(* its message is left, whether this flush still sends it or not.          *)
FlushFrame ==
    /\ flushing
    /\ ~FlushBlocked
    /\ LET front == Head(queue)
           take == Take(front)
           left == front.len - take
       IN  /\ wire' = Append(wire,
                        [hdr |-> submitted[front.msg].hdr,
                         payload |-> SplitTo(front, take),
                         more |-> left > 0,
                         seqno |-> next_seqno])
           /\ queue' = IF left = 0
                         THEN Tail(queue)
                         ELSE [queue EXCEPT ![1] = SplitOff(front, take)]
           /\ next_seqno' = Advance(next_seqno, take)
    /\ UNCHANGED <<submitted, flushing, send_window, seqs, receiverVars>>

(* Session::handle_seq: apply_seq, then flush.                             *)
HandleSeq ==
    /\ ~flushing
    /\ seqs # << >>
    /\ send_window' = Updated(send_window, Head(seqs).ackno, Head(seqs).window)
    /\ seqs' = Tail(seqs)
    /\ flushing' = TRUE
    /\ UNCHANGED <<submitted, queue, next_seqno, wire, receiverVars>>

-----------------------------------------------------------------------------
(* The receiving session.                                                  *)

(* The two guards at the top of Channel::accept, then Partial::matches.    *)
AcceptError(f) ==
    IF f.seqno # expected_seqno THEN "UnexpectedSeqNo"
    ELSE IF ~Accepts(recv_window, f.seqno, f.payload.len) THEN "OutsideWindow"
    ELSE IF partial # NoPartial /\ partial.hdr # f.hdr
         THEN "InterleavedFragment"
    ELSE NoError

(* extend_from_slice on the payload under reassembly.                      *)
Extend(p, q) ==
    IF p # Garbled /\ q.msg = p.msg /\ q.from = p.from + p.len
      THEN Octets(p.msg, p.from, p.len + q.len)
      ELSE Garbled

WrongJoined(f) == [hdr |-> f.hdr, payload |-> f.payload]
Joined(f) ==
    [hdr |-> f.hdr,
     payload |-> IF partial = NoPartial THEN f.payload
                 ELSE Extend(partial.payload, f.payload)]

(* Half of the offered window, and at least 1, and at most half of what    *)
(* the peer may assume before it has been told anything.                   *)
WrongThreshold ==
    LET half == recv_window.size \div 2 IN IF half < 1 THEN 1 ELSE half
Threshold ==
    LET half == recv_window.size \div 2
        cap == InitialWindow \div 2
    IN  IF half < 1 THEN 1 ELSE IF half > cap THEN cap ELSE half

(* The octets stay charged after they have been acknowledged.             *)
WrongAcknowledge(octets) ==
    LET pending == unacked + octets
        consumed == Consumed(recv_window, pending)
    IN  IF pending >= Threshold
          THEN /\ recv_window' = consumed
               /\ unacked' = pending
               /\ seqs' = Append(seqs, ToSeqFrame(consumed))
          ELSE /\ unacked' = pending
               /\ UNCHANGED <<recv_window, seqs>>

(* Session::acknowledge: charge the octets, and reopen the window with a   *)
(* SEQ once enough have been charged.                                      *)
Acknowledge(octets) ==
    LET pending == unacked + octets
        consumed == Consumed(recv_window, pending)
    IN  IF pending >= Threshold
          THEN /\ recv_window' = consumed
               /\ unacked' = 0
               /\ seqs' = Append(seqs, ToSeqFrame(consumed))
          ELSE /\ unacked' = pending
               /\ UNCHANGED <<recv_window, seqs>>

(* Session::handle_data for a frame that Channel::accept takes.            *)
HandleData ==
    /\ error = NoError
    /\ wire # << >>
    /\ LET f == Head(wire)
       IN  /\ AcceptError(f) = NoError
           /\ expected_seqno' = Advance(f.seqno, f.payload.len)
           /\ IF f.more
                THEN partial' = Joined(f) /\ UNCHANGED delivered
                ELSE /\ partial' = NoPartial
                     /\ delivered' = Append(delivered, Joined(f))
           /\ Acknowledge(f.payload.len)
    /\ wire' = Tail(wire)
    /\ UNCHANGED <<senderVars, error, resizes>>

(* Any error of accept is fatal for the session.                           *)
RejectData ==
    /\ error = NoError
    /\ wire # << >>
    /\ AcceptError(Head(wire)) # NoError
    /\ error' = AcceptError(Head(wire))
    /\ wire' = Tail(wire)
    /\ UNCHANGED <<senderVars, seqs, recv_window, expected_seqno, unacked,
                   partial, delivered, resizes>>

(* Session::set_window_size, called by the receiving application. Nothing  *)
(* is sent: the peer learns the size from the next acknowledgement.        *)
SetWindowSize ==
    /\ error = NoError
    /\ resizes < MaxResizes
    /\ \E size \in ResizeSizes :
         /\ MayShrink \/ size >= recv_window.size
         /\ recv_window' = Resized(recv_window, size)
    /\ resizes' = resizes + 1
    /\ UNCHANGED <<senderVars, wire, seqs, expected_seqno, unacked, partial,
                   delivered, error>>

-----------------------------------------------------------------------------
Next == \/ Send \/ FlushFrame \/ FlushDone \/ HandleSeq
        \/ HandleData \/ RejectData \/ SetWindowSize

(* Both drivers keep reading their transport and a handler runs to its     *)
(* end; nothing obliges an application to send or to resize.               *)
Fairness ==
    /\ WF_vars(FlushFrame)
    /\ WF_vars(FlushDone)
    /\ WF_vars(HandleSeq)
    /\ WF_vars(HandleData)
    /\ WF_vars(RejectData)

Safety == Init /\ [][Next]_vars
Spec == Safety /\ Fairness

-----------------------------------------------------------------------------
(* Counters are u32, windows fit a SEQ, and the queues hold what they      *)
(* should.                                                                 *)
TypeOK ==
    /\ submitted \in Seq(Messages)
    /\ queue \in Seq(Payloads)
    /\ flushing \in BOOLEAN
    /\ send_window \in Windows
    /\ next_seqno \in SeqNo
    /\ wire \in Seq(Frames)
    /\ seqs \in Seq(SeqFrames)
    /\ recv_window \in Windows
    /\ expected_seqno \in SeqNo
    /\ unacked \in Nat
    /\ partial \in Partials \cup {NoPartial}
    /\ delivered \in Seq(Partials)
    /\ error \in Errors \cup {NoError}
    /\ resizes \in Nat

(* No frame the sending session builds is refused by the receiving one:    *)
(* every check of Channel::accept passes, across the wrap too.             *)
NeverRefused == error = NoError

(* Whatever windows the receiver sets, small or shrinking, the only thing  *)
(* it can hold against a frame is its size: numbering and fragments of a   *)
(* Vortice sender are always in order.                                     *)
OnlyWindowRefusals == error \in {NoError, "OutsideWindow"}

(* What the sender believes it may still write (Channel::writable) always  *)
(* fits in what the receiver would take now (Window::accepts), however     *)
(* many SEQ frames are still on their way.                                 *)
OfferCoversSender == Accepts(recv_window, next_seqno, Writable)

(* A sender that has stopped with payload queued is never left alone: a    *)
(* frame on the wire or a SEQ on its way back will wake it. This is what   *)
(* the threshold of Session::acknowledge is for.                           *)
StallIsTemporary ==
    (error = NoError /\ queue # << >> /\ ~flushing)
        => (wire # << >> \/ seqs # << >>)

(* The i-th message delivered is the i-th message submitted, whole: its    *)
(* header, and exactly the octets of its payload.                          *)
DeliveredInOrder ==
    /\ Len(delivered) <= Len(submitted)
    /\ \A i \in 1 .. Len(delivered) :
         delivered[i] = [hdr |-> submitted[i].hdr,
                         payload |-> Octets(i, 0, submitted[i].len)]

(* A SEQ never takes back octets an earlier one offered: the limit of the  *)
(* window the sender works with (Window::limit) never moves backwards.     *)
OfferNeverWithdrawn ==
    [][DistanceFrom(send_window'.base, send_window.base) + send_window'.size
         >= send_window.size]_vars

(* The messages as MessageStream speaks of them.                           *)
DeliveredMessages ==
    [i \in 1 .. Len(delivered) |->
        [hdr |-> delivered[i].hdr,
         len |-> IF delivered[i].payload.msg = i
                   THEN delivered[i].payload.len ELSE -1]]

Stream == INSTANCE MessageStream WITH delivered <- DeliveredMessages

(* The channel is a reliable FIFO of whole messages: what is sent comes    *)
(* out in order, and all of it does come out.                              *)
ImplementsStream == Stream!Spec

-----------------------------------------------------------------------------
(* The strengthenings behind the theorems of FlowControlProofs.            *)

(* Where the i-th frame on the wire starts: in the stream of messages, and *)
(* in the numbering of octets. Past the last frame it is where the sender  *)
(* continues.                                                              *)
Cursor(msg, from) == [msg |-> msg, from |-> from]
FrameCursor(i) ==
    IF i <= Len(wire) THEN Cursor(wire[i].payload.msg, wire[i].payload.from)
    ELSE IF queue # << >> THEN Cursor(queue[1].msg, queue[1].from)
    ELSE Cursor(Len(submitted) + 1, 0)
FrameSeqNo(i) == IF i <= Len(wire) THEN wire[i].seqno ELSE next_seqno

AfterFrame(f) ==
    IF f.more THEN Cursor(f.payload.msg, f.payload.from + f.payload.len)
    ELSE Cursor(f.payload.msg + 1, 0)

QueueInOrder ==
    /\ Len(queue) <= Len(submitted)
    /\ \A j \in 1 .. Len(queue) :
         /\ queue[j].msg = Len(submitted) - Len(queue) + j
         /\ queue[j].from + queue[j].len = submitted[queue[j].msg].len
         /\ j > 1 => queue[j].from = 0

WireInOrder ==
    \A i \in 1 .. Len(wire) :
        LET p == wire[i].payload
        IN  /\ p.msg \in 1 .. Len(submitted)
            /\ wire[i].hdr = submitted[p.msg].hdr
            /\ p.from + p.len <= submitted[p.msg].len
            /\ wire[i].more <=> p.from + p.len < submitted[p.msg].len
            /\ AfterFrame(wire[i]) = FrameCursor(i + 1)

ReceiverInOrder ==
    IF partial = NoPartial
      THEN FrameCursor(1) = Cursor(Len(delivered) + 1, 0)
      ELSE LET m == Len(delivered) + 1
           IN  /\ m <= Len(submitted)
               /\ partial.hdr = submitted[m].hdr
               /\ partial.payload.msg = m
               /\ partial.payload.from = 0
               /\ FrameCursor(1) = Cursor(m, partial.payload.len)

(* Delivered messages, the one under reassembly, the frames on the wire    *)
(* and the queue follow one another without a gap and without overlap.     *)
OrderInv ==
    /\ QueueInOrder
    /\ DeliveredInOrder
    /\ error = NoError => WireInOrder /\ ReceiverInOrder

(* Each frame on the wire starts at the number where the one before it     *)
(* ends, the first at the one the receiver expects, wrap or no wrap.       *)
NumberingInv ==
    /\ OnlyWindowRefusals
    /\ error = NoError =>
         /\ expected_seqno = FrameSeqNo(1)
         /\ \A i \in 1 .. Len(wire) :
              Advance(wire[i].seqno, wire[i].payload.len) = FrameSeqNo(i + 1)

(* Octets past the base of the send window: the coordinate in which        *)
(* everything between the two ends is in plain order, wrap or no wrap.     *)
Position(s) == DistanceFrom(s, send_window.base)

AcksInOrder ==
    /\ recv_window.base = IF seqs = << >> THEN send_window.base
                          ELSE seqs[Len(seqs)].ackno
    /\ \A i \in 1 .. Len(seqs) :
         /\ seqs[i].window >= InitialWindow
         /\ Position(seqs[i].ackno) <= Position(recv_window.base)
         /\ Position(seqs[i].ackno) + seqs[i].window >= send_window.size
         /\ Position(seqs[i].ackno) + seqs[i].window
              <= Position(recv_window.base) + recv_window.size
    /\ \A i, j \in 1 .. Len(seqs) : i < j =>
         /\ Position(seqs[i].ackno) <= Position(seqs[j].ackno)
         /\ Position(seqs[i].ackno) + seqs[i].window
              <= Position(seqs[j].ackno) + seqs[j].window

OctetsInOrder ==
    /\ Position(recv_window.base) + unacked = Position(expected_seqno)
    /\ Position(expected_seqno) <= Position(next_seqno)
    /\ Position(next_seqno) <= send_window.size
    /\ expected_seqno = FrameSeqNo(1)
    /\ \A i \in 1 .. Len(wire) :
         /\ Position(expected_seqno) <= Position(wire[i].seqno)
         /\ Position(wire[i].seqno) + wire[i].payload.len <= Position(next_seqno)
         /\ Position(wire[i].seqno) + wire[i].payload.len
              = Position(FrameSeqNo(i + 1))
    /\ \A i, j \in 1 .. Len(wire) : i < j =>
         Position(wire[i].seqno) + wire[i].payload.len
           <= Position(wire[j].seqno)

(* The receiver never offers less than the peer may assume: a window of at *)
(* least the initial size that is only ever enlarged.                      *)
SafeOffer == WindowSize >= InitialWindow /\ ~MayShrink

(* Neither end is ahead of the other: acknowledged, received, in flight    *)
(* and writable octets stand in this order between the two windows, and    *)
(* the receiver has never kept half an initial window to itself.           *)
WindowInv ==
    /\ error = NoError
    /\ send_window.size >= InitialWindow
    /\ recv_window.size >= InitialWindow
    /\ send_window.size <= Position(recv_window.base) + recv_window.size
    /\ AcksInOrder
    /\ OctetsInOrder
    /\ unacked < Threshold
    /\ ~flushing => FlushBlocked
=============================================================================

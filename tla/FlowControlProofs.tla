------------------------- MODULE FlowControlProofs -------------------------
(***************************************************************************)
(* Proofs about FlowControl for every modulus, window, frame size and set  *)
(* of messages. WindowInv and OrderInv, defined there, are the inductive   *)
(* invariants.                                                             *)
(***************************************************************************)
EXTENDS FlowControl, SequenceTheorems, TLAPS

-----------------------------------------------------------------------------
(* Modular arithmetic: within one turn of the counter, Advance and         *)
(* DistanceFrom are addition and subtraction with at most one correction.  *)

(* A number below twice the modulus wraps at most once.                    *)
LEMMA ModOnce ==
    ASSUME NEW a \in 0 .. 2*M - 1
    PROVE  a % M = IF a < M THEN a ELSE a - M
  BY ModulusAssumption

(* A small negative difference wraps upwards once.                         *)
LEMMA ModNegative ==
    ASSUME NEW a \in -M .. -1
    PROVE  a % M = a + M
  BY ModulusAssumption

(* SeqNo::advance by at most one turn.                                     *)
LEMMA AdvanceLinear ==
    ASSUME NEW s \in SeqNo, NEW n \in 0 .. M
    PROVE  Advance(s, n) = IF s + n < M THEN s + n ELSE s + n - M
  BY ModOnce, ModulusAssumption DEF Advance, SeqNo

(* SeqNo::distance_from.                                                   *)
LEMMA DistanceLinear ==
    ASSUME NEW s \in SeqNo, NEW b \in SeqNo
    PROVE  DistanceFrom(s, b) = IF s >= b THEN s - b ELSE s - b + M
  BY ModOnce, ModNegative, ModulusAssumption DEF DistanceFrom, SeqNo

(* Both stay in the range of a u32, for any number of octets.              *)
LEMMA SeqNoClosed ==
    /\ \A s \in SeqNo : \A n \in Nat : Advance(s, n) \in SeqNo
    /\ \A s, b \in SeqNo : DistanceFrom(s, b) \in SeqNo
  <1>1. \A a \in Int : a % M \in SeqNo
    BY ModulusAssumption DEF SeqNo
  <1> QED
    BY <1>1, ModulusAssumption DEF Advance, DistanceFrom, SeqNo

(* Measured from any base, advancing adds, as long as it stays within one  *)
(* turn of that base.                                                      *)
LEMMA DistanceAdvance ==
    ASSUME NEW s \in SeqNo, NEW b \in SeqNo, NEW n \in Nat,
           DistanceFrom(s, b) + n < M
    PROVE  DistanceFrom(Advance(s, n), b) = DistanceFrom(s, b) + n
  <1>1. n \in 0 .. M
    BY SeqNoClosed, ModulusAssumption DEF SeqNo
  <1>2. Advance(s, n) \in SeqNo
    BY SeqNoClosed
  <1>3. Advance(s, n) = IF s + n < M THEN s + n ELSE s + n - M
    BY <1>1, AdvanceLinear
  <1>4. DistanceFrom(s, b) = IF s >= b THEN s - b ELSE s - b + M
    BY DistanceLinear
  <1>5. DistanceFrom(Advance(s, n), b)
          = IF Advance(s, n) >= b THEN Advance(s, n) - b
            ELSE Advance(s, n) - b + M
    BY <1>2, DistanceLinear
  <1> QED
    BY <1>1, <1>2, <1>3, <1>4, <1>5, ModulusAssumption DEF SeqNo

(* Moving the base forward shortens every distance that reaches past it by *)
(* the same amount.                                                        *)
LEMMA DistanceRebase ==
    ASSUME NEW s \in SeqNo, NEW b \in SeqNo, NEW c \in SeqNo,
           DistanceFrom(c, b) <= DistanceFrom(s, b)
    PROVE  DistanceFrom(s, c) = DistanceFrom(s, b) - DistanceFrom(c, b)
  BY DistanceLinear, ModulusAssumption DEF SeqNo

(* Two numbers at the same distance are the same number.                   *)
LEMMA DistanceInjective ==
    ASSUME NEW s \in SeqNo, NEW t \in SeqNo, NEW b \in SeqNo,
           DistanceFrom(s, b) = DistanceFrom(t, b)
    PROVE  s = t
  BY DistanceLinear, ModulusAssumption DEF SeqNo

(* A base is at no distance from itself.                                   *)
LEMMA DistanceSelf ==
    ASSUME NEW b \in SeqNo
    PROVE  DistanceFrom(b, b) = 0
  BY DistanceLinear, ModulusAssumption DEF SeqNo

-----------------------------------------------------------------------------
(* Facts about the operators of FlowControl.                               *)

(* Channel::writable is a number of octets, what is left of the window.    *)
LEMMA WritableType ==
    ASSUME TypeOK
    PROVE  /\ Writable \in Nat
           /\ Writable <= send_window.size
           /\ Position(next_seqno) <= send_window.size =>
                Writable = send_window.size - Position(next_seqno)
  <1>1. /\ next_seqno \in SeqNo
        /\ send_window.base \in SeqNo
        /\ send_window.size \in 0 .. M-1
    BY DEF TypeOK, Windows, SeqNo
  <1>2. DistanceFrom(next_seqno, send_window.base) \in 0 .. M-1
    BY <1>1, SeqNoClosed DEF SeqNo
  <1> QED
    BY <1>1, <1>2, ModulusAssumption DEF Writable, Remaining, Position

(* A frame takes no more than the payload, the window and the limit.       *)
LEMMA TakeType ==
    ASSUME TypeOK, NEW p \in Payloads
    PROVE  /\ Take(p) \in 0 .. p.len
           /\ Take(p) <= Writable
           /\ Take(p) < M
           /\ (p.len > 0 /\ Writable > 0) => Take(p) > 0
  <1>1. p.len \in Nat
    BY DEF Payloads
  <1>2. send_window.size \in 0 .. M-1
    BY DEF TypeOK, Windows, SeqNo
  <1>3. Writable \in Nat /\ Writable < M
    BY <1>2, WritableType, ModulusAssumption
  <1>4. MaxFrameSize \in Nat \ {0}
    BY FlowAssumption
  <1> QED
    BY <1>1, <1>3, <1>4, ModulusAssumption DEF Take, Smaller

(* Acknowledgements are due after 1 octet at the earliest, and after half  *)
(* an initial window at the latest.                                        *)
LEMMA ThresholdType ==
    ASSUME TypeOK
    PROVE  /\ Threshold \in 1 .. InitialWindow - 1
           /\ Threshold <= InitialWindow \div 2
  <1>1. recv_window.size \in Nat
    BY ModulusAssumption DEF TypeOK, Windows, SeqNo
  <1>2. InitialWindow \in Nat /\ InitialWindow >= 2
    BY FlowAssumption, ModulusAssumption
  <1> QED
    BY <1>1, <1>2 DEF Threshold

-----------------------------------------------------------------------------
(* Type correctness. A frame takes its header from the message its queue   *)
(* entry belongs to, so the order of the queue goes with the types.        *)

TypeInv == TypeOK /\ QueueInOrder

(* The initial state has the right types.                                  *)
LEMMA TypeInit == Init => TypeInv
  <1> SUFFICES ASSUME Init PROVE TypeInv
    OBVIOUS
  <1>1. 0 \in SeqNo /\ InitialWindow \in SeqNo /\ WindowSize \in SeqNo
    BY FlowAssumption, ModulusAssumption DEF SeqNo
  <1>2. ToSeqFrame(NewWindow(0, WindowSize)) \in SeqFrames
    BY <1>1 DEF SeqFrames, ToSeqFrame, NewWindow
  <1>3. seqs \in Seq(SeqFrames) /\ resizes \in Nat
    BY <1>2, FlowAssumption DEF Init
  <1>4. send_window \in Windows /\ recv_window \in Windows
    BY <1>1 DEF Init, NewWindow, Windows
  <1>5. TypeOK
    <2>1. /\ submitted \in Seq(Messages)
          /\ queue \in Seq(Payloads)
          /\ wire \in Seq(Frames)
          /\ delivered \in Seq(Partials)
      BY DEF Init
    <2>2. error \in Errors \cup {NoError} /\ partial \in Partials \cup {NoPartial}
      BY DEF Init
    <2> QED
      BY <1>1, <1>3, <1>4, <2>1, <2>2 DEF Init, TypeOK
  <1>6. QueueInOrder
    BY DEF Init, QueueInOrder
  <1> QED
    BY <1>5, <1>6 DEF TypeInv

(* Session::send keeps the types and appends to the queue in order.        *)
LEMMA TypeSend == TypeInv /\ Send => TypeInv'
  <1> SUFFICES ASSUME TypeInv, Send PROVE TypeInv'
    OBVIOUS
  <1> USE DEF TypeInv
  <1>1. PICK m \in Messages :
          /\ submitted' = Append(submitted, m)
          /\ queue' = Append(queue, Octets(Len(submitted) + 1, 0, m.len))
    BY DEF Send
  <1>2. m.len \in Nat
    BY FlowAssumption
  <1>3. /\ submitted' \in Seq(Messages)
        /\ queue' \in Seq(Payloads)
    BY <1>1, <1>2 DEF TypeOK, Payloads, Octets
  <1>4. TypeOK'
    BY <1>3 DEF Send, TypeOK, receiverVars
  <1>5. ASSUME NEW j \in 1 .. Len(queue')
        PROVE  /\ queue'[j].msg = Len(submitted') - Len(queue') + j
               /\ queue'[j].from + queue'[j].len = submitted'[queue'[j].msg].len
               /\ j > 1 => queue'[j].from = 0
    <2>1. /\ Len(queue') = Len(queue) + 1
          /\ Len(submitted') = Len(submitted) + 1
          /\ submitted'[Len(submitted) + 1] = m
          /\ \A k \in 1 .. Len(submitted) : submitted'[k] = submitted[k]
          /\ Len(queue) \in Nat /\ Len(submitted) \in Nat
      BY <1>1 DEF TypeOK
    <2>2. CASE j = Len(queue) + 1
      BY <2>1, <2>2, <1>1, <1>2 DEF TypeOK, Octets
    <2>3. CASE j \in 1 .. Len(queue)
      <3>1. queue'[j] = queue[j] /\ queue[j].msg \in 1 .. Len(submitted)
        BY <2>1, <2>3, <1>1 DEF TypeOK, QueueInOrder
      <3> QED
        BY SMTT(30), <2>1, <2>3, <3>1 DEF QueueInOrder
    <2> QED
      BY <2>1, <2>2, <2>3
  <1>6. Len(queue') <= Len(submitted')
    BY <1>1 DEF TypeOK, QueueInOrder
  <1> QED
    BY <1>4, <1>5, <1>6 DEF QueueInOrder

(* The front of a queue in order belongs to a submitted message.           *)
LEMMA FrontType ==
    ASSUME TypeInv, queue # << >>
    PROVE  /\ Head(queue) \in Payloads
           /\ Head(queue) = queue[1]
           /\ Head(queue).msg \in 1 .. Len(submitted)
           /\ submitted[Head(queue).msg] \in Messages
           /\ submitted[Head(queue).msg].hdr \in Headers
  <1>1. Len(queue) >= 1 /\ Head(queue) = queue[1] /\ queue[1] \in Payloads
    BY DEF TypeInv, TypeOK
  <1>2. queue[1].msg = Len(submitted) - Len(queue) + 1
    BY <1>1 DEF TypeInv, QueueInOrder, TypeOK
  <1>3. queue[1].msg \in 1 .. Len(submitted)
    BY <1>1, <1>2 DEF TypeInv, TypeOK, QueueInOrder
  <1>4. submitted[queue[1].msg] \in Messages
    BY <1>3 DEF TypeInv, TypeOK
  <1> QED
    BY <1>1, <1>3, <1>4 DEF Headers

(* Cutting a payload gives two payloads that lie next to each other.       *)
LEMMA CutPayload ==
    ASSUME NEW p \in Payloads, NEW t \in 0 .. p.len
    PROVE  /\ SplitTo(p, t) \in Payloads
           /\ SplitOff(p, t) \in Payloads
           /\ SplitTo(p, t).msg = p.msg
           /\ SplitTo(p, t).from = p.from
           /\ SplitTo(p, t).len = t
           /\ SplitOff(p, t).msg = p.msg
           /\ SplitOff(p, t).from = p.from + t
           /\ SplitOff(p, t).len = p.len - t
  BY DEF Payloads, SplitTo, SplitOff, Octets

(* One frame of Channel::emit.                                             *)
LEMMA TypeFlushFrame == TypeInv /\ FlushFrame => TypeInv'
  <1> SUFFICES ASSUME TypeInv, FlushFrame PROVE TypeInv'
    OBVIOUS
  <1> DEFINE front == Head(queue)
             take == Take(front)
             left == front.len - take
             frame == [hdr |-> submitted[front.msg].hdr,
                       payload |-> SplitTo(front, take),
                       more |-> left > 0,
                       seqno |-> next_seqno]
             rest == SplitOff(front, take)
  <1>1. queue # << >>
    BY DEF FlushFrame, FlushBlocked
  <1>2. TypeOK
    BY DEF TypeInv
  <1>3. front \in Payloads /\ front = queue[1]
    BY <1>1, FrontType
  <1>4. submitted[front.msg].hdr \in Headers
    BY <1>1, FrontType
  <1>5. take \in 0 .. front.len
    BY <1>2, <1>3, TakeType
  <1>6. front.len \in Nat /\ front.from \in Nat /\ take \in Nat /\ left \in Nat
    BY <1>3, <1>5 DEF Payloads
  <1> HIDE DEF take
  <1> HIDE DEF front
  <1>7. /\ rest \in Payloads
        /\ rest.from + rest.len = front.from + front.len
        /\ rest.msg = front.msg
    BY <1>3, <1>5, <1>6, CutPayload
  <1>8. frame \in Frames
    <2>1. SplitTo(front, take) \in Payloads
      BY <1>3, <1>5, CutPayload
    <2>2. next_seqno \in SeqNo
      BY <1>2 DEF TypeOK
    <2> QED
      BY <1>4, <2>1, <2>2 DEF Frames
  <1>9. /\ wire' = Append(wire, frame)
        /\ queue' = IF left = 0 THEN Tail(queue)
                    ELSE [queue EXCEPT ![1] = rest]
        /\ next_seqno' = Advance(next_seqno, take)
        /\ UNCHANGED <<submitted, flushing, send_window, seqs, receiverVars>>
    BY DEF FlushFrame, take, front
  <1> HIDE DEF left, frame, rest
  <1>10. queue' \in Seq(Payloads)
    <2>1. queue \in Seq(Payloads)
      BY <1>2 DEF TypeOK
    <2>2. Tail(queue) \in Seq(Payloads)
      BY <1>1, <2>1
    <2>3. [queue EXCEPT ![1] = rest] \in Seq(Payloads)
      BY <1>1, <1>7, <2>1
    <2> QED
      BY <1>9, <2>2, <2>3
  <1>11. TypeOK'
    <2>1. wire' \in Seq(Frames)
      BY <1>2, <1>8, <1>9 DEF TypeOK
    <2>2. next_seqno' \in SeqNo
      BY <1>2, <1>6, <1>9, SeqNoClosed DEF TypeOK
    <2> QED
      BY <1>2, <1>9, <1>10, <2>1, <2>2 DEF TypeOK, receiverVars
  <1>12. QueueInOrder'
    <2>1. CASE left = 0
      BY <2>1, <1>1, <1>2, <1>9 DEF QueueInOrder, TypeInv, TypeOK
    <2>2. CASE left # 0
      BY SMTT(30), <2>2, <1>1, <1>2, <1>3, <1>7, <1>9 DEF QueueInOrder, TypeInv, TypeOK
    <2> QED
      BY <2>1, <2>2
  <1> QED
    BY <1>11, <1>12 DEF TypeInv

(* The ends of flush, and Session::handle_seq.                             *)
LEMMA TypeFlushDone == TypeInv /\ FlushDone => TypeInv'
  <1> SUFFICES ASSUME TypeInv, FlushDone PROVE TypeInv'
    OBVIOUS
  <1> QED
    BY DEF TypeInv, TypeOK, QueueInOrder, FlushDone, receiverVars

(* Session::handle_seq keeps the types: only the send window changes.      *)
LEMMA TypeHandleSeq == TypeInv /\ HandleSeq => TypeInv'
  <1> SUFFICES ASSUME TypeInv, HandleSeq PROVE TypeInv'
    OBVIOUS
  <1>1. seqs \in Seq(SeqFrames) /\ seqs # << >>
    BY DEF TypeInv, TypeOK, HandleSeq
  <1>2. Head(seqs) \in SeqFrames /\ Tail(seqs) \in Seq(SeqFrames)
    BY <1>1
  <1>3. send_window' \in Windows
    BY <1>2 DEF HandleSeq, Updated, NewWindow, Windows, SeqFrames
  <1> QED
    BY <1>2, <1>3 DEF TypeInv, TypeOK, QueueInOrder, HandleSeq, receiverVars

(* Whatever Session::acknowledge does, the windows keep their types.       *)
LEMMA TypeAcknowledge ==
    ASSUME TypeOK, NEW octets \in Nat, Acknowledge(octets)
    PROVE  /\ recv_window' \in Windows
           /\ unacked' \in Nat
           /\ seqs' \in Seq(SeqFrames)
  <1> DEFINE pending == unacked + octets
             consumed == Consumed(recv_window, pending)
  <1>1. pending \in Nat
    BY DEF TypeOK
  <1>2. recv_window \in Windows /\ seqs \in Seq(SeqFrames)
    BY DEF TypeOK
  <1>3. consumed \in Windows
    BY <1>1, <1>2, SeqNoClosed DEF Consumed, NewWindow, Windows
  <1>4. ToSeqFrame(consumed) \in SeqFrames
    BY <1>3 DEF ToSeqFrame, SeqFrames, Windows
  <1>5. CASE pending >= Threshold
    <2>1. recv_window' = consumed /\ unacked' = 0
          /\ seqs' = Append(seqs, ToSeqFrame(consumed))
      BY <1>5 DEF Acknowledge
    <2> QED
      BY <1>2, <1>3, <1>4, <2>1
  <1>6. CASE ~(pending >= Threshold)
    <2>1. unacked' = pending /\ UNCHANGED <<recv_window, seqs>>
      BY <1>6 DEF Acknowledge
    <2> QED
      BY <1>1, <1>2, <2>1
  <1> QED
    BY <1>5, <1>6

(* What reassembly makes of a frame is a message or part of one.           *)
LEMMA JoinedType ==
    ASSUME TypeOK, NEW f \in Frames
    PROVE  Joined(f) \in Partials
  <1>1. f.hdr \in Headers /\ f.payload \in Payloads
    BY DEF Frames
  <1>2. ASSUME NEW q \in Payloads
        PROVE  Extend(q, f.payload) \in Payloads
    BY <1>1 DEF Extend, Garbled, Payloads, Octets
  <1>3. partial # NoPartial => partial.payload \in Payloads
    BY DEF TypeOK, Partials
  <1> QED
    BY <1>1, <1>2, <1>3 DEF Joined, Partials

(* An accepted frame keeps the types of the receiver.                      *)
LEMMA TypeHandleData == TypeInv /\ HandleData => TypeInv'
  <1> SUFFICES ASSUME TypeInv, HandleData PROVE TypeInv'
    OBVIOUS
  <1> DEFINE f == Head(wire)
  <1>1. TypeOK
    BY DEF TypeInv
  <1>2. wire \in Seq(Frames) /\ wire # << >>
    BY <1>1 DEF TypeOK, HandleData
  <1>3. f \in Frames /\ Tail(wire) \in Seq(Frames)
    BY <1>2
  <1>4. f.payload.len \in Nat /\ f.seqno \in SeqNo
    BY <1>3 DEF Frames, Payloads
  <1>5. /\ recv_window' \in Windows
        /\ unacked' \in Nat
        /\ seqs' \in Seq(SeqFrames)
    BY <1>1, <1>4, TypeAcknowledge DEF HandleData
  <1>6. expected_seqno' \in SeqNo
    BY <1>4, SeqNoClosed DEF HandleData
  <1>7. Joined(f) \in Partials
    BY <1>1, <1>3, JoinedType
  <1>8. /\ partial' \in Partials \cup {NoPartial}
        /\ delivered' \in Seq(Partials)
    <2>1. delivered \in Seq(Partials)
      BY <1>1 DEF TypeOK
    <2>2. CASE f.more
      BY <2>1, <2>2, <1>7 DEF HandleData
    <2>3. CASE ~f.more
      BY <2>1, <2>3, <1>7 DEF HandleData
    <2> QED
      BY <2>2, <2>3
  <1>9. wire' = Tail(wire) /\ UNCHANGED <<senderVars, error, resizes>>
    BY DEF HandleData
  <1> QED
    BY <1>1, <1>3, <1>5, <1>6, <1>8, <1>9
       DEF TypeInv, TypeOK, QueueInOrder, senderVars

(* A refused frame only leaves the error behind.                           *)
LEMMA TypeRejectData == TypeInv /\ RejectData => TypeInv'
  <1> SUFFICES ASSUME TypeInv, RejectData PROVE TypeInv'
    OBVIOUS
  <1>1. error' \in Errors \cup {NoError}
    BY DEF RejectData, AcceptError, Errors
  <1>2. wire' \in Seq(Frames)
    BY DEF RejectData, TypeInv, TypeOK
  <1> QED
    BY <1>1, <1>2 DEF TypeInv, TypeOK, QueueInOrder, RejectData, senderVars

(* A new window size is one a SEQ can carry.                               *)
LEMMA TypeSetWindowSize == TypeInv /\ SetWindowSize => TypeInv'
  <1> SUFFICES ASSUME TypeInv, SetWindowSize PROVE TypeInv'
    OBVIOUS
  <1>1. ResizeSizes \subseteq SeqNo
    BY FlowAssumption DEF SeqNo
  <1>2. recv_window' \in Windows
    BY <1>1 DEF SetWindowSize, Resized, NewWindow, Windows, TypeInv, TypeOK
  <1>3. resizes' \in Nat
    BY DEF SetWindowSize, TypeInv, TypeOK
  <1> QED
    BY <1>2, <1>3 DEF TypeInv, TypeOK, QueueInOrder, SetWindowSize, senderVars

(* TypeInv is inductive.                                                   *)
LEMMA TypeStep == TypeInv /\ [Next]_vars => TypeInv'
  <1> SUFFICES ASSUME TypeInv, [Next]_vars PROVE TypeInv'
    OBVIOUS
  <1>1. CASE UNCHANGED vars
    BY <1>1 DEF TypeInv, TypeOK, QueueInOrder, vars, senderVars, receiverVars
  <1> QED
    BY <1>1, TypeSend, TypeFlushFrame, TypeFlushDone, TypeHandleSeq,
       TypeHandleData, TypeRejectData, TypeSetWindowSize DEF Next

(* Every reachable state of the channel is well typed, for every modulus,  *)
(* window and frame size: sequence numbers and windows never leave the     *)
(* range of a u32.                                                         *)
THEOREM TypeCorrect == Safety => []TypeOK
  <1>1. Init => TypeInv
    BY TypeInit
  <1>2. TypeInv /\ [Next]_vars => TypeInv'
    BY TypeStep
  <1>3. TypeInv => TypeOK
    BY DEF TypeInv
  <1> QED
    BY <1>1, <1>2, <1>3, PTL DEF Safety

-----------------------------------------------------------------------------
(* Order: messages come out whole and in the order they went in.           *)

(* Nothing has been sent yet.                                              *)
LEMMA OrderInit == Init => OrderInv
  <1> SUFFICES ASSUME Init PROVE OrderInv
    OBVIOUS
  <1> QED
    BY DEF Init, OrderInv, QueueInOrder, DeliveredInOrder, WireInOrder,
           ReceiverInOrder, FrameCursor, Cursor

(* A step that leaves the messages alone leaves their order alone.         *)
LEMMA OrderUnchanged ==
    OrderInv /\ UNCHANGED <<submitted, queue, wire, partial, delivered, error>>
      => OrderInv'
  BY SMTT(30) DEF OrderInv, QueueInOrder, DeliveredInOrder, WireInOrder,
         ReceiverInOrder, FrameCursor, AfterFrame, Cursor

(* A message joins the stream at its end.                                  *)
LEMMA OrderSend == TypeInv /\ OrderInv /\ Send => OrderInv'
  <1> SUFFICES ASSUME TypeInv, OrderInv, Send PROVE OrderInv'
    OBVIOUS
  <1>1. QueueInOrder'
    BY TypeSend DEF TypeInv
  <1>2. PICK m \in Messages :
          /\ submitted' = Append(submitted, m)
          /\ queue' = Append(queue, Octets(Len(submitted) + 1, 0, m.len))
    BY DEF Send
  <1>3. /\ submitted \in Seq(Messages)
        /\ queue \in Seq(Payloads)
    BY DEF TypeInv, TypeOK
  <1>4. /\ Len(submitted) \in Nat
        /\ Len(submitted') = Len(submitted) + 1
        /\ \A k \in 1 .. Len(submitted) : submitted'[k] = submitted[k]
    BY <1>2, <1>3
  <1>5. UNCHANGED <<wire, partial, delivered, error>>
    BY DEF Send, receiverVars
  <1>6. DeliveredInOrder'
    <2>1. DeliveredInOrder /\ Len(delivered) \in Nat
      BY DEF OrderInv, TypeInv, TypeOK
    <2>2. \A i \in 1 .. Len(delivered) : submitted'[i] = submitted[i]
      BY <1>4, <2>1 DEF DeliveredInOrder
    <2> QED
      BY <1>4, <1>5, <2>1, <2>2 DEF DeliveredInOrder, Octets
  <1>7. ASSUME NEW i \in Nat
        PROVE  FrameCursor(i)' = FrameCursor(i)
    <2>1. queue = << >> => queue'[1] = Octets(Len(submitted) + 1, 0, m.len)
      BY <1>2, <1>3
    <2>2. queue # << >> => queue'[1] = queue[1]
      BY <1>2, <1>3
    <2>3. queue' # << >>
      BY <1>2, <1>3
    <2> QED
      BY <1>5, <2>1, <2>2, <2>3 DEF FrameCursor, Cursor, Octets
  <1>8. error = NoError => WireInOrder'
    <2> SUFFICES ASSUME error = NoError, NEW i \in 1 .. Len(wire)
                 PROVE  LET p == wire[i].payload
                        IN  /\ p.msg \in 1 .. Len(submitted')
                            /\ wire[i].hdr = submitted'[p.msg].hdr
                            /\ p.from + p.len <= submitted'[p.msg].len
                            /\ wire[i].more
                                 <=> p.from + p.len < submitted'[p.msg].len
                            /\ AfterFrame(wire[i]) = FrameCursor(i + 1)'
      BY <1>5 DEF WireInOrder, AfterFrame, Cursor
    <2>1. FrameCursor(i + 1)' = FrameCursor(i + 1)
      BY <1>7
    <2> QED
      BY SMTT(30), <1>4, <2>1 DEF OrderInv, WireInOrder
  <1>9. error = NoError => ReceiverInOrder'
    <2>1. FrameCursor(1)' = FrameCursor(1)
      BY <1>7
    <2>2. Len(delivered) \in Nat
      BY DEF TypeInv, TypeOK
    <2> QED
      BY <1>4, <1>5, <2>1, <2>2 DEF OrderInv, ReceiverInOrder, Cursor
  <1> QED
    BY <1>1, <1>5, <1>6, <1>8, <1>9 DEF OrderInv

(* A frame continues the stream where the one before it ended, and the     *)
(* queue continues where the frame ends.                                   *)
LEMMA OrderFlushFrame == TypeInv /\ OrderInv /\ FlushFrame => OrderInv'
  <1> SUFFICES ASSUME TypeInv, OrderInv, FlushFrame PROVE OrderInv'
    OBVIOUS
  <1> DEFINE front == Head(queue)
             take == Take(front)
             frame == [hdr |-> submitted[front.msg].hdr,
                       payload |-> SplitTo(front, take),
                       more |-> front.len - take > 0,
                       seqno |-> next_seqno]
             rest == SplitOff(front, take)
  <1>1. QueueInOrder'
    BY TypeFlushFrame DEF TypeInv
  <1>2. TypeOK /\ QueueInOrder /\ queue # << >>
    BY DEF FlushFrame, FlushBlocked, TypeInv
  <1>3. /\ front \in Payloads
        /\ front = queue[1]
        /\ front.msg \in 1 .. Len(submitted)
    BY <1>2, FrontType
  <1>4. take \in 0 .. front.len
    BY <1>2, <1>3, TakeType
  <1>5. /\ queue \in Seq(Payloads)
        /\ wire \in Seq(Frames)
        /\ Len(wire) \in Nat
        /\ Len(queue) \in Nat
        /\ Len(queue) >= 1
        /\ Len(submitted) \in Nat
    BY <1>2 DEF TypeOK
  <1>6. /\ front.from + front.len = submitted[front.msg].len
        /\ front.msg = Len(submitted) - Len(queue) + 1
        /\ Len(queue) > 1 => /\ queue[2].msg = front.msg + 1
                             /\ queue[2].from = 0
    BY <1>2, <1>3, <1>5 DEF QueueInOrder
  <1>7. /\ wire' = Append(wire, frame)
        /\ queue' = IF front.len - take = 0 THEN Tail(queue)
                    ELSE [queue EXCEPT ![1] = rest]
        /\ UNCHANGED <<submitted, partial, delivered, error>>
    BY DEF FlushFrame, receiverVars
  <1>8. /\ frame.payload.msg = front.msg
        /\ frame.payload.from = front.from
        /\ frame.payload.len = take
        /\ rest.msg = front.msg
        /\ rest.from = front.from + take
    BY <1>3, <1>4, CutPayload
  <1>9. front.len \in Nat /\ front.from \in Nat /\ take \in Nat
    BY <1>3, <1>4 DEF Payloads
  <1>10. /\ frame.hdr = submitted[front.msg].hdr
         /\ frame.more <=> front.len - take > 0
    OBVIOUS
  <1> HIDE DEF front, take, frame, rest
  <1> PICK n \in Nat : n = Len(wire)
    BY <1>5
  <1>11. /\ Len(wire') = n + 1
         /\ wire'[n + 1] = frame
         /\ \A i \in 1 .. n : wire'[i] = wire[i]
    BY <1>5, <1>7
  <1>12. \A i \in 1 .. n + 1 : FrameCursor(i)' = FrameCursor(i)
    <2>1. \A i \in 1 .. n : FrameCursor(i)' = FrameCursor(i)
      BY <1>5, <1>11 DEF FrameCursor, Cursor
    <2>2. FrameCursor(n + 1)' = Cursor(front.msg, front.from)
      BY <1>5, <1>8, <1>11 DEF FrameCursor, Cursor
    <2>3. FrameCursor(n + 1) = Cursor(front.msg, front.from)
      BY <1>2, <1>3, <1>5 DEF FrameCursor
    <2> QED
      BY <1>5, <2>1, <2>2, <2>3
  <1>13. AfterFrame(frame) = FrameCursor(n + 2)'
    <2>1. FrameCursor(n + 2)'
            = IF queue' # << >> THEN Cursor(queue'[1].msg, queue'[1].from)
              ELSE Cursor(Len(submitted) + 1, 0)
      BY SMTT(30), SMTT(30), <1>5, <1>7, <1>11 DEF FrameCursor, Cursor
    <2>2. CASE front.len - take = 0
      <3>1. AfterFrame(frame) = Cursor(front.msg + 1, 0)
        BY <1>8, <1>9, <1>10, <2>2 DEF AfterFrame
      <3>2. PICK k \in Nat : k = Len(queue)
        BY <1>5
      <3>3. /\ queue' = Tail(queue)
            /\ Len(Tail(queue)) = k - 1
            /\ k > 1 => Tail(queue)[1] = queue[2]
        BY <1>2, <1>5, <1>7, <2>2, <3>2
      <3>4. CASE k = 1
        <4>1. queue' = << >>
          BY <1>5, <3>2, <3>3, <3>4
        <4>2. front.msg = Len(submitted)
          BY <1>5, <1>6, <3>2, <3>4
        <4> QED
          BY <2>1, <3>1, <4>1, <4>2
      <3>5. CASE k > 1
        <4>1. Tail(queue) # << >>
          BY <3>3, <3>5
        <4> QED
          BY <1>6, <2>1, <3>1, <3>2, <3>3, <3>5, <4>1
      <3> QED
        BY <1>5, <3>2, <3>4, <3>5
    <2>3. CASE front.len - take # 0
      <3>1. AfterFrame(frame) = Cursor(front.msg, front.from + take)
        BY <1>4, <1>8, <1>9, <1>10, <2>3 DEF AfterFrame
      <3>2. queue' # << >> /\ queue'[1] = rest
        BY <1>5, <1>7, <2>3
      <3> QED
        BY <1>8, <2>1, <3>1, <3>2
    <2> QED
      BY <2>2, <2>3
  <1>14. error = NoError => WireInOrder'
    <2> SUFFICES ASSUME error = NoError, NEW i \in 1 .. n + 1
                 PROVE  LET p == wire'[i].payload
                        IN  /\ p.msg \in 1 .. Len(submitted)
                            /\ wire'[i].hdr = submitted[p.msg].hdr
                            /\ p.from + p.len <= submitted[p.msg].len
                            /\ wire'[i].more
                                 <=> p.from + p.len < submitted[p.msg].len
                            /\ AfterFrame(wire'[i]) = FrameCursor(i + 1)'
      BY <1>7, <1>11 DEF WireInOrder, AfterFrame, Cursor
    <2>1. CASE i \in 1 .. n
      <3>1. FrameCursor(i + 1)' = FrameCursor(i + 1) /\ wire'[i] = wire[i]
        BY <1>5, <1>11, <1>12, <2>1
      <3> QED
        BY <2>1, <3>1 DEF OrderInv, WireInOrder
    <2>2. CASE i = n + 1
      <3>1. wire'[i] = frame /\ AfterFrame(frame) = FrameCursor(i + 1)'
        BY <1>5, <1>11, <1>13, <2>2
      <3>2. /\ front.from + take <= submitted[front.msg].len
            /\ front.len - take > 0
                 <=> front.from + take < submitted[front.msg].len
        BY <1>4, <1>6, <1>9
      <3> QED
        BY <1>3, <1>8, <1>10, <3>1, <3>2
    <2> QED
      BY <1>5, <2>1, <2>2
  <1>15. error = NoError => ReceiverInOrder'
    <2>1. FrameCursor(1)' = FrameCursor(1)
      BY <1>5, <1>12
    <2> QED
      BY <1>7, <2>1 DEF OrderInv, ReceiverInOrder, Cursor
  <1>16. DeliveredInOrder'
    BY <1>7 DEF OrderInv, DeliveredInOrder, Octets
  <1> QED
    BY <1>1, <1>7, <1>14, <1>15, <1>16 DEF OrderInv

(* What reassembly yields for the frame at the head of a wire in order:    *)
(* the octets of the current message from its first to the frame's last.   *)
LEMMA JoinedInOrder ==
    ASSUME TypeInv, OrderInv, error = NoError, wire # << >>
    PROVE  LET f == wire[1]
               m == Len(delivered) + 1
           IN  /\ f.payload.msg = m
               /\ m <= Len(submitted)
               /\ Joined(f) = [hdr |-> submitted[m].hdr,
                               payload |-> Octets(m, 0, f.payload.from
                                                        + f.payload.len)]
  <1> DEFINE f == wire[1]
             m == Len(delivered) + 1
  <1>1. /\ wire \in Seq(Frames) /\ Len(wire) >= 1
        /\ Len(delivered) \in Nat /\ Len(submitted) \in Nat
        /\ f \in Frames
    BY DEF TypeInv, TypeOK
  <1>2. /\ f.payload \in Payloads
        /\ f.payload.from \in Nat /\ f.payload.len \in Nat
    BY <1>1 DEF Frames, Payloads
  <1>3. /\ f.payload.msg \in 1 .. Len(submitted)
        /\ f.hdr = submitted[f.payload.msg].hdr
    BY <1>1 DEF OrderInv, WireInOrder
  <1>4. FrameCursor(1) = Cursor(f.payload.msg, f.payload.from)
    BY <1>1 DEF FrameCursor
  <1>5. ReceiverInOrder
    BY DEF OrderInv
  <1> HIDE DEF f
  <1>6. CASE partial = NoPartial
    <2>1. f.payload.msg = m /\ f.payload.from = 0
      BY <1>4, <1>5, <1>6 DEF ReceiverInOrder, Cursor
    <2>2. f.payload = Octets(m, 0, 0 + f.payload.len)
      BY <1>2, <2>1 DEF Payloads, Octets
    <2> QED
      BY <1>1, <1>3, <1>6, <2>1, <2>2 DEF Joined, f
  <1>7. CASE partial # NoPartial
    <2> DEFINE p == partial.payload
    <2>1. /\ p \in Payloads /\ p.len \in Nat
          /\ p.msg = m /\ p.from = 0
      BY <1>5, <1>7 DEF ReceiverInOrder, TypeInv, TypeOK, Partials, Payloads
    <2>2. f.payload.msg = m /\ f.payload.from = p.len
      BY <1>4, <1>5, <1>7 DEF ReceiverInOrder, Cursor
    <2>3. p # Garbled
      BY <1>1, <2>1 DEF Garbled, Octets
    <2>4. Extend(p, f.payload) = Octets(m, 0, p.len + f.payload.len)
      BY <2>1, <2>2, <2>3 DEF Extend
    <2> QED
      BY <1>1, <1>3, <1>7, <2>2, <2>4 DEF Joined, f
  <1> QED
    BY <1>6, <1>7 DEF f

(* The receiver takes the next frame of the stream.                        *)
LEMMA OrderHandleData == TypeInv /\ OrderInv /\ HandleData => OrderInv'
  <1> SUFFICES ASSUME TypeInv, OrderInv, HandleData PROVE OrderInv'
    OBVIOUS
  <1>1. error = NoError /\ wire # << >> /\ Head(wire) = wire[1]
    BY DEF HandleData, TypeInv, TypeOK
  <1> PICK n \in Nat : n = Len(delivered)
    BY DEF TypeInv, TypeOK
  <1> DEFINE f == wire[1]
             m == n + 1
             upto == f.payload.from + f.payload.len
  <1>2. /\ f.payload.msg = m
        /\ m <= Len(submitted)
        /\ Joined(f) = [hdr |-> submitted[m].hdr,
                        payload |-> Octets(m, 0, upto)]
    BY <1>1, JoinedInOrder
  <1>3. /\ wire' = Tail(wire)
        /\ IF f.more THEN partial' = Joined(f) /\ delivered' = delivered
           ELSE partial' = NoPartial /\ delivered' = Append(delivered, Joined(f))
        /\ UNCHANGED <<submitted, queue, error>>
    BY <1>1 DEF HandleData, senderVars
  <1>4. PICK k \in Nat : k = Len(wire) /\ k >= 1
    BY <1>1 DEF TypeInv, TypeOK
  <1>5. Len(wire') = k - 1 /\ \A i \in 1 .. k - 1 : wire'[i] = wire[i + 1]
    BY <1>1, <1>3, <1>4 DEF TypeInv, TypeOK
  <1>6. ASSUME NEW i \in Nat \ {0}
        PROVE  FrameCursor(i)' = FrameCursor(i + 1)
    BY <1>3, <1>4, <1>5 DEF FrameCursor, Cursor
  <1>7. WireInOrder
    BY <1>1 DEF OrderInv
  <1>8. WireInOrder'
    <2> SUFFICES ASSUME NEW i \in 1 .. k - 1
                 PROVE  LET p == wire'[i].payload
                        IN  /\ p.msg \in 1 .. Len(submitted)
                            /\ wire'[i].hdr = submitted[p.msg].hdr
                            /\ p.from + p.len <= submitted[p.msg].len
                            /\ wire'[i].more
                                 <=> p.from + p.len < submitted[p.msg].len
                            /\ AfterFrame(wire'[i]) = FrameCursor(i + 1)'
      BY <1>3, <1>5 DEF WireInOrder, AfterFrame, Cursor
    <2>1. FrameCursor(i + 1)' = FrameCursor(i + 2)
      BY <1>6
    <2>2. i + 1 \in 1 .. k /\ (i + 1) + 1 = i + 2
      BY <1>4
    <2> QED
      BY <1>4, <1>5, <1>7, <2>1, <2>2 DEF WireInOrder
  <1>9. /\ f.more <=> upto < submitted[m].len
        /\ upto <= submitted[m].len
        /\ AfterFrame(f) = FrameCursor(2)
    BY <1>2, <1>4, <1>7 DEF WireInOrder
  <1>10. FrameCursor(1)' = AfterFrame(f)
    BY <1>6, <1>9
  <1>11. f \in Frames /\ upto \in Nat /\ submitted[m].len \in Nat
    <2>1. submitted \in Seq(Messages) /\ wire \in Seq(Frames)
      BY DEF TypeInv, TypeOK
    <2>2. f \in Frames
      BY <1>4, <2>1
    <2>3. submitted[m] \in Messages
      BY <1>2, <2>1
    <2>4. upto \in Nat
      <3>1. f.payload \in Payloads
        BY <2>2 DEF Frames
      <3>2. f.payload.from \in Nat /\ f.payload.len \in Nat
        BY <3>1 DEF Payloads
      <3> HIDE DEF f
      <3> QED
        BY <3>2
    <2>5. submitted[m].len \in Nat
      BY <2>3, FlowAssumption
    <2> QED
      BY <2>2, <2>4, <2>5
  <1>12. delivered \in Seq(Partials) /\ DeliveredInOrder
    BY DEF TypeInv, TypeOK, OrderInv
  <1> HIDE DEF f, upto
  <1>13. CASE f.more
    <2>1. partial' = [hdr |-> submitted[m].hdr, payload |-> Octets(m, 0, upto)]
          /\ delivered' = delivered
      BY <1>2, <1>3, <1>13
    <2>2. partial' # NoPartial
      <3>1. submitted[m].hdr \in Headers
        BY <1>2 DEF Headers, TypeInv, TypeOK
      <3>2. partial' \in Partials
        BY <1>11, <2>1, <3>1 DEF Partials, Payloads, Octets
      <3> QED
        BY <3>2, NoPartialAssumption
    <2>3. FrameCursor(1)' = Cursor(m, upto)
      BY <1>2, <1>10, <1>13 DEF AfterFrame, upto
    <2>4. ReceiverInOrder'
      BY <1>2, <1>3, <2>1, <2>2, <2>3 DEF ReceiverInOrder, Cursor, Octets
    <2>5. DeliveredInOrder'
      BY <1>3, <1>12, <2>1 DEF DeliveredInOrder, Octets
    <2> QED
      BY <1>3, <1>8, <2>4, <2>5 DEF OrderInv, QueueInOrder
  <1>14. CASE ~f.more
    <2>1. upto = submitted[m].len
      BY <1>9, <1>11, <1>14
    <2>2. /\ partial' = NoPartial
          /\ delivered' = Append(delivered,
                [hdr |-> submitted[m].hdr,
                 payload |-> Octets(m, 0, submitted[m].len)])
      BY <1>2, <1>3, <1>14, <2>1
    <2>3. /\ Len(delivered') = m
          /\ delivered'[m] = [hdr |-> submitted[m].hdr,
                              payload |-> Octets(m, 0, submitted[m].len)]
          /\ \A i \in 1 .. n : delivered'[i] = delivered[i]
      BY <1>12, <2>2
    <2>4. FrameCursor(1)' = Cursor(m + 1, 0)
      BY <1>2, <1>10, <1>14 DEF AfterFrame
    <2>5. ReceiverInOrder'
      BY <2>2, <2>3, <2>4 DEF ReceiverInOrder, Cursor
    <2>6. ASSUME NEW i \in 1 .. m
          PROVE  delivered'[i] = [hdr |-> submitted[i].hdr,
                                  payload |-> Octets(i, 0, submitted[i].len)]
      <3>1. i = m \/ i \in 1 .. n
        OBVIOUS
      <3> QED
        BY <1>12, <2>3, <3>1 DEF DeliveredInOrder
    <2>7. DeliveredInOrder'
      BY <1>2, <1>3, <2>3, <2>6 DEF DeliveredInOrder, Octets
    <2> QED
      BY <1>3, <1>8, <2>5, <2>7 DEF OrderInv, QueueInOrder
  <1> QED
    BY <1>13, <1>14

(* OrderInv is inductive together with the types.                          *)
LEMMA OrderStep == TypeInv /\ OrderInv /\ [Next]_vars => OrderInv'
  <1> SUFFICES ASSUME TypeInv, OrderInv, [Next]_vars PROVE OrderInv'
    OBVIOUS
  <1>1. CASE Send
    BY <1>1, OrderSend
  <1>2. CASE FlushFrame
    BY <1>2, OrderFlushFrame
  <1>3. CASE FlushDone
    BY <1>3, OrderUnchanged DEF FlushDone, receiverVars
  <1>4. CASE HandleSeq
    BY <1>4, OrderUnchanged DEF HandleSeq, receiverVars
  <1>5. CASE HandleData
    BY <1>5, OrderHandleData
  <1>6. CASE RejectData
    <2>1. error' # NoError
      BY <1>6 DEF RejectData
    <2>2. UNCHANGED <<submitted, queue, delivered>>
      BY <1>6 DEF RejectData, senderVars
    <2> QED
      BY <2>1, <2>2 DEF OrderInv, QueueInOrder, DeliveredInOrder, Octets
  <1>7. CASE SetWindowSize
    BY <1>7, OrderUnchanged DEF SetWindowSize, senderVars
  <1>8. CASE UNCHANGED vars
    BY <1>8, OrderUnchanged DEF vars, senderVars, receiverVars
  <1> QED
    BY <1>1, <1>2, <1>3, <1>4, <1>5, <1>6, <1>7, <1>8 DEF Next

(* Session::flush, Channel::emit and Channel::accept deliver messages      *)
(* whole and in order, whatever windows, frame sizes and messages are      *)
(* used, and whether or not the receiver ends up refusing a frame.         *)
THEOREM InOrder == Safety => []DeliveredInOrder
  <1>1. Init => TypeInv /\ OrderInv
    BY TypeInit, OrderInit
  <1>2. TypeInv /\ OrderInv /\ [Next]_vars => (TypeInv /\ OrderInv)'
    BY TypeStep, OrderStep
  <1>3. TypeInv /\ OrderInv => DeliveredInOrder
    BY DEF OrderInv
  <1> QED
    BY <1>1, <1>2, <1>3, PTL DEF Safety

-----------------------------------------------------------------------------
(* Numbering: whatever windows the receiver sets, it can only ever refuse  *)
(* a frame for its size.                                                   *)

(* No number has been used yet.                                            *)
LEMMA NumberingInit == Init => NumberingInv
  BY DEF Init, NumberingInv, OnlyWindowRefusals, FrameSeqNo

(* A step that leaves the frames and their numbers alone.                  *)
LEMMA NumberingUnchanged ==
    NumberingInv /\ UNCHANGED <<wire, next_seqno, expected_seqno, error>> => NumberingInv'
  BY DEF NumberingInv, OnlyWindowRefusals, FrameSeqNo

(* A frame takes the number the sender had reached, and the sender moves   *)
(* on by what the frame carries.                                           *)
LEMMA NumberingFlushFrame ==
    ASSUME TypeInv, NumberingInv, FlushFrame
    PROVE  NumberingInv'
  <1> DEFINE front == Head(queue)
             take == Take(front)
             frame == [hdr |-> submitted[front.msg].hdr,
                       payload |-> SplitTo(front, take),
                       more |-> front.len - take > 0,
                       seqno |-> next_seqno]
  <1>1. /\ wire' = Append(wire, frame) /\ next_seqno' = Advance(next_seqno, take)
        /\ UNCHANGED <<expected_seqno, error>>
    BY DEF FlushFrame, receiverVars
  <1>2. frame.seqno = next_seqno /\ frame.payload.len = take
    BY DEF SplitTo, Octets
  <1> HIDE DEF front, take, frame
  <1>3. wire \in Seq(Frames)
    BY DEF TypeInv, TypeOK
  <1>4. PICK n \in Nat : n = Len(wire)
    BY <1>3
  <1>5. /\ Len(wire') = n + 1 /\ wire'[n + 1] = frame
        /\ \A i \in 1 .. n : wire'[i] = wire[i]
    BY <1>1, <1>3, <1>4
  <1>6. FrameSeqNo(n + 2)' = Advance(next_seqno, take)
    BY <1>1, <1>4, <1>5 DEF FrameSeqNo
  <1>7. FrameSeqNo(n + 1)' = next_seqno /\ FrameSeqNo(n + 1) = next_seqno
    BY <1>2, <1>4, <1>5 DEF FrameSeqNo
  <1>8. \A i \in 1 .. n : FrameSeqNo(i)' = FrameSeqNo(i)
    BY <1>4, <1>5 DEF FrameSeqNo
  <1>9. \A i \in 1 .. n + 1 : FrameSeqNo(i)' = FrameSeqNo(i)
    BY <1>7, <1>8
  <1>10. ASSUME error = NoError
         PROVE  expected_seqno' = FrameSeqNo(1)'
    BY <1>1, <1>9, <1>10 DEF NumberingInv
  <1>11. ASSUME error = NoError, NEW i \in 1 .. n + 1
         PROVE  Advance(wire'[i].seqno, wire'[i].payload.len) = FrameSeqNo(i + 1)'
    <2>1. CASE i = n + 1
      BY <1>2, <1>5, <1>6, <2>1
    <2>2. CASE i \in 1 .. n
      <3>1. Advance(wire[i].seqno, wire[i].payload.len) = FrameSeqNo(i + 1)
        BY <1>4, <1>11, <2>2 DEF NumberingInv
      <3>2. i + 1 \in 1 .. n + 1
        BY <2>2
      <3> QED
        BY <1>5, <1>9, <2>2, <3>1, <3>2
    <2> QED
      BY <2>1, <2>2
  <1> QED
    BY <1>1, <1>5, <1>10, <1>11 DEF NumberingInv, OnlyWindowRefusals

(* The receiver moves on to where the next frame starts.                   *)
LEMMA NumberingHandleData ==
    ASSUME TypeInv, NumberingInv, HandleData
    PROVE  NumberingInv'
  <1>1. /\ error = NoError /\ wire # << >> /\ wire' = Tail(wire)
        /\ expected_seqno' = Advance(wire[1].seqno, wire[1].payload.len)
        /\ UNCHANGED <<next_seqno, error>>
    BY DEF HandleData, senderVars, TypeInv, TypeOK
  <1>2. PICK n \in Nat : n = Len(wire) /\ n >= 1
    BY <1>1 DEF TypeInv, TypeOK
  <1>3. Len(wire') = n - 1 /\ \A i \in 1 .. n - 1 : wire'[i] = wire[i + 1]
    BY <1>1, <1>2 DEF TypeInv, TypeOK
  <1>4. ASSUME NEW i \in Nat \ {0}
        PROVE  FrameSeqNo(i)' = FrameSeqNo(i + 1)
    BY <1>1, <1>2, <1>3 DEF FrameSeqNo
  <1>5. \A i \in 1 .. n : Advance(wire[i].seqno, wire[i].payload.len) = FrameSeqNo(i + 1)
    BY <1>1, <1>2 DEF NumberingInv
  <1>6. expected_seqno' = FrameSeqNo(1)'
    BY <1>1, <1>2, <1>4, <1>5
  <1>7. ASSUME NEW i \in 1 .. n - 1
        PROVE  Advance(wire'[i].seqno, wire'[i].payload.len) = FrameSeqNo(i + 1)'
    <2>1. FrameSeqNo(i + 1)' = FrameSeqNo((i + 1) + 1) /\ i + 1 \in 1 .. n
      BY <1>2, <1>4
    <2> QED
      BY <1>3, <1>5, <2>1
  <1> QED
    BY <1>1, <1>3, <1>6, <1>7 DEF NumberingInv, OnlyWindowRefusals

(* The number fits, and so does the fragment: what is refused is the size. *)
LEMMA NumberingRejectData ==
    ASSUME TypeInv, OrderInv, NumberingInv, RejectData
    PROVE  NumberingInv'
  <1>1. /\ error = NoError /\ wire # << >> /\ Head(wire) = wire[1] /\ 1 \in 1 .. Len(wire)
        /\ error' = AcceptError(wire[1]) /\ error' # NoError
    BY DEF RejectData, TypeInv, TypeOK
  <1>2. wire[1].seqno = expected_seqno
    BY <1>1 DEF NumberingInv, FrameSeqNo
  <1>3. partial # NoPartial => partial.hdr = wire[1].hdr
    <2>1. wire[1].hdr = submitted[wire[1].payload.msg].hdr
      BY <1>1 DEF OrderInv, WireInOrder
    <2>2. FrameCursor(1).msg = wire[1].payload.msg
      BY <1>1 DEF FrameCursor, Cursor
    <2>3. partial # NoPartial => /\ partial.hdr = submitted[Len(delivered) + 1].hdr
                                 /\ FrameCursor(1).msg = Len(delivered) + 1
      BY <1>1 DEF OrderInv, ReceiverInOrder, Cursor
    <2> QED
      BY <2>1, <2>2, <2>3
  <1>4. error' = "OutsideWindow"
    BY <1>1, <1>2, <1>3 DEF AcceptError
  <1> QED
    BY <1>1, <1>4 DEF NumberingInv, OnlyWindowRefusals

(* NumberingInv is inductive together with the order of the messages.      *)
LEMMA NumberingStep ==
    TypeInv /\ OrderInv /\ NumberingInv /\ [Next]_vars => NumberingInv'
  <1> SUFFICES ASSUME TypeInv, OrderInv, NumberingInv, [Next]_vars PROVE NumberingInv'
    OBVIOUS
  <1>1. CASE FlushFrame
    BY <1>1, NumberingFlushFrame
  <1>2. CASE HandleData
    BY <1>2, NumberingHandleData
  <1>3. CASE RejectData
    BY <1>3, NumberingRejectData
  <1>4. CASE UNCHANGED <<wire, next_seqno, expected_seqno, error>>
    BY <1>4, NumberingUnchanged
  <1>5. FlushFrame \/ HandleData \/ RejectData
          \/ UNCHANGED <<wire, next_seqno, expected_seqno, error>>
    BY DEF Next, vars, senderVars, receiverVars, Send, FlushDone, HandleSeq, SetWindowSize
  <1> QED
    BY <1>1, <1>2, <1>3, <1>4, <1>5

(* Whatever windows the receiver sets, small or shrinking, Channel::accept *)
(* never finds a number it did not expect or a fragment of another message *)
(* in what a Vortice sender built: it can only refuse a frame for its size.*)
THEOREM RefusedOnlyForSize == Safety => []OnlyWindowRefusals
  <1>1. Init => TypeInv /\ OrderInv /\ NumberingInv
    BY TypeInit, OrderInit, NumberingInit
  <1>2. TypeInv /\ OrderInv /\ NumberingInv /\ [Next]_vars
          => (TypeInv /\ OrderInv /\ NumberingInv)'
    BY TypeStep, OrderStep, NumberingStep
  <1>3. NumberingInv => OnlyWindowRefusals
    BY DEF NumberingInv
  <1> QED
    BY <1>1, <1>2, <1>3, PTL DEF Safety

-----------------------------------------------------------------------------
(* Flow control: with an offer that never falls below what the peer may    *)
(* assume, no frame is refused and no sender is left waiting.              *)

(* The types WindowInv speaks about, in arithmetic form.                   *)
LEMMA WindowTypes ==
    ASSUME TypeOK
    PROVE  /\ send_window.base \in SeqNo
           /\ recv_window.base \in SeqNo
           /\ next_seqno \in SeqNo
           /\ expected_seqno \in SeqNo
           /\ send_window.size \in Nat /\ send_window.size < M
           /\ recv_window.size \in Nat /\ recv_window.size < M
           /\ unacked \in Nat
           /\ \A i \in 1 .. Len(seqs) : /\ seqs[i].ackno \in SeqNo
                                        /\ seqs[i].window \in Nat
           /\ \A i \in 1 .. Len(wire) : /\ wire[i].seqno \in SeqNo
                                        /\ wire[i].payload.len \in Nat
  <1>1. \A i \in 1 .. Len(seqs) : seqs[i] \in SeqFrames
    BY DEF TypeOK
  <1>2. \A i \in 1 .. Len(wire) : wire[i] \in Frames
    BY DEF TypeOK
  <1>3. /\ send_window \in Windows /\ recv_window \in Windows
        /\ next_seqno \in SeqNo /\ expected_seqno \in SeqNo
        /\ unacked \in Nat
    BY DEF TypeOK
  <1>4. \A s \in SeqNo : s \in Nat /\ s < M
    BY ModulusAssumption DEF SeqNo
  <1> QED
    BY <1>1, <1>2, <1>3, <1>4 DEF SeqFrames, Frames, Payloads, Windows

(* A position is a number of octets below the modulus.                     *)
LEMMA PositionType ==
    ASSUME TypeOK, NEW s \in SeqNo
    PROVE  Position(s) \in Nat /\ Position(s) < M
  <1>1. DistanceFrom(s, send_window.base) \in SeqNo
    BY WindowTypes, SeqNoClosed
  <1> QED
    BY <1>1, ModulusAssumption DEF Position, SeqNo

(* Both ends start at zero with at least the initial window.               *)
LEMMA WindowInit ==
    ASSUME SafeOffer
    PROVE  Init => WindowInv
  <1> SUFFICES ASSUME Init PROVE WindowInv
    OBVIOUS
  <1>1. /\ InitialWindow \in Nat /\ InitialWindow >= 2
        /\ WindowSize \in Nat /\ WindowSize >= InitialWindow
        /\ 0 \in SeqNo
    BY FlowAssumption, ModulusAssumption DEF SafeOffer, SeqNo
  <1>2. /\ send_window.base = 0 /\ send_window.size = InitialWindow
        /\ recv_window.base = 0 /\ recv_window.size = WindowSize
        /\ next_seqno = 0 /\ expected_seqno = 0 /\ unacked = 0
        /\ wire = << >> /\ queue = << >> /\ error = NoError
    BY DEF Init, NewWindow
  <1>3. Position(0) = 0
    BY <1>1, <1>2, DistanceSelf DEF Position
  <1>4. 0 < Threshold
    BY <1>1, <1>2 DEF Threshold
  <1>5. AcksInOrder
    <2>1. CASE seqs = << >>
      BY <1>2, <2>1 DEF AcksInOrder
    <2>2. CASE seqs = <<ToSeqFrame(NewWindow(0, WindowSize))>>
      <3>1. Len(seqs) = 1 /\ seqs[1].ackno = 0 /\ seqs[1].window = WindowSize
            /\ seqs # << >>
        BY <2>2 DEF ToSeqFrame, NewWindow
      <3> QED
        BY <1>1, <1>2, <1>3, <3>1 DEF AcksInOrder
    <2> QED
      BY <2>1, <2>2 DEF Init
  <1>6. OctetsInOrder
    BY <1>1, <1>2, <1>3 DEF OctetsInOrder, FrameSeqNo
  <1> QED
    BY <1>1, <1>2, <1>3, <1>4, <1>5, <1>6 DEF WindowInv, FlushBlocked

(* The guards of Channel::accept hold for the head of the wire.            *)
LEMMA HeadAccepted ==
    ASSUME TypeInv, OrderInv, WindowInv, wire # << >>
    PROVE  AcceptError(wire[1]) = NoError
  <1> DEFINE f == wire[1]
             len == f.payload.len
  <1>1. TypeOK /\ 1 \in 1 .. Len(wire)
    BY DEF TypeInv, TypeOK
  <1>2. /\ f.seqno = expected_seqno
        /\ Position(expected_seqno) + len <= Position(next_seqno)
    BY <1>1 DEF WindowInv, OctetsInOrder, FrameSeqNo
  <1>3. DistanceFrom(expected_seqno, recv_window.base) + len <= recv_window.size
    <2>1. /\ Position(recv_window.base) \in Nat
          /\ Position(expected_seqno) \in Nat
          /\ Position(next_seqno) \in Nat
          /\ len \in Nat /\ unacked \in Nat
          /\ send_window.size \in Nat /\ recv_window.size \in Nat
      BY <1>1, WindowTypes, PositionType
    <2>2. Position(recv_window.base) <= Position(expected_seqno)
      <3>1. Position(recv_window.base) + unacked = Position(expected_seqno)
        BY DEF WindowInv, OctetsInOrder
      <3> QED
        BY <2>1, <3>1
    <2>3. DistanceFrom(expected_seqno, recv_window.base)
            = Position(expected_seqno) - Position(recv_window.base)
      BY <1>1, <2>2, WindowTypes, DistanceRebase DEF Position
    <2>4. /\ Position(next_seqno) <= send_window.size
          /\ send_window.size <= Position(recv_window.base) + recv_window.size
      BY DEF WindowInv, OctetsInOrder
    <2> QED
      BY <1>2, <2>1, <2>3, <2>4
  <1>4. partial # NoPartial => partial.hdr = f.hdr
    <2>1. /\ error = NoError
          /\ WireInOrder /\ ReceiverInOrder
      BY DEF OrderInv, WindowInv
    <2>2. FrameCursor(1) = Cursor(f.payload.msg, f.payload.from)
      BY <1>1 DEF FrameCursor
    <2>3. f.hdr = submitted[f.payload.msg].hdr
      BY <1>1, <2>1 DEF WireInOrder
    <2> QED
      BY <2>1, <2>2, <2>3 DEF ReceiverInOrder, Cursor
  <1> QED
    BY <1>2, <1>3, <1>4 DEF AcceptError, Accepts

(* A step that touches neither the windows nor the frames, and that stops  *)
(* flushing only when there is nothing more to write.                      *)
LEMMA WindowUnchanged ==
    WindowInv /\ (~flushing' => FlushBlocked')
      /\ UNCHANGED <<send_window, next_seqno, wire, seqs, recv_window,
                     expected_seqno, unacked, error>>
      => WindowInv'
  <1> SUFFICES ASSUME WindowInv, ~flushing' => FlushBlocked',
                      UNCHANGED <<send_window, next_seqno, wire, seqs,
                                  recv_window, expected_seqno, unacked, error>>
               PROVE  WindowInv'
    OBVIOUS
  <1>1. AcksInOrder'
    BY DEF WindowInv, AcksInOrder, Position
  <1>2. OctetsInOrder'
    BY DEF WindowInv, OctetsInOrder, FrameSeqNo, Position
  <1>3. Threshold' = Threshold
    BY DEF Threshold
  <1> QED
    BY <1>1, <1>2, <1>3 DEF WindowInv, Position

(* Channel::emit writes no further than the peer's window.                 *)
LEMMA WindowFlushFrame ==
    TypeInv /\ WindowInv /\ FlushFrame => WindowInv'
  <1> SUFFICES ASSUME TypeInv, WindowInv, FlushFrame PROVE WindowInv'
    OBVIOUS
  <1> DEFINE front == Head(queue)
             take == Take(front)
             at == Position(next_seqno)
  <1>1. TypeOK /\ queue # << >>
    BY DEF TypeInv, FlushFrame, FlushBlocked
  <1>2. front \in Payloads
    BY <1>1, FrontType
  <1>3. /\ next_seqno \in SeqNo /\ send_window.base \in SeqNo
        /\ send_window.size \in Nat /\ send_window.size < M
        /\ at \in Nat
    BY <1>1, WindowTypes, PositionType
  <1>4. take \in Nat /\ at + take <= send_window.size
    <2>1. take \in 0 .. front.len /\ take <= Writable /\ front.len \in Nat
      BY <1>1, <1>2, TakeType DEF Payloads
    <2>2. at <= send_window.size
      BY DEF WindowInv, OctetsInOrder
    <2>3. Writable = send_window.size - at
      BY <1>1, <2>2, WritableType
    <2> QED
      BY <1>3, <2>1, <2>3
  <1>5. PICK frame \in Frames :
          /\ wire' = Append(wire, frame)
          /\ frame.seqno = next_seqno
          /\ frame.payload.len = take
    <2> DEFINE frame == [hdr |-> submitted[front.msg].hdr,
                         payload |-> SplitTo(front, take),
                         more |-> front.len - take > 0,
                         seqno |-> next_seqno]
    <2>1. wire' = Append(wire, frame)
      BY DEF FlushFrame
    <2>2. SplitTo(front, take) \in Payloads /\ SplitTo(front, take).len = take
      BY <1>1, <1>2, TakeType, CutPayload
    <2>3. submitted[front.msg].hdr \in Headers
      BY <1>1, FrontType
    <2>4. frame \in Frames
      BY <1>3, <2>2, <2>3 DEF Frames
    <2> QED
      BY <2>1, <2>2, <2>4
  <1>6. /\ next_seqno' = Advance(next_seqno, take)
        /\ UNCHANGED <<send_window, seqs, recv_window, expected_seqno,
                       unacked, error, flushing>>
        /\ flushing
    BY DEF FlushFrame, receiverVars
  <1> HIDE DEF take, front
  <1>7. Position(next_seqno)' = at + take
    <2>1. at + take < M
      BY <1>3, <1>4, ModulusAssumption
    <2> QED
      BY <1>3, <1>4, <1>6, <2>1, DistanceAdvance DEF Position
  <1> PICK n \in Nat : n = Len(wire)
    BY <1>1 DEF TypeOK
  <1>8. /\ Len(wire') = n + 1
        /\ wire'[n + 1] = frame
        /\ \A i \in 1 .. n : wire'[i] = wire[i]
    BY <1>1, <1>5 DEF TypeOK
  <1>9. AcksInOrder' /\ Threshold' = Threshold
    BY <1>6 DEF WindowInv, AcksInOrder, Position, Threshold
  <1>10. OctetsInOrder'
    <2>1. OctetsInOrder
      BY DEF WindowInv
    <2>3. \A i \in 1 .. n + 1 : FrameSeqNo(i)' = FrameSeqNo(i)
      BY <1>5, <1>8 DEF FrameSeqNo
    <2>4. FrameSeqNo(n + 2)' = next_seqno'
      BY <1>8 DEF FrameSeqNo
    <2>5. expected_seqno' = FrameSeqNo(1)'
      BY <1>6, <2>1, <2>3 DEF OctetsInOrder
    <2>6. /\ (Position(recv_window.base) + unacked = Position(expected_seqno))'
          /\ (Position(expected_seqno) <= Position(next_seqno))'
          /\ (Position(next_seqno) <= send_window.size)'
      <3>1. /\ Position(recv_window.base) + unacked = Position(expected_seqno)
            /\ Position(expected_seqno) <= at
        BY <2>1 DEF OctetsInOrder
      <3>2. Position(expected_seqno) \in Nat
        BY <1>1, WindowTypes, PositionType
      <3>3. /\ Position(expected_seqno)' = Position(expected_seqno)
            /\ Position(recv_window.base)' = Position(recv_window.base)
        BY <1>6 DEF Position
      <3> QED
        BY <1>3, <1>4, <1>6, <1>7, <3>1, <3>2, <3>3
    <2>7. ASSUME NEW i \in 1 .. n + 1
          PROVE  /\ Position(expected_seqno) <= Position(wire'[i].seqno)
                 /\ Position(wire'[i].seqno) + wire'[i].payload.len
                      <= at + take
                 /\ Position(wire'[i].seqno) + wire'[i].payload.len
                      = (Position(FrameSeqNo(i + 1)))'
      <3>1. CASE i \in 1 .. n
        <4>1. /\ Position(expected_seqno) <= Position(wire[i].seqno)
              /\ Position(wire[i].seqno) + wire[i].payload.len <= at
              /\ Position(wire[i].seqno) + wire[i].payload.len
                   = Position(FrameSeqNo(i + 1))
          BY <2>1, <3>1 DEF OctetsInOrder
        <4>2. (Position(FrameSeqNo(i + 1)))' = Position(FrameSeqNo(i + 1))
          BY <1>6, <2>3, <3>1 DEF Position
        <4>3. /\ Position(wire[i].seqno) \in Nat
              /\ wire[i].payload.len \in Nat
          BY <1>1, <3>1, WindowTypes, PositionType
        <4> QED
          BY <1>3, <1>4, <1>8, <3>1, <4>1, <4>2, <4>3
      <3>2. CASE i = n + 1
        <4>1. /\ wire'[i].seqno = next_seqno
              /\ wire'[i].payload.len = take
          BY <1>5, <1>8, <3>2
        <4>2. (Position(FrameSeqNo(i + 1)))' = at + take
          <5>1. FrameSeqNo(i + 1)' = next_seqno'
            BY <2>4, <3>2
          <5> QED
            BY <1>7, <5>1 DEF Position
        <4>3. Position(expected_seqno) <= at
          BY <2>1 DEF OctetsInOrder
        <4> QED
          BY <1>3, <1>4, <4>1, <4>2, <4>3
      <3> QED
        BY <3>1, <3>2
    <2>8. ASSUME NEW i \in 1 .. n + 1, NEW j \in 1 .. n + 1, i < j
          PROVE  Position(wire'[i].seqno) + wire'[i].payload.len
                   <= Position(wire'[j].seqno)
      <3>1. i \in 1 .. n /\ wire'[i] = wire[i]
        BY <1>8, <2>8
      <3>2. CASE j \in 1 .. n
        BY <1>8, <2>1, <2>8, <3>1, <3>2 DEF OctetsInOrder
      <3>3. CASE j = n + 1
        <4>1. Position(wire[i].seqno) + wire[i].payload.len <= at
          BY <2>1, <3>1 DEF OctetsInOrder
        <4> QED
          BY <1>5, <1>8, <3>1, <3>3, <4>1
      <3> QED
        BY <3>2, <3>3
    <2> QED
      BY <1>6, <1>7, <1>8, <2>5, <2>6, <2>7, <2>8 DEF OctetsInOrder, Position
  <1> QED
    BY <1>6, <1>9, <1>10 DEF WindowInv, Position

(* Applying a SEQ moves the origin from which positions are measured; it   *)
(* shortens every position by the same amount.                             *)
LEMMA WindowHandleSeq ==
    TypeInv /\ WindowInv /\ HandleSeq => WindowInv'
  <1> SUFFICES ASSUME TypeInv, WindowInv, HandleSeq PROVE WindowInv'
    OBVIOUS
  <1>1. TypeOK /\ TypeOK'
    BY TypeHandleSeq DEF TypeInv
  <1>2. PICK n \in Nat : n = Len(seqs) /\ n >= 1
    BY <1>1 DEF HandleSeq, TypeOK
  <1> DEFINE ack == seqs[1].ackno
             moved == Position(ack)
  <1>3. /\ send_window'.base = ack
        /\ send_window'.size = seqs[1].window
        /\ seqs' = Tail(seqs)
        /\ flushing' = TRUE
        /\ UNCHANGED <<next_seqno, wire, recv_window, expected_seqno, unacked,
                       error>>
    BY <1>1, <1>2 DEF HandleSeq, TypeOK, Updated, NewWindow, receiverVars
  <1>4. /\ Len(seqs') = n - 1
        /\ \A i \in 1 .. n - 1 : seqs'[i] = seqs[i + 1]
    BY <1>1, <1>2, <1>3 DEF TypeOK
  <1>5. /\ ack \in SeqNo /\ moved \in Nat
        /\ seqs[1].window \in Nat
        /\ seqs[1].window >= InitialWindow
    BY <1>1, <1>2, WindowTypes, PositionType DEF WindowInv, AcksInOrder
  <1>6. ASSUME NEW s \in SeqNo, moved <= Position(s)
        PROVE  DistanceFrom(s, ack) = Position(s) - moved
    BY <1>1, <1>5, <1>6, WindowTypes, DistanceRebase DEF Position
  <1>7. /\ moved <= Position(recv_window.base)
        /\ moved + seqs[1].window >= send_window.size
        /\ moved + seqs[1].window
             <= Position(recv_window.base) + recv_window.size
    BY <1>2 DEF WindowInv, AcksInOrder
  <1>8. /\ Position(recv_window.base) \in Nat
        /\ Position(expected_seqno) \in Nat
        /\ Position(next_seqno) \in Nat
        /\ unacked \in Nat
        /\ send_window.size \in Nat /\ recv_window.size \in Nat
    BY <1>1, WindowTypes, PositionType
  <1>9. /\ Position(recv_window.base) + unacked = Position(expected_seqno)
        /\ Position(expected_seqno) <= Position(next_seqno)
        /\ Position(next_seqno) <= send_window.size
    BY DEF WindowInv, OctetsInOrder
  <1> HIDE DEF moved
  <1>10. /\ Position(recv_window.base)' = Position(recv_window.base) - moved
         /\ Position(expected_seqno)' = Position(expected_seqno) - moved
         /\ Position(next_seqno)' = Position(next_seqno) - moved
    <2>1. /\ moved <= Position(expected_seqno)
          /\ moved <= Position(next_seqno)
      BY <1>5, <1>7, <1>8, <1>9
    <2> QED
      BY <1>1, <1>3, <1>6, <1>7, <2>1, WindowTypes DEF Position
  <1>15. /\ send_window'.size = seqs[1].window
          /\ recv_window'.size = recv_window.size
          /\ unacked' = unacked
    BY <1>3
  <1>11. /\ recv_window'.size >= InitialWindow
         /\ send_window'.size >= InitialWindow
         /\ send_window'.size <= Position(recv_window.base)' + recv_window'.size
    BY <1>3, <1>5, <1>7, <1>8, <1>10 DEF WindowInv
  <1> HIDE DEF ack, moved
  <1>12. AcksInOrder'
    <2>1. recv_window'.base = IF seqs' = << >> THEN send_window'.base
                              ELSE seqs'[Len(seqs')].ackno
      <3>1. recv_window.base = seqs[n].ackno
        BY <1>2, <1>3 DEF WindowInv, AcksInOrder, HandleSeq
      <3>2. CASE n = 1
        <4>1. seqs' = << >>
          BY <1>1, <1>4, <3>2 DEF TypeOK
        <4> QED
          BY <1>3, <3>1, <3>2, <4>1 DEF ack
      <3>3. CASE n > 1
        <4>1. seqs' # << >> /\ seqs'[Len(seqs')] = seqs[n]
          BY <1>2, <1>4, <3>3
        <4> QED
          BY <1>3, <3>1, <4>1
      <3> QED
        BY <1>2, <3>2, <3>3
    <2>2. ASSUME NEW i \in 1 .. n - 1
          PROVE  /\ i + 1 \in 1 .. n
                 /\ seqs'[i] = seqs[i + 1]
                 /\ seqs'[i].window \in Nat
                 /\ Position(seqs[i + 1].ackno) \in Nat
                 /\ moved <= Position(seqs[i + 1].ackno)
                 /\ DistanceFrom(seqs'[i].ackno, ack)
                      = Position(seqs[i + 1].ackno) - moved
                 /\ seqs[1].window + moved
                      <= Position(seqs[i + 1].ackno) + seqs[i + 1].window
      <3>1. i + 1 \in 1 .. n /\ 1 < i + 1 /\ 1 \in 1 .. n
        BY <1>2
      <3>2. /\ seqs'[i] = seqs[i + 1]
            /\ seqs[i + 1].ackno \in SeqNo /\ seqs[i + 1].window \in Nat
        BY <1>1, <1>2, <1>4, <3>1, WindowTypes
      <3>3. /\ moved <= Position(seqs[i + 1].ackno)
            /\ moved + seqs[1].window
                 <= Position(seqs[i + 1].ackno) + seqs[i + 1].window
        BY <1>2, <3>1 DEF WindowInv, AcksInOrder, moved, ack
      <3>4. Position(seqs[i + 1].ackno) \in Nat
        BY <1>1, <3>2, PositionType
      <3> QED
        BY <1>5, <1>6, <3>1, <3>2, <3>3, <3>4
    <2>3. ASSUME NEW i \in 1 .. n - 1
          PROVE  /\ seqs'[i].window >= InitialWindow
                 /\ DistanceFrom(seqs'[i].ackno, ack)
                      <= Position(recv_window.base)'
                 /\ DistanceFrom(seqs'[i].ackno, ack) + seqs'[i].window
                      >= send_window'.size
                 /\ DistanceFrom(seqs'[i].ackno, ack) + seqs'[i].window
                      <= Position(recv_window.base)' + recv_window'.size
      <3>1. /\ seqs[i + 1].window >= InitialWindow
            /\ Position(seqs[i + 1].ackno) <= Position(recv_window.base)
            /\ Position(seqs[i + 1].ackno) + seqs[i + 1].window
                 <= Position(recv_window.base) + recv_window.size
        BY <1>2, <2>2 DEF WindowInv, AcksInOrder
      <3> QED
        BY <1>15, <1>5, <1>8, <1>10, <2>2, <3>1
    <2>4. ASSUME NEW i \in 1 .. n - 1, NEW j \in 1 .. n - 1, i < j
          PROVE  /\ DistanceFrom(seqs'[i].ackno, ack)
                      <= DistanceFrom(seqs'[j].ackno, ack)
                 /\ DistanceFrom(seqs'[i].ackno, ack) + seqs'[i].window
                      <= DistanceFrom(seqs'[j].ackno, ack) + seqs'[j].window
      <3>1. i + 1 < j + 1
        BY <2>4
      <3>2. /\ Position(seqs[i + 1].ackno) <= Position(seqs[j + 1].ackno)
            /\ Position(seqs[i + 1].ackno) + seqs[i + 1].window
                 <= Position(seqs[j + 1].ackno) + seqs[j + 1].window
        BY <1>2, <2>2, <3>1 DEF WindowInv, AcksInOrder
      <3> QED
        BY <1>5, <2>2, <3>2
    <2> QED
      BY <1>3, <1>4, <2>1, <2>3, <2>4 DEF AcksInOrder, Position
  <1>13. OctetsInOrder'
    <2>1. /\ Position(recv_window.base)' + unacked' = Position(expected_seqno)'
          /\ Position(expected_seqno)' <= Position(next_seqno)'
          /\ Position(next_seqno)' <= send_window'.size
      BY <1>15, <1>5, <1>7, <1>8, <1>9, <1>10
    <2>2. \A i \in Nat : FrameSeqNo(i)' = FrameSeqNo(i)
      BY <1>3 DEF FrameSeqNo
    <2>3. ASSUME NEW i \in 1 .. Len(wire)
          PROVE  /\ Position(expected_seqno)' <= DistanceFrom(wire[i].seqno, ack)
                 /\ DistanceFrom(wire[i].seqno, ack) + wire[i].payload.len
                      <= Position(next_seqno)'
                 /\ DistanceFrom(wire[i].seqno, ack) + wire[i].payload.len
                      = DistanceFrom(FrameSeqNo(i + 1), ack)
      <3>1. /\ Position(expected_seqno) <= Position(wire[i].seqno)
            /\ Position(wire[i].seqno) + wire[i].payload.len
                 <= Position(next_seqno)
            /\ Position(wire[i].seqno) + wire[i].payload.len
                 = Position(FrameSeqNo(i + 1))
        BY DEF WindowInv, OctetsInOrder
      <3>2. /\ wire[i].seqno \in SeqNo /\ wire[i].payload.len \in Nat
            /\ Position(wire[i].seqno) \in Nat
        BY <1>1, WindowTypes, PositionType
      <3>3. FrameSeqNo(i + 1) \in SeqNo
        <4>1. CASE i + 1 <= Len(wire)
          BY SMTT(30), <1>1, <4>1, WindowTypes DEF FrameSeqNo, TypeOK
        <4>2. CASE ~(i + 1 <= Len(wire))
          BY <1>1, <4>2, WindowTypes DEF FrameSeqNo
        <4> QED
          BY <4>1, <4>2
      <3> PICK a \in Nat, l \in Nat : /\ a = Position(wire[i].seqno)
                                      /\ l = wire[i].payload.len
        BY <3>2
      <3>4. moved <= Position(expected_seqno)
        BY <1>5, <1>7, <1>8, <1>9
      <3>5. moved <= a /\ moved <= a + l
        BY SMTT(30), <1>5, <1>8, <3>1, <3>4
      <3>6. /\ DistanceFrom(wire[i].seqno, ack) = a - moved
            /\ DistanceFrom(FrameSeqNo(i + 1), ack) = (a + l) - moved
        BY <1>6, <3>1, <3>2, <3>3, <3>5
      <3>7. /\ Position(expected_seqno) - moved <= a - moved
            /\ (a - moved) + l <= Position(next_seqno) - moved
            /\ (a - moved) + l = (a + l) - moved
        <4>1. Position(expected_seqno) <= a /\ a + l <= Position(next_seqno)
          BY <3>1
        <4>2. /\ moved \in Nat
              /\ Position(expected_seqno) \in Nat
              /\ Position(next_seqno) \in Nat
          BY <1>5, <1>8
        <4> QED
          BY <4>1, <4>2
      <3> QED
        BY <1>10, <3>6, <3>7
    <2>4. ASSUME NEW i \in 1 .. Len(wire)
          PROVE  (Position(FrameSeqNo(i + 1)))' = DistanceFrom(FrameSeqNo(i + 1), ack)
      <3>1. i + 1 \in Nat
        BY <1>1 DEF TypeOK
      <3> QED
        BY <1>3, <2>2, <3>1 DEF Position
    <2>5. expected_seqno' = FrameSeqNo(1)'
      BY <1>3, <2>2 DEF WindowInv, OctetsInOrder
    <2>6. ASSUME NEW i \in 1 .. Len(wire)
          PROVE  Position(wire[i].seqno)' = DistanceFrom(wire[i].seqno, ack)
      BY <1>3 DEF Position
    <2>7. ASSUME NEW i \in 1 .. Len(wire), NEW j \in 1 .. Len(wire), i < j
          PROVE  DistanceFrom(wire[i].seqno, ack) + wire[i].payload.len
                   <= DistanceFrom(wire[j].seqno, ack)
      <3>1. /\ Position(wire[i].seqno) + wire[i].payload.len
                 <= Position(wire[j].seqno)
            /\ Position(expected_seqno) <= Position(wire[i].seqno)
            /\ Position(expected_seqno) <= Position(wire[j].seqno)
        BY <2>7 DEF WindowInv, OctetsInOrder
      <3>2. /\ wire[i].seqno \in SeqNo /\ wire[j].seqno \in SeqNo
            /\ wire[i].payload.len \in Nat
            /\ Position(wire[i].seqno) \in Nat
            /\ Position(wire[j].seqno) \in Nat
        BY <1>1, WindowTypes, PositionType
      <3>3. moved <= Position(expected_seqno)
        BY <1>5, <1>7, <1>8, <1>9
      <3>4. /\ moved <= Position(wire[i].seqno)
            /\ moved <= Position(wire[j].seqno)
        BY <1>5, <1>8, <3>1, <3>2, <3>3
      <3>5. /\ DistanceFrom(wire[i].seqno, ack) = Position(wire[i].seqno) - moved
            /\ DistanceFrom(wire[j].seqno, ack) = Position(wire[j].seqno) - moved
        BY <1>6, <3>2, <3>4
      <3>6. moved \in Nat
        BY <1>5
      <3> QED
        BY <3>1, <3>2, <3>5, <3>6
    <2> QED
      BY <1>3, <2>1, <2>3, <2>4, <2>5, <2>6, <2>7 DEF OctetsInOrder
  <1>14. unacked' < Threshold' /\ error' = NoError
    BY <1>3 DEF WindowInv, Threshold
  <1> QED
    BY <1>3, <1>11, <1>12, <1>13, <1>14 DEF WindowInv

(* A SEQ sent by Session::acknowledge joins the others in order: its       *)
(* ackno and the octets it offers are past those of every earlier one.     *)
LEMMA AcksAppend ==
    ASSUME TypeOK, TypeOK', WindowInv,
           NEW n \in Nat, n = Len(seqs),
           UNCHANGED send_window,
           recv_window'.size = recv_window.size,
           Position(recv_window.base) <= Position(recv_window.base)',
           seqs' = Append(seqs, ToSeqFrame(recv_window'))
    PROVE  AcksInOrder'
  <1> DEFINE base == recv_window.base
             size == recv_window.size
  <1>1. /\ Len(seqs') = n + 1
        /\ seqs'[n + 1].ackno = recv_window'.base
        /\ seqs'[n + 1].window = size
        /\ \A i \in 1 .. n : seqs'[i] = seqs[i]
        /\ seqs' # << >>
    <2>1. seqs \in Seq(SeqFrames)
      BY DEF TypeOK
    <2>2. /\ Len(seqs') = n + 1
          /\ seqs'[n + 1] = ToSeqFrame(recv_window')
          /\ \A i \in 1 .. n : seqs'[i] = seqs[i]
      BY <2>1
    <2>3. seqs' # << >>
      BY <2>1
    <2> QED
      BY <2>2, <2>3 DEF ToSeqFrame
  <1>2. /\ Position(base) \in Nat /\ size \in Nat /\ send_window.size \in Nat
        /\ send_window'.size = send_window.size
    BY WindowTypes, PositionType
  <1>3. Position(base)' \in Nat
    <2>1. recv_window'.base \in SeqNo /\ send_window.base \in SeqNo
      BY WindowTypes DEF TypeOK, Windows
    <2>2. DistanceFrom(recv_window'.base, send_window.base) \in SeqNo
      BY <2>1, SeqNoClosed
    <2> QED
      BY <2>2, ModulusAssumption DEF Position, SeqNo
  <1> PICK now \in Nat, then \in Nat : now = Position(base) /\ then = Position(base)'
    BY <1>2, <1>3
  <1>4. /\ size >= InitialWindow /\ now <= then
        /\ send_window.size <= now + size
    BY DEF WindowInv
  <1>5. ASSUME NEW i \in 1 .. n
        PROVE  /\ seqs[i].window >= InitialWindow
               /\ Position(seqs[i].ackno) <= now
               /\ Position(seqs[i].ackno) + seqs[i].window >= send_window.size
               /\ Position(seqs[i].ackno) + seqs[i].window <= now + size
               /\ Position(seqs[i].ackno) \in Nat /\ seqs[i].window \in Nat
    BY WindowTypes, PositionType DEF WindowInv, AcksInOrder
  <1>6. ASSUME NEW i \in 1 .. n
        PROVE  Position(seqs[i].ackno)' = DistanceFrom(seqs'[i].ackno, send_window.base)
    BY <1>1 DEF Position
  <1>7. DistanceFrom(seqs'[n + 1].ackno, send_window.base) = then
    BY <1>1 DEF Position
  <1>8. ASSUME NEW i \in 1 .. n + 1
        PROVE  /\ seqs'[i].window >= InitialWindow
               /\ DistanceFrom(seqs'[i].ackno, send_window.base) <= then
               /\ DistanceFrom(seqs'[i].ackno, send_window.base)
                    + seqs'[i].window >= send_window.size
               /\ DistanceFrom(seqs'[i].ackno, send_window.base)
                    + seqs'[i].window <= then + size
    <2>1. CASE i \in 1 .. n
      <3>1. DistanceFrom(seqs'[i].ackno, send_window.base) = Position(seqs[i].ackno)
        BY <1>1, <2>1 DEF Position
      <3> QED
        BY SMTT(30), <1>1, <1>2, <1>4, <1>5, <2>1, <3>1
    <2>2. CASE i = n + 1
      BY <1>1, <1>2, <1>4, <1>7, <2>2
    <2> QED
      BY <2>1, <2>2
  <1>9. ASSUME NEW i \in 1 .. n + 1, NEW j \in 1 .. n + 1, i < j
        PROVE  /\ DistanceFrom(seqs'[i].ackno, send_window.base)
                    <= DistanceFrom(seqs'[j].ackno, send_window.base)
               /\ DistanceFrom(seqs'[i].ackno, send_window.base)
                    + seqs'[i].window
                  <= DistanceFrom(seqs'[j].ackno, send_window.base)
                    + seqs'[j].window
    <2>1. CASE j \in 1 .. n
      <3>1. i \in 1 .. n
        BY <1>9, <2>1
      <3>2. /\ Position(seqs[i].ackno) <= Position(seqs[j].ackno)
            /\ Position(seqs[i].ackno) + seqs[i].window
                 <= Position(seqs[j].ackno) + seqs[j].window
        BY <1>9, <2>1, <3>1 DEF WindowInv, AcksInOrder
      <3> QED
        BY <1>1, <2>1, <3>1, <3>2 DEF Position
    <2>2. CASE j = n + 1
      BY <1>1, <1>7, <1>8, <2>2
    <2> QED
      BY <2>1, <2>2
  <1>10. recv_window'.base = seqs'[Len(seqs')].ackno
    BY <1>1
  <1> QED
    BY <1>1, <1>4, <1>8, <1>9, <1>10 DEF AcksInOrder, Position

(* Session::handle_data: the receiver moves on by one frame, and what it   *)
(* acknowledges is what it has received.                                   *)
LEMMA WindowHandleData ==
    TypeInv /\ WindowInv /\ HandleData => WindowInv'
  <1> SUFFICES ASSUME TypeInv, WindowInv, HandleData PROVE WindowInv'
    OBVIOUS
  <1>1. TypeOK /\ TypeOK'
    BY TypeHandleData DEF TypeInv
  <1>2. PICK n \in Nat : n = Len(wire) /\ n >= 1
    BY <1>1 DEF HandleData, TypeOK
  <1> DEFINE f == wire[1]
             len == f.payload.len
             pending == unacked + len
  <1>3. /\ Head(wire) = f
        /\ f.seqno = expected_seqno
        /\ len \in Nat
        /\ f.seqno \in SeqNo
        /\ pending \in Nat
    <2>1. Head(wire) = f
      BY <1>1, <1>2 DEF TypeOK
    <2>2. f.seqno = expected_seqno
      BY <1>2 DEF WindowInv, OctetsInOrder, FrameSeqNo
    <2>3. len \in Nat /\ f.seqno \in SeqNo /\ unacked \in Nat
      BY <1>1, <1>2, WindowTypes
    <2> QED
      BY <2>1, <2>2, <2>3
  <1>4. /\ expected_seqno' = Advance(expected_seqno, len)
        /\ wire' = Tail(wire)
        /\ Acknowledge(len)
        /\ UNCHANGED <<queue, flushing, send_window, next_seqno, error>>
    BY <1>3 DEF HandleData, senderVars
  <1>5. /\ Len(wire') = n - 1
        /\ \A i \in 1 .. n - 1 : wire'[i] = wire[i + 1]
    BY <1>1, <1>2, <1>4 DEF TypeOK
  <1>6. /\ Position(recv_window.base) \in Nat
        /\ Position(expected_seqno) \in Nat
        /\ Position(next_seqno) \in Nat
        /\ unacked \in Nat
        /\ send_window.size \in Nat /\ send_window.size < M
        /\ recv_window.size \in Nat
        /\ send_window.base \in SeqNo /\ recv_window.base \in SeqNo
        /\ next_seqno \in SeqNo
    BY <1>1, WindowTypes, PositionType
  <1>7. /\ Position(recv_window.base) + unacked = Position(expected_seqno)
        /\ Position(next_seqno) <= send_window.size
        /\ Position(expected_seqno) + len <= Position(next_seqno)
        /\ Position(expected_seqno) + len = Position(FrameSeqNo(2))
    <2>1. 1 \in 1 .. Len(wire)
      BY <1>2
    <2> QED
      BY <1>3, <2>1 DEF WindowInv, OctetsInOrder
  <1> HIDE DEF f, len
  <1>8. Position(expected_seqno)' = Position(expected_seqno) + len
    <2>1. Position(expected_seqno) + len < M
      BY <1>3, <1>6, <1>7, ModulusAssumption
    <2> QED
      BY <1>3, <1>4, <1>6, <2>1, DistanceAdvance DEF Position
  <1>9. ASSUME NEW i \in Nat \ {0}
        PROVE  FrameSeqNo(i)' = FrameSeqNo(i + 1)
    BY <1>2, <1>4, <1>5 DEF FrameSeqNo
  <1>10. expected_seqno' = FrameSeqNo(1)'
    <2>1. FrameSeqNo(2) \in SeqNo
      <3>1. CASE 2 <= Len(wire)
        BY <1>1, <1>2, <3>1, WindowTypes DEF FrameSeqNo
      <3>2. CASE ~(2 <= Len(wire))
        BY <1>6, <3>2 DEF FrameSeqNo
      <3> QED
        BY <3>1, <3>2
    <2>2. expected_seqno' \in SeqNo
      BY <1>1 DEF TypeOK
    <2>3. DistanceFrom(expected_seqno', send_window.base)
            = DistanceFrom(FrameSeqNo(2), send_window.base)
      BY <1>4, <1>7, <1>8 DEF Position
    <2>4. FrameSeqNo(1)' = FrameSeqNo(2)
      BY <1>9
    <2> QED
      BY <1>6, <2>1, <2>2, <2>3, <2>4, DistanceInjective
  <1>11. /\ Position(next_seqno)' = Position(next_seqno)
         /\ Position(expected_seqno)' <= Position(next_seqno)'
         /\ Position(next_seqno)' <= send_window'.size
    <2>1. Position(next_seqno)' = Position(next_seqno)
      BY <1>4 DEF Position
    <2> QED
      BY <1>4, <1>7, <1>8, <2>1
  <1>12. ASSUME NEW i \in 1 .. n - 1
         PROVE  /\ Position(expected_seqno)' <= Position(wire'[i].seqno)
                /\ Position(wire'[i].seqno) + wire'[i].payload.len
                     <= Position(next_seqno)
                /\ Position(wire'[i].seqno) + wire'[i].payload.len
                     = (Position(FrameSeqNo(i + 1)))'
    <2>1. /\ wire'[i] = wire[i + 1] /\ i + 1 \in 1 .. Len(wire)
          /\ 1 \in 1 .. Len(wire) /\ 1 < i + 1
          /\ (i + 1) + 1 = i + 2
      BY <1>2, <1>5
    <2>2. /\ Position(f.seqno) + len <= Position(wire[i + 1].seqno)
          /\ Position(wire[i + 1].seqno) + wire[i + 1].payload.len
               <= Position(next_seqno)
          /\ Position(wire[i + 1].seqno) + wire[i + 1].payload.len
               = Position(FrameSeqNo(i + 2))
      BY <2>1 DEF WindowInv, OctetsInOrder, f, len
    <2>3. (Position(FrameSeqNo(i + 1)))' = Position(FrameSeqNo(i + 2))
      <3>1. FrameSeqNo(i + 1)' = FrameSeqNo(i + 2)
        BY <1>9
      <3> QED
        BY <1>4, <3>1 DEF Position
    <2> QED
      BY <1>3, <1>8, <2>1, <2>2, <2>3
  <1>13. ASSUME NEW i \in 1 .. n - 1, NEW j \in 1 .. n - 1, i < j
         PROVE  Position(wire'[i].seqno) + wire'[i].payload.len
                  <= Position(wire'[j].seqno)
    <2>1. /\ i + 1 \in 1 .. Len(wire) /\ j + 1 \in 1 .. Len(wire)
          /\ i + 1 < j + 1
      BY <1>2, <1>13
    <2> QED
      BY <1>5, <2>1 DEF WindowInv, OctetsInOrder
  <1>14. ASSUME Position(recv_window.base)' + unacked' = Position(expected_seqno)'
         PROVE  OctetsInOrder'
    BY <1>4, <1>5, <1>10, <1>11, <1>12, <1>13, <1>14
       DEF OctetsInOrder, Position
  <1>15. ~flushing' => FlushBlocked'
    BY <1>4 DEF WindowInv, FlushBlocked, Writable
  <1>16. CASE pending >= Threshold
    <2>1. /\ recv_window' = Consumed(recv_window, pending)
          /\ unacked' = 0
          /\ seqs' = Append(seqs, ToSeqFrame(recv_window'))
      BY <1>4, <1>16 DEF Acknowledge
    <2>2. /\ recv_window'.base = Advance(recv_window.base, pending)
          /\ recv_window'.size = recv_window.size
      BY <2>1 DEF Consumed, NewWindow
    <2>3. Position(recv_window.base)' = Position(recv_window.base) + pending
      <3>1. Position(recv_window.base) + pending < M
        BY <1>3, <1>6, <1>7, ModulusAssumption
      <3> QED
        BY <1>3, <1>4, <1>6, <2>2, <3>1, DistanceAdvance DEF Position
    <2>4. OctetsInOrder'
      BY <1>3, <1>6, <1>7, <1>8, <1>14, <2>1, <2>3
    <2>5. AcksInOrder'
      <3>1. PICK k \in Nat : k = Len(seqs)
        BY <1>1 DEF TypeOK
      <3>2. Position(recv_window.base) <= Position(recv_window.base)'
        BY <1>3, <1>6, <2>3
      <3> QED
        BY <1>1, <1>4, <2>1, <2>2, <3>1, <3>2, AcksAppend
    <2>6. 0 < Threshold'
      <3>1. recv_window'.size \in Nat /\ InitialWindow \in Nat
            /\ InitialWindow >= 2
        BY <1>6, <2>2, FlowAssumption, ModulusAssumption
      <3> QED
        BY <3>1 DEF Threshold
    <2>7. send_window.size <= Position(recv_window.base)' + recv_window'.size
      <3>1. send_window.size <= Position(recv_window.base) + recv_window.size
        BY DEF WindowInv
      <3> QED
        BY <1>3, <1>6, <2>2, <2>3, <3>1
    <2> QED
      BY <1>4, <1>15, <2>1, <2>2, <2>4, <2>5, <2>6, <2>7 DEF WindowInv
  <1>17. CASE ~(pending >= Threshold)
    <2>1. unacked' = pending /\ UNCHANGED <<recv_window, seqs>>
      BY <1>4, <1>17 DEF Acknowledge
    <2>2. Position(recv_window.base)' = Position(recv_window.base)
      BY <1>4, <2>1 DEF Position
    <2>3. OctetsInOrder'
      BY <1>3, <1>6, <1>7, <1>8, <1>14, <2>1, <2>2
    <2>4. AcksInOrder' /\ Threshold' = Threshold
      BY <1>4, <2>1 DEF WindowInv, AcksInOrder, Position, Threshold
    <2>5. unacked' < Threshold'
      BY <1>1, <1>3, <1>17, <2>1, <2>4, ThresholdType
    <2> QED
      BY <1>4, <1>15, <2>1, <2>2, <2>3, <2>4, <2>5 DEF WindowInv
  <1> QED
    BY <1>16, <1>17

(* A window that only grows keeps every promise made so far.               *)
LEMMA WindowSetWindowSize ==
    ASSUME SafeOffer
    PROVE  TypeInv /\ WindowInv /\ SetWindowSize => WindowInv'
  <1> SUFFICES ASSUME TypeInv, WindowInv, SetWindowSize PROVE WindowInv'
    OBVIOUS
  <1>1. TypeOK /\ TypeOK'
    BY TypeSetWindowSize DEF TypeInv
  <1>2. PICK size \in ResizeSizes :
          size >= recv_window.size /\ recv_window' = Resized(recv_window, size)
    BY DEF SetWindowSize, SafeOffer
  <1>3. recv_window'.base = recv_window.base /\ recv_window'.size = size
    BY <1>2 DEF Resized, NewWindow
  <1>4. UNCHANGED <<queue, flushing, send_window, next_seqno, wire, seqs,
                    expected_seqno, unacked, error>>
    BY DEF SetWindowSize, senderVars
  <1>5. /\ size \in Nat /\ recv_window.size \in Nat
        /\ InitialWindow \in Nat /\ InitialWindow >= 2
        /\ send_window.size \in Nat
        /\ unacked \in Nat
    BY <1>1, WindowTypes, FlowAssumption, ModulusAssumption
  <1>6. Position(recv_window.base)' = Position(recv_window.base)
        /\ Position(recv_window.base) \in Nat
    BY <1>1, <1>3, <1>4, WindowTypes, PositionType DEF Position
  <1>7. Threshold <= Threshold' /\ Threshold \in Nat /\ Threshold' \in Nat
    BY <1>2, <1>3, <1>5 DEF Threshold
  <1>8. unacked' < Threshold'
    <2>1. unacked < Threshold
      BY DEF WindowInv
    <2> QED
      BY <1>4, <1>5, <1>7, <2>1
  <1>9. OctetsInOrder'
    BY <1>3, <1>4 DEF WindowInv, OctetsInOrder, Position, FrameSeqNo
  <1>10. AcksInOrder'
    <2>1. ASSUME NEW i \in 1 .. Len(seqs)
          PROVE  Position(seqs[i].ackno) + seqs[i].window
                   <= Position(recv_window.base) + size
      <3>1. /\ Position(seqs[i].ackno) \in Nat /\ seqs[i].window \in Nat
            /\ Position(seqs[i].ackno) + seqs[i].window
                 <= Position(recv_window.base) + recv_window.size
        BY <1>1, WindowTypes, PositionType DEF WindowInv, AcksInOrder
      <3> QED
        BY <1>2, <1>5, <1>6, <3>1
    <2> QED
      BY <1>3, <1>4, <2>1 DEF WindowInv, AcksInOrder, Position
  <1>11. /\ recv_window'.size >= InitialWindow
         /\ send_window.size <= Position(recv_window.base)' + recv_window'.size
    BY <1>2, <1>3, <1>5, <1>6 DEF WindowInv
  <1>12. ~flushing' => FlushBlocked'
    BY <1>4 DEF WindowInv, FlushBlocked, Writable
  <1> QED
    BY <1>4, <1>8, <1>9, <1>10, <1>11, <1>12 DEF WindowInv

(* WindowInv is inductive together with the types and the order.           *)
LEMMA WindowStep ==
    ASSUME SafeOffer
    PROVE  TypeInv /\ OrderInv /\ WindowInv /\ [Next]_vars => WindowInv'
  <1> SUFFICES ASSUME TypeInv, OrderInv, WindowInv, [Next]_vars
               PROVE  WindowInv'
    OBVIOUS
  <1>1. CASE Send
    BY <1>1, WindowUnchanged DEF Send, receiverVars
  <1>2. CASE FlushFrame
    BY <1>2, WindowFlushFrame
  <1>3. CASE FlushDone
    <2>1. FlushBlocked'
      BY <1>3 DEF FlushDone, FlushBlocked, Writable
    <2> QED
      BY <1>3, <2>1, WindowUnchanged DEF FlushDone, receiverVars
  <1>4. CASE HandleSeq
    BY <1>4, WindowHandleSeq
  <1>5. CASE HandleData
    BY <1>5, WindowHandleData
  <1>6. CASE RejectData
    <2>1. wire # << >> /\ Head(wire) = wire[1]
      BY <1>6 DEF RejectData, TypeInv, TypeOK
    <2> QED
      BY <1>6, <2>1, HeadAccepted DEF RejectData
  <1>7. CASE SetWindowSize
    BY <1>7, WindowSetWindowSize
  <1>8. CASE UNCHANGED vars
    <2>1. ~flushing' => FlushBlocked'
      BY <1>8 DEF WindowInv, FlushBlocked, Writable, vars, senderVars
    <2> QED
      BY <1>8, <2>1, WindowUnchanged DEF vars, senderVars, receiverVars
  <1> QED
    BY <1>1, <1>2, <1>3, <1>4, <1>5, <1>6, <1>7, <1>8 DEF Next

(* The three invariants hold together in every reachable state.            *)
LEMMA AllInvariants ==
    ASSUME SafeOffer
    PROVE  Safety => [](TypeInv /\ OrderInv /\ WindowInv)
  <1>1. Init => TypeInv /\ OrderInv /\ WindowInv
    BY TypeInit, OrderInit, WindowInit
  <1>2. TypeInv /\ OrderInv /\ WindowInv /\ [Next]_vars
          => (TypeInv /\ OrderInv /\ WindowInv)'
    BY TypeStep, OrderStep, WindowStep
  <1> QED
    BY <1>1, <1>2, PTL DEF Safety

(* With an offer that never falls below the initial window, the peer's     *)
(* Channel::accept refuses no frame that Channel::emit has built, however  *)
(* often the sequence numbers have wrapped.                                *)
THEOREM Accepted ==
    ASSUME SafeOffer
    PROVE  Safety => []NeverRefused
  <1>1. TypeInv /\ OrderInv /\ WindowInv => NeverRefused
    BY DEF WindowInv, NeverRefused
  <1> QED
    BY <1>1, AllInvariants, PTL

(* At every moment the receiver would take all that the sender may still   *)
(* write, whatever SEQ frames are on their way.                            *)
THEOREM OfferCovers ==
    ASSUME SafeOffer
    PROVE  Safety => []OfferCoversSender
  <1>1. TypeInv /\ OrderInv /\ WindowInv => OfferCoversSender
    <2> SUFFICES ASSUME TypeInv, WindowInv PROVE OfferCoversSender
      OBVIOUS
    <2>1. TypeOK
      BY DEF TypeInv
    <2>2. /\ Position(recv_window.base) \in Nat
          /\ Position(expected_seqno) \in Nat
          /\ Position(next_seqno) \in Nat
          /\ unacked \in Nat
          /\ send_window.size \in Nat /\ recv_window.size \in Nat
      BY <2>1, WindowTypes, PositionType
    <2>3. /\ Position(recv_window.base) + unacked = Position(expected_seqno)
          /\ Position(expected_seqno) <= Position(next_seqno)
          /\ Position(next_seqno) <= send_window.size
          /\ send_window.size <= Position(recv_window.base) + recv_window.size
      BY DEF WindowInv, OctetsInOrder
    <2>4. Position(recv_window.base) <= Position(next_seqno)
      BY <2>2, <2>3
    <2>5. DistanceFrom(next_seqno, recv_window.base)
            = Position(next_seqno) - Position(recv_window.base)
      BY <2>1, <2>4, WindowTypes, DistanceRebase DEF Position
    <2>6. Writable = send_window.size - Position(next_seqno)
      BY <2>1, <2>3, WritableType
    <2> QED
      BY <2>2, <2>3, <2>5, <2>6 DEF OfferCoversSender, Accepts
  <1> QED
    BY <1>1, AllInvariants, PTL

(* A sender with payload queued is never left with an empty wire and no    *)
(* SEQ on its way: the threshold of Session::acknowledge is low enough.    *)
THEOREM NoLostWakeup ==
    ASSUME SafeOffer
    PROVE  Safety => []StallIsTemporary
  <1>1. TypeInv /\ OrderInv /\ WindowInv => StallIsTemporary
    <2> SUFFICES ASSUME TypeInv, WindowInv, queue # << >>, ~flushing,
                        wire = << >>, seqs = << >>
                 PROVE  FALSE
      BY DEF StallIsTemporary
    <2>1. TypeOK
      BY DEF TypeInv
    <2>2. Writable = 0
      BY DEF WindowInv, FlushBlocked
    <2>3. recv_window.base = send_window.base
      BY DEF WindowInv, AcksInOrder
    <2>4. Position(recv_window.base) = 0
      BY <2>1, <2>3, WindowTypes, DistanceSelf DEF Position
    <2>5. expected_seqno = next_seqno
      BY DEF WindowInv, OctetsInOrder, FrameSeqNo
    <2>6. /\ unacked \in Nat /\ send_window.size \in Nat
          /\ Position(next_seqno) \in Nat
          /\ InitialWindow \in Nat
          /\ Threshold \in 1 .. InitialWindow - 1
      BY <2>1, WindowTypes, PositionType, ThresholdType, FlowAssumption,
         ModulusAssumption
    <2>7. /\ Position(recv_window.base) + unacked = Position(expected_seqno)
          /\ Position(next_seqno) <= send_window.size
          /\ unacked < Threshold
          /\ send_window.size >= InitialWindow
      BY DEF WindowInv, OctetsInOrder
    <2>8. Writable = send_window.size - Position(next_seqno)
      BY <2>1, <2>7, WritableType
    <2> QED
      BY <2>2, <2>4, <2>5, <2>6, <2>7, <2>8
  <1> QED
    BY <1>1, AllInvariants, PTL

(* The limit up to which the sender may write never moves backwards: a SEQ *)
(* that Session::handle_seq applies offers at least what earlier ones did. *)
THEOREM NeverWithdrawn ==
    ASSUME SafeOffer
    PROVE  Safety => OfferNeverWithdrawn
  <1> DEFINE Kept == DistanceFrom(send_window'.base, send_window.base)
                       + send_window'.size >= send_window.size
  <1>1. TypeInv /\ OrderInv /\ WindowInv /\ [Next]_vars => [Kept]_vars
    <2> SUFFICES ASSUME TypeInv, WindowInv, Next PROVE Kept
      OBVIOUS
    <2>1. TypeOK
      BY DEF TypeInv
    <2>2. CASE HandleSeq
      <3>1. seqs \in Seq(SeqFrames) /\ seqs # << >>
        BY <2>1, <2>2 DEF HandleSeq, TypeOK
      <3>2. 1 \in 1 .. Len(seqs) /\ Head(seqs) = seqs[1]
        BY <3>1
      <3>3. /\ send_window'.base = seqs[1].ackno
            /\ send_window'.size = seqs[1].window
        BY <2>2, <3>2 DEF HandleSeq, Updated, NewWindow
      <3>4. Position(seqs[1].ackno) + seqs[1].window >= send_window.size
        BY <3>2 DEF WindowInv, AcksInOrder
      <3> QED
        BY <3>3, <3>4 DEF Position
    <2>3. CASE UNCHANGED send_window
      <3>1. /\ send_window.base \in SeqNo /\ send_window.size \in Nat
            /\ DistanceFrom(send_window.base, send_window.base) = 0
        BY <2>1, WindowTypes, DistanceSelf
      <3> QED
        BY <2>3, <3>1
    <2>4. HandleSeq \/ UNCHANGED send_window
      BY DEF Next, Send, FlushFrame, FlushDone, HandleData, RejectData,
             SetWindowSize, senderVars
    <2> QED
      BY <2>2, <2>3, <2>4
  <1> QED
    BY <1>1, AllInvariants, PTL DEF Safety, OfferNeverWithdrawn

-----------------------------------------------------------------------------
(* Refinement: every step of the channel is a step of MessageStream or     *)
(* leaves its variables alone.                                             *)

(* A frame that completes a message delivers the next submitted message.   *)
LEMMA DeliverRefines ==
    TypeInv /\ OrderInv /\ HandleData
      => Stream!Deliver \/ UNCHANGED <<submitted, DeliveredMessages>>
  <1> SUFFICES ASSUME TypeInv, OrderInv, HandleData
               PROVE  Stream!Deliver \/ UNCHANGED <<submitted, DeliveredMessages>>
    OBVIOUS
  <1>1. OrderInv' /\ UNCHANGED submitted
    BY OrderHandleData DEF HandleData, senderVars
  <1> PICK n \in Nat : n = Len(delivered)
    BY DEF TypeInv, TypeOK
  <1>2. CASE delivered' = delivered
    BY <1>1, <1>2 DEF DeliveredMessages
  <1>3. CASE delivered' = Append(delivered, Joined(Head(wire)))
    <2>1. /\ Len(delivered') = n + 1
          /\ \A i \in 1 .. n : delivered'[i] = delivered[i]
      BY <1>3 DEF TypeInv, TypeOK
    <2>2. /\ n + 1 <= Len(submitted)
          /\ delivered'[n + 1].hdr = submitted[n + 1].hdr
          /\ delivered'[n + 1].payload.msg = n + 1
          /\ delivered'[n + 1].payload.len = submitted[n + 1].len
      BY <1>1, <2>1 DEF OrderInv, DeliveredInOrder, Octets
    <2>3. submitted[n + 1] = [hdr |-> submitted[n + 1].hdr,
                              len |-> submitted[n + 1].len]
      <3>1. submitted[n + 1] \in Messages
        BY <2>2 DEF TypeInv, TypeOK
      <3> QED
        BY <3>1, FlowAssumption
    <2>4. Len(DeliveredMessages) = n
      BY DEF DeliveredMessages
    <2> DEFINE Shown(d, i) == [hdr |-> d.hdr,
                               len |-> IF d.payload.msg = i
                                         THEN d.payload.len ELSE -1]
    <2>5. DeliveredMessages = [i \in 1 .. n |-> Shown(delivered[i], i)]
      BY DEF DeliveredMessages
    <2>6. DeliveredMessages' = [i \in 1 .. n + 1 |-> Shown(delivered'[i], i)]
      BY <2>1 DEF DeliveredMessages
    <2>7. Shown(delivered'[n + 1], n + 1) = submitted[n + 1]
      BY <2>2, <2>3
    <2> HIDE DEF Shown
    <2>8. DeliveredMessages' = Append(DeliveredMessages, submitted[n + 1])
      BY <2>1, <2>4, <2>5, <2>6, <2>7
    <2>9. Len(submitted) \in Nat
      BY DEF TypeInv, TypeOK
    <2> QED
      BY <1>1, <2>2, <2>4, <2>8, <2>9 DEF Stream!Deliver
  <1> QED
    BY <1>2, <1>3 DEF HandleData

(* The channel implements the reliable FIFO of MessageStream, for every    *)
(* window, frame size and modulus (its safety part: that every message     *)
(* does arrive is checked by TLC).                                         *)
THEOREM RefinesStream == Safety => Stream!Safety
  <1>1. Init => Stream!Init
    <2> SUFFICES ASSUME Init PROVE Stream!Init
      OBVIOUS
    <2>1. submitted = << >> /\ delivered = << >>
      BY DEF Init
    <2>2. DeliveredMessages = << >>
      BY <2>1 DEF DeliveredMessages
    <2> QED
      BY <2>1, <2>2 DEF Stream!Init
  <1>2. TypeInv /\ OrderInv /\ [Next]_vars => [Stream!Next]_(Stream!vars)
    <2> SUFFICES ASSUME TypeInv, OrderInv, [Next]_vars
                 PROVE  \/ Stream!Submit \/ Stream!Deliver
                        \/ UNCHANGED <<submitted, DeliveredMessages>>
      BY DEF Stream!Next, Stream!vars
    <2>1. CASE Send
      <3>1. UNCHANGED DeliveredMessages
        BY <2>1 DEF Send, receiverVars, DeliveredMessages
      <3> QED
        BY <2>1, <3>1 DEF Send, Stream!Submit
    <2>2. CASE HandleData
      BY <2>2, DeliverRefines
    <2>3. CASE UNCHANGED <<submitted, delivered>>
      BY <2>3 DEF DeliveredMessages
    <2>4. Send \/ HandleData \/ UNCHANGED <<submitted, delivered>>
      BY DEF Next, vars, FlushFrame, FlushDone, HandleSeq, RejectData,
             SetWindowSize, senderVars, receiverVars
    <2> QED
      BY <2>1, <2>2, <2>3, <2>4
  <1>3. Init => TypeInv /\ OrderInv
    BY TypeInit, OrderInit
  <1>4. TypeInv /\ OrderInv /\ [Next]_vars => (TypeInv /\ OrderInv)'
    BY TypeStep, OrderStep
  <1> QED
    BY <1>1, <1>2, <1>3, <1>4, PTL DEF Safety, Stream!Safety
=============================================================================

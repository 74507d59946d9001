-------------------------- MODULE ReplyOrderProofs --------------------------
(***************************************************************************)
(* Theorems about ReplyOrder, for every set of message numbers and every   *)
(* number of messages and answers.                                         *)
(***************************************************************************)
EXTENDS ReplyOrder, TLAPS

HandlerStates == {"running", "answering", "done", "dropped"}

-----------------------------------------------------------------------------
(* Type correctness.                                                       *)

(* The helpers on sequences the code's queues need: an empty queue, and    *)
(* one whose front has been popped.                                        *)
LEMMA EmptySeq == ASSUME NEW S PROVE << >> \in Seq(S)
  OBVIOUS

(* A queue stays a queue when its front, if it has one, is removed.        *)
LEMMA PopType ==
    ASSUME NEW S, NEW q \in Seq(S)
    PROVE  (IF q = << >> THEN << >> ELSE Tail(q)) \in Seq(S)
  <1>1. CASE q = << >>
    BY <1>1
  <1>2. CASE q # << >>
    <2>1. Tail(q) \in Seq(S)
      BY <1>2
    <2> QED
      BY <1>2, <2>1
  <1> QED
    BY <1>1, <1>2

(* The parts of TypeOK that Session::send can change.                      *)
LEMMA TypeSend ==
    ASSUME TypeOK, NEW k \in Exchanges, NEW kind \in Kinds, Send(k, kind)
    PROVE  /\ reply_order' \in Seq(MsgNos)
           /\ held_replies' \in [MsgNos -> Seq(Replies)]
           /\ next_ansno' \in [MsgNos -> Nat]
           /\ out' \in Seq(Replies)
           /\ pc' \in {"idle", "scan", "drain"}
           /\ batch' \in Seq(Replies)
           /\ finished' \in BOOLEAN
           /\ UNCHANGED <<arrived, open>>
  <1> DEFINE m == arrived[k]
             r == [kind |-> kind, msgno |-> m, ansno |-> AnsNo(kind, m),
                   ex |-> k]
  <1>1. m \in MsgNos /\ k \in Nat \ {0}
    BY DEF TypeOK, Exchanges
  <1>2. r \in Replies
    BY <1>1 DEF AnsNo, TypeOK, Replies
  <1>3. next_ansno' \in [MsgNos -> Nat]
    <2>1. CountAnswer(kind, m)
      BY DEF Send
    <2>2. next_ansno[m] + 1 \in Nat
      BY <1>1 DEF TypeOK
    <2> QED
      BY <1>1, <2>1, <2>2 DEF CountAnswer, TypeOK
  <1>4. Hold(r) \/ Enqueue(r)
    BY DEF Send
  <1>5. CASE Hold(r)
    <2>1. r.msgno = m
      OBVIOUS
    <2>2. Append(held_replies[m], r) \in Seq(Replies)
      BY <1>1, <1>2 DEF TypeOK
    <2>3. held_replies' \in [MsgNos -> Seq(Replies)]
      BY <1>5, <2>1, <2>2 DEF Hold, TypeOK
    <2> QED
      BY <1>3, <1>5, <2>3 DEF Hold, TypeOK, loop, Send
  <1>6. CASE Enqueue(r)
    <2>1. out' \in Seq(Replies)
      BY <1>2, <1>6 DEF Enqueue, TypeOK
    <2>2. reply_order' \in Seq(MsgNos) /\ pc' \in {"idle", "scan", "drain"}
      BY <1>6, PopType DEF Enqueue, TypeOK
    <2> QED
      BY <1>3, <1>6, <2>1, <2>2 DEF Enqueue, TypeOK, Send
  <1> QED
    BY <1>4, <1>5, <1>6

(* Every step of the session, of a handler or of the peer keeps the types. *)
LEMMA TypeStep == TypeOK /\ [Next]_vars => TypeOK'
  <1> SUFFICES ASSUME TypeOK, [Next]_vars PROVE TypeOK'
    OBVIOUS
  <1>1. ASSUME Arrive PROVE TypeOK'
    BY <1>1 DEF Arrive, TypeOK, loop
  <1>2. ASSUME NEW k \in Exchanges, NEW kind \in Kinds, Send(k, kind),
               NEW h \in HandlerStates,
               handlers' = [handlers EXCEPT ![k] = h]
        PROVE  TypeOK'
    <2>1. handlers' \in Seq(HandlerStates) /\ Len(handlers') = Len(handlers)
      BY <1>2 DEF TypeOK, HandlerStates, Exchanges
    <2> QED
      BY <1>2, <2>1, TypeSend DEF TypeOK, HandlerStates
  <1>3. ASSUME Reply PROVE TypeOK'
    BY <1>2, <1>3 DEF Reply, Kinds, HandlerStates
  <1>4. ASSUME Answer PROVE TypeOK'
    BY <1>2, <1>4 DEF Answer, Kinds, HandlerStates
  <1>5. ASSUME Finish PROVE TypeOK'
    BY <1>2, <1>5 DEF Finish, Kinds, HandlerStates
  <1>6. ASSUME Drop PROVE TypeOK'
    BY <1>6 DEF Drop, TypeOK, session, loop, Exchanges
  <1>7. ASSUME ReleaseNext PROVE TypeOK'
    <2>1. Head(reply_order) \in MsgNos
      BY <1>7 DEF ReleaseNext, TypeOK
    <2>2. << >> \in Seq(Replies)
      OBVIOUS
    <2> QED
      BY <1>7, <2>1, <2>2 DEF ReleaseNext, TypeOK
  <1>8. ASSUME ReleaseDone PROVE TypeOK'
    BY <1>8 DEF ReleaseDone, TypeOK, session
  <1>9. ASSUME Drain PROVE TypeOK'
    <2>1. Head(batch) \in Replies /\ Tail(batch) \in Seq(Replies)
      BY <1>9 DEF Drain, TypeOK
    <2>2. finished' \in BOOLEAN
      BY <1>9 DEF Drain
    <2> QED
      BY <1>9, <2>1, <2>2 DEF Drain, TypeOK, session
  <1>10. ASSUME DrainDone PROVE TypeOK'
    BY <1>10, PopType DEF DrainDone, TypeOK
  <1>11. ASSUME FinishClose PROVE TypeOK'
    <2>1. << >> \in Seq(MsgNos) /\ << >> \in Seq(Replies)
      BY EmptySeq
    <2> QED
      BY <1>11, <2>1 DEF FinishClose, TypeOK, loop
  <1>12. ASSUME SendTooLate PROVE TypeOK'
    BY <1>12 DEF SendTooLate, TypeOK, session, loop, Exchanges
  <1>13. CASE UNCHANGED vars
    BY <1>13 DEF vars, session, loop, TypeOK
  <1> QED
    BY <1>1, <1>3, <1>4, <1>5, <1>6, <1>7, <1>8, <1>9, <1>10, <1>11, <1>12,
       <1>13 DEF Next

(* The state of the answering half is always well formed.                  *)
THEOREM TypeCorrect == Safety => []TypeOK
  <1>1. Init => TypeOK
    <2>1. /\ << >> \in Seq(MsgNos)
          /\ << >> \in Seq(Replies)
          /\ << >> \in Seq({"running", "answering", "done", "dropped"})
      BY EmptySeq
    <2> SUFFICES ASSUME Init PROVE TypeOK
      OBVIOUS
    <2>2. Len(handlers) = Len(arrived)
      BY DEF Init
    <2>3. held_replies \in [MsgNos -> Seq(Replies)]
      BY <2>1 DEF Init
    <2>4. next_ansno \in [MsgNos -> Nat]
      BY DEF Init
    <2> QED
      BY <2>1, <2>2, <2>3, <2>4 DEF Init, TypeOK
  <1> QED
    BY <1>1, TypeStep, PTL DEF Safety

-----------------------------------------------------------------------------
(* Replies leave in arrival order.                                         *)

(* The conjuncts of ReplyInv that describe an open channel.                *)
OpenInv ==
    /\ OrderMatches
    /\ OutMatches
    /\ HeldMatches
    /\ FrontNotHeld
    /\ BatchMatches
    /\ \A k \in 1 .. Retired : handlers[k] = "done"

(* Message numbers of the exchanges that wait for their turn are distinct: *)
(* a number names one exchange of reply_order.                             *)
LEMMA WaitingByNumber ==
    ASSUME TypeOK, OrderMatches,
           NEW a \in Retired + 1 .. Len(arrived),
           NEW b \in Retired + 1 .. Len(arrived),
           arrived[a] = arrived[b]
    PROVE  a = b
  <1>1. Len(arrived) \in Nat /\ Len(reply_order) \in Nat
    BY DEF TypeOK
  <1>0. Retired \in Nat
    BY <1>1 DEF OrderMatches, Retired
  <1>2. PICK i \in Nat : i = a - Retired
    BY <1>0
  <1>3. PICK j \in Nat : j = b - Retired
    BY <1>0
  <1>4. i \in 1 .. Len(reply_order) /\ j \in 1 .. Len(reply_order)
    BY <1>1, <1>2, <1>3 DEF OrderMatches, Retired
  <1>5. reply_order[i] = reply_order[j]
    <2>1. a = Retired + i /\ b = Retired + j
      BY <1>0, <1>2, <1>3
    <2> QED
      BY <1>4, <2>1 DEF OrderMatches
  <1>6. i = j
    BY <1>4, <1>5 DEF OrderMatches
  <1> QED
    BY <1>0, <1>2, <1>3, <1>6

(* The front of reply_order is the first exchange that is not retired.     *)
LEMMA FrontIsNext ==
    ASSUME TypeOK, OrderMatches, reply_order # << >>
    PROVE  /\ Retired + 1 \in Exchanges
           /\ Head(reply_order) = arrived[Retired + 1]
           /\ Retired \in Nat
           /\ Len(reply_order) \in Nat \ {0}
  <1>1. Len(arrived) \in Nat /\ Len(reply_order) \in Nat \ {0}
    BY DEF TypeOK
  <1>2. 1 \in 1 .. Len(reply_order)
    BY <1>1
  <1>3. Head(reply_order) = reply_order[1]
    BY DEF TypeOK
  <1> QED
    BY <1>1, <1>2, <1>3 DEF OrderMatches, Retired, Exchanges

(* A reply of the next exchange may be enqueued as long as that exchange   *)
(* is not over.                                                            *)
LEMMA AppendInOrder ==
    ASSUME TypeOK, RepliesInOrder, OutMatches, NEW r \in Replies,
           Retired \in Nat,
           r.ex = Retired + 1, r.ex \in Exchanges, r.msgno = arrived[r.ex],
           ~(pc = "drain" /\ finished),
           out' = Append(out, r), UNCHANGED arrived
    PROVE  RepliesInOrder'
  <1>1. PICK n \in Nat : n = Len(out)
    BY DEF TypeOK
  <1>2. /\ Len(out') = n + 1
        /\ \A i \in 1 .. n : out'[i] = out[i]
        /\ out'[n + 1] = r
    BY <1>1 DEF TypeOK
  <1>3. \A i \in 1 .. n : out[i].ex \in Nat
    <2>1. \A i \in 1 .. n : out[i] \in Replies
      BY <1>1 DEF TypeOK
    <2> QED
      BY <2>1 DEF Replies
  <1> SUFFICES ASSUME NEW j \in 1 .. n + 1
               PROVE  /\ out'[j].ex \in Exchanges
                      /\ out'[j].msgno = arrived[out'[j].ex]
                      /\ \A e \in 1 .. out'[j].ex - 1 :
                           \E i \in 1 .. j-1 :
                              out'[i].ex = e /\ CompletesReply(out'[i].kind)
                      /\ \A i \in 1 .. j-1 :
                           /\ out'[i].ex <= out'[j].ex
                           /\ CompletesReply(out'[i].kind)
                                => out'[i].ex < out'[j].ex
    BY SMTT(30), <1>2 DEF RepliesInOrder, Exchanges, CompletesReply
  <1>4. CASE j \in 1 .. n
    <2>1. \A i \in 1 .. j-1 : out'[i] = out[i] /\ i \in 1 .. n
      BY <1>2, <1>4
    <2> QED
      BY <1>1, <1>2, <1>4, <2>1 DEF RepliesInOrder
  <1>5. CASE j = n + 1
    <2>1. out'[j] = r
      BY <1>2, <1>5
    <2>2. \A i \in 1 .. j-1 : i \in 1 .. n /\ out'[i] = out[i]
      BY <1>2, <1>5
    <2>3. ASSUME NEW e \in 1 .. Retired
          PROVE  \E i \in 1 .. j-1 :
                    out'[i].ex = e /\ CompletesReply(out'[i].kind)
      <3>1. PICK i \in 1 .. n : out[i].ex = e /\ CompletesReply(out[i].kind)
        BY <1>1 DEF OutMatches, Answered
      <3>2. i \in 1 .. j-1
        BY <1>5
      <3> QED
        BY <2>2, <3>1, <3>2
    <2>4. ASSUME NEW i \in 1 .. j-1
          PROVE  /\ out'[i].ex <= r.ex
                 /\ CompletesReply(out'[i].kind) => out'[i].ex < r.ex
      <3>1. out[i].ex \in Nat /\ out[i].ex <= Retired + 1
        BY <1>1, <1>3, <2>2 DEF OutMatches
      <3>2. CompletesReply(out[i].kind) => out[i].ex # Retired + 1
        BY <1>1, <2>2 DEF OutMatches
      <3> QED
        <4>1. out'[i] = out[i]
          BY <2>2
        <4>2. out[i].ex <= r.ex
          BY <3>1
        <4>3. CompletesReply(out[i].kind) => out[i].ex < r.ex
          BY <3>1, <3>2
        <4> QED
          BY <4>1, <4>2, <4>3
    <2>5. 1 .. r.ex - 1 = 1 .. Retired
      OBVIOUS
    <2> QED
      <3>1. 1 .. out'[j].ex - 1 = 1 .. Retired
        BY <2>1, <2>5
      <3>2. out'[j].ex \in Exchanges /\ out'[j].msgno = arrived[out'[j].ex]
        BY <2>1
      <3>3. \A i \in 1 .. j-1 :
              /\ out'[i].ex <= out'[j].ex
              /\ CompletesReply(out'[i].kind) => out'[i].ex < out'[j].ex
        BY <2>1, <2>4
      <3>4. \A e \in 1 .. out'[j].ex - 1 :
              \E i \in 1 .. j-1 :
                 out'[i].ex = e /\ CompletesReply(out'[i].kind)
        BY <2>3, <3>1
      <3> QED
        BY <3>2, <3>3, <3>4
  <1>6. j \in 1 .. n \/ j = n + 1
    BY <1>1
  <1> QED
    BY <1>4, <1>5, <1>6

(* What is held or in the batch and belongs to one number belongs to one   *)
(* exchange; when that exchange is not over yet, none of it ends it.       *)
LEMMA HeldOfExchange ==
    ASSUME TypeOK, OrderMatches, HeldMatches,
           NEW k \in Retired + 1 .. Len(arrived),
           NEW i \in 1 .. Len(held_replies[arrived[k]])
    PROVE  /\ held_replies[arrived[k]][i].ex = k
           /\ CompletesReply(held_replies[arrived[k]][i].kind)
                => handlers[k] = "done"
  <1> DEFINE m == arrived[k]
             r == held_replies[m][i]
  <1>0. Len(arrived) \in Nat /\ Len(reply_order) \in Nat
    BY DEF TypeOK
  <1>1. m \in MsgNos
    BY <1>0 DEF TypeOK, OrderMatches, Retired
  <1>2. Waiting(r) /\ r.msgno = m
    BY <1>1 DEF HeldMatches
  <1>3. r.ex = k
    BY <1>2, WaitingByNumber DEF Waiting
  <1> QED
    BY <1>1, <1>3 DEF HeldMatches, LastOfHandler

(* Session::send when the reply has to wait.                               *)
LEMMA HoldStep ==
    ASSUME TypeOK, OpenInv, RepliesInOrder, pc = "idle",
           NEW k \in Retired + 1 .. Len(arrived), NEW r \in Replies,
           r.ex = k, r.msgno = arrived[k],
           handlers[k] # "done",
           NEW h \in HandlerStates, CompletesReply(r.kind) => h = "done",
           handlers' = [handlers EXCEPT ![k] = h],
           Hold(r), UNCHANGED <<arrived, open>>
    PROVE  OpenInv' /\ RepliesInOrder'
  <1> DEFINE m == arrived[k]
  <1>0. Len(arrived) \in Nat /\ Len(reply_order) \in Nat
        /\ Len(handlers) = Len(arrived)
    BY DEF TypeOK
  <1>1. m \in MsgNos /\ k \in Exchanges
    BY <1>0 DEF TypeOK, OpenInv, OrderMatches, Retired, Exchanges
  <1>2. UNCHANGED <<arrived, reply_order, out, pc, batch, finished>>
    BY DEF Hold, loop
  <1>3. Retired' = Retired /\ Retired \in Nat
    BY <1>0, <1>2 DEF Retired, OpenInv, OrderMatches
  <1>4. OrderMatches' /\ RepliesInOrder' /\ OutMatches'
    <2>1. OrderMatches'
      BY <1>2, <1>3 DEF OpenInv, OrderMatches
    <2>2. RepliesInOrder'
      BY <1>2 DEF RepliesInOrder, Exchanges, CompletesReply
    <2>3. OutMatches'
      BY <1>2, <1>3 DEF OpenInv, OutMatches, Answered, CompletesReply
    <2> QED
      BY <2>1, <2>2, <2>3
  <1>5. \A e \in Exchanges : handlers[e] = "done" => handlers'[e] = "done"
    BY <1>0, <1>1 DEF Exchanges, TypeOK
  <1>6. handlers'[k] = h
    BY <1>0, <1>1 DEF Exchanges, TypeOK
  <1>7. reply_order # << >> /\ Head(reply_order) # m
    BY DEF Hold, IsNextReply
  <1>8. HeldMatches'
    <2> SUFFICES ASSUME NEW n \in MsgNos
                 PROVE  /\ \A i \in 1 .. Len(held_replies'[n]) :
                             /\ Waiting(held_replies'[n][i])
                             /\ held_replies'[n][i].msgno = n
                        /\ \A i \in 1 .. Len(held_replies'[n]) :
                             CompletesReply(held_replies'[n][i].kind) =>
                               /\ i = Len(held_replies'[n])
                               /\ handlers'[held_replies'[n][i].ex] = "done"
      BY <1>2, <1>3 DEF HeldMatches, LastOfHandler, Waiting, CompletesReply
    <2>1. CASE n # m
      <3>1. held_replies'[n] = held_replies[n]
        BY <2>1, <1>1 DEF Hold, TypeOK
      <3>2. \A i \in 1 .. Len(held_replies[n]) :
              /\ Waiting(held_replies[n][i])
              /\ held_replies[n][i].msgno = n
              /\ CompletesReply(held_replies[n][i].kind) =>
                   /\ i = Len(held_replies[n])
                   /\ handlers[held_replies[n][i].ex] = "done"
        BY DEF OpenInv, HeldMatches, LastOfHandler
      <3>3. \A i \in 1 .. Len(held_replies[n]) :
              held_replies[n][i].ex \in Exchanges
        BY <1>0, <1>3, <3>2 DEF Waiting, Exchanges
      <3> QED
        BY <1>5, <3>1, <3>2, <3>3
    <2>2. CASE n = m
      <3>1. PICK l \in Nat : l = Len(held_replies[m])
        BY <1>1 DEF TypeOK
      <3>2. /\ held_replies'[m] = Append(held_replies[m], r)
            /\ held_replies[m] \in Seq(Replies)
        BY <1>1 DEF Hold, TypeOK
      <3>3. /\ Len(held_replies'[m]) = l + 1
            /\ \A i \in 1 .. l : held_replies'[m][i] = held_replies[m][i]
            /\ held_replies'[m][l + 1] = r
        BY <3>1, <3>2
      <3>4. \A i \in 1 .. l :
              /\ Waiting(held_replies[m][i])
              /\ held_replies[m][i].msgno = m
              /\ ~CompletesReply(held_replies[m][i].kind)
        <4>1. \A i \in 1 .. l : Waiting(held_replies[m][i])
                                /\ held_replies[m][i].msgno = m
          BY <1>1, <3>1 DEF OpenInv, HeldMatches
        <4>2. \A i \in 1 .. l : ~CompletesReply(held_replies[m][i].kind)
          BY <3>1, HeldOfExchange DEF OpenInv
        <4> QED
          BY <4>1, <4>2
      <3>5. Waiting(r) /\ r.msgno = m
        BY DEF Waiting
      <3>6. \A i \in 1 .. l + 1 : i \in 1 .. l \/ i = l + 1
        BY <3>1
      <3> QED
        BY SMTT(30), <1>6, <2>2, <3>3, <3>4, <3>5, <3>6
    <2> QED
      BY <2>1, <2>2
  <1>9. FrontNotHeld'
    <2>1. Head(reply_order) \in MsgNos
      BY <1>7 DEF TypeOK
    <2>2. held_replies'[Head(reply_order)] = held_replies[Head(reply_order)]
      BY <1>7, <2>1 DEF Hold, TypeOK
    <2> QED
      BY <1>2, <2>2 DEF FrontNotHeld, OpenInv
  <1>10. BatchMatches'
    BY <1>2 DEF BatchMatches, OpenInv
  <1>11. \A e \in 1 .. Retired : handlers'[e] = "done"
    <2>1. \A e \in 1 .. Retired : e \in Exchanges
      BY <1>0, <1>3 DEF Exchanges, OpenInv, OrderMatches, Retired
    <2> QED
      BY <1>5, <2>1 DEF OpenInv
  <1> QED
    BY <1>3, <1>4, <1>8, <1>9, <1>10, <1>11 DEF OpenInv

(* order.pop_front() when nothing is held for the front: the order still   *)
(* matches the arrivals, and everything held still waits.                  *)
LEMMA RetireFront ==
    ASSUME TypeOK, OrderMatches, HeldMatches, reply_order # << >>,
           held_replies[Head(reply_order)] = << >>,
           reply_order' = Tail(reply_order),
           UNCHANGED <<arrived, held_replies>>,
           \A e \in Exchanges : handlers[e] = "done" => handlers'[e] = "done"
    PROVE  OrderMatches' /\ HeldMatches' /\ Retired' = Retired + 1
  <1>1. /\ Retired + 1 \in Exchanges
        /\ Head(reply_order) = arrived[Retired + 1]
        /\ Retired \in Nat
        /\ Len(reply_order) \in Nat \ {0}
        /\ Len(arrived) \in Nat
    BY FrontIsNext DEF TypeOK
  <1>2. PICK l \in Nat : l + 1 = Len(reply_order)
    <2>1. Len(reply_order) - 1 \in Nat
      BY <1>1
    <2> QED
      BY <1>1, <2>1
  <1>3. /\ Len(reply_order') = l
        /\ \A i \in 1 .. l : reply_order'[i] = reply_order[i + 1]
    BY <1>2 DEF TypeOK
  <1>4. Retired' = Retired + 1
    BY <1>1, <1>2, <1>3 DEF Retired
  <1>5. OrderMatches'
    <2>1. l <= Len(arrived)
      BY <1>1, <1>2 DEF OrderMatches
    <2>2. \A i \in 1 .. l : reply_order'[i] = arrived[Retired + 1 + i]
      <3> SUFFICES ASSUME NEW i \in 1 .. l
                   PROVE  reply_order'[i] = arrived[Retired + 1 + i]
        OBVIOUS
      <3>1. i + 1 \in 1 .. Len(reply_order)
        BY <1>2
      <3>2. reply_order[i + 1] = arrived[Retired + (i + 1)]
        BY <3>1 DEF OrderMatches
      <3>3. Retired + (i + 1) = Retired + 1 + i
        BY <1>1
      <3> QED
        BY <1>3, <3>2, <3>3
    <2>3. \A i, j \in 1 .. l : reply_order'[i] = reply_order'[j] => i = j
      <3> SUFFICES ASSUME NEW i \in 1 .. l, NEW j \in 1 .. l,
                          reply_order'[i] = reply_order'[j]
                   PROVE  i = j
        OBVIOUS
      <3>1. i + 1 \in 1 .. Len(reply_order) /\ j + 1 \in 1 .. Len(reply_order)
        BY <1>2
      <3>2. i + 1 = j + 1
        BY <1>3, <3>1 DEF OrderMatches
      <3> QED
        BY <3>2
    <2> QED
      BY <1>3, <1>4, <2>1, <2>2, <2>3 DEF OrderMatches
  <1>6. HeldMatches'
    <2> SUFFICES ASSUME NEW n \in MsgNos, NEW i \in 1 .. Len(held_replies[n])
                 PROVE  /\ held_replies[n][i].ex \in Retired + 2 .. Len(arrived)
                        /\ held_replies[n][i].msgno
                             = arrived[held_replies[n][i].ex]
                        /\ held_replies[n][i].msgno = n
                        /\ CompletesReply(held_replies[n][i].kind) =>
                             /\ i = Len(held_replies[n])
                             /\ handlers'[held_replies[n][i].ex] = "done"
      BY <1>1, <1>4 DEF HeldMatches, LastOfHandler, Waiting, CompletesReply
    <2>1. /\ Waiting(held_replies[n][i])
          /\ held_replies[n][i].msgno = n
          /\ CompletesReply(held_replies[n][i].kind) =>
               /\ i = Len(held_replies[n])
               /\ handlers[held_replies[n][i].ex] = "done"
      BY DEF HeldMatches, LastOfHandler
    <2>2. held_replies[n][i].ex # Retired + 1
      <3> SUFFICES ASSUME held_replies[n][i].ex = Retired + 1 PROVE FALSE
        OBVIOUS
      <3>1. n = Head(reply_order)
        BY <1>1, <2>1 DEF Waiting
      <3>2. 1 .. Len(held_replies[n]) = {}
        BY <3>1
      <3> QED
        BY <3>2
    <2>3. held_replies[n][i].ex \in Exchanges
      BY <1>1, <2>1 DEF Waiting, Exchanges
    <2> QED
      BY <1>1, <2>1, <2>2, <2>3 DEF Waiting
  <1> QED
    BY <1>4, <1>5, <1>6

(* Session::send when it is the reply's turn.                              *)
LEMMA EnqueueStep ==
    ASSUME TypeOK, OpenInv, RepliesInOrder, pc = "idle",
           NEW k \in Retired + 1 .. Len(arrived), NEW r \in Replies,
           r.ex = k, r.msgno = arrived[k],
           handlers[k] # "done",
           NEW h \in HandlerStates, CompletesReply(r.kind) => h = "done",
           handlers' = [handlers EXCEPT ![k] = h],
           Enqueue(r), UNCHANGED <<arrived, open>>
    PROVE  OpenInv' /\ RepliesInOrder'
  <1>0. /\ Len(arrived) \in Nat /\ Len(reply_order) \in Nat
        /\ Len(handlers) = Len(arrived)
        /\ Retired \in Nat
    BY DEF TypeOK, OpenInv, OrderMatches, Retired
  <1>1. reply_order # << >>
    <2> SUFFICES ASSUME reply_order = << >> PROVE FALSE
      OBVIOUS
    <2>1. Len(reply_order) = 0
      OBVIOUS
    <2> QED
      BY <1>0, <2>1 DEF Retired
  <1>2. Retired + 1 \in Exchanges /\ Head(reply_order) = arrived[Retired + 1]
    BY <1>1, FrontIsNext DEF OpenInv
  <1>3. k = Retired + 1 /\ k \in Exchanges
    <2>1. arrived[k] = arrived[Retired + 1]
      BY <1>1, <1>2 DEF Enqueue, IsNextReply
    <2>2. Retired + 1 \in Retired + 1 .. Len(arrived)
      BY <1>0, <1>2 DEF Exchanges
    <2> QED
      BY <1>2, <2>1, <2>2, WaitingByNumber DEF OpenInv
  <1>4. out' = Append(out, r) /\ UNCHANGED <<held_replies, batch, finished>>
    BY DEF Enqueue
  <1>5. RepliesInOrder'
    BY <1>0, <1>3, <1>4, AppendInOrder DEF OpenInv
  <1>6. \A e \in Exchanges : handlers[e] = "done" => handlers'[e] = "done"
    BY SMTT(30), <1>0, <1>3 DEF Exchanges, TypeOK
  <1>7. handlers'[k] = h
    BY <1>0, <1>3 DEF Exchanges, TypeOK
  <1>8. PICK n \in Nat : n = Len(out)
    BY DEF TypeOK
  <1>9. /\ Len(out') = n + 1
        /\ \A i \in 1 .. n : out'[i] = out[i]
        /\ out'[n + 1] = r
    BY <1>4, <1>8 DEF TypeOK
  <1>10. \A e : Answered(e) => Answered(e)'
    <2> SUFFICES ASSUME NEW e, Answered(e) PROVE Answered(e)'
      OBVIOUS
    <2>1. PICK i \in 1 .. n : out[i].ex = e /\ CompletesReply(out[i].kind)
      BY <1>8 DEF Answered
    <2>2. i \in 1 .. n + 1 /\ out'[i] = out[i]
      BY <1>9
    <2> QED
      BY <1>9, <2>1, <2>2 DEF Answered, CompletesReply
  <1>11. held_replies[Head(reply_order)] = << >>
    BY <1>1 DEF OpenInv, FrontNotHeld
  <1>12. batch = << >>
    BY DEF OpenInv, BatchMatches
  <1>13. \A j \in 1 .. n + 1 : j \in 1 .. n \/ j = n + 1
    BY <1>8
  <1>14. CASE CompletesReply(r.kind)
    <2>1. reply_order' = Tail(reply_order) /\ pc' = "scan"
      BY <1>1, <1>14 DEF Enqueue
    <2>2. OrderMatches' /\ HeldMatches' /\ Retired' = Retired + 1
      BY <1>1, <1>4, <1>6, <1>11, <2>1, RetireFront DEF OpenInv
    <2>3. ASSUME NEW e \in 1 .. Retired + 1
          PROVE  Answered(e)'
      <3>1. CASE e \in 1 .. Retired
        BY <1>10, <3>1 DEF OpenInv, OutMatches
      <3>2. CASE e = Retired + 1
        <4>1. out'[n + 1].ex = e /\ CompletesReply(out'[n + 1].kind)
          BY <1>3, <1>9, <1>14, <3>2
        <4>2. n + 1 \in 1 .. Len(out')
          BY <1>8, <1>9
        <4> QED
          BY <4>1, <4>2 DEF Answered, CompletesReply
      <3> QED
        BY <1>0, <3>1, <3>2
    <2>4. OutMatches'
      <3>1. \A j \in 1 .. n + 1 : out'[j].ex <= Retired + 1
        BY <1>3, <1>8, <1>9, <1>13, <1>0 DEF OpenInv, OutMatches
      <3>2. \A j \in 1 .. n + 1 : out'[j].ex \in Nat
        <4>1. \A j \in 1 .. n : out[j] \in Replies
          BY <1>8 DEF TypeOK
        <4> QED
          BY <1>9, <1>13, <4>1 DEF Replies
      <3>3. \A j \in 1 .. n + 1 : /\ out'[j].ex <= Retired + 2
                                  /\ out'[j].ex # Retired + 2
        BY <1>0, <3>1, <3>2
      <3>4. Retired + 1 + 1 = Retired + 2
        BY <1>0
      <3> QED
        BY <1>9, <2>2, <2>3, <3>3, <3>4 DEF OutMatches
    <2>5. FrontNotHeld' /\ BatchMatches'
      BY <1>4, <1>12, <2>1 DEF FrontNotHeld, BatchMatches
    <2>6. \A e \in 1 .. Retired + 1 : handlers'[e] = "done"
      <3>1. \A e \in 1 .. Retired + 1 : e \in 1 .. Retired \/ e = Retired + 1
        BY <1>0
      <3>2. \A e \in 1 .. Retired : e \in Exchanges
        BY <1>0, <1>2 DEF Exchanges
      <3> QED
        BY <1>3, <1>6, <1>7, <1>14, <3>1, <3>2 DEF OpenInv
    <2> QED
      BY <1>5, <2>2, <2>4, <2>5, <2>6 DEF OpenInv
  <1>15. CASE ~CompletesReply(r.kind)
    <2>1. UNCHANGED <<reply_order, pc>>
      BY <1>15 DEF Enqueue
    <2>2. Retired' = Retired
      BY <2>1 DEF Retired
    <2>3. OrderMatches'
      BY <2>1, <2>2 DEF OpenInv, OrderMatches
    <2>4. OutMatches'
      <3>1. \A j \in 1 .. n + 1 : out'[j].ex <= Retired + 1
        BY <1>0, <1>3, <1>8, <1>9, <1>13 DEF OpenInv, OutMatches
      <3>2. \A j \in 1 .. n + 1 :
              ~(out'[j].ex = Retired + 1 /\ CompletesReply(out'[j].kind))
        BY <1>8, <1>9, <1>13, <1>15 DEF OpenInv, OutMatches
      <3>3. \A e \in 1 .. Retired : Answered(e)'
        BY <1>10 DEF OpenInv, OutMatches
      <3> QED
        BY <1>9, <2>2, <3>1, <3>2, <3>3 DEF OutMatches, CompletesReply
    <2>5. HeldMatches'
      <3> SUFFICES ASSUME NEW m \in MsgNos,
                          NEW i \in 1 .. Len(held_replies[m])
                   PROVE  /\ Waiting(held_replies[m][i])
                          /\ held_replies[m][i].msgno = m
                          /\ CompletesReply(held_replies[m][i].kind) =>
                               /\ i = Len(held_replies[m])
                               /\ handlers'[held_replies[m][i].ex] = "done"
        BY <1>4, <2>2 DEF HeldMatches, LastOfHandler, Waiting, CompletesReply
      <3>1. /\ Waiting(held_replies[m][i])
            /\ held_replies[m][i].msgno = m
            /\ CompletesReply(held_replies[m][i].kind) =>
                 /\ i = Len(held_replies[m])
                 /\ handlers[held_replies[m][i].ex] = "done"
        BY DEF OpenInv, HeldMatches, LastOfHandler
      <3>2. held_replies[m][i].ex \in Exchanges
        BY <1>0, <3>1 DEF Waiting, Exchanges
      <3> QED
        BY <1>6, <3>1, <3>2
    <2>6. FrontNotHeld' /\ BatchMatches'
      BY <1>4, <1>12, <2>1 DEF OpenInv, FrontNotHeld, BatchMatches
    <2>7. \A e \in 1 .. Retired : handlers'[e] = "done"
      <3>1. \A e \in 1 .. Retired : e \in Exchanges
        BY <1>0, <1>2 DEF Exchanges
      <3> QED
        BY <1>6, <3>1 DEF OpenInv
    <2> QED
      BY <1>5, <2>2, <2>3, <2>4, <2>5, <2>6, <2>7 DEF OpenInv
  <1> QED
    BY <1>14, <1>15

(* A handler's reply, held or enqueued.                                    *)
LEMMA SendStep ==
    ASSUME TypeOK, ReplyInv, NEW k \in Exchanges, NEW kind \in Kinds,
           Send(k, kind), handlers[k] # "done",
           NEW h \in HandlerStates, CompletesReply(kind) => h = "done",
           handlers' = [handlers EXCEPT ![k] = h]
    PROVE  ReplyInv'
  <1> DEFINE m == arrived[k]
             r == [kind |-> kind, msgno |-> m, ansno |-> AnsNo(kind, m),
                   ex |-> k]
  <1>1. open /\ pc = "idle" /\ OpenInv /\ RepliesInOrder
    BY DEF Send, ReplyInv, OpenInv
  <1>2. k \in Retired + 1 .. Len(arrived)
    <2>1. /\ Len(arrived) \in Nat /\ Len(reply_order) \in Nat
          /\ Retired \in Nat
      BY <1>1 DEF TypeOK, OpenInv, OrderMatches, Retired
    <2>2. k \notin 1 .. Retired
      BY <1>1 DEF OpenInv
    <2> QED
      BY <2>1, <2>2 DEF Exchanges
  <1>3. m \in MsgNos /\ k \in Nat \ {0}
    BY DEF TypeOK, Exchanges
  <1>4. r \in Replies /\ r.ex = k /\ r.msgno = m /\ r.kind = kind
    BY <1>3 DEF AnsNo, TypeOK, Replies
  <1>5. /\ Hold(r) \/ Enqueue(r)
        /\ UNCHANGED <<arrived, open>>
    BY DEF Send
  <1> HIDE DEF r
  <1>6. CASE Hold(r)
    BY <1>1, <1>2, <1>4, <1>5, <1>6, HoldStep DEF ReplyInv, OpenInv
  <1>7. CASE Enqueue(r)
    BY <1>1, <1>2, <1>4, <1>5, <1>7, EnqueueStep DEF ReplyInv, OpenInv
  <1> QED
    BY <1>5, <1>6, <1>7

(* A message arrives; its number is new to reply_order.                    *)
LEMMA ArriveStep ==
    ASSUME TypeOK, ReplyInv, Arrive
    PROVE  ReplyInv'
  <1>1. OpenInv /\ RepliesInOrder /\ open /\ pc = "idle"
    BY DEF Arrive, ReplyInv, OpenInv
  <1>2. PICK m \in MsgNos :
          /\ \A k \in Exchanges : arrived[k] = m => Answered(k)
          /\ arrived' = Append(arrived, m)
          /\ reply_order' = Append(reply_order, m)
    BY DEF Arrive
  <1>3. /\ handlers' = Append(handlers, "running")
        /\ UNCHANGED <<open, held_replies, out, pc, batch, finished>>
    BY DEF Arrive, loop
  <1>4. PICK a \in Nat : a = Len(arrived) /\ a = Len(handlers)
    BY DEF TypeOK
  <1>5. PICK l \in Nat : l = Len(reply_order)
    BY DEF TypeOK
  <1>6. l <= a /\ Retired = a - l /\ Retired \in Nat
    BY <1>1, <1>4, <1>5 DEF OpenInv, OrderMatches, Retired
  <1>7. /\ Len(arrived') = a + 1
        /\ \A i \in 1 .. a : arrived'[i] = arrived[i]
        /\ arrived'[a + 1] = m
    BY <1>2, <1>4 DEF TypeOK
  <1>8. /\ Len(reply_order') = l + 1
        /\ \A i \in 1 .. l : reply_order'[i] = reply_order[i]
        /\ reply_order'[l + 1] = m
    BY <1>2, <1>5 DEF TypeOK
  <1>9. \A i \in 1 .. a : handlers'[i] = handlers[i]
    BY <1>3, <1>4 DEF TypeOK
  <1>10. Retired' = Retired
    <2>1. Retired' = (a + 1) - (l + 1)
      BY <1>7, <1>8 DEF Retired
    <2> QED
      BY <1>6, <2>1
  <1>11. \A i \in 1 .. l : reply_order[i] # m
    <2> SUFFICES ASSUME NEW i \in 1 .. l, reply_order[i] = m PROVE FALSE
      OBVIOUS
    <2>1. arrived[Retired + i] = m
      BY <1>1, <1>5 DEF OpenInv, OrderMatches
    <2>2. Retired + i \in Exchanges
      BY <1>4, <1>6 DEF Exchanges
    <2>3. PICK j \in 1 .. Len(out) : /\ out[j].ex = Retired + i
                                     /\ CompletesReply(out[j].kind)
      BY <1>2, <2>1, <2>2 DEF Answered
    <2>4. Retired + i <= Retired + 1
      BY <1>1, <2>3 DEF OpenInv, OutMatches
    <2>5. Retired + i = Retired + 1
      BY <1>6, <2>4
    <2> QED
      BY <1>1, <2>3, <2>5 DEF OpenInv, OutMatches
  <1>12. OrderMatches'
    <2>1. \A i \in 1 .. l + 1 : i \in 1 .. l \/ i = l + 1
      BY <1>5
    <2>2. \A i \in 1 .. l + 1 : reply_order'[i] = arrived'[Retired + i]
      <3>1. \A i \in 1 .. l : Retired + i \in 1 .. a
        BY <1>6
      <3>2. Retired + (l + 1) = a + 1
        BY <1>6
      <3> QED
        BY <1>1, <1>5, <1>7, <1>8, <2>1, <3>1, <3>2 DEF OpenInv, OrderMatches
    <2>3. \A i, j \in 1 .. l + 1 : reply_order'[i] = reply_order'[j] => i = j
      BY <1>1, <1>5, <1>8, <1>11, <2>1 DEF OpenInv, OrderMatches
    <2> QED
      BY <1>6, <1>7, <1>8, <1>10, <2>2, <2>3 DEF OrderMatches
  <1>13. OutMatches'
    BY <1>1, <1>3, <1>10 DEF OpenInv, OutMatches, Answered, CompletesReply
  <1>14. RepliesInOrder'
    <2>1. \A e \in Exchanges : e \in 1 .. a /\ e \in 1 .. a + 1
      BY <1>4 DEF Exchanges
    <2> QED
      BY <1>1, <1>3, <1>7, <2>1 DEF RepliesInOrder, Exchanges, CompletesReply
  <1>15. \A r : Waiting(r) => r.ex \in 1 .. a /\ r.ex \in Retired + 1 .. a + 1
    BY <1>4, <1>6 DEF Waiting
  <1>16. HeldMatches'
    <2> SUFFICES ASSUME NEW n \in MsgNos, NEW i \in 1 .. Len(held_replies[n])
                 PROVE  /\ held_replies[n][i].ex \in Retired + 1 .. a + 1
                        /\ held_replies[n][i].msgno
                             = arrived'[held_replies[n][i].ex]
                        /\ held_replies[n][i].msgno = n
                        /\ CompletesReply(held_replies[n][i].kind) =>
                             /\ i = Len(held_replies[n])
                             /\ handlers'[held_replies[n][i].ex] = "done"
      BY ZenonT(40), <1>3, <1>7, <1>10
         DEF HeldMatches, LastOfHandler, Waiting, CompletesReply
    <2>1. /\ Waiting(held_replies[n][i])
          /\ held_replies[n][i].msgno = n
          /\ CompletesReply(held_replies[n][i].kind) =>
               /\ i = Len(held_replies[n])
               /\ handlers[held_replies[n][i].ex] = "done"
      BY <1>1 DEF OpenInv, HeldMatches, LastOfHandler
    <2> QED
      BY <1>7, <1>9, <1>15, <2>1 DEF Waiting
  <1>17. FrontNotHeld'
    <2>1. CASE reply_order # << >>
      <3>1. Head(reply_order') = Head(reply_order)
        BY <1>2, <2>1 DEF TypeOK
      <3> QED
        BY <1>1, <1>3, <2>1, <3>1 DEF OpenInv, FrontNotHeld
    <2>2. CASE reply_order = << >>
      <3>1. l = 0 /\ Retired = a
        BY <1>5, <1>6, <2>2
      <3>2. Head(reply_order') = m
        BY <1>2, <2>2
      <3>3. held_replies[m] \in Seq(Replies)
        BY DEF TypeOK
      <3>4. \A i \in 1 .. Len(held_replies[m]) : Waiting(held_replies[m][i])
        BY <1>1 DEF OpenInv, HeldMatches
      <3>5. \A r : ~Waiting(r)
        BY <1>4, <3>1 DEF Waiting
      <3>6. held_replies[m] = << >>
        <4> SUFFICES ASSUME held_replies[m] # << >> PROVE FALSE
          OBVIOUS
        <4>1. 1 \in 1 .. Len(held_replies[m])
          BY <3>3
        <4> QED
          BY <3>4, <3>5, <4>1
      <3> QED
        BY <1>3, <3>2, <3>6 DEF FrontNotHeld
    <2> QED
      BY <2>1, <2>2
  <1>18. BatchMatches'
    BY <1>1, <1>3 DEF OpenInv, BatchMatches
  <1>19. \A e \in 1 .. Retired : handlers'[e] = "done"
    <2>1. \A e \in 1 .. Retired : e \in 1 .. a
      BY <1>6
    <2> QED
      BY <1>1, <1>9, <2>1 DEF OpenInv
  <1> QED
    BY <1>1, <1>3, <1>10, <1>12, <1>13, <1>14, <1>16, <1>17, <1>18, <1>19
       DEF ReplyInv

(* reply_finished takes what is held for the front of the order.           *)
LEMMA ReleaseNextStep ==
    ASSUME TypeOK, ReplyInv, ReleaseNext
    PROVE  ReplyInv'
  <1>1. pc = "scan" /\ open /\ OpenInv /\ RepliesInOrder /\ reply_order # << >>
    BY DEF ReleaseNext, ReplyInv, OpenInv
  <1> DEFINE f == Head(reply_order)
  <1>2. /\ batch' = held_replies[f]
        /\ held_replies' = [held_replies EXCEPT ![f] = << >>]
        /\ finished' = FALSE /\ pc' = "drain"
        /\ UNCHANGED <<arrived, handlers, open, reply_order, out>>
    BY DEF ReleaseNext
  <1>3. /\ Retired + 1 \in Exchanges
        /\ f = arrived[Retired + 1]
        /\ Retired \in Nat /\ Len(arrived) \in Nat
        /\ f \in MsgNos
    BY <1>1, FrontIsNext DEF OpenInv, TypeOK, Exchanges
  <1>4. Retired' = Retired /\ OrderMatches'
    BY <1>1, <1>2 DEF Retired, OpenInv, OrderMatches
  <1>5. RepliesInOrder'
    BY <1>1, <1>2 DEF RepliesInOrder, Exchanges, CompletesReply
  <1>6. OutMatches'
    BY <1>1, <1>2, <1>4 DEF OpenInv, OutMatches, Answered, CompletesReply
  <1>7. /\ held_replies'[f] = << >>
        /\ \A n \in MsgNos : n # f => held_replies'[n] = held_replies[n]
    BY <1>2, <1>3 DEF TypeOK
  <1>8. HeldMatches'
    <2> SUFFICES ASSUME NEW n \in MsgNos, NEW i \in 1 .. Len(held_replies'[n])
                 PROVE  /\ Waiting(held_replies'[n][i])
                        /\ held_replies'[n][i].msgno = n
                        /\ CompletesReply(held_replies'[n][i].kind) =>
                             /\ i = Len(held_replies'[n])
                             /\ handlers[held_replies'[n][i].ex] = "done"
      BY <1>2, <1>4 DEF HeldMatches, LastOfHandler, Waiting, CompletesReply
    <2>1. n # f
      <3> SUFFICES ASSUME n = f PROVE FALSE
        OBVIOUS
      <3>1. 1 .. Len(held_replies'[n]) = {}
        BY <1>7
      <3> QED
        BY <3>1
    <2>2. held_replies'[n] = held_replies[n]
      BY <1>7, <2>1
    <2> QED
      BY <1>1, <2>2 DEF OpenInv, HeldMatches, LastOfHandler
  <1>9. FrontNotHeld'
    BY <1>2, <1>7 DEF FrontNotHeld
  <1>10. BatchMatches'
    <2>1. Retired + 1 \in Retired + 1 .. Len(arrived)
      BY <1>3 DEF Exchanges
    <2>2. ASSUME NEW i \in 1 .. Len(held_replies[f])
          PROVE  /\ held_replies[f][i].ex = Retired + 1
                 /\ Waiting(held_replies[f][i])
      BY <1>1, <1>3, <2>1, <2>2, HeldOfExchange DEF OpenInv, HeldMatches
    <2>3. LastOfHandler(held_replies[f])
      BY <1>1, <1>3 DEF OpenInv, HeldMatches
    <2>4. LastOfHandler(batch)'
      BY <1>2, <2>3 DEF LastOfHandler, CompletesReply
    <2>5. \A i \in 1 .. Len(batch') :
            batch'[i].ex = Retired + 1 /\ Waiting(batch[i])'
      BY <1>2, <1>4, <2>2 DEF Waiting
    <2> QED
      BY <1>1, <1>2, <1>4, <2>4, <2>5 DEF BatchMatches
  <1> QED
    BY <1>1, <1>2, <1>4, <1>5, <1>6, <1>8, <1>9, <1>10 DEF ReplyInv, OpenInv

(* One held reply of the front exchange is enqueued.                       *)
LEMMA DrainStep ==
    ASSUME TypeOK, ReplyInv, Drain
    PROVE  ReplyInv'
  <1>1. pc = "drain" /\ open /\ OpenInv /\ RepliesInOrder /\ batch # << >>
    BY DEF Drain, ReplyInv, OpenInv
  <1> DEFINE r == Head(batch)
  <1>2. /\ out' = Append(out, r)
        /\ finished' = (finished \/ CompletesReply(r.kind))
        /\ batch' = Tail(batch)
        /\ UNCHANGED <<arrived, handlers, open, reply_order, held_replies, pc>>
    BY DEF Drain, session
  <1>3. reply_order # << >> /\ ~finished
    BY <1>1 DEF OpenInv, BatchMatches
  <1>4. /\ Retired + 1 \in Exchanges /\ Retired \in Nat
        /\ Len(arrived) \in Nat
    BY <1>1, <1>3, FrontIsNext DEF OpenInv, TypeOK
  <1>5. PICK b \in Nat : b + 1 = Len(batch)
    <2>1. Len(batch) \in Nat /\ Len(batch) # 0
      BY <1>1 DEF TypeOK
    <2>2. Len(batch) - 1 \in Nat /\ (Len(batch) - 1) + 1 = Len(batch)
      BY <2>1
    <2> QED
      BY <2>2
  <1>6. /\ Len(batch') = b
        /\ \A i \in 1 .. b : batch'[i] = batch[i + 1]
        /\ r = batch[1] /\ r \in Replies
    BY <1>1, <1>2, <1>5 DEF TypeOK
  <1>7. /\ r.ex = Retired + 1 /\ Waiting(r)
        /\ CompletesReply(r.kind) =>
             b = 0 /\ handlers[Retired + 1] = "done"
    <2>1. 1 \in 1 .. Len(batch)
      BY <1>5
    <2>2. batch[1].ex = Retired + 1 /\ Waiting(batch[1])
      BY <1>1, <2>1 DEF OpenInv, BatchMatches
    <2>3. CompletesReply(batch[1].kind) =>
            1 = Len(batch) /\ handlers[batch[1].ex] = "done"
      BY <1>1, <2>1 DEF OpenInv, BatchMatches, LastOfHandler
    <2> QED
      BY <1>5, <1>6, <2>2, <2>3
  <1>8. RepliesInOrder'
    <2>1. r.ex \in Exchanges /\ r.msgno = arrived[r.ex]
      BY <1>4, <1>7 DEF Waiting
    <2> QED
      BY <1>1, <1>2, <1>3, <1>4, <1>6, <1>7, <2>1, AppendInOrder DEF OpenInv
  <1>9. Retired' = Retired /\ OrderMatches'
    BY <1>1, <1>2 DEF Retired, OpenInv, OrderMatches
  <1>10. HeldMatches' /\ FrontNotHeld'
    <2>1. HeldMatches'
      BY <1>1, <1>2, <1>9
         DEF OpenInv, HeldMatches, Waiting, LastOfHandler, CompletesReply
    <2>2. FrontNotHeld'
      BY <1>1, <1>2 DEF OpenInv, FrontNotHeld
    <2> QED
      BY <2>1, <2>2
  <1>11. PICK n \in Nat : n = Len(out)
    BY DEF TypeOK
  <1>12. /\ Len(out') = n + 1
         /\ \A i \in 1 .. n : out'[i] = out[i]
         /\ out'[n + 1] = r
    BY <1>2, <1>6, <1>11 DEF TypeOK
  <1>13. \A j \in 1 .. n + 1 : j \in 1 .. n \/ j = n + 1
    BY <1>11
  <1>14. ASSUME NEW e, Answered(e) \/ (e = Retired + 1 /\ finished')
         PROVE  Answered(e)'
    <2>1. CASE Answered(e)
      <3>1. PICK i \in 1 .. n : out[i].ex = e /\ CompletesReply(out[i].kind)
        BY <1>11, <2>1 DEF Answered
      <3>2. i \in 1 .. n + 1 /\ out'[i] = out[i]
        BY <1>12
      <3> QED
        BY <1>12, <3>1, <3>2 DEF Answered, CompletesReply
    <2>2. CASE e = Retired + 1 /\ finished'
      <3>1. CompletesReply(r.kind)
        BY <1>2, <1>3, <2>2
      <3>2. n + 1 \in 1 .. n + 1
        BY <1>11
      <3> QED
        BY <1>7, <1>12, <2>2, <3>1, <3>2 DEF Answered, CompletesReply
    <2> QED
      BY <1>14, <2>1, <2>2
  <1>15. OutMatches'
    <2>1. \A j \in 1 .. n + 1 : out'[j].ex <= Retired + 1
      BY <1>1, <1>4, <1>7, <1>11, <1>12, <1>13 DEF OpenInv, OutMatches
    <2>2. ASSUME NEW j \in 1 .. n + 1, out'[j].ex = Retired + 1,
                 CompletesReply(out'[j].kind)
          PROVE  finished'
      <3>1. CASE j \in 1 .. n
        BY <1>1, <1>3, <1>11, <1>12, <2>2, <3>1 DEF OpenInv, OutMatches
      <3>2. CASE j = n + 1
        BY <1>2, <1>12, <2>2, <3>2
      <3> QED
        BY <1>13, <3>1, <3>2
    <2>3. \A e \in 1 .. Retired : Answered(e)'
      BY <1>1, <1>14 DEF OpenInv, OutMatches
    <2> QED
      BY <1>1, <1>2, <1>9, <1>12, <2>1, <2>2, <2>3
         DEF OutMatches, CompletesReply
  <1>16. BatchMatches'
    <2>1. \A i \in 1 .. b : i + 1 \in 1 .. Len(batch)
      BY <1>5
    <2>2. \A i \in 1 .. b : /\ batch'[i].ex = Retired + 1
                            /\ Waiting(batch[i])'
      BY <1>1, <1>2, <1>6, <1>9, <2>1 DEF OpenInv, BatchMatches, Waiting
    <2>3. LastOfHandler(batch)'
      <3>1. \A i \in 1 .. b : CompletesReply(batch[i + 1].kind) =>
              i + 1 = Len(batch) /\ handlers[batch[i + 1].ex] = "done"
        BY <1>1, <2>1 DEF OpenInv, BatchMatches, LastOfHandler
      <3>2. \A i \in 1 .. b : i + 1 = Len(batch) => i = b
        BY <1>5
      <3> QED
        BY <1>2, <1>6, <3>1, <3>2 DEF LastOfHandler, CompletesReply
    <2>4. finished' => /\ batch' = << >>
                       /\ handlers[Retired + 1] = "done"
      <3> SUFFICES ASSUME finished'
                   PROVE  batch' = << >> /\ handlers[Retired + 1] = "done"
        OBVIOUS
      <3>1. CompletesReply(r.kind)
        BY <1>2, <1>3
      <3>2. b = 0 /\ handlers[Retired + 1] = "done"
        BY <1>7, <3>1
      <3>3. batch' \in Seq(Replies)
        BY <1>1, <1>2 DEF TypeOK
      <3>4. batch' = << >>
        BY <1>6, <3>2, <3>3
      <3> QED
        BY <3>2, <3>4
    <2>5. PICK e : e = Retired + 1
      OBVIOUS
    <2>6. finished' => Answered(e)'
      BY <1>14, <2>5
    <2>7. finished' => Answered(Retired + 1)'
      BY <1>9, <2>5, <2>6 DEF Answered
    <2> QED
      BY <1>1, <1>2, <1>3, <1>6, <1>9, <2>2, <2>3, <2>4, <2>7 DEF BatchMatches
  <1> QED
    BY <1>1, <1>2, <1>8, <1>9, <1>10, <1>15, <1>16 DEF ReplyInv, OpenInv

(* The batch is out: the front exchange is retired if that ended it.       *)
LEMMA DrainDoneStep ==
    ASSUME TypeOK, ReplyInv, DrainDone
    PROVE  ReplyInv'
  <1>1. pc = "drain" /\ open /\ OpenInv /\ RepliesInOrder /\ batch = << >>
    BY DEF DrainDone, ReplyInv, OpenInv
  <1>2. UNCHANGED <<arrived, handlers, open, held_replies, out, batch,
                    finished>>
    BY DEF DrainDone
  <1>3. reply_order # << >> /\ held_replies[Head(reply_order)] = << >>
    BY <1>1 DEF OpenInv, BatchMatches, FrontNotHeld
  <1>4. /\ Retired + 1 \in Exchanges /\ Retired \in Nat
        /\ Len(arrived) \in Nat
    BY <1>1, <1>3, FrontIsNext DEF OpenInv, TypeOK
  <1>5. RepliesInOrder'
    BY <1>1, <1>2 DEF RepliesInOrder, Exchanges, CompletesReply
  <1>6. \A e : Answered(e)' <=> Answered(e)
    BY <1>2 DEF Answered, CompletesReply
  <1>7. CASE finished
    <2>1. reply_order' = Tail(reply_order) /\ pc' = "scan"
      BY <1>3, <1>7 DEF DrainDone
    <2>2. OrderMatches' /\ HeldMatches' /\ Retired' = Retired + 1
      BY <1>1, <1>2, <1>3, <2>1, RetireFront DEF OpenInv
    <2>3. handlers[Retired + 1] = "done" /\ Answered(Retired + 1)
      BY <1>1, <1>7 DEF OpenInv, BatchMatches
    <2>4. OutMatches'
      <3>1. \A j \in 1 .. Len(out) : out[j] \in Replies
        BY DEF TypeOK
      <3>2. \A j \in 1 .. Len(out) : out[j].ex \in Nat
        BY <3>1 DEF Replies
      <3>3. \A j \in 1 .. Len(out) : /\ out[j].ex <= Retired + 1 + 1
                                     /\ out[j].ex # Retired + 1 + 1
        BY <1>1, <1>4, <3>2 DEF OpenInv, OutMatches
      <3>4. \A e \in 1 .. Retired + 1 : e \in 1 .. Retired \/ e = Retired + 1
        BY <1>4
      <3>5. \A e \in 1 .. Retired + 1 : Answered(e)'
        BY <1>1, <1>6, <2>3, <3>4 DEF OpenInv, OutMatches
      <3> QED
        BY <1>2, <2>2, <3>3, <3>5 DEF OutMatches
    <2>5. FrontNotHeld' /\ BatchMatches'
      BY <1>1, <1>2, <2>1 DEF FrontNotHeld, BatchMatches
    <2>6. \A e \in 1 .. Retired + 1 : handlers'[e] = "done"
      <3>1. \A e \in 1 .. Retired + 1 : e \in 1 .. Retired \/ e = Retired + 1
        BY <1>4
      <3> QED
        BY <1>1, <1>2, <2>3, <3>1 DEF OpenInv
    <2> QED
      BY <1>1, <1>2, <1>5, <2>2, <2>4, <2>5, <2>6 DEF ReplyInv, OpenInv
  <1>8. CASE ~finished
    <2>1. pc' = "idle" /\ UNCHANGED reply_order
      BY <1>8 DEF DrainDone
    <2>2. Retired' = Retired /\ OrderMatches'
      BY <1>1, <1>2, <2>1 DEF Retired, OpenInv, OrderMatches
    <2>3. HeldMatches'
      BY <1>1, <1>2, <2>2
         DEF OpenInv, HeldMatches, Waiting, LastOfHandler, CompletesReply
    <2>4. OutMatches'
      BY <1>1, <1>2, <1>6, <1>8, <2>2 DEF OpenInv, OutMatches, CompletesReply
    <2>5. FrontNotHeld' /\ BatchMatches'
      BY <1>1, <1>2, <1>3, <2>1 DEF FrontNotHeld, BatchMatches
    <2> QED
      BY <1>1, <1>2, <1>5, <2>1, <2>2, <2>3, <2>4, <2>5 DEF ReplyInv, OpenInv
  <1> QED
    BY <1>7, <1>8

(* Steps that leave the queues alone, and only move a handler that has not *)
(* ended its reply or end the scan with nothing to release.                *)
LEMMA QuietStep ==
    ASSUME TypeOK, ReplyInv,
           UNCHANGED <<arrived, open, reply_order, held_replies, out, batch,
                       finished>>,
           \/ UNCHANGED pc
           \/ /\ pc = "scan" /\ pc' = "idle"
              /\ reply_order # << >>
                   => held_replies[Head(reply_order)] = << >>,
           \A e \in Exchanges : handlers[e] = "done" => handlers'[e] = "done"
    PROVE  ReplyInv'
  <1>1. RepliesInOrder'
    BY DEF ReplyInv, RepliesInOrder, Exchanges, CompletesReply
  <1>2. CASE ~open
    BY <1>1, <1>2 DEF ReplyInv
  <1>3. CASE open
    <2>1. OpenInv
      BY <1>3 DEF ReplyInv, OpenInv
    <2>2. Retired' = Retired /\ OrderMatches'
      BY <2>1 DEF Retired, OpenInv, OrderMatches
    <2>3. /\ Len(arrived) \in Nat /\ Len(reply_order) \in Nat
          /\ Retired \in Nat /\ Len(reply_order) <= Len(arrived)
      BY <2>1 DEF TypeOK, OpenInv, OrderMatches, Retired
    <2>4. OutMatches'
      BY <2>1, <2>2 DEF OpenInv, OutMatches, Answered, CompletesReply
    <2>5. \A r : Waiting(r) => r.ex \in Exchanges
      BY <2>3 DEF Waiting, Exchanges
    <2>6. HeldMatches'
      <3> SUFFICES ASSUME NEW n \in MsgNos,
                          NEW i \in 1 .. Len(held_replies[n])
                   PROVE  /\ Waiting(held_replies[n][i])
                          /\ held_replies[n][i].msgno = n
                          /\ CompletesReply(held_replies[n][i].kind) =>
                               /\ i = Len(held_replies[n])
                               /\ handlers'[held_replies[n][i].ex] = "done"
        BY <2>2 DEF HeldMatches, LastOfHandler, Waiting, CompletesReply
      <3>1. /\ Waiting(held_replies[n][i])
            /\ held_replies[n][i].msgno = n
            /\ CompletesReply(held_replies[n][i].kind) =>
                 /\ i = Len(held_replies[n])
                 /\ handlers[held_replies[n][i].ex] = "done"
        BY <2>1 DEF OpenInv, HeldMatches, LastOfHandler
      <3> QED
        BY <2>5, <3>1
    <2>7. FrontNotHeld'
      BY <2>1 DEF OpenInv, FrontNotHeld
    <2>8. BatchMatches'
      <3>1. CASE pc = "drain"
        <4>1. pc' = "drain" /\ reply_order # << >>
          BY <2>1, <3>1 DEF OpenInv, BatchMatches
        <4>2. \A i \in 1 .. Len(batch) :
                batch[i].ex = Retired + 1 /\ Waiting(batch[i])
          BY <2>1, <3>1 DEF OpenInv, BatchMatches
        <4>3. LastOfHandler(batch)'
          BY <2>1, <2>5, <3>1, <4>2
             DEF OpenInv, BatchMatches, LastOfHandler, CompletesReply
        <4>4. finished => /\ batch = << >>
                          /\ handlers[Retired + 1] = "done"
                          /\ Answered(Retired + 1)
          BY <2>1, <3>1 DEF OpenInv, BatchMatches
        <4>5. Retired + 1 \in Exchanges
          BY <2>1, <4>1, FrontIsNext DEF OpenInv
        <4>6. finished => Answered(Retired + 1)'
          BY <2>2, <4>4 DEF Answered, CompletesReply
        <4>7. \A i \in 1 .. Len(batch) : Waiting(batch[i])'
          BY <2>2, <4>2 DEF Waiting
        <4> QED
          BY <2>2, <4>1, <4>2, <4>3, <4>4, <4>5, <4>6, <4>7 DEF BatchMatches
      <3>2. CASE pc # "drain"
        <4>1. pc' # "drain"
          BY <3>2
        <4> QED
          BY <2>1, <3>2, <4>1 DEF OpenInv, BatchMatches
      <3> QED
        BY <3>1, <3>2
    <2>9. \A e \in 1 .. Retired : handlers'[e] = "done"
      <3>1. \A e \in 1 .. Retired : e \in Exchanges
        BY <2>3 DEF Exchanges, Retired
      <3> QED
        BY <2>1, <3>1 DEF OpenInv
    <2> QED
      BY <1>1, <1>3, <2>2, <2>4, <2>6, <2>7, <2>8, <2>9 DEF ReplyInv
  <1> QED
    BY <1>2, <1>3

(* Every step keeps the inductive invariant.                               *)
LEMMA ReplyInvStep == TypeOK /\ ReplyInv /\ [Next]_vars => ReplyInv'
  <1> SUFFICES ASSUME TypeOK, ReplyInv, [Next]_vars PROVE ReplyInv'
    OBVIOUS
  <1>1. CASE Arrive
    BY <1>1, ArriveStep
  <1>2. CASE Reply
    BY <1>2, SendStep DEF Reply, Kinds, HandlerStates
  <1>3. CASE Answer
    BY <1>3, SendStep DEF Answer, Kinds, HandlerStates, CompletesReply
  <1>4. CASE Finish
    BY <1>4, SendStep DEF Finish, Kinds, HandlerStates
  <1>5. ASSUME Drop \/ SendTooLate
        PROVE  ReplyInv'
    <2>1. UNCHANGED <<arrived, open, reply_order, held_replies, out, batch,
                      finished, pc>>
      BY <1>5 DEF Drop, SendTooLate, session, loop
    <2>2. PICK k \in Exchanges :
            /\ handlers[k] # "done"
            /\ \/ handlers' = [handlers EXCEPT ![k] = "dropped"]
               \/ handlers' = [handlers EXCEPT ![k] = "done"]
      BY <1>5 DEF Drop, SendTooLate
    <2>3. \A e \in Exchanges : handlers[e] = "done" => handlers'[e] = "done"
      BY SMTT(30), <2>2 DEF TypeOK, Exchanges
    <2> QED
      BY <2>1, <2>3, QuietStep
  <1>6. CASE ReleaseNext
    BY <1>6, ReleaseNextStep
  <1>7. CASE ReleaseDone
    BY <1>7, QuietStep DEF ReleaseDone, session
  <1>8. CASE Drain
    BY <1>8, DrainStep
  <1>9. CASE DrainDone
    BY <1>9, DrainDoneStep
  <1>10. CASE FinishClose
    <2>1. RepliesInOrder'
      BY <1>10
         DEF FinishClose, ReplyInv, RepliesInOrder, Exchanges, CompletesReply
    <2> QED
      BY <1>10, <2>1 DEF FinishClose, ReplyInv, loop
  <1>11. CASE UNCHANGED vars
    BY <1>11, QuietStep DEF vars, session, loop
  <1> QED
    BY <1>1, <1>2, <1>3, <1>4, <1>5, <1>6, <1>7, <1>8, <1>9, <1>10, <1>11
       DEF Next

(* Nothing has arrived and nothing is held.                                *)
LEMMA ReplyInvInit == Init => ReplyInv
  <1> SUFFICES ASSUME Init PROVE ReplyInv
    OBVIOUS
  <1>1. /\ Len(arrived) = 0 /\ Len(reply_order) = 0 /\ Len(out) = 0
        /\ Retired = 0
    BY DEF Init, Retired
  <1>2. RepliesInOrder
    BY <1>1 DEF RepliesInOrder
  <1>3. OrderMatches /\ OutMatches
    BY <1>1 DEF OrderMatches, OutMatches
  <1>4. HeldMatches
    <2> SUFFICES ASSUME NEW m \in MsgNos,
                        NEW i \in 1 .. Len(held_replies[m])
                 PROVE  FALSE
      BY DEF HeldMatches, LastOfHandler
    <2>1. held_replies[m] = << >>
      BY DEF Init
    <2> QED
      BY <2>1
  <1>5. FrontNotHeld /\ BatchMatches
    BY DEF Init, FrontNotHeld, BatchMatches
  <1> QED
    BY <1>1, <1>2, <1>3, <1>4, <1>5 DEF ReplyInv, Init

(* The retired exchanges, what has left, what is being released and what   *)
(* is held are in arrival order in every reachable state.                  *)
THEOREM Inductive == Safety => []ReplyInv
  BY TypeCorrect, ReplyInvInit, ReplyInvStep, PTL DEF Safety

(* Replies leave the channel in the order its messages arrived, for any    *)
(* number of messages and handlers that answer in any order: what the code *)
(* promises of Session::send and Session::reply_finished.                  *)
THEOREM InArrivalOrder == Safety => []RepliesInOrder
  <1>1. ReplyInv => RepliesInOrder
    BY DEF ReplyInv
  <1> QED
    BY <1>1, Inductive, PTL

(* A reply waits only behind an earlier message that is not answered.      *)
THEOREM NoneForgotten == Safety => []HeldIsBlocked
  <1>1. TypeOK /\ ReplyInv => HeldIsBlocked
    <2> SUFFICES ASSUME TypeOK, ReplyInv, open, pc = "idle",
                        NEW m \in MsgNos, held_replies[m] # << >>
                 PROVE  \E k \in Exchanges :
                           k < held_replies[m][1].ex /\ ~Answered(k)
      BY DEF HeldIsBlocked
    <2>1. OpenInv
      BY DEF ReplyInv, OpenInv
    <2>2. 1 \in 1 .. Len(held_replies[m])
      <3>1. held_replies[m] \in Seq(Replies)
        BY DEF TypeOK
      <3> QED
        BY <3>1
    <2>3. Waiting(held_replies[m][1]) /\ held_replies[m][1].msgno = m
      BY <2>1, <2>2 DEF OpenInv, HeldMatches
    <2>4. /\ Len(arrived) \in Nat /\ Len(reply_order) \in Nat
          /\ Retired \in Nat
      BY <2>1 DEF TypeOK, OpenInv, OrderMatches, Retired
    <2>5. reply_order # << >>
      <3> SUFFICES ASSUME reply_order = << >> PROVE FALSE
        OBVIOUS
      <3>1. Retired = Len(arrived)
        BY <2>4 DEF Retired
      <3> QED
        BY <2>3, <2>4, <3>1 DEF Waiting
    <2>6. Retired + 1 \in Exchanges /\ Head(reply_order) = arrived[Retired + 1]
      BY <2>1, <2>5, FrontIsNext DEF OpenInv
    <2>7. held_replies[m][1].ex # Retired + 1
      <3>1. held_replies[Head(reply_order)] = << >>
        BY <2>1, <2>5 DEF OpenInv, FrontNotHeld
      <3> QED
        BY <2>3, <2>6, <3>1 DEF Waiting
    <2>8. Retired + 1 < held_replies[m][1].ex
      BY <2>3, <2>4, <2>7 DEF Waiting
    <2>9. ~Answered(Retired + 1)
      BY <2>1 DEF OpenInv, OutMatches, Answered
    <2> QED
      BY <2>6, <2>8, <2>9
  <1> QED
    BY <1>1, Inductive, TypeCorrect, PTL
=============================================================================

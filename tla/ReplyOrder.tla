----------------------------- MODULE ReplyOrder -----------------------------
(***************************************************************************)
(* The answering half of one channel: messages arrive and each is handed   *)
(* to a handler task of its own; the tasks answer in any order and at any  *)
(* time; Session::send holds back what is not yet its turn, so that        *)
(* replies leave in the order the messages arrived                         *)
(* (vortice-proto/src/session.rs, vortice/src/router.rs).                  *)
(*                                                                         *)
(* The exchange started by the k-th message to arrive is exchange k. A     *)
(* reply carries the number of the exchange whose handler produced it in   *)
(* ex: the code carries that handler's payload there. What leaves is put   *)
(* into out, the queue of the channel, whose frames FlowControl describes. *)
(***************************************************************************)
EXTENDS Naturals, Sequences

CONSTANTS
    MsgNos,        \* message numbers the peer uses
    MaxMessages,   \* bound: messages that arrive in a behaviour
    MaxAnswers,    \* bound: answers a handler gives before its NUL
    NoAnsNo        \* the answer number of a reply that has none

ASSUME ReplyAssumption ==
    /\ MaxMessages \in Nat
    /\ MaxAnswers \in Nat
    /\ NoAnsNo \notin Nat

Kinds == {"RPY", "ERR", "ANS", "NUL"}
Replies == [kind : Kinds, msgno : MsgNos, ansno : Nat \cup {NoAnsNo},
            ex : Nat \ {0}]

VARIABLES
    arrived,      \* history: message numbers in the order they arrived
    handlers,     \* what the handler task of each exchange has done
    open,         \* the channel is in Session.channels
    reply_order,  \* Session.reply_order[channel]
    held_replies, \* Session.held_replies[channel]; no entry is << >>
    next_ansno,   \* Channel.next_ansno; no entry is 0
    out,          \* history: replies in the order they were enqueued
    pc,           \* where Session::reply_finished stands in its loop
    batch,        \* what is left of the held replies it is enqueueing
    finished      \* its local of that name

session == <<open, reply_order, held_replies, next_ansno>>
loop == <<pc, batch, finished>>
vars == <<arrived, handlers, session, out, loop>>

Exchanges == 1 .. Len(arrived)

Init ==
    /\ arrived = << >>
    /\ handlers = << >>
    /\ open = TRUE
    /\ reply_order = << >>
    /\ held_replies = [m \in MsgNos |-> << >>]
    /\ next_ansno = [m \in MsgNos |-> 0]
    /\ out = << >>
    /\ pc = "idle"
    /\ batch = << >>
    /\ finished = FALSE

-----------------------------------------------------------------------------
CompletesReply(kind) == kind \in {"RPY", "ERR", "NUL"}

(* Exchange k has been answered in full as far as the queue can tell.      *)
Answered(k) ==
    \E i \in 1 .. Len(out) : out[i].ex = k /\ CompletesReply(out[i].kind)

(* The message is recorded, but no task is spawned for it.                 *)
WrongArrive ==
    /\ open
    /\ pc = "idle"
    /\ Len(arrived) < MaxMessages
    /\ \E m \in MsgNos :
         /\ \A k \in Exchanges : arrived[k] = m => Answered(k)
         /\ arrived' = Append(arrived, m)
         /\ reply_order' = Append(reply_order, m)
    /\ UNCHANGED handlers
    /\ UNCHANGED <<open, held_replies, next_ansno, out, loop>>

(* A MSG completes on the channel: its number is recorded and a task is    *)
(* spawned for it. The peer reuses a number only when the exchange it      *)
(* stood for is over.                                                      *)
Arrive ==
    /\ open
    /\ pc = "idle"
    /\ Len(arrived) < MaxMessages
    /\ \E m \in MsgNos :
         /\ \A k \in Exchanges : arrived[k] = m => Answered(k)
         /\ arrived' = Append(arrived, m)
         /\ reply_order' = Append(reply_order, m)
    /\ handlers' = Append(handlers, "running")
    /\ UNCHANGED <<open, held_replies, next_ansno, out, loop>>

-----------------------------------------------------------------------------
(* Session::send.                                                          *)

WrongIsNextReply(m) == TRUE
IsNextReply(m) == reply_order # << >> => Head(reply_order) = m

(* The answer number is taken before it is known whether the reply has to  *)
(* wait: Channel::allocate_ansno, Channel::finish_answers.                 *)
AnsNo(kind, m) == IF kind = "ANS" THEN next_ansno[m] ELSE NoAnsNo
CountAnswer(kind, m) ==
    next_ansno' = CASE kind = "ANS" -> [next_ansno EXCEPT ![m] = @ + 1]
                    [] kind = "NUL" -> [next_ansno EXCEPT ![m] = 0]
                    [] OTHER -> next_ansno

(* Not this message's turn yet.                                            *)
Hold(r) ==
    /\ ~IsNextReply(r.msgno)
    /\ held_replies' = [held_replies EXCEPT ![r.msgno] = Append(@, r)]
    /\ UNCHANGED <<reply_order, out, loop>>

(* Nothing is released when an exchange is over.                           *)
WrongEnqueue(r) ==
    /\ IsNextReply(r.msgno)
    /\ out' = Append(out, r)
    /\ IF CompletesReply(r.kind)
         THEN /\ reply_order' = IF reply_order = << >> THEN << >>
                                ELSE Tail(reply_order)
              /\ UNCHANGED pc
         ELSE UNCHANGED <<reply_order, pc>>
    /\ UNCHANGED <<held_replies, batch, finished>>

(* Its turn: enqueue and flush, and when the exchange is over, the first   *)
(* step of reply_finished.                                                 *)
Enqueue(r) ==
    /\ IsNextReply(r.msgno)
    /\ out' = Append(out, r)
    /\ IF CompletesReply(r.kind)
         THEN /\ reply_order' = IF reply_order = << >> THEN << >>
                                ELSE Tail(reply_order)
              /\ pc' = "scan"
         ELSE UNCHANGED <<reply_order, pc>>
    /\ UNCHANGED <<held_replies, batch, finished>>

(* Responder::send by the handler of exchange k, through Command::Send.    *)
Send(k, kind) ==
    LET m == arrived[k]
        r == [kind |-> kind, msgno |-> m, ansno |-> AnsNo(kind, m), ex |-> k]
    IN  /\ open
        /\ pc = "idle"
        /\ CountAnswer(kind, m)
        /\ Hold(r) \/ Enqueue(r)
        /\ UNCHANGED <<arrived, open>>

-----------------------------------------------------------------------------
(* What a handler does with its Responder: one RPY or ERR, or answers and  *)
(* a NUL, or nothing at all.                                               *)

Reply ==
    \E k \in Exchanges :
        /\ handlers[k] = "running"
        /\ \E kind \in {"RPY", "ERR"} : Send(k, kind)
        /\ handlers' = [handlers EXCEPT ![k] = "done"]

Answer ==
    \E k \in Exchanges :
        /\ handlers[k] \in {"running", "answering"}
        /\ next_ansno[arrived[k]] < MaxAnswers
        /\ Send(k, "ANS")
        /\ handlers' = [handlers EXCEPT ![k] = "answering"]

Finish ==
    \E k \in Exchanges :
        /\ handlers[k] \in {"running", "answering"}
        /\ Send(k, "NUL")
        /\ handlers' = [handlers EXCEPT ![k] = "done"]

(* The task ends and its Responder is dropped without a last reply.        *)
Drop ==
    /\ \E k \in Exchanges :
         /\ handlers[k] \in {"running", "answering"}
         /\ handlers' = [handlers EXCEPT ![k] = "dropped"]
    /\ UNCHANGED <<arrived, session, out, loop>>

-----------------------------------------------------------------------------
(* The loop of Session::reply_finished, a step at a time. The session is   *)
(* not shared, so nothing else touches it meanwhile.                       *)

ReleaseNext ==
    /\ pc = "scan"
    /\ reply_order # << >>
    /\ held_replies[Head(reply_order)] # << >>
    /\ batch' = held_replies[Head(reply_order)]
    /\ held_replies' = [held_replies EXCEPT ![Head(reply_order)] = << >>]
    /\ finished' = FALSE
    /\ pc' = "drain"
    /\ UNCHANGED <<arrived, handlers, open, reply_order, next_ansno, out>>

ReleaseDone ==
    /\ pc = "scan"
    /\ reply_order # << >> => held_replies[Head(reply_order)] = << >>
    /\ pc' = "idle"
    /\ UNCHANGED <<arrived, handlers, session, out, batch, finished>>

Drain ==
    /\ pc = "drain"
    /\ batch # << >>
    /\ out' = Append(out, Head(batch))
    /\ finished' = (finished \/ CompletesReply(Head(batch).kind))
    /\ batch' = Tail(batch)
    /\ UNCHANGED <<arrived, handlers, session, pc>>

(* One exchange is released, and not the ones behind it.                   *)
WrongDrainDone ==
    /\ pc = "drain"
    /\ batch = << >>
    /\ IF finished
         THEN /\ reply_order' = IF reply_order = << >> THEN << >>
                                ELSE Tail(reply_order)
              /\ pc' = "idle"
         ELSE pc' = "idle" /\ UNCHANGED reply_order
    /\ UNCHANGED <<arrived, handlers, open, held_replies, next_ansno, out,
                   batch, finished>>

(* flush, then go on to the next message only if this one is over.         *)
DrainDone ==
    /\ pc = "drain"
    /\ batch = << >>
    /\ IF finished
         THEN /\ reply_order' = IF reply_order = << >> THEN << >>
                                ELSE Tail(reply_order)
              /\ pc' = "scan"
         ELSE pc' = "idle" /\ UNCHANGED reply_order
    /\ UNCHANGED <<arrived, handlers, open, held_replies, next_ansno, out,
                   batch, finished>>

-----------------------------------------------------------------------------
(* The channel is closed: Session::finish_close forgets all of it.         *)
FinishClose ==
    /\ open
    /\ pc = "idle"
    /\ open' = FALSE
    /\ reply_order' = << >>
    /\ held_replies' = [m \in MsgNos |-> << >>]
    /\ next_ansno' = [m \in MsgNos |-> 0]
    /\ UNCHANGED <<arrived, handlers, out, loop>>

(* Replies that come too late are refused with NoSuchChannel.              *)
SendTooLate ==
    /\ ~open
    /\ \E k \in Exchanges :
         /\ handlers[k] \in {"running", "answering"}
         /\ handlers' = [handlers EXCEPT ![k] = "done"]
    /\ UNCHANGED <<arrived, session, out, loop>>

Next == \/ Arrive \/ Reply \/ Answer \/ Finish \/ Drop
        \/ ReleaseNext \/ ReleaseDone \/ Drain \/ DrainDone
        \/ FinishClose \/ SendTooLate

(* A handler that neither answers nor ends would be the application's      *)
(* choice; one that goes on does end its reply. reply_finished runs on.    *)
Fairness ==
    /\ WF_vars(Reply \/ Finish \/ SendTooLate)
    /\ WF_vars(ReleaseNext) /\ WF_vars(ReleaseDone)
    /\ WF_vars(Drain) /\ WF_vars(DrainDone)

Safety == Init /\ [][Next]_vars
Spec == Safety /\ Fairness

-----------------------------------------------------------------------------
(* Each message has its handler, and the queues hold replies.              *)
TypeOK ==
    /\ arrived \in Seq(MsgNos)
    /\ handlers \in Seq({"running", "answering", "done", "dropped"})
    /\ Len(handlers) = Len(arrived)
    /\ open \in BOOLEAN
    /\ reply_order \in Seq(MsgNos)
    /\ held_replies \in [MsgNos -> Seq(Replies)]
    /\ next_ansno \in [MsgNos -> Nat]
    /\ out \in Seq(Replies)
    /\ pc \in {"idle", "scan", "drain"}
    /\ batch \in Seq(Replies)
    /\ finished \in BOOLEAN

(* Replies leave in the order the messages arrived, whatever the order in  *)
(* which the handlers produce them: nothing of a later exchange leaves     *)
(* before every earlier one is over, nothing follows the reply that ends   *)
(* an exchange, and each reply bears the number of its own message.        *)
RepliesInOrder ==
    \A j \in 1 .. Len(out) :
        /\ out[j].ex \in Exchanges
        /\ out[j].msgno = arrived[out[j].ex]
        /\ \A e \in 1 .. out[j].ex - 1 :
             \E i \in 1 .. j-1 : out[i].ex = e /\ CompletesReply(out[i].kind)
        /\ \A i \in 1 .. j-1 :
             /\ out[i].ex <= out[j].ex
             /\ CompletesReply(out[i].kind) => out[i].ex < out[j].ex

(* A reply is only ever held back because an earlier message is still      *)
(* unanswered: none is forgotten when its turn comes.                      *)
HeldIsBlocked ==
    (open /\ pc = "idle") =>
        \A m \in MsgNos : held_replies[m] # << >> =>
            \E k \in Exchanges : k < held_replies[m][1].ex /\ ~Answered(k)

(* Every message is answered, unless its channel is closed or some handler *)
(* at or before it ended without a reply; one silent handler does block    *)
(* every later exchange of the channel.                                    *)
EventuallyAnswered ==
    \A k \in 1 .. MaxMessages :
        (k <= Len(arrived)) ~>
            \/ Answered(k)
            \/ ~open
            \/ \E j \in Exchanges : j <= k /\ handlers[j] = "dropped"

-----------------------------------------------------------------------------
(* The strengthening behind the theorems of ReplyOrderProofs.              *)

(* The number of exchanges that are over and forgotten.                    *)
Retired == Len(arrived) - Len(reply_order)

OrderMatches ==
    /\ Len(reply_order) <= Len(arrived)
    /\ \A i \in 1 .. Len(reply_order) : reply_order[i] = arrived[Retired + i]
    /\ \A i, j \in 1 .. Len(reply_order) :
         reply_order[i] = reply_order[j] => i = j

(* What has left belongs to the retired exchanges and the one at the front *)
(* of the order; all retired ones are complete.                            *)
OutMatches ==
    /\ \A j \in 1 .. Len(out) :
         /\ out[j].ex <= Retired + 1
         /\ (out[j].ex = Retired + 1 /\ CompletesReply(out[j].kind))
              => pc = "drain" /\ finished
    /\ \A e \in 1 .. Retired : Answered(e)

(* A reply r waits for its turn: its exchange is known and not retired.    *)
Waiting(r) ==
    /\ r.ex \in Retired + 1 .. Len(arrived)
    /\ r.msgno = arrived[r.ex]

(* The last reply of an exchange is the last one its handler gives.        *)
LastOfHandler(q) ==
    \A i \in 1 .. Len(q) : CompletesReply(q[i].kind) =>
        i = Len(q) /\ handlers[q[i].ex] = "done"

HeldMatches ==
    \A m \in MsgNos :
        /\ \A i \in 1 .. Len(held_replies[m]) :
             Waiting(held_replies[m][i]) /\ held_replies[m][i].msgno = m
        /\ LastOfHandler(held_replies[m])

FrontNotHeld ==
    (pc # "scan" /\ reply_order # << >>)
        => held_replies[Head(reply_order)] = << >>

BatchMatches ==
    IF pc = "drain"
      THEN /\ reply_order # << >>
           /\ \A i \in 1 .. Len(batch) :
                batch[i].ex = Retired + 1 /\ Waiting(batch[i])
           /\ LastOfHandler(batch)
           /\ finished => /\ batch = << >>
                          /\ handlers[Retired + 1] = "done"
                          /\ Answered(Retired + 1)
      ELSE batch = << >>

(* While the channel is open: retired exchanges, what has left, the batch  *)
(* being released and what is held follow one another in arrival order.    *)
ReplyInv ==
    /\ RepliesInOrder
    /\ open => /\ OrderMatches
               /\ OutMatches
               /\ HeldMatches
               /\ FrontNotHeld
               /\ BatchMatches
               /\ \A k \in 1 .. Retired : handlers[k] = "done"
    /\ ~open => pc = "idle"
=============================================================================
